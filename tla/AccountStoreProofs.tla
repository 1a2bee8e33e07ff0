------------------------ MODULE AccountStoreProofs --------------------------
(***************************************************************************)
(* The theorems of AccountStore, for any account names, users and cache    *)
(* ages.                                                                   *)
(*                                                                         *)
(* The lemmas of the first part say what each update of the registry gives *)
(* (Upsert, Use, Rename, Remove); from there on a registry is only known   *)
(* by its names and its default.  IndInv is then shown inductive, and the  *)
(* three action properties follow from it, one case per action.            *)
(***************************************************************************)
EXTENDS AccountStore, TLAPS, WellFoundedInduction

USE StoreAssumption, UserAssumption

-----------------------------------------------------------------------------
(* Registries.                                                             *)

LEMMA MakeRegistry ==
    ASSUME NEW S \in SUBSET Keys, NEW f \in [S -> Policies], NEW d \in Keys \cup {NoKey}
    PROVE  LET reg == [accounts |-> f, def |-> d]
           IN  reg \in Registries /\ Names(reg) = S /\ reg.accounts = f /\ reg.def = d
  BY DEF Registries, Names

LEMMA KeysAreNames == NoKey \notin Keys
  BY DEF NoKey

LEMMA RegistryFields ==
    ASSUME NEW reg \in Registries
    PROVE  /\ Names(reg) \subseteq Keys /\ reg.accounts \in [Names(reg) -> Policies]
           /\ reg.def \in Keys \cup {NoKey} /\ reg = [accounts |-> reg.accounts, def |-> reg.def]
<1>1. PICK S \in SUBSET Keys : reg.accounts \in [S -> Policies]
  BY DEF Registries
<1>2. Names(reg) = S
  BY <1>1 DEF Names
<1>3. QED
  BY <1>1, <1>2 DEF Registries

LEMMA NoRegistry == None \in Registries /\ Names(None) = {} /\ None.def = NoKey
<1>1. [k \in {} |-> 0] \in [{} -> Policies]
  OBVIOUS
<1>2. QED
  BY <1>1, MakeRegistry DEF None

LEMMA LegacyRegistry ==
    Legacy \in Registries /\ Names(Legacy) = {DefaultKey} /\ Legacy.def = DefaultKey /\ Legacy # None
<1>1. [k \in {DefaultKey} |-> 0] \in [{DefaultKey} -> Policies] /\ {DefaultKey} \in SUBSET Keys
  OBVIOUS
<1>2. Legacy \in Registries /\ Names(Legacy) = {DefaultKey} /\ Legacy.def = DefaultKey
  BY <1>1, MakeRegistry DEF Legacy
<1>3. QED
  BY <1>2, NoRegistry

LEMMA UpsertedRegistry ==
    ASSUME NEW reg, NEW key, NEW policy, reg \in Registries, key \in Keys, policy \in Policies
    PROVE  /\ Upserted(reg, key, policy) \in Registries /\ Upserted(reg, key, policy) # None
           /\ Names(Upserted(reg, key, policy)) = Names(reg) \cup {key}
           /\ Upserted(reg, key, policy).def = IF reg.def = NoKey THEN key ELSE reg.def
<1> DEFINE S == Names(reg) \cup {key}
           f == [k \in S |-> IF k = key THEN policy ELSE reg.accounts[k]]
           d == IF reg.def = NoKey THEN key ELSE reg.def
<1>1. S \in SUBSET Keys /\ f \in [S -> Policies] /\ d \in Keys \cup {NoKey}
  BY RegistryFields
<1>2. Upserted(reg, key, policy) = [accounts |-> f, def |-> d]
  BY DEF Upserted
<1> HIDE DEF f, d
<1>3. Upserted(reg, key, policy) \in Registries /\ Names(Upserted(reg, key, policy)) = S
      /\ Upserted(reg, key, policy).def = d
  BY <1>1, <1>2, MakeRegistry
<1>4. Names(Upserted(reg, key, policy)) # {}
  BY <1>3
<1>5. QED
  BY <1>3, <1>4, NoRegistry DEF d

LEMMA UsedRegistry ==
    ASSUME NEW reg, NEW key, reg \in Registries, key \in Names(reg)
    PROVE  /\ [reg EXCEPT !.def = key] \in Registries /\ [reg EXCEPT !.def = key] # None
           /\ Names([reg EXCEPT !.def = key]) = Names(reg) /\ [reg EXCEPT !.def = key].def = key
<1>1. [reg EXCEPT !.def = key] = [accounts |-> reg.accounts, def |-> key] /\ key \in Keys
  BY RegistryFields
<1>2. /\ [reg EXCEPT !.def = key] \in Registries /\ Names([reg EXCEPT !.def = key]) = Names(reg)
      /\ [reg EXCEPT !.def = key].def = key
  BY <1>1, RegistryFields, MakeRegistry
<1>3. QED
  BY <1>2, NoRegistry

LEMMA RenamedRegistry ==
    ASSUME NEW reg, NEW old, NEW new, reg \in Registries, old \in Names(reg), new \in Keys \ Names(reg)
    PROVE  /\ Renamed(reg, old, new) \in Registries /\ Renamed(reg, old, new) # None
           /\ \A k : k \in Names(Renamed(reg, old, new)) <=> k = new \/ (k \in Names(reg) /\ k # old)
           /\ Renamed(reg, old, new).accounts[new] = reg.accounts[old]
           /\ Renamed(reg, old, new).def = IF reg.def = old THEN new ELSE reg.def
           /\ reg.def \in Names(reg) => Renamed(reg, old, new).def \in Names(Renamed(reg, old, new))
<1> DEFINE S == (Names(reg) \ {old}) \cup {new}
           f == [k \in S |-> reg.accounts[IF k = new THEN old ELSE k]]
           d == IF reg.def = old THEN new ELSE reg.def
<1>1. S \in SUBSET Keys /\ f \in [S -> Policies] /\ d \in Keys \cup {NoKey}
  BY RegistryFields
<1>2. Renamed(reg, old, new) = [accounts |-> f, def |-> d]
  BY DEF Renamed
<1>3. f[new] = reg.accounts[old]
  OBVIOUS
<1> HIDE DEF f, d
<1>4. /\ Renamed(reg, old, new) \in Registries /\ Names(Renamed(reg, old, new)) = S
      /\ Renamed(reg, old, new).accounts = f /\ Renamed(reg, old, new).def = d
  BY <1>1, <1>2, MakeRegistry
<1>5. Names(Renamed(reg, old, new)) # {}
  BY <1>4
<1>6. QED
  BY <1>3, <1>4, <1>5, NoRegistry DEF d

LEMMA RenamedNames ==
    ASSUME NEW reg, NEW old, NEW new, reg \in Registries, old \in Names(reg), new \in Keys \ Names(reg)
    PROVE  Names(Renamed(reg, old, new)) = (Names(reg) \ {old}) \cup {new}
<1>1. \A k : k \in Names(Renamed(reg, old, new)) <=> k = new \/ (k \in Names(reg) /\ k # old)
  BY RenamedRegistry
<1>2. QED
  BY <1>1

\* Remove takes the first of the names that are left: there is one.
LEMMA FirstExists ==
    ASSUME NEW S \in SUBSET Nat, S # {}
    PROVE  First(S) \in S
<1>1. PICK x \in S : \A y \in S : ~ (<<y, x>> \in OpToRel(<, Nat))
  BY NatLessThanWellFounded, WFMin, Zenon
<1>2. \A y \in S : ~ (y < x)
  BY <1>1, Zenon DEF OpToRel
<1>3. \A y \in S : x <= y
  BY <1>2
<1>4. QED
  BY <1>3 DEF First

LEMMA RemovedRegistry ==
    ASSUME NEW reg, NEW key, reg \in Registries, key \in Names(reg), reg.def \in Names(reg)
    PROVE  /\ Removed(reg, key) \in Registries /\ Names(Removed(reg, key)) = Names(reg) \ {key}
           /\ Removed(reg, key) # None => Removed(reg, key).def \in Names(Removed(reg, key))
           /\ Removed(reg, key) = None => Names(reg) = {key}
           /\ reg.def # key => Removed(reg, key).def = reg.def
<1> DEFINE rest == Names(reg) \ {key}
           f == [k \in rest |-> reg.accounts[k]]
           d == IF reg.def = key THEN First(rest) ELSE reg.def
<1>1. rest \in SUBSET Keys /\ rest \in SUBSET Nat /\ f \in [rest -> Policies]
  BY RegistryFields
<1>2. CASE rest = {}
  <2>1. Removed(reg, key) = None
    BY <1>2 DEF Removed
  <2>2. QED
    BY <1>2, <2>1, NoRegistry
<1>3. CASE rest # {}
  <2>1. d \in rest
    BY <1>1, <1>3, FirstExists
  <2>2. Removed(reg, key) = [accounts |-> f, def |-> d]
    BY <1>3 DEF Removed
  <2> HIDE DEF f, d
  <2>3. /\ Removed(reg, key) \in Registries /\ Names(Removed(reg, key)) = rest
        /\ Removed(reg, key).def = d
    BY <1>1, <2>1, <2>2, MakeRegistry
  <2>4. Removed(reg, key) # None
    BY <1>3, <2>3, NoRegistry
  <2>5. QED
    BY <2>1, <2>3, <2>4 DEF d
<1>4. QED
  BY <1>2, <1>3

\* What load answers: the file, or the legacy account when there is none.
LEMMA Loaded ==
    ASSUME IndInv
    PROVE  /\ load \in Registries /\ (load # None => load.def \in Names(load))
           /\ load = registry \/ (registry = None /\ load = Legacy)
           /\ Listed \subseteq Keys /\ Default \in Keys
<1>1. load = registry \/ (registry = None /\ load = Legacy)
  BY DEF load
<1>2. load \in Registries /\ (load # None => load.def \in Names(load))
  BY <1>1, LegacyRegistry, NoRegistry DEF IndInv, TypeOK, RegistryInv
<1>3. QED
  BY <1>1, <1>2, RegistryFields DEF Listed, Default

-----------------------------------------------------------------------------
(* What the actions do to the locals of the command.                       *)

\* What the type gives of a command.
LEMMA CommandFields ==
    ASSUME NEW c \in Commands
    PROVE  /\ c.pc \in Places /\ c.op \in Operations /\ c.key \in Keys \cup {NoKey}
           /\ c.new \in Keys \cup {NoKey} /\ c.policy \in Policies /\ c.user \in Users \cup {NoUser}
           /\ c.reg \in Registries /\ c.quiet \in BOOLEAN
           /\ c.reg.def \in Keys \cup {NoKey} /\ Names(c.reg) \subseteq Keys
  BY RegistryFields DEF Commands

\* A command that has returned, or was killed.
LEMMA Returned ==
    ASSUME NEW op \in {"none", "killed"}, NEW c,
           (c = Idle /\ op = "none") \/ c = [Idle EXCEPT !.op = op]
    PROVE  /\ c \in Commands /\ c.pc = "idle" /\ c.op = op /\ c.quiet = TRUE /\ c.reg = None
           /\ c.key = NoKey /\ c.new = NoKey /\ c.user = NoUser
<1>1. CASE c = Idle /\ op = "none"
  BY <1>1, NoRegistry DEF Commands, Idle, Places, Operations
<1>2. CASE c = [Idle EXCEPT !.op = op]
  BY <1>2, NoRegistry DEF Commands, Idle, Places, Operations
<1>3. QED
  BY <1>1, <1>2

\* A command that goes on.
LEMMA WentOn ==
    ASSUME NEW c \in Commands, NEW p \in Places, NEW d, d = [c EXCEPT !.pc = p]
    PROVE  /\ d \in Commands /\ d.pc = p /\ d.op = c.op /\ d.key = c.key /\ d.new = c.new
           /\ d.policy = c.policy /\ d.user = c.user /\ d.reg = c.reg /\ d.quiet = c.quiet
  BY DEF Commands

-----------------------------------------------------------------------------
(* The invariant.                                                          *)

LEMMA InitInv == ASSUME Init PROVE IndInv
<1>1. /\ registry \in Registries /\ (registry # None => registry.def \in Names(registry))
      /\ tokens \in [Keys -> Users \cup {NoUser}]
  <2>1. CASE registry = None /\ tokens = [k \in Keys |-> NoUser]
    BY <2>1, NoRegistry
  <2>2. ASSUME registry = None, NEW u \in Users,
               tokens = [k \in Keys |-> IF k = DefaultKey THEN u ELSE NoUser]
        PROVE  /\ registry \in Registries /\ (registry # None => registry.def \in Names(registry))
               /\ tokens \in [Keys -> Users \cup {NoUser}]
    BY <2>2, NoRegistry
  <2>3. ASSUME NEW S \in SUBSET Keys, NEW d \in S, NEW f \in [S -> Users],
               registry = [accounts |-> [k \in S |-> 0], def |-> d],
               tokens = [k \in Keys |-> IF k \in S THEN f[k] ELSE NoUser]
        PROVE  /\ registry \in Registries /\ (registry # None => registry.def \in Names(registry))
               /\ tokens \in [Keys -> Users \cup {NoUser}]
    <3>1. [k \in S |-> 0] \in [S -> Policies]
      OBVIOUS
    <3>2. registry \in Registries /\ Names(registry) = S /\ registry.def = d
      BY <2>3, <3>1, MakeRegistry
    <3>3. QED
      BY <2>3, <3>2
  <2>4. QED
    BY <2>1, <2>2, <2>3 DEF Init
<1>2. cmd = Idle /\ source = NoSource /\ named \in BOOLEAN
  BY DEF Init
<1>3. TypeOK
  BY <1>1, <1>2, Returned DEF TypeOK, NoSource
<1>4. QED
  BY <1>1, <1>2, <1>3, Returned DEF IndInv, RegistryInv, PlaceInv, SnapshotInv, MoveInv


-----------------------------------------------------------------------------
(* The steps of the commands, and of the proxy next to them.               *)

\* A command that returns, or is killed, leaves nothing to remember.
LEMMA ReturnKeeps ==
    ASSUME IndInv, NEW op \in {"none", "killed"}, (cmd' = Idle /\ op = "none") \/ cmd' = [Idle EXCEPT !.op = op],
           registry' \in Registries, registry' # None => registry'.def \in Names(registry'),
           tokens' \in [Keys -> Users \cup {NoUser}],
           source' = source \/ source'.key \in Keys,
           source' \in [key : Keys \cup {NoKey}, user : Users \cup {NoUser}], named' \in BOOLEAN
    PROVE  IndInv'
<1>1. /\ cmd' \in Commands /\ cmd'.pc = "idle" /\ cmd'.op = op /\ cmd'.quiet = TRUE /\ cmd'.reg = None
      /\ cmd'.key = NoKey
  BY Returned
<1>2. QED
  BY <1>1 DEF IndInv, TypeOK, RegistryInv, PlaceInv, SnapshotInv, MoveInv

\* What writeToken may do to the token files.
LEMMA WriteTypes ==
    ASSUME IndInv, NEW key \in Keys
    PROVE  /\ \A u \in Users \cup {NoUser} : Written(key, u) \in [Keys -> Users \cup {NoUser}]
           /\ WriteFailures(key) \subseteq [Keys -> Users \cup {NoUser}]
  BY DEF IndInv, TypeOK, Written, WriteFailures

LEMMA LoginKeeps == ASSUME IndInv, Login \/ RunFirst \/ Token \/ UpsertLoad \/ UpsertSave PROVE IndInv'
<1>0. TypeOK /\ cmd \in Commands /\ registry \in Registries
  BY DEF IndInv, TypeOK
<1>1. CASE Login
  <2>1. PICK policy \in Policies, key \in Keys :
            /\ cmd' = [Begin("login", "token", key) EXCEPT !.policy = policy]
            /\ named' \in BOOLEAN
    BY <1>0, <1>1 DEF Login, TypeOK
  <2>2. /\ cmd' \in Commands /\ cmd'.op = "login" /\ cmd'.pc = "token" /\ cmd'.key = key
        /\ cmd'.reg = None
    BY <2>1, NoRegistry DEF Commands, Begin, Idle, Operations, Places
  <2>3. QED
    BY <1>1, <2>1, <2>2 DEF Login, IndInv, TypeOK, RegistryInv, PlaceInv, SnapshotInv,
       MoveInv
<1>2. CASE RunFirst
  <2>1. PICK key \in Keys : cmd' = Begin("run", "token", key) /\ named' \in BOOLEAN
    BY <1>0, <1>2 DEF RunFirst, TypeOK
  <2>2. /\ cmd' \in Commands /\ cmd'.op = "run" /\ cmd'.pc = "token" /\ cmd'.key = key
        /\ cmd'.reg = None
    BY <2>1, NoRegistry DEF Commands, Begin, Idle, Operations, Places
  <2>3. QED
    BY <1>2, <2>1, <2>2 DEF RunFirst, IndInv, TypeOK, RegistryInv, PlaceInv, SnapshotInv,
       MoveInv
<1>3. CASE Token
  <2>1. cmd.pc = "token" /\ cmd.key \in Keys
    BY <1>3 DEF Token, IndInv, PlaceInv
  <2>2. CASE tokens' \in WriteFailures(cmd.key) /\ Return
    BY <1>0, <1>3, <2>1, <2>2, WriteTypes, ReturnKeeps DEF Token, Return, IndInv, TypeOK,
       RegistryInv
  <2>3. ASSUME NEW u \in Users, tokens' = Written(cmd.key, u),
               cmd' = [cmd EXCEPT !.pc = "upsert", !.user = u]
        PROVE  IndInv'
    <3>1. /\ cmd' \in Commands /\ cmd'.pc = "upsert" /\ cmd'.op = cmd.op /\ cmd'.key = cmd.key
          /\ cmd'.new = cmd.new /\ cmd'.reg = cmd.reg
      BY <1>0, <2>3 DEF Commands, Places
    <3>2. tokens' \in [Keys -> Users \cup {NoUser}]
      BY <2>1, <2>3, WriteTypes
    <3>3. QED
      BY <1>3, <2>1, <3>1, <3>2 DEF Token, IndInv, TypeOK, RegistryInv, PlaceInv,
         SnapshotInv, MoveInv
  <2>4. QED
    BY <1>3, <2>2, <2>3 DEF Token
<1>4. CASE UpsertLoad
  <2>1. load \in Registries /\ (load # None => load.def \in Names(load))
    BY Loaded
  <2>2. /\ cmd' \in Commands /\ cmd'.pc = "save" /\ cmd'.op = cmd.op /\ cmd'.key = cmd.key
        /\ cmd'.new = cmd.new /\ cmd'.reg = load /\ cmd'.quiet = cmd.quiet
    BY <1>0, <1>4, <2>1 DEF UpsertLoad, Commands, Places
  <2>3. load' = load
    BY <1>4 DEF UpsertLoad, load
  <2>4. QED
    BY <1>4, <2>1, <2>2, <2>3, Loaded
    DEF UpsertLoad, IndInv, TypeOK, RegistryInv, PlaceInv, SnapshotInv, MoveInv
<1>5. CASE UpsertSave
  <2>1. cmd.reg \in Registries /\ cmd.key \in Keys /\ cmd.policy \in Policies /\ cmd.user \in Users \cup {NoUser}
    BY <1>0, <1>5, CommandFields DEF UpsertSave, IndInv, PlaceInv
  <2> DEFINE new == Upserted(cmd.reg, cmd.key, cmd.policy)
  <2>2. new \in Registries /\ Names(new) = Names(cmd.reg) \cup {cmd.key}
        /\ new.def = IF cmd.reg.def = NoKey THEN cmd.key ELSE cmd.reg.def
    BY <2>1, UpsertedRegistry
  <2>3. new.def \in Names(new)
    BY <2>2, NoRegistry DEF IndInv, RegistryInv
  <2> HIDE DEF new
  <2>4. registry' = registry \/ registry' = new
    BY <1>5 DEF UpsertSave, new
  <2>5. /\ source' = source \/ source'.key \in Keys
        /\ source' \in [key : Keys \cup {NoKey}, user : Users \cup {NoUser}]
    BY <1>0, <1>5, <2>1 DEF UpsertSave, TypeOK
  <2>6. QED
    BY <1>0, <1>5, <2>2, <2>3, <2>4, <2>5, ReturnKeeps DEF UpsertSave, Return, IndInv,
       TypeOK, RegistryInv
<1>6. QED
  BY <1>1, <1>2, <1>3, <1>4, <1>5

\* A running proxy or bot.
LEMMA SourceKeeps == ASSUME IndInv, Run \/ RunGolem \/ Refresh \/ Stop PROVE IndInv'
<1>0. TypeOK /\ cmd \in Commands /\ registry \in Registries
  BY DEF IndInv, TypeOK
<1>1. ASSUME UNCHANGED <<registry, tokens, cmd, named>>,
             source' \in [key : Keys \cup {NoKey}, user : Users \cup {NoUser}],
             source' # NoSource => source'.key \in Keys
      PROVE  IndInv'
  BY <1>1 DEF IndInv, TypeOK, RegistryInv, PlaceInv, SnapshotInv, MoveInv, load
<1>2. CASE Run \/ RunGolem
  <2>1. Default \in Keys /\ tokens[Default] \in Users \cup {NoUser}
    BY <1>0, Loaded DEF TypeOK
  <2>2. QED
    BY <1>1, <1>2, <2>1 DEF Run, RunGolem
<1>3. CASE Refresh
  <2>1. source.key \in Keys
    BY <1>3 DEF Refresh, IndInv, PlaceInv
  <2>2. /\ tokens' \in [Keys -> Users \cup {NoUser}]
        /\ source' \in [key : Keys \cup {NoKey}, user : Users \cup {NoUser}] /\ source'.key = source.key
    BY <1>0, <1>3, <2>1, WriteTypes DEF Refresh, TypeOK
  <2>3. /\ cmd' \in Commands /\ cmd'.pc = cmd.pc /\ cmd'.op = cmd.op /\ cmd'.key = cmd.key
        /\ cmd'.new = cmd.new /\ cmd'.user = cmd.user /\ cmd'.reg = cmd.reg
        /\ cmd'.quiet = (cmd.pc = "idle")
    BY <1>0, <1>3 DEF Refresh, Commands
  <2>4. QED
    BY <1>3, <2>1, <2>2, <2>3
    DEF Refresh, IndInv, TypeOK, RegistryInv, PlaceInv, SnapshotInv, MoveInv
<1>4. CASE Stop
  BY <1>1, <1>4 DEF Stop, NoSource
<1>5. QED
  BY <1>2, <1>3, <1>4

\* use, rename and logout begin with a copy of what load answers.
LEMMA CopyKeeps ==
    ASSUME IndInv, NEW key \in Listed, cmd' \in Commands, cmd'.key = key, cmd'.reg = load, cmd'.user = NoUser,
           \/ cmd'.op = "use" /\ cmd'.pc = "save"
           \/ cmd'.op = "logout" /\ cmd'.pc = "remove"
           \/ cmd'.op = "rename" /\ cmd'.pc = "inspect" /\ cmd'.new \in Keys \ Listed,
           UNCHANGED <<registry, tokens, source>>, named' \in BOOLEAN
    PROVE  IndInv'
<1>1. load' = load
  BY DEF load
<1>2. QED
  BY <1>1, Loaded DEF IndInv, TypeOK, RegistryInv, PlaceInv, SnapshotInv, MoveInv, Listed

LEMMA UseKeeps == ASSUME IndInv, Use \/ UseSave PROVE IndInv'
<1>0. TypeOK /\ cmd \in Commands /\ registry \in Registries
  BY DEF IndInv, TypeOK
<1>1. CASE Use
  <2>1. PICK key \in Listed : cmd' = [Begin("use", "save", key) EXCEPT !.reg = load]
    BY <1>1 DEF Use
  <2>2. /\ cmd' \in Commands /\ cmd'.key = key /\ cmd'.reg = load /\ cmd'.user = NoUser
        /\ cmd'.op = "use" /\ cmd'.pc = "save"
    BY <2>1, Loaded DEF Commands, Begin, Idle, Operations, Places
  <2>3. QED
    BY <1>0, <1>1, <2>2, CopyKeeps DEF Use, TypeOK
<1>2. CASE UseSave
  <2>1. cmd.reg \in Registries /\ cmd.key \in Names(cmd.reg)
    BY <1>0, <1>2, CommandFields DEF UseSave, IndInv, PlaceInv
  <2> DEFINE new == [cmd.reg EXCEPT !.def = cmd.key]
  <2>2. new \in Registries /\ new.def \in Names(new)
    BY <2>1, UsedRegistry
  <2> HIDE DEF new
  <2>3. registry' = registry \/ registry' = new
    BY <1>2 DEF UseSave, new
  <2>4. QED
    BY <1>0, <1>2, <2>2, <2>3, ReturnKeeps DEF UseSave, Return, IndInv, TypeOK, RegistryInv
<1>3. QED
  BY <1>1, <1>2

LEMMA RenameKeeps ==
    ASSUME IndInv, Rename \/ RenameInspect \/ RenameMove \/ RenameSave \/ RenameRollback PROVE IndInv'
<1>0. TypeOK /\ cmd \in Commands /\ registry \in Registries
  BY DEF IndInv, TypeOK
<1>1. CASE Rename
  <2>1. PICK old \in Listed, new \in Keys \ Listed :
            /\ cmd' = [Begin("rename", "inspect", old) EXCEPT !.new = new, !.reg = load]
            /\ named' \in BOOLEAN
    BY <1>0, <1>1 DEF Rename, TypeOK
  <2>2. /\ cmd' \in Commands /\ cmd'.key = old /\ cmd'.new = new /\ cmd'.reg = load
        /\ cmd'.user = NoUser /\ cmd'.op = "rename" /\ cmd'.pc = "inspect"
    BY <2>1, Loaded DEF Commands, Begin, Idle, Operations, Places
  <2>3. QED
    BY <1>1, <2>1, <2>2, CopyKeeps DEF Rename
<1>2. ASSUME cmd.pc \in {"inspect", "move", "saveRename", "rollback"}
      PROVE  /\ cmd.op = "rename" /\ cmd.key \in Keys /\ cmd.new \in Keys /\ cmd.key # cmd.new
             /\ cmd.key \in Names(cmd.reg) /\ cmd.new \notin Names(cmd.reg) /\ cmd.reg \in Registries
             /\ cmd.reg # None
             /\ \A from, to \in Keys : Moved(from, to) \in [Keys -> Users \cup {NoUser}]
  BY <1>0, <1>2, CommandFields, NoRegistry DEF IndInv, TypeOK, PlaceInv, Moved
<1>3. ASSUME Return, UNCHANGED <<registry, source, named>>, tokens' \in [Keys -> Users \cup {NoUser}]
      PROVE  IndInv'
  BY <1>0, <1>3, ReturnKeeps DEF Return, IndInv, TypeOK, RegistryInv
<1>4. CASE RenameInspect
  <2>1. CASE Return
    BY <1>0, <1>3, <1>4, <2>1 DEF RenameInspect, TypeOK
  <2>2. CASE /\ tokens[cmd.new] = NoUser /\ tokens[cmd.key] # NoUser
             /\ cmd' = [cmd EXCEPT !.pc = "move", !.user = tokens[cmd.key]]
    <3>1. /\ cmd' \in Commands /\ cmd'.pc = "move" /\ cmd'.op = cmd.op /\ cmd'.key = cmd.key
          /\ cmd'.new = cmd.new /\ cmd'.user = tokens[cmd.key] /\ cmd'.reg = cmd.reg
          /\ cmd'.quiet = cmd.quiet
      BY <1>0, <1>2, <1>4, <2>2 DEF RenameInspect, Commands, Places, TypeOK
    <3>2. load' = load
      BY <1>4 DEF RenameInspect, load
    <3>3. QED
      BY <1>2, <1>4, <2>2, <3>1, <3>2
      DEF RenameInspect, IndInv, TypeOK, RegistryInv, PlaceInv, SnapshotInv, MoveInv
  <2>3. QED
    BY <1>4, <2>1, <2>2 DEF RenameInspect
<1>5. CASE RenameMove
  <2>1. CASE UNCHANGED tokens /\ Return
    BY <1>0, <1>3, <1>5, <2>1 DEF RenameMove, TypeOK
  <2>2. CASE tokens[cmd.key] # NoUser /\ tokens' = Moved(cmd.key, cmd.new) /\ Goto("saveRename")
    <3>1. /\ cmd' \in Commands /\ cmd'.pc = "saveRename" /\ cmd'.op = cmd.op /\ cmd'.key = cmd.key
          /\ cmd'.new = cmd.new /\ cmd'.user = cmd.user /\ cmd'.reg = cmd.reg
          /\ cmd'.quiet = cmd.quiet
      BY <1>0, <2>2, WentOn DEF Goto, Places
    <3>2. /\ tokens' \in [Keys -> Users \cup {NoUser}]
          /\ tokens'[cmd.new] = tokens[cmd.key] /\ tokens'[cmd.key] = NoUser
      BY <1>0, <1>2, <1>5, <2>2 DEF RenameMove, Moved, TypeOK
    <3>3. QED
      BY <1>2, <1>5, <3>1, <3>2
      DEF RenameMove, IndInv, TypeOK, RegistryInv, PlaceInv, SnapshotInv, MoveInv
  <2>3. QED
    BY <1>5, <2>1, <2>2 DEF RenameMove
<1>6. CASE RenameSave
  <2>1. CASE registry' = Renamed(cmd.reg, cmd.key, cmd.new) /\ Return
    <3>1. cmd.reg.def \in Names(cmd.reg)
      BY <1>2, <1>6 DEF RenameSave, IndInv, RegistryInv
    <3>2. cmd.reg \in Registries /\ cmd.key \in Names(cmd.reg) /\ cmd.new \in Keys \ Names(cmd.reg)
      BY <1>2, <1>6 DEF RenameSave
    <3>3. /\ registry' \in Registries
          /\ cmd.reg.def \in Names(cmd.reg) => registry'.def \in Names(registry')
      BY <2>1, <3>2, RenamedRegistry
    <3>4. registry'.def \in Names(registry')
      BY <3>1, <3>3
    <3>5. QED
      BY <1>0, <1>6, <2>1, <3>3, <3>4, ReturnKeeps DEF RenameSave, Return, TypeOK
  <2>2. CASE UNCHANGED registry /\ Goto("rollback")
    <3>1. /\ cmd' \in Commands /\ cmd'.pc = "rollback" /\ cmd'.op = cmd.op /\ cmd'.key = cmd.key
          /\ cmd'.new = cmd.new /\ cmd'.user = cmd.user /\ cmd'.reg = cmd.reg
          /\ cmd'.quiet = cmd.quiet
      BY <1>0, <2>2, WentOn DEF Goto, Places
    <3>2. QED
      BY <1>2, <1>6, <2>2, <3>1
      DEF RenameSave, IndInv, TypeOK, RegistryInv, PlaceInv, SnapshotInv, MoveInv
  <2>3. QED
    BY <1>6, <2>1, <2>2 DEF RenameSave
<1>7. CASE RenameRollback
  <2>1. Moved(cmd.new, cmd.key) \in [Keys -> Users \cup {NoUser}]
    BY <1>2, <1>7 DEF RenameRollback
  <2>2. tokens' \in [Keys -> Users \cup {NoUser}] /\ Return
    BY <1>0, <1>7, <2>1 DEF RenameRollback, TypeOK
  <2>3. QED
    BY <1>3, <1>7, <2>2 DEF RenameRollback
<1>8. QED
  BY <1>1, <1>4, <1>5, <1>6, <1>7

LEMMA LogoutKeeps == ASSUME IndInv, Logout \/ RemoveToken \/ RemoveSave \/ Killed PROVE IndInv'
<1>0. TypeOK /\ cmd \in Commands /\ registry \in Registries
  BY DEF IndInv, TypeOK
<1>1. CASE Logout
  <2>1. PICK key \in Listed : cmd' = [Begin("logout", "remove", key) EXCEPT !.reg = load]
    BY <1>1 DEF Logout
  <2>2. /\ cmd' \in Commands /\ cmd'.key = key /\ cmd'.reg = load /\ cmd'.user = NoUser
        /\ cmd'.op = "logout" /\ cmd'.pc = "remove"
    BY <2>1, Loaded DEF Commands, Begin, Idle, Operations, Places
  <2>3. QED
    BY <1>0, <1>1, <2>2, CopyKeeps DEF Logout, TypeOK
<1>2. CASE RemoveToken
  <2>1. cmd.pc = "remove" /\ cmd.key \in Keys
    BY <1>2 DEF RemoveToken, IndInv, PlaceInv
  <2>2. CASE UNCHANGED tokens /\ Return
    BY <1>0, <1>2, <2>2, ReturnKeeps DEF RemoveToken, Return, IndInv, TypeOK, RegistryInv
  <2>3. CASE tokens' = Written(cmd.key, NoUser) /\ Goto("saveRemove")
    <3>1. /\ cmd' \in Commands /\ cmd'.pc = "saveRemove" /\ cmd'.op = cmd.op /\ cmd'.key = cmd.key
          /\ cmd'.new = cmd.new /\ cmd'.reg = cmd.reg
      BY <1>0, <2>3, WentOn DEF Goto, Places
    <3>2. tokens' \in [Keys -> Users \cup {NoUser}]
      BY <2>1, <2>3, WriteTypes
    <3>3. QED
      BY <1>2, <2>1, <3>1, <3>2
      DEF RemoveToken, IndInv, TypeOK, RegistryInv, PlaceInv, SnapshotInv, MoveInv
  <2>4. QED
    BY <1>2, <2>2, <2>3 DEF RemoveToken
<1>3. CASE RemoveSave
  <2>1. cmd.reg \in Registries /\ cmd.key \in Names(cmd.reg) /\ cmd.reg.def \in Names(cmd.reg)
    BY <1>0, <1>3, CommandFields, NoRegistry DEF RemoveSave, IndInv, PlaceInv, RegistryInv
  <2> DEFINE reg == Removed(cmd.reg, cmd.key)
  <2>2. reg \in Registries /\ (reg # None => reg.def \in Names(reg))
    BY <2>1, RemovedRegistry
  <2> HIDE DEF reg
  <2>3. registry' = registry \/ registry' = reg
    BY <1>3 DEF RemoveSave, reg
  <2>4. QED
    BY <1>0, <1>3, <2>2, <2>3, ReturnKeeps DEF RemoveSave, Return, IndInv, TypeOK,
       RegistryInv
<1>4. CASE Killed
  BY <1>0, <1>4, ReturnKeeps DEF Killed, IndInv, TypeOK, RegistryInv
<1>5. QED
  BY <1>1, <1>2, <1>3, <1>4

(***************************************************************************)
(* IndInv is an invariant of the store: the default account always exists, *)
(* and a command's copy of the registry is what it saves over.             *)
(***************************************************************************)
THEOREM Invariance == Spec => []IndInv
<1>1. Init => IndInv
  BY InitInv
<1>2. IndInv /\ [Next]_vars => IndInv'
  <2> SUFFICES ASSUME IndInv, [Next]_vars PROVE IndInv'
    OBVIOUS
  <2>1. CASE UNCHANGED vars
    BY <2>1 DEF vars, IndInv, TypeOK, RegistryInv, PlaceInv, SnapshotInv, MoveInv, load
  <2>2. QED
    BY <2>1, LoginKeeps, SourceKeeps, UseKeeps, RenameKeeps, LogoutKeeps DEF Next, Command
<1>3. QED
  BY <1>1, <1>2, PTL DEF Spec


-----------------------------------------------------------------------------
(* The account list and the default, before and after a step.              *)

LEMMA ListedNow ==
    /\ registry # None => load = registry /\ Listed = Names(registry)
    /\ registry = None /\ tokens[DefaultKey] # NoUser => load = Legacy /\ Listed = {DefaultKey}
    /\ registry = None /\ tokens[DefaultKey] = NoUser => load = None /\ Listed = {}
  BY NoRegistry, LegacyRegistry DEF load, Listed

LEMMA ListedNext ==
    /\ registry' # None => load' = registry' /\ Listed' = Names(registry')
    /\ registry' = None /\ tokens'[DefaultKey] # NoUser => load' = Legacy /\ Listed' = {DefaultKey}
    /\ registry' = None /\ tokens'[DefaultKey] = NoUser => load' = None /\ Listed' = {}
  BY NoRegistry, LegacyRegistry DEF load, Listed

\* The default does not depend on the token files.
LEMMA DefaultNow ==
    /\ Default = IF registry.def = NoKey THEN DefaultKey ELSE registry.def
    /\ Default' = IF registry'.def = NoKey THEN DefaultKey ELSE registry'.def
  BY ListedNow, ListedNext, NoRegistry, LegacyRegistry DEF Default

(***************************************************************************)
(* The default account of accounts.json always exists, and it changes only *)
(* by use, by the first login, or by logging out or renaming that very     *)
(* account, for any accounts and however the commands fail or are killed.  *)
(***************************************************************************)
THEOREM DefaultAlwaysStable == Spec => DefaultStable
<1>1. IndInv => (registry # None => registry.def \in Names(registry))
  BY DEF IndInv, RegistryInv
<1>2. ASSUME IndInv, Next PROVE DefaultKept
  <2>0. /\ TypeOK /\ cmd \in Commands /\ cmd.reg \in Registries /\ cmd.key \in Keys \cup {NoKey}
        /\ cmd.reg # None => cmd.reg.def \in Names(cmd.reg)
    BY <1>2, CommandFields DEF IndInv, TypeOK, RegistryInv
  <2>1. CASE UNCHANGED registry
    BY <2>1, DefaultNow DEF DefaultKept
  <2>2. CASE UpsertSave
    <3>1. /\ cmd.key \in Keys /\ cmd.policy \in Policies /\ cmd.pc = "save" /\ cmd.op \in {"login", "run"}
          /\ registry = cmd.reg \/ (registry = None /\ cmd.reg = Legacy)
          /\ cmd.quiet => cmd.reg = load
      BY <1>2, <2>2, CommandFields, <2>0 DEF UpsertSave, IndInv, PlaceInv, SnapshotInv
    <3>2. CASE registry' = Upserted(cmd.reg, cmd.key, cmd.policy)
      <4>1. registry'.def = IF cmd.reg.def = NoKey THEN cmd.key ELSE cmd.reg.def
        BY <2>0, <3>1, <3>2, UpsertedRegistry
      <4>2. CASE cmd.reg.def # NoKey
        BY <3>1, <4>1, <4>2, DefaultNow, LegacyRegistry, NoRegistry DEF DefaultKept
      <4>3. CASE cmd.reg.def = NoKey
        <5>1. cmd.reg = None
          BY <2>0, <4>3, RegistryFields, KeysAreNames
        <5>2. cmd.quiet => Listed = {}
          BY <3>1, <5>1, NoRegistry DEF Listed
        <5>3. Default' = cmd.key
          BY <3>1, <4>1, <4>3, DefaultNow, KeysAreNames
        <5>4. QED
          BY <3>1, <5>2, <5>3 DEF DefaultKept
      <4>4. QED
        BY <4>2, <4>3
    <3>3. QED
      BY <2>1, <2>2, <3>2 DEF UpsertSave
  <2>3. CASE UseSave
    <3>1. cmd.op = "use" /\ cmd.key \in Names(cmd.reg) /\ cmd.key \in Keys
      BY <1>2, <2>0, <2>3, RegistryFields DEF UseSave, IndInv, PlaceInv
    <3>2. CASE registry' = [cmd.reg EXCEPT !.def = cmd.key]
      <4>1. registry'.def = cmd.key
        BY <2>0, <3>1, <3>2, UsedRegistry
      <4>2. QED
        BY <3>1, <4>1, DefaultNow, KeysAreNames DEF DefaultKept
    <3>3. QED
      BY <2>1, <2>3, <3>2 DEF UseSave
  <2>4. CASE RenameSave
    <3>1. /\ cmd.op = "rename" /\ cmd.key \in Names(cmd.reg) /\ cmd.new \in Keys \ Names(cmd.reg)
          /\ registry = cmd.reg \/ (registry = None /\ cmd.reg = Legacy)
      BY <1>2, <2>4 DEF RenameSave, IndInv, PlaceInv, SnapshotInv
    <3>2. CASE registry' = Renamed(cmd.reg, cmd.key, cmd.new)
      <4>1. cmd.reg.def # cmd.key => registry'.def = cmd.reg.def
        BY <2>0, <3>1, <3>2, RenamedRegistry
      <4>2. cmd.reg.def \in Keys
        BY <2>0, <3>1, NoRegistry, RegistryFields
      <4>3. Default = cmd.reg.def
        BY <3>1, <4>2, DefaultNow, NoRegistry, LegacyRegistry, KeysAreNames
      <4>4. QED
        BY <3>1, <4>1, <4>2, <4>3, DefaultNow DEF DefaultKept
    <3>3. QED
      BY <2>1, <2>4, <3>2 DEF RenameSave
  <2>5. CASE RemoveSave
    <3>1. /\ cmd.op = "logout" /\ cmd.key \in Names(cmd.reg)
          /\ registry = cmd.reg \/ (registry = None /\ cmd.reg = Legacy)
      BY <1>2, <2>5 DEF RemoveSave, IndInv, PlaceInv, SnapshotInv
    <3>2. CASE registry' = Removed(cmd.reg, cmd.key)
      <4>1. cmd.reg.def \in Names(cmd.reg) /\ cmd.reg.def \in Keys
        BY <2>0, <3>1, NoRegistry, RegistryFields
      <4>2. Default = cmd.reg.def
        BY <3>1, <4>1, DefaultNow, NoRegistry, LegacyRegistry, KeysAreNames
      <4>3. cmd.reg.def # cmd.key => registry'.def = cmd.reg.def
        BY <2>0, <3>1, <3>2, <4>1, RemovedRegistry
      <4>4. QED
        BY <3>1, <4>1, <4>2, <4>3, DefaultNow DEF DefaultKept
    <3>3. QED
      BY <2>1, <2>5, <3>2 DEF RemoveSave
  <2>6. QED
    BY <1>2, <2>1, <2>2, <2>3, <2>4, <2>5
    DEF Next, Command, Login, RunFirst, Token, UpsertLoad, Run, RunGolem, Refresh, Stop, Use, Rename,
        RenameInspect, RenameMove, RenameRollback, Logout, RemoveToken, Killed
<1>3. IndInv /\ [Next]_vars => [DefaultKept]_vars
  BY <1>2
<1>4. QED
  BY <1>1, <1>3, Invariance, PTL DEF Spec, DefaultStable

(***************************************************************************)
(* A rename that returns has happened with its token, cache age and        *)
(* default, or not at all; only a way back that fails too leaves the token *)
(* at the new name.                                                        *)
(***************************************************************************)
THEOREM RenameAlwaysAtomic == Spec => RenameAtomic
<1>1. ASSUME IndInv, Next, cmd.op = "rename", cmd.quiet, cmd' = Idle PROVE RenameWhole
  <2>1. /\ cmd \in Commands /\ cmd.reg \in Registries /\ cmd.reg # None
        /\ cmd.key \in Names(cmd.reg) /\ cmd.new \in Keys \ Names(cmd.reg) /\ cmd.key \in Keys
        /\ cmd.reg.def \in Names(cmd.reg)
        /\ tokens \in [Keys -> Users \cup {NoUser}]
    BY <1>1, CommandFields, NoRegistry DEF IndInv, TypeOK, RegistryInv, PlaceInv
  <2>2. cmd' # cmd /\ cmd'.op = "none" /\ cmd'.pc = "idle"
    BY <1>1, Returned
  <2>3. cmd.pc \in {"inspect", "move", "saveRename", "rollback"}
    BY <1>1, <2>1, CommandFields DEF IndInv, PlaceInv, Places
  <2>4. /\ registry = cmd.reg \/ (registry = None /\ cmd.reg = Legacy)
        /\ cmd.pc \in {"inspect", "move"} => load = cmd.reg
        /\ cmd.pc = "inspect" => cmd.user = NoUser
        /\ cmd.pc = "move" => tokens[cmd.key] = cmd.user
        /\ cmd.pc \in {"saveRename", "rollback"} =>
             cmd.user # NoUser /\ tokens[cmd.key] = NoUser /\ tokens[cmd.new] = cmd.user
    BY <1>1, <2>3 DEF IndInv, SnapshotInv, MoveInv
  <2>5. CASE cmd.pc \in {"inspect", "move"} /\ UNCHANGED <<registry, tokens>>
    BY <2>4, <2>5 DEF RenameWhole, load
  <2>6. CASE RenameSave
    <3>1. registry' = Renamed(cmd.reg, cmd.key, cmd.new) /\ UNCHANGED tokens /\ cmd.pc = "saveRename"
      BY <2>2, <2>1, <2>6, WentOn DEF RenameSave, Goto, Places
    <3>2. /\ registry' # None /\ registry'.accounts[cmd.new] = cmd.reg.accounts[cmd.key]
          /\ registry'.def = IF cmd.reg.def = cmd.key THEN cmd.new ELSE cmd.reg.def
      BY <2>1, <3>1, RenamedRegistry
    <3>3. Names(registry') = (Names(cmd.reg) \ {cmd.key}) \cup {cmd.new}
      BY <2>1, <3>1, RenamedNames
    <3>4. load' = registry' /\ Listed' = Names(registry')
      BY <3>2, ListedNext
    <3>5. (Default' = cmd.new) <=> (cmd.reg.def = cmd.key)
      <4>1. cmd.reg.def \in Keys /\ cmd.new \in Keys /\ cmd.reg.def # cmd.new
        BY <2>1, RegistryFields
      <4>2. QED
        BY <3>2, <4>1, DefaultNow, KeysAreNames
    <3>6. tokens'[cmd.new] = cmd.user /\ tokens'[cmd.key] = NoUser
      BY <2>4, <3>1
    <3>7. QED
      BY <3>2, <3>3, <3>4, <3>5, <3>6 DEF RenameWhole
  <2>7. CASE RenameRollback
    <3>1. CASE tokens' = Moved(cmd.new, cmd.key)
      <4>1. tokens'[cmd.key] = cmd.user /\ cmd.user # NoUser
        BY <2>1, <2>4, <2>7, <3>1 DEF RenameRollback, Moved
      <4>2. load' = cmd.reg
        BY <2>1, <2>4, <2>7, <4>1, ListedNext, LegacyRegistry DEF RenameRollback
      <4>3. QED
        BY <4>1, <4>2 DEF RenameWhole
    <3>2. QED
      BY <2>7, <3>1 DEF RenameRollback, RenameWhole
  <2>8. CASE RenameMove
    <3>1. ~ Goto("saveRename")
      BY <2>1, <2>2, WentOn DEF Goto, Places
    <3>2. QED
      BY <2>5, <2>8, <3>1 DEF RenameMove
  <2>9. CASE RenameInspect
    BY <2>5, <2>9 DEF RenameInspect
  <2>10. ~ Killed
    BY <2>2, Returned DEF Killed
  <2>11. ~ (Run \/ RunGolem \/ Stop)
    BY <2>2 DEF Run, RunGolem, Stop
  <2>12. ~ Refresh
    BY <1>1, <2>1, <2>2 DEF Refresh, Commands
  <2>13. ~ (Login \/ RunFirst \/ Token \/ UpsertLoad \/ UpsertSave \/ Use \/ UseSave \/ Rename \/ Logout
              \/ RemoveToken \/ RemoveSave)
    BY <2>3 DEF Login, RunFirst, Token, UpsertLoad, UpsertSave, Use, UseSave, Rename,
       Logout, RemoveToken,
               RemoveSave
  <2>14. QED
    BY <1>1, <2>6, <2>7, <2>8, <2>9, <2>10, <2>11, <2>12, <2>13 DEF Next, Command
<1>2. IndInv /\ [Next]_vars => [RenameWhole]_vars
  BY <1>1 DEF RenameWhole
<1>3. QED
  BY <1>2, Invariance, PTL DEF Spec, RenameAtomic

(***************************************************************************)
(* No token is lost, and no listed account either, but by the command that *)
(* names it or by the proxy whose account it is: whatever fails and        *)
(* whenever a command is killed.                                           *)
(***************************************************************************)
THEOREM TokensAlwaysKept == Spec => TokensKept
<1>1. ASSUME IndInv, Next, NEW k \in Keys, tokens[k] # NoUser, cmd.quiet PROVE TokenKept(k)
  <2>1. /\ cmd \in Commands /\ cmd.reg \in Registries /\ cmd.key \in Keys \cup {NoKey}
        /\ cmd.policy \in Policies /\ tokens \in [Keys -> Users \cup {NoUser}]
    BY <1>1, CommandFields DEF IndInv, TypeOK
  <2>2. CASE UNCHANGED <<registry, tokens>>
    BY <2>2 DEF TokenKept, load, Listed
  \* A step that writes one token leaves the others, and the list but for the default's.
  <2>3. ASSUME NEW key \in Keys, UNCHANGED registry, \A j \in Keys \ {key} : tokens'[j] = tokens[j],
               source.key = key \/ (cmd.key = key /\ cmd.op \in {"login", "run", "logout"})
        PROVE  TokenKept(k)
    <3>1. CASE k = key
      BY <2>3, <3>1 DEF TokenKept
    <3>2. CASE k # key
      BY <2>3, <3>2, <1>1, ListedNow, ListedNext DEF TokenKept
    <3>3. QED
      BY <3>1, <3>2
  <2>4. CASE Token \/ RemoveToken
    <3>1. cmd.key \in Keys /\ cmd.op \in {"login", "run", "logout"}
      BY <1>1, <2>4 DEF Token, RemoveToken, IndInv, PlaceInv
    <3>2. UNCHANGED registry /\ \A j \in Keys \ {cmd.key} : tokens'[j] = tokens[j]
      BY <2>1, <2>4, <3>1 DEF Token, RemoveToken, Written, WriteFailures
    <3>3. QED
      BY <2>3, <3>1, <3>2
  <2>5. CASE Refresh
    <3>1. source.key \in Keys
      BY <1>1, <2>5 DEF Refresh, IndInv, PlaceInv
    <3>2. UNCHANGED registry /\ \A j \in Keys \ {source.key} : tokens'[j] = tokens[j]
      BY <2>1, <2>5, <3>1 DEF Refresh, Written, WriteFailures
    <3>3. QED
      BY <2>3, <3>1, <3>2
  <2>6. CASE UpsertSave \/ UseSave
    <3>1. cmd.reg = load /\ UNCHANGED tokens /\ cmd.key \in Keys
      BY <1>1, <2>6 DEF UpsertSave, UseSave, IndInv, PlaceInv, SnapshotInv
    <3>2. UNCHANGED registry \/ (registry' # None /\ Names(cmd.reg) \subseteq Names(registry'))
      <4>1. CASE UpsertSave
        BY <2>1, <3>1, <4>1, UpsertedRegistry DEF UpsertSave
      <4>2. CASE UseSave
        <5>1. cmd.key \in Names(cmd.reg)
          BY <1>1, <4>2 DEF UseSave, IndInv, PlaceInv
        <5>2. QED
          BY <2>1, <4>2, <5>1, UsedRegistry DEF UseSave
      <4>3. QED
        BY <2>6, <4>1, <4>2
    <3>3. CASE registry' # None /\ Names(cmd.reg) \subseteq Names(registry')
      BY <3>1, <3>3, ListedNext DEF TokenKept, Listed
    <3>4. QED
      BY <2>2, <3>1, <3>2, <3>3
  <2>7. ASSUME cmd.op = "rename", cmd.pc \in {"move", "saveRename", "rollback"}
        PROVE  /\ cmd.key \in Names(cmd.reg) /\ cmd.new \in Keys \ Names(cmd.reg) /\ cmd.key \in Keys
               /\ cmd.key # cmd.new
               /\ registry = cmd.reg \/ (registry = None /\ cmd.reg = Legacy /\ cmd.key = DefaultKey)
               /\ cmd.pc = "move" => tokens[cmd.new] = NoUser
               /\ cmd.pc \in {"saveRename", "rollback"} => tokens[cmd.key] = NoUser
    BY <1>1, <2>1, <2>7, CommandFields, LegacyRegistry DEF IndInv, PlaceInv, SnapshotInv,
       MoveInv
  <2>8. CASE RenameMove
    <3>1. cmd.op = "rename" /\ cmd.pc = "move"
      BY <1>1, <2>8 DEF RenameMove, IndInv, PlaceInv
    <3>2. CASE tokens' = Moved(cmd.key, cmd.new)
      <4>1. CASE k = cmd.key
        BY <2>1, <2>7, <3>1, <3>2, <4>1 DEF TokenKept, Moved
      <4>2. CASE k # cmd.key
        <5>1. k # cmd.new /\ tokens'[k] = tokens[k]
          BY <1>1, <2>1, <2>7, <3>1, <3>2, <4>2 DEF Moved
        <5>2. k \in Listed => k \in Listed'
          BY <2>7, <2>8, <3>1, <4>2, ListedNow, ListedNext, LegacyRegistry,
             NoRegistry DEF RenameMove
        <5>3. QED
          BY <5>1, <5>2 DEF TokenKept
      <4>3. QED
        BY <4>1, <4>2
    <3>3. QED
      BY <2>2, <2>8, <3>2 DEF RenameMove
  <2>9. CASE RenameSave
    <3>1. cmd.op = "rename" /\ cmd.pc = "saveRename" /\ UNCHANGED tokens
      BY <1>1, <2>9 DEF RenameSave, IndInv, PlaceInv
    <3>2. CASE registry' = Renamed(cmd.reg, cmd.key, cmd.new)
      <4>1. registry' # None /\ Names(registry') = (Names(cmd.reg) \ {cmd.key}) \cup {cmd.new}
        BY <2>1, <2>7, <3>1, <3>2, RenamedRegistry, RenamedNames
      <4>2. k # cmd.key
        BY <1>1, <2>7, <3>1
      <4>3. k \in Listed => k \in Listed'
        BY <2>7, <3>1, <4>1, <4>2, ListedNow, ListedNext, LegacyRegistry, NoRegistry
      <4>4. QED
        BY <3>1, <4>3 DEF TokenKept
    <3>3. QED
      BY <2>2, <2>9, <3>2 DEF RenameSave
  <2>10. CASE RenameRollback
    <3>1. cmd.op = "rename" /\ cmd.pc = "rollback" /\ UNCHANGED registry
      BY <1>1, <2>10 DEF RenameRollback, IndInv, PlaceInv
    <3>2. CASE tokens' = Moved(cmd.new, cmd.key)
      <4>1. CASE k = cmd.new
        BY <2>1, <2>7, <3>1, <3>2, <4>1 DEF TokenKept, Moved
      <4>2. CASE k # cmd.new
        <5>1. k # cmd.key /\ tokens'[k] = tokens[k]
          BY <1>1, <2>1, <2>7, <3>1, <3>2, <4>2 DEF Moved
        <5>2. k \in Listed => k \in Listed'
          BY <2>7, <3>1, <5>1, ListedNow, ListedNext, LegacyRegistry
        <5>3. QED
          BY <5>1, <5>2 DEF TokenKept
      <4>3. QED
        BY <4>1, <4>2
    <3>3. QED
      BY <2>2, <2>10, <3>2 DEF RenameRollback
  <2>11. CASE RemoveSave
    <3>1. /\ cmd.op = "logout" /\ UNCHANGED tokens /\ cmd.key \in Names(cmd.reg) /\ cmd.reg # None
          /\ registry = cmd.reg \/ (registry = None /\ cmd.reg = Legacy /\ cmd.key = DefaultKey)
      BY <1>1, <2>11, NoRegistry, LegacyRegistry DEF RemoveSave, IndInv, PlaceInv,
         SnapshotInv
    <3>2. CASE registry' = Removed(cmd.reg, cmd.key)
      <4>1. CASE k = cmd.key
        BY <3>1, <4>1 DEF TokenKept
      <4>2. CASE k # cmd.key
        <5>1. cmd.reg.def \in Names(cmd.reg)
          BY <1>1, <3>1 DEF IndInv, RegistryInv
        <5>2. /\ Names(registry') = Names(cmd.reg) \ {cmd.key}
              /\ registry' = None => Names(cmd.reg) = {cmd.key}
          BY <2>1, <3>1, <3>2, <5>1, RemovedRegistry
        <5>3. k \in Listed => k \in Listed'
          BY <3>1, <4>2, <5>2, ListedNow, ListedNext, LegacyRegistry
        <5>4. QED
          BY <3>1, <5>3 DEF TokenKept
      <4>3. QED
        BY <4>1, <4>2
    <3>3. QED
      BY <2>2, <2>11, <3>1, <3>2 DEF RemoveSave
  <2>12. QED
    BY <1>1, <2>2, <2>4, <2>5, <2>6, <2>8, <2>9, <2>10, <2>11
    DEF Next, Command, Login, RunFirst, UpsertLoad, Run, RunGolem, Stop, Use, Rename, RenameInspect,
        Logout, Killed
<1>2. IndInv /\ [Next]_vars => [\A k \in Keys : TokenKept(k)]_vars
  BY <1>1 DEF TokenKept
<1>3. QED
  BY <1>2, Invariance, PTL DEF Spec, TokensKept
=============================================================================
