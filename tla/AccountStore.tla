---------------------------- MODULE AccountStore ----------------------------
(***************************************************************************)
(* The accounts of the command line: the registry accounts.json, one token *)
(* file per account (auth-token.json for the account "default"), and the   *)
(* commands login, logout, use, rename, run and golem network, each a      *)
(* process of its own that loads the registry, changes files one at a time *)
(* and may be killed or fail between any two of them.  One command runs at *)
(* a time; next to it a proxy or a bot keeps its token source and rewrites *)
(* the file whenever it refreshes.                                         *)
(*                                                                         *)
(* A key is a canonical account name; its order is the order of the names. *)
(* A token is the Microsoft user it belongs to.                            *)
(***************************************************************************)
EXTENDS Integers, FiniteSets

CONSTANTS
    Keys,        \* canonical account names, ordered as numbers
    DefaultKey,  \* defaultAccountName
    Users,       \* Microsoft users
    Policies     \* local cache ages; 0 is no limit

ASSUME StoreAssumption ==
    /\ Keys \subseteq Nat \ {0} /\ DefaultKey \in Keys
    /\ 0 \in Policies /\ Policies \subseteq Nat

NoKey == 0
NoUser == 0
ASSUME UserAssumption == NoUser \notin Users

(* The registry: the policy of every account, and the default account. *)
Registries == [accounts : UNION {[S -> Policies] : S \in SUBSET Keys},
               def : Keys \cup {NoKey}]
None == [accounts |-> [k \in {} |-> 0], def |-> NoKey]

VARIABLES
    registry,  \* accounts.json; None when the file is not there
    tokens,    \* per account: the user of its token file, or NoUser
    cmd,       \* the command: where it is, and its locals
    source,    \* the token source of a running proxy or bot
    named      \* history: "default" was there at first, or the operator typed it

vars == <<registry, tokens, cmd, source, named>>

(* quiet: no proxy has written a token since the command began. *)
Idle == [pc |-> "idle", op |-> "none", key |-> NoKey, new |-> NoKey,
         policy |-> 0, user |-> NoUser, reg |-> None, quiet |-> TRUE]
NoSource == [key |-> NoKey, user |-> NoUser]

Names(reg) == DOMAIN reg.accounts

Places == {"idle", "token", "upsert", "save", "inspect", "move", "saveRename", "rollback", "remove",
           "saveRemove"}
Operations == {"none", "killed", "login", "run", "use", "rename", "logout"}
Commands ==
    [pc : Places, op : Operations, key : Keys \cup {NoKey}, new : Keys \cup {NoKey},
     policy : Policies, user : Users \cup {NoUser}, reg : Registries, quiet : BOOLEAN]

TypeOK ==
    /\ registry \in Registries
    /\ tokens \in [Keys -> Users \cup {NoUser}]
    /\ cmd \in Commands
    /\ source \in [key : Keys \cup {NoKey}, user : Users \cup {NoUser}]
    /\ named \in BOOLEAN

(* A new installation, one from before the registry, or one with accounts. *)
Init ==
    /\ \/ registry = None /\ tokens = [k \in Keys |-> NoUser]
       \/ /\ registry = None
          /\ \E u \in Users : tokens = [k \in Keys |-> IF k = DefaultKey THEN u ELSE NoUser]
       \/ \E S \in SUBSET Keys : \E d \in S, f \in [S -> Users] :
             /\ registry = [accounts |-> [k \in S |-> 0], def |-> d]
             /\ tokens = [k \in Keys |-> IF k \in S THEN f[k] ELSE NoUser]
    /\ cmd = Idle
    /\ source = NoSource
    /\ named = (tokens[DefaultKey] # NoUser)

-----------------------------------------------------------------------------

(* Without a registry a legacy token is the default account. *)
Legacy == [accounts |-> [k \in {DefaultKey} |-> 0], def |-> DefaultKey]

load == IF registry = None /\ tokens[DefaultKey] # NoUser THEN Legacy ELSE registry

Listed == Names(load)

(* Default never fails: with no accounts it makes up the account "default". *)
Default == IF load.def = NoKey THEN DefaultKey ELSE load.def

Begin(op, pc, key) == [Idle EXCEPT !.op = op, !.pc = pc, !.key = key]
Goto(pc) == cmd' = [cmd EXCEPT !.pc = pc]
Return == cmd' = Idle

(* writeToken: a temporary file renamed over the old one.  If that fails, the
   old one is removed first, and the second rename may fail too. *)
Written(key, user) == [tokens EXCEPT ![key] = user]
WriteFailures(key) == {tokens, [tokens EXCEPT ![key] = NoUser]}

-----------------------------------------------------------------------------
(***************************************************************************)
(* login, and run on an installation with no account.                      *)
(***************************************************************************)

(* The operator types a name, or leaves it out where there is a default. *)
Login ==
    /\ cmd.pc = "idle"
    /\ \E policy \in Policies, key \in Keys :
          /\ cmd' = [Begin("login", "token", key) EXCEPT !.policy = policy]
          /\ \/ named' = (named \/ key = DefaultKey)
             \/ Listed # {} /\ key = Default /\ UNCHANGED named
    /\ UNCHANGED <<registry, tokens, source>>

RunFirst ==
    /\ cmd.pc = "idle" /\ source = NoSource /\ Listed = {}
    /\ \E key \in Keys : /\ cmd' = Begin("run", "token", key)
                         /\ named' = (named \/ key = DefaultKey)
    /\ UNCHANGED <<registry, tokens, source>>

(* Device authentication, as any user; the token is saved before the account. *)
Token ==
    /\ cmd.pc = "token"
    /\ \/ \E u \in Users : /\ tokens' = Written(cmd.key, u)
                           /\ cmd' = [cmd EXCEPT !.pc = "upsert", !.user = u]
       \/ tokens' \in WriteFailures(cmd.key) /\ Return
    /\ UNCHANGED <<registry, source, named>>

UpsertLoad ==
    /\ cmd.pc = "upsert"
    /\ cmd' = [cmd EXCEPT !.pc = "save", !.reg = load]
    /\ UNCHANGED <<registry, tokens, source, named>>

(* The first account becomes the default; an existing default stays. *)
Upserted(reg, key, policy) ==
    [accounts |-> [k \in Names(reg) \cup {key} |-> IF k = key THEN policy ELSE reg.accounts[k]],
     def |-> IF reg.def = NoKey THEN key ELSE reg.def]

(* A save that fails leaves accounts.json as it was; run then ends as well. *)
UpsertSave ==
    /\ cmd.pc = "save" /\ cmd.op \in {"login", "run"}
    /\ \/ /\ registry' = Upserted(cmd.reg, cmd.key, cmd.policy)
          /\ source' = IF cmd.op = "run" THEN [key |-> cmd.key, user |-> cmd.user] ELSE source
       \/ UNCHANGED <<registry, source>>
    /\ Return
    /\ UNCHANGED <<tokens, named>>

-----------------------------------------------------------------------------
(***************************************************************************)
(* A running proxy or bot.                                                 *)
(***************************************************************************)

(* run with an account: the cached token, or device authentication when there
   is none or the local cache age is reached. *)
Run ==
    /\ cmd.pc = "idle" /\ source = NoSource /\ Listed # {}
    /\ \/ source' = [key |-> Default, user |-> tokens[Default]]
       \/ load.accounts[Default] > 0 /\ source' = [key |-> Default, user |-> NoUser]
    /\ UNCHANGED <<registry, tokens, cmd, named>>

(* golem network asks for a name only if Default fails. *)
RunGolem ==
    /\ cmd.pc = "idle" /\ source = NoSource
    /\ source' = [key |-> Default, user |-> tokens[Default]]
    /\ UNCHANGED <<registry, tokens, cmd, named>>

(* Source.Token: a refresh for the same user, or device authentication. *)
Refresh ==
    /\ source # NoSource
    /\ \/ \E u \in Users : /\ tokens' = Written(source.key, u)
                           /\ source' = [source EXCEPT !.user = u]
       \/ tokens' \in WriteFailures(source.key) /\ UNCHANGED source
    /\ cmd' = [cmd EXCEPT !.quiet = (cmd.pc = "idle")]
    /\ UNCHANGED <<registry, named>>

Stop ==
    /\ source # NoSource
    /\ source' = NoSource
    /\ UNCHANGED <<registry, tokens, cmd, named>>

-----------------------------------------------------------------------------
(***************************************************************************)
(* use.                                                                    *)
(***************************************************************************)
Use ==
    /\ cmd.pc = "idle"
    /\ \E key \in Listed : cmd' = [Begin("use", "save", key) EXCEPT !.reg = load]
    /\ UNCHANGED <<registry, tokens, source, named>>

UseSave ==
    /\ cmd.pc = "save" /\ cmd.op = "use"
    /\ registry' \in {registry, [cmd.reg EXCEPT !.def = cmd.key]}
    /\ Return
    /\ UNCHANGED <<tokens, source, named>>

-----------------------------------------------------------------------------
(***************************************************************************)
(* rename: the token file moves first, and moves back if the registry      *)
(* cannot be saved.                                                        *)
(***************************************************************************)
Rename ==
    /\ cmd.pc = "idle"
    /\ \E old \in Listed, new \in Keys \ Listed :
          /\ cmd' = [Begin("rename", "inspect", old) EXCEPT !.new = new, !.reg = load]
          /\ named' = (named \/ new = DefaultKey)
    /\ UNCHANGED <<registry, tokens, source>>

\* Faulty variant: only the registry is asked whether the new name is free.
RenameInspectOld ==
    /\ cmd.pc = "inspect"
    /\ IF tokens[cmd.key] # NoUser
         THEN cmd' = [cmd EXCEPT !.pc = "move", !.user = tokens[cmd.key]]
         ELSE Return
    /\ UNCHANGED <<registry, tokens, source, named>>

(* The new name must have no token file, the old one must have one. *)
RenameInspect ==
    /\ cmd.pc = "inspect"
    /\ IF tokens[cmd.new] = NoUser /\ tokens[cmd.key] # NoUser
         THEN cmd' = [cmd EXCEPT !.pc = "move", !.user = tokens[cmd.key]]
         ELSE Return
    /\ UNCHANGED <<registry, tokens, source, named>>

Moved(from, to) == [tokens EXCEPT ![to] = tokens[from], ![from] = NoUser]

RenameMove ==
    /\ cmd.pc = "move"
    /\ \/ /\ tokens[cmd.key] # NoUser
          /\ tokens' = Moved(cmd.key, cmd.new)
          /\ Goto("saveRename")
       \/ UNCHANGED tokens /\ Return
    /\ UNCHANGED <<registry, source, named>>

Renamed(reg, old, new) ==
    [accounts |-> [k \in (Names(reg) \ {old}) \cup {new} |->
                     reg.accounts[IF k = new THEN old ELSE k]],
     def |-> IF reg.def = old THEN new ELSE reg.def]

\* Faulty variant: the token stays at the new path when the save fails.
RenameSaveOnly ==
    /\ cmd.pc = "saveRename"
    /\ registry' \in {registry, Renamed(cmd.reg, cmd.key, cmd.new)}
    /\ Return
    /\ UNCHANGED <<tokens, source, named>>

RenameSave ==
    /\ cmd.pc = "saveRename"
    /\ \/ registry' = Renamed(cmd.reg, cmd.key, cmd.new) /\ Return
       \/ UNCHANGED registry /\ Goto("rollback")
    /\ UNCHANGED <<tokens, source, named>>

(* The error of the way back is ignored. *)
RenameRollback ==
    /\ cmd.pc = "rollback"
    /\ \/ tokens[cmd.new] # NoUser /\ tokens' = Moved(cmd.new, cmd.key)
       \/ UNCHANGED tokens
    /\ Return
    /\ UNCHANGED <<registry, source, named>>

-----------------------------------------------------------------------------
(***************************************************************************)
(* logout: the token is removed first, then the account.                   *)
(***************************************************************************)
Logout ==
    /\ cmd.pc = "idle"
    /\ \E key \in Listed : cmd' = [Begin("logout", "remove", key) EXCEPT !.reg = load]
    /\ UNCHANGED <<registry, tokens, source, named>>

RemoveToken ==
    /\ cmd.pc = "remove"
    /\ \/ tokens' = Written(cmd.key, NoUser) /\ Goto("saveRemove")
       \/ UNCHANGED tokens /\ Return
    /\ UNCHANGED <<registry, source, named>>

First(S) == CHOOSE k \in S : \A j \in S : k <= j

\* Faulty variant: the first account becomes the default, whoever leaves.
RemovedFirst(reg, key) ==
    LET rest == Names(reg) \ {key}
    IN  IF rest = {} THEN None
        ELSE [accounts |-> [k \in rest |-> reg.accounts[k]], def |-> First(rest)]

(* The last account takes the file with it. *)
Removed(reg, key) ==
    LET rest == Names(reg) \ {key}
    IN  IF rest = {} THEN None
        ELSE [accounts |-> [k \in rest |-> reg.accounts[k]],
              def |-> IF reg.def = key THEN First(rest) ELSE reg.def]

RemoveSave ==
    /\ cmd.pc = "saveRemove"
    /\ registry' \in {registry, Removed(cmd.reg, cmd.key)}
    /\ Return
    /\ UNCHANGED <<tokens, source, named>>

-----------------------------------------------------------------------------

(* The process is killed between two of its steps. *)
Killed ==
    /\ cmd.pc # "idle"
    /\ cmd' = [Idle EXCEPT !.op = "killed"]
    /\ UNCHANGED <<registry, tokens, source, named>>

Command ==
    \/ Login \/ RunFirst \/ Token \/ UpsertLoad \/ UpsertSave
    \/ Run \/ RunGolem
    \/ Use \/ UseSave
    \/ Rename \/ RenameInspect \/ RenameMove \/ RenameSave \/ RenameRollback
    \/ Logout \/ RemoveToken \/ RemoveSave
    \/ Killed

Next == Command \/ Refresh \/ Stop

Spec == Init /\ [][Next]_vars

-----------------------------------------------------------------------------
(***************************************************************************)
(* Properties.                                                             *)
(***************************************************************************)

(***************************************************************************)
(* A token stays where it is, and in the list if it was listed, through    *)
(* every failure and kill, except by the command that names its account:   *)
(* logout removes it, login replaces it, rename moves it whole, over no    *)
(* other token, listed or not.  A running proxy writes its own account     *)
(* only (AccountStore, authcache.Source).                                  *)
(***************************************************************************)
TokenKept(k) ==
    (tokens[k] # NoUser /\ cmd.quiet) =>
       \/ tokens'[k] = tokens[k] /\ (k \in Listed => k \in Listed')
       \/ source.key = k
       \/ cmd.key = k /\ cmd.op \in {"login", "run", "logout"}
       \/ cmd.op = "rename" /\ \/ cmd.key = k /\ tokens'[cmd.new] = tokens[k]
                               \/ cmd.new = k /\ tokens'[cmd.key] = tokens[k]

TokensKept == [][\A k \in Keys : TokenKept(k)]_vars

(***************************************************************************)
(* A rename that returns has happened with all its parts - token, cache    *)
(* age and default - or not at all.  Only a kill, or a way back that fails *)
(* too, leaves the token at the new name of the old account                *)
(* (AccountStore.Rename).                                                  *)
(***************************************************************************)
RenameWhole ==
    (cmd.op = "rename" /\ cmd.quiet /\ cmd' = Idle) =>
       \/ /\ tokens'[cmd.new] = cmd.user /\ tokens'[cmd.key] = NoUser
          /\ Listed' = (Names(cmd.reg) \ {cmd.key}) \cup {cmd.new}
          /\ load'.accounts[cmd.new] = cmd.reg.accounts[cmd.key]
          /\ (Default' = cmd.new) <=> (cmd.reg.def = cmd.key)
       \/ /\ load' = cmd.reg
          /\ cmd.user # NoUser => tokens'[cmd.key] = cmd.user
       \/ cmd.pc = "rollback" /\ UNCHANGED tokens

RenameAtomic == [][RenameWhole]_vars

(***************************************************************************)
(* The account the next run will use is one that exists, and it changes    *)
(* only by use, by the first login, or by logging out or renaming that     *)
(* very account (AccountStore.load, Upsert, Use, Rename, Remove).          *)
(***************************************************************************)
DefaultKept ==
    (Default' # Default /\ cmd.quiet) =>
       \/ cmd.op = "use" /\ Default' = cmd.key
       \/ cmd.op \in {"login", "run"} /\ Listed \subseteq {cmd.key} /\ Default' = cmd.key
       \/ cmd.op \in {"rename", "logout"} /\ cmd.key = Default

DefaultStable ==
    /\ [](registry # None => registry.def \in Names(registry))
    /\ [][DefaultKept]_vars

(***************************************************************************)
(* docs/authentication.md: a new installation with no cache cannot create  *)
(* an unnamed default profile through an interactive first login           *)
(* (configureGolemNetworkAuth).                                            *)
(***************************************************************************)
FirstLoginNamed == DefaultKey \in Listed => named
-----------------------------------------------------------------------------
(* The inductive invariant behind the theorems of AccountStoreProofs.      *)

\* The default account exists, in the file and in a command's copy.
RegistryInv ==
    /\ registry # None => registry.def \in Names(registry)
    /\ cmd.reg # None => cmd.reg.def \in Names(cmd.reg)

\* Where each command can be, and the accounts its names stand for.
PlaceInv ==
    /\ cmd.pc = "idle" => cmd.op \in {"none", "killed"} /\ cmd.quiet
    /\ cmd.pc # "idle" => cmd.key \in Keys
    /\ cmd.pc \in {"token", "upsert"} => cmd.op \in {"login", "run"}
    /\ cmd.pc = "save" => cmd.op \in {"login", "run", "use"}
    /\ cmd.pc \in {"inspect", "move", "saveRename", "rollback"} => cmd.op = "rename"
    /\ cmd.pc \in {"remove", "saveRemove"} => cmd.op = "logout"
    /\ cmd.op \in {"use", "rename", "logout"} => cmd.key \in Names(cmd.reg)
    /\ cmd.op = "rename" => cmd.new \in Keys \ Names(cmd.reg)
    /\ source # NoSource => source.key \in Keys

\* A command's copy of the registry, from when it is loaded to when it is saved.
SnapshotInv ==
    /\ cmd.pc \notin {"idle", "token", "upsert"} =>
         registry = cmd.reg \/ (registry = None /\ cmd.reg = Legacy)
    /\ cmd.pc \in {"save", "inspect", "move", "remove"} /\ cmd.quiet => cmd.reg = load

\* Where the token of a rename is.
MoveInv ==
    /\ cmd.pc = "inspect" => cmd.user = NoUser
    /\ cmd.pc = "move" /\ cmd.quiet =>
         cmd.user # NoUser /\ tokens[cmd.key] = cmd.user /\ tokens[cmd.new] = NoUser
    /\ cmd.pc \in {"saveRename", "rollback"} /\ cmd.quiet =>
         cmd.user # NoUser /\ tokens[cmd.key] = NoUser /\ tokens[cmd.new] = cmd.user

IndInv == TypeOK /\ RegistryInv /\ PlaceInv /\ SnapshotInv /\ MoveInv
=============================================================================
