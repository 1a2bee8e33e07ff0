---------------------------- MODULE CaptureImage ----------------------------
(***************************************************************************)
(* Every small capture directory, sound or damaged, for the verifier of    *)
(* CaptureVerify: the files a disk, an editor or an interrupted copy may   *)
(* leave, grown line by line.  WellFormed says what a capture is without   *)
(* scanning it; the verifier must agree with it.                           *)
(***************************************************************************)
EXTENDS CaptureVerify, FiniteSetsExt

CONSTANTS
    Digests,   \* blob digests
    Sizes,     \* blob lengths, all below WordValues
    MaxLines   \* bound: lines of events.jsonl

ASSUME ImageAssumption == Sizes \subseteq 0..(WordValues - 1) /\ MaxLines \in Nat

VARIABLES
    lines, torn,   \* events.jsonl
    files,         \* the blobs
    drift          \* what is wrong with manifest.json, or "none"

vars == <<lines, torn, files, drift>>

Refs == [digest : Digests, size : Sizes, canonical : BOOLEAN]

Lines ==
    [seq : 1..MaxLines, schema : {TRUE}, capture : {TRUE}, ref : Refs \cup {NoRef}]
    \cup [seq : 1..MaxLines, schema : {FALSE}, capture : {TRUE}, ref : {NoRef}]
    \cup [seq : 1..MaxLines, schema : {TRUE}, capture : {FALSE}, ref : {NoRef}]

\* A blob's bytes: the right ones, or others (of any length).
Contents(d) == [size : Sizes, digest : {d}] \cup {[size |-> n, digest |-> "other"] : n \in Sizes}

Init ==
    /\ lines = << >> /\ torn = FALSE /\ drift = "none"
    /\ \E present \in SUBSET Digests :
         files \in {f \in [present -> UNION {Contents(d) : d \in Digests}] :
                       \A d \in present : f[d] \in Contents(d)}

WriteLine ==
    /\ Len(lines) < MaxLines /\ ~torn
    /\ \E line \in Lines : lines' = Append(lines, line)
    /\ UNCHANGED <<torn, files, drift>>

Tear == ~torn /\ torn' = TRUE /\ UNCHANGED <<lines, files, drift>>

\* A wrong header field, a counter that is off by one, or no manifest at all.
HeaderFields == {"schema", "eventsPath", "blobRoot"}
Counters     == {"events", "blobs", "blobBytes"}

Drift ==
    /\ drift = "none"
    /\ drift' \in HeaderFields \cup Counters \cup {"unreadable"}
    /\ UNCHANGED <<lines, torn, files>>

Next == WriteLine \/ Tear \/ Drift

Spec == Init /\ [][Next]_vars

-----------------------------------------------------------------------------
Referenced == {lines[i].ref : i \in DOMAIN lines} \ {NoRef}
Named      == {ref.digest : ref \in Referenced}

\* The bytes of each referenced blob that is stored, counted once.
TrueBytes == MapThenSumSet(LAMBDA d : files[d].size, Named \cap DOMAIN files)

Manifest ==
    [readable  |-> drift # "unreadable",
     header    |-> {drift} \cap HeaderFields,
     events    |-> Len(lines) + (IF drift = "events" THEN 1 ELSE 0),
     blobs     |-> Cardinality(Named) + (IF drift = "blobs" THEN 1 ELSE 0),
     blobBytes |-> TrueBytes + (IF drift = "blobBytes" THEN 1 ELSE 0)]

WellFormed ==
    /\ ~torn /\ drift = "none"
    /\ \A i \in DOMAIN lines : lines[i].seq = i /\ lines[i].schema /\ lines[i].capture
    /\ \A ref \in Referenced :
         /\ ref.canonical
         /\ ref.digest \in DOMAIN files
         /\ files[ref.digest] = [size |-> ref.size, digest |-> ref.digest]
    /\ TrueBytes < WordValues

Verified == VerifyWithProgress(lines, torn, files, Manifest) = [error |-> FALSE, issues |-> {}]

(***************************************************************************)
(* VerifyWithProgress passes exactly the sound captures.  A gap, a         *)
(* repeated number, a missing, resized or altered blob, an unreadable      *)
(* manifest or a wrong field or counter in it, a line that is unterminated *)
(* or does not decode and a byte total beyond uint64 are each reported,    *)
(* whatever else is wrong; shared blobs are counted once and empty blobs   *)
(* are no overflow.                                                        *)
(***************************************************************************)
PassesExactly == Verified <=> WellFormed
=============================================================================
