---------------------------- MODULE CaptureFiles ----------------------------
(***************************************************************************)
(* A capture directory while it grows, as its readers see it: the part of  *)
(* the recorder that the viewer and the artifact reader depend on.  They   *)
(* share no lock with the recorder, so every state here is one that a read *)
(* can meet.  CaptureRecorder is shown to implement FilesSpec.             *)
(***************************************************************************)
EXTENDS Naturals

VARIABLES
    lines,    \* complete lines of events.jsonl; line i carries sequence i
    torn,     \* bytes of an incomplete line follow them
    counted,  \* Manifest.Counts.Events, in the recorder's memory
    broken,   \* the recorder has failed
    sealed,   \* Recorder.closed
    disk      \* manifest.json

fileVars == <<lines, torn, counted, broken, sealed, disk>>

NoManifest == [status |-> "none", events |-> 0]

ManifestFiles == [status : {"open", "closed", "failed"}, events : Nat] \cup {NoManifest}

FilesInit ==
    /\ lines = 0 /\ torn = FALSE /\ counted = 0 /\ broken = FALSE /\ sealed = FALSE
    /\ disk = [status |-> "open", events |-> 0]

(***************************************************************************)
(* appendEventLocked: some bytes of a line, then the whole of it.          *)
(***************************************************************************)
PartOfLine ==
    /\ ~broken /\ ~sealed /\ ~torn
    /\ torn' = TRUE
    /\ UNCHANGED <<lines, counted, broken, sealed, disk>>

WholeLine ==
    /\ ~broken /\ ~sealed
    /\ lines' = lines + 1 /\ counted' = counted + 1 /\ torn' = FALSE
    /\ UNCHANGED <<broken, sealed, disk>>

(***************************************************************************)
(* A write fails inside a line, or before it, and what was written stays.  *)
(***************************************************************************)
Break ==
    /\ ~broken /\ ~sealed
    /\ broken' = TRUE /\ torn' \in {torn, TRUE}
    /\ UNCHANGED <<lines, counted, sealed, disk>>

\* The Sync of a complete line fails: the line is there and is not counted.
BreakUncounted ==
    /\ ~broken /\ ~sealed
    /\ broken' = TRUE /\ lines' = lines + 1 /\ torn' = FALSE
    /\ UNCHANGED <<counted, sealed, disk>>

(***************************************************************************)
(* Close: the writer is done with its last line, so that a torn one is a   *)
(* failure's; nothing is appended any more, then the manifest is replaced. *)
(***************************************************************************)
Seal ==
    /\ ~sealed /\ (torn => broken) /\ sealed' = TRUE
    /\ UNCHANGED <<lines, torn, counted, broken, disk>>

Publish ==
    /\ sealed /\ disk.status \in {"open", "none"}
    /\ \E status \in {"closed", "failed"} :
         /\ broken => status = "failed"
         /\ disk' = [status |-> status, events |-> counted]
    /\ UNCHANGED <<lines, torn, counted, broken, sealed>>

\* The first rename fails and writeManifestLocked removes the old manifest.
RemoveManifest ==
    /\ sealed /\ disk.status = "open"
    /\ disk' = NoManifest
    /\ UNCHANGED <<lines, torn, counted, broken, sealed>>

FilesNext ==
    PartOfLine \/ WholeLine \/ Break \/ BreakUncounted \/ Seal \/ Publish \/ RemoveManifest

FilesSpec == FilesInit /\ [][FilesNext]_fileVars
=============================================================================
