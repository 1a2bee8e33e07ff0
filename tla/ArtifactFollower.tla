-------------------------- MODULE ArtifactFollower --------------------------
(***************************************************************************)
(* The reader of internal/artifacts/live.go, which follows a growing       *)
(* capture and derives files from it.  One goroutine; its caller only      *)
(* closes the finish channel and waits for done.                           *)
(*                                                                         *)
(* An event is "other", "observed" (a line is copied to an observation     *)
(* file) or "derived" (an archive or a skin: files are published and a     *)
(* line is added to an index).  Which one it is matters to this reader     *)
(* only, so it is chosen when the line is read.                            *)
(***************************************************************************)
EXTENDS CaptureFiles

CONSTANTS
    Contents      \* what derived files can hold; equal contents have equal paths

VARIABLES
    faulty,       \* whether writing under artifacts/ may fail in this behaviour
    fpc,          \* where the goroutine is
    seen,         \* Status.LastSequence
    finish,       \* whether the finish channel is closed
    finished,     \* follow's local: the finish channel was seen closed
    buffered,     \* lines of the output streams are still in a buffer
    published,    \* derived files under their final name
    leftover,     \* temporary names that could not be removed
    errors,       \* Status.Errors
    followErr,    \* Live.err is not nil
    notice,       \* what became of Live.notify: "none", "recorded", "refused"
    state,        \* Status.State
    statusFile,   \* the State in artifacts/status.json
    trouble       \* history: an output failed or a line was too long

followerVars == <<fpc, seen, finish, finished, buffered, published, leftover,
                  errors, followErr, notice, state, statusFile, trouble>>

FollowerInit ==
    /\ fpc = "absent" /\ seen = 0 /\ finish = FALSE /\ finished = FALSE
    /\ buffered = FALSE /\ published = {} /\ leftover = {}
    /\ errors = 0 /\ followErr = FALSE /\ notice = "none"
    /\ state = "open" /\ statusFile = "none" /\ trouble = FALSE

FollowerTypeOK ==
    /\ fpc \in {"absent", "read", "wait", "closing", "status", "done"}
    /\ seen \in 0..lines /\ errors \in 0..seen
    /\ faulty \in BOOLEAN /\ finish \in BOOLEAN /\ finished \in BOOLEAN
    /\ buffered \in BOOLEAN /\ followErr \in BOOLEAN /\ trouble \in BOOLEAN
    /\ notice \in {"none", "recorded", "refused"}
    /\ published \subseteq Contents /\ leftover \subseteq Contents
    /\ state \in {"open", "complete", "complete_with_errors", "failed"}
    /\ statusFile \in {"none", "open", "complete", "complete_with_errors", "failed"}

(***************************************************************************)
(* Start: the directory and the first status file, then the goroutine.     *)
(* It refuses a capture that is not open.                                  *)
(***************************************************************************)
Start ==
    /\ fpc = "absent" /\ disk.status = "open"
    /\ fpc' = "read" /\ statusFile' = "open"
    /\ UNCHANGED <<seen, finish, finished, buffered, published, leftover,
                   errors, followErr, notice, state, trouble>>

Finish ==
    /\ finish' = TRUE
    /\ UNCHANGED <<fpc, seen, finished, buffered, published, leftover,
                   errors, followErr, notice, state, statusFile, trouble>>

(***************************************************************************)
(* warn: the notification runs once, and its AddLimitation is refused by a *)
(* recorder that is closed.                                                *)
(***************************************************************************)
warn ==
    notice' = IF notice # "none" THEN notice ELSE IF sealed THEN "refused" ELSE "recorded"

NoWarning == UNCHANGED notice

\* An output stream fails; follow ends, run closes the files.
Fatal ==
    /\ faulty /\ trouble' = TRUE
    /\ fpc' = "closing" /\ followErr' = TRUE

-----------------------------------------------------------------------------
(* follow and consume.                                                     *)

(***************************************************************************)
(* publish, for one content: an existing file is left alone, a temporary   *)
(* name that is taken is an error, a failed copy removes its temporary     *)
(* file if it can.  The file gets its name when it is whole.               *)
(***************************************************************************)
publish(c) ==
    \/ c \in published /\ UNCHANGED <<published, leftover>>
    \/ c \notin published \cup leftover /\ published' = published \cup {c} /\ UNCHANGED leftover

publishFails(c) ==
    /\ c \notin published
    /\ \/ c \in leftover /\ UNCHANGED leftover
       \/ faulty /\ leftover' \in {leftover, leftover \cup {c}}
    /\ UNCHANGED published

\* One line is read; the streams are also flushed when a second has passed.
ReadLine ==
    /\ fpc = "read" /\ seen < lines
    /\ seen' = seen + 1
    /\ UNCHANGED <<finish, finished, state, statusFile>>

Written(unwritten) == buffered' \in {unwritten, FALSE}

ConsumeOther ==
    /\ ReadLine /\ Written(buffered) /\ NoWarning
    /\ UNCHANGED <<fpc, published, leftover, errors, followErr, trouble>>

ConsumeObserved ==
    /\ ReadLine /\ NoWarning
    /\ \/ Written(TRUE) /\ UNCHANGED <<fpc, followErr, trouble>>
       \/ Fatal /\ UNCHANGED buffered
    /\ UNCHANGED <<published, leftover, errors>>

\* archive, packetSkins, loginSkin: published and indexed.
ConsumeDerived ==
    /\ ReadLine /\ NoWarning
    /\ \E c \in Contents : publish(c)
    /\ Written(TRUE)
    /\ UNCHANGED <<fpc, errors, followErr, trouble>>

\* The derivation fails: counted, reported once, a line in errors.jsonl.
ConsumeFailed ==
    /\ ReadLine
    /\ \/ \E c \in Contents : publishFails(c)
       \/ UNCHANGED <<published, leftover>>
    /\ errors' = errors + 1 /\ warn
    /\ \/ Written(TRUE) /\ UNCHANGED <<fpc, followErr, trouble>>
       \/ Fatal /\ UNCHANGED buffered

\* A line longer than maxEventBytes, seen before it is complete or when it is.
Oversized ==
    /\ fpc = "read" /\ (seen < lines \/ torn)
    /\ fpc' = "closing" /\ followErr' = TRUE /\ trouble' = TRUE
    /\ UNCHANGED <<seen, finish, finished, buffered, published, leftover,
                   errors, notice, state, statusFile>>

\* A Flush fails, after a second or at the end of the file.
FlushFails ==
    /\ fpc = "read" /\ buffered /\ Fatal
    /\ UNCHANGED <<seen, finish, finished, buffered, published, leftover,
                   errors, notice, state, statusFile>>

(***************************************************************************)
(* The end of the file before the finish channel was seen closed: the      *)
(* incomplete line is kept, the streams are flushed, follow waits.         *)
(***************************************************************************)
AtEnd == fpc = "read" /\ seen = lines

ReadEnd ==
    /\ AtEnd /\ ~finished
    /\ buffered' = FALSE /\ fpc' = "wait"
    /\ UNCHANGED <<seen, finish, finished, published, leftover,
                   errors, followErr, notice, state, statusFile, trouble>>

\* The ticker, or the finish channel; both read the file again.
Wait ==
    /\ fpc = "wait" /\ fpc' = "read"
    /\ finished' \in (IF finish THEN BOOLEAN ELSE {FALSE})
    /\ UNCHANGED <<seen, finish, buffered, published, leftover,
                   errors, followErr, notice, state, statusFile, trouble>>

\* Faulty variant: the closed manifest's count is not compared.
MatchesUncounted == ~torn /\ disk.status \notin {"open", "none"}

(***************************************************************************)
(* The end of the file after the finish channel was seen closed: no        *)
(* incomplete line, and the closed manifest counts what was read.          *)
(***************************************************************************)
Matches == ~torn /\ disk.status \notin {"open", "none"} /\ disk.events = seen

ReadLast ==
    /\ AtEnd /\ finished
    /\ buffered' = FALSE /\ fpc' = "closing"
    /\ followErr' = ~Matches
    /\ UNCHANGED <<seen, finish, finished, published, leftover,
                   errors, notice, state, statusFile, trouble>>

-----------------------------------------------------------------------------
(* run, after follow has returned.                                         *)

FinalState(failed) ==
    CASE failed                 -> "failed"
      [] ~failed /\ errors # 0  -> "complete_with_errors"
      [] OTHER                  -> "complete"

\* The streams are flushed and closed; a failure joins the error.
CloseStreams ==
    /\ fpc = "closing"
    /\ \E ok \in IF faulty THEN BOOLEAN ELSE {TRUE} :
         LET failed == followErr \/ ~ok
         IN  /\ state' = FinalState(failed)
             /\ followErr' = (state' # "complete")
             /\ buffered' = IF ok THEN FALSE ELSE buffered
             /\ trouble' = (trouble \/ ~ok)
             /\ IF failed THEN warn ELSE NoWarning
    /\ fpc' = "status"
    /\ UNCHANGED <<seen, finish, finished, published, leftover, errors, statusFile>>

\* writeStatus, through a temporary file; then done is closed.
WriteStatus ==
    /\ fpc = "status" /\ fpc' = "done"
    /\ \/ statusFile' = state /\ NoWarning /\ UNCHANGED <<followErr, state, trouble>>
       \/ /\ faulty /\ state' = "failed" /\ followErr' = TRUE /\ trouble' = TRUE /\ warn
          /\ UNCHANGED statusFile
    /\ UNCHANGED <<seen, finish, finished, buffered, published, leftover, errors>>

FollowerStep ==
    \/ ConsumeOther \/ ConsumeObserved \/ ConsumeDerived \/ ConsumeFailed \/ Oversized
    \/ FlushFails \/ ReadEnd \/ Wait \/ ReadLast \/ CloseStreams \/ WriteStatus
=============================================================================
