---------------------------- MODULE LiveCapture -----------------------------
(***************************************************************************)
(* runProxy from the creation of the capture to the exit code, together    *)
(* with the two readers of the growing directory: the artifact reader of   *)
(* the same process, and a viewer that is either the one of                *)
(* run --web-viewer, whose verification runProxy does itself, or one of a  *)
(* separate view --live.                                                   *)
(***************************************************************************)
EXTENDS ArtifactFollower, LiveViewer

CONSTANTS
    Scopes  \* bounds of one behaviour: [faulty, asking, events]

ASSUME LiveAssumption ==
    /\ Scopes \subseteq [faulty : BOOLEAN, asking : SUBSET Requests, events : Nat]
    /\ Nobody \notin Requests

VARIABLES
    web,     \* whether --web-viewer is set
    server,  \* the viewer's LocalServer: "off", "up", "stopping", "down"
    mpc,     \* where runProxy is
    runErr,  \* runProxy's joined error is not nil
    code,    \* the exit code, or -1
    scope    \* the behaviour's bounds

bounds == <<faulty, scope>>
mainVars == <<web, server, mpc, runErr, code, bounds>>
vars == <<fileVars, followerVars, viewerVars, mainVars>>

Init ==
    /\ scope \in Scopes /\ faulty = scope.faulty
    /\ FilesInit /\ FollowerInit /\ ViewerInit
    /\ web = external
    /\ server = IF web THEN "off" ELSE "up"
    /\ mpc = "setup" /\ runErr = FALSE /\ code = 0 - 1

-----------------------------------------------------------------------------
(* The recorder, driven by the goroutines of Run until Close seals it.     *)

Recording == mpc \in {"setup", "running", "close", "abandon"}

RecorderStep ==
    /\ Recording
    /\ \/ lines < scope.events /\ (PartOfLine \/ WholeLine \/ BreakUncounted)
       \/ Break
    /\ UNCHANGED <<followerVars, viewerVars, mainVars>>

-----------------------------------------------------------------------------
(* runProxy.                                                               *)

(***************************************************************************)
(* OpenLive, StartLocal, proxy.New or artifacts.Start fails: the recorder  *)
(* is closed and runProxy returns, through the deferred Close of a viewer  *)
(* that was started.                                                       *)
(***************************************************************************)
SetupFails ==
    /\ mpc = "setup" /\ mpc' = "abandon" /\ runErr' = TRUE
    /\ server' \in IF web THEN {"off", "up"} ELSE {server}
    /\ UNCHANGED <<fileVars, followerVars, viewerVars, web, code, bounds>>

Launch ==
    /\ mpc = "setup" /\ mpc' = "running"
    /\ Start
    /\ server' = "up"
    /\ UNCHANGED <<fileVars, viewerVars, web, runErr, code, bounds>>

\* Run or RunPacksOnly returns, and target.Close.
RunReturns ==
    /\ mpc = "running" /\ mpc' = "close" /\ runErr' \in BOOLEAN
    /\ UNCHANGED <<fileVars, followerVars, viewerVars, web, server, code, bounds>>

\* recorder.Close waits for the writer and seals.
CloseRecorder ==
    /\ mpc \in {"close", "abandon"}
    /\ mpc' = IF mpc = "close" THEN "publish" ELSE "publishAbandoned"
    /\ Seal
    /\ UNCHANGED <<followerVars, viewerVars, web, server, runErr, code, bounds>>

AfterClose == IF mpc = "publish" THEN "finish" ELSE "exit"

(***************************************************************************)
(* Close returns the errors of the last Sync, of closing the stream and of *)
(* the manifest, but not the failure of the writer while it was drained.   *)
(***************************************************************************)
PublishManifest ==
    /\ mpc \in {"publish", "publishAbandoned"}
    /\ Publish /\ disk'.status = IF runErr \/ broken THEN "failed" ELSE "closed"
    /\ runErr' \in {runErr, TRUE} /\ mpc' = AfterClose
    /\ UNCHANGED <<followerVars, viewerVars, web, server, code, bounds>>

(***************************************************************************)
(* The first rename fails and the old manifest is removed; a reader of the *)
(* directory finds none before the second attempt has succeeded or failed. *)
(***************************************************************************)
RemoveOldManifest ==
    /\ mpc \in {"publish", "publishAbandoned"}
    /\ RemoveManifest
    /\ UNCHANGED <<followerVars, viewerVars, mainVars>>

\* The new manifest cannot be written, or not be renamed a second time.
PublishFails ==
    /\ mpc \in {"publish", "publishAbandoned"}
    /\ runErr' = TRUE /\ mpc' = AfterClose
    /\ UNCHANGED <<fileVars, followerVars, viewerVars, web, server, code, bounds>>

FinishViews ==
    /\ mpc = "finish" /\ mpc' = "join"
    /\ Finish
    /\ UNCHANGED <<fileVars, viewerVars, web, server, runErr, code, bounds>>

\* Faulty variant: the artifact reader's error is not joined.
ViewsFinishedQuietly ==
    /\ mpc = "join" /\ fpc = "done" /\ mpc' = "begin"
    /\ UNCHANGED <<fileVars, followerVars, viewerVars, web, server, runErr, code, bounds>>

ViewsFinished ==
    /\ mpc = "join" /\ fpc = "done" /\ mpc' = "begin"
    /\ runErr' = (runErr \/ followErr)
    /\ UNCHANGED <<fileVars, followerVars, viewerVars, web, server, code, bounds>>

BeginVerify ==
    /\ mpc = "begin" /\ mpc' = "verify"
    /\ IF web THEN BeginVerification ELSE UNCHANGED viewerVars
    /\ UNCHANGED <<fileVars, followerVars, web, server, runErr, code, bounds>>

VerifyProgress ==
    /\ mpc = "verify" /\ web /\ UpdateVerificationProgress
    /\ UNCHANGED <<fileVars, followerVars, mainVars>>

CompleteVerify ==
    /\ mpc = "verify" /\ mpc' = "exit"
    /\ IF web THEN CompleteVerification ELSE UNCHANGED viewerVars
    /\ runErr' = (runErr \/ VerifyFails \/ VerifyIssues)
    /\ UNCHANGED <<fileVars, followerVars, web, server, code, bounds>>

\* The return value, which is 2 when proxy.New refuses its options; then the deferred LocalServer.Close.
Return ==
    /\ mpc = "exit"
    /\ code' \in IF ~runErr THEN {0} ELSE IF fpc = "absent" THEN {1, 2} ELSE {1}
    /\ mpc' = IF web /\ server = "up" THEN "shutdown" ELSE "exited"
    /\ server' = IF web /\ server = "up" THEN "stopping" ELSE server
    /\ UNCHANGED <<fileVars, followerVars, viewerVars, web, runErr, bounds>>

\* Faulty variant: Close has no deadline.
ShutdownWhenIdle ==
    /\ server = "stopping" /\ \A q \in Requests : hpc[q] = "idle"
    /\ server' = "down" /\ mpc' = IF web THEN "exited" ELSE mpc
    /\ UNCHANGED <<fileVars, followerVars, viewerVars, web, runErr, code, bounds>>

(***************************************************************************)
(* LocalServer.Close: Shutdown waits for the requests in progress, at most *)
(* five seconds, and the process ends with those that are left.            *)
(***************************************************************************)
Shutdown ==
    /\ server = "stopping"
    /\ server' = "down" /\ mpc' = IF web THEN "exited" ELSE mpc
    /\ UNCHANGED <<fileVars, followerVars, viewerVars, web, runErr, code, bounds>>

\* An interrupt of view --live.
StopView ==
    /\ ~web /\ server = "up" /\ server' = "stopping"
    /\ UNCHANGED <<fileVars, followerVars, viewerVars, web, mpc, runErr, code, bounds>>

-----------------------------------------------------------------------------
Follow == FollowerStep /\ UNCHANGED <<fileVars, viewerVars, mainVars>>

Request(q) ==
    /\ Arrive(q) /\ q \in scope.asking /\ server = "up"
    /\ UNCHANGED <<fileVars, followerVars, mainVars>>

Serve(q) ==
    /\ ServeStep(q) /\ server \in {"up", "stopping"}
    /\ UNCHANGED <<fileVars, followerVars, mainVars>>

MainStep ==
    \/ CloseRecorder \/ RemoveOldManifest \/ PublishManifest \/ PublishFails
    \/ FinishViews \/ ViewsFinished
    \/ BeginVerify \/ CompleteVerify \/ Return \/ Shutdown

Next ==
    \/ RecorderStep \/ SetupFails \/ Launch \/ RunReturns \/ MainStep \/ VerifyProgress \/ StopView
    \/ Follow
    \/ \E q \in Requests : Request(q) \/ Serve(q)

Spec == Init /\ [][Next]_vars

(***************************************************************************)
(* runProxy and the artifact reader go on, the writer finishes a line or   *)
(* fails in it, and a handler leaves v.mu: its critical sections read      *)
(* local files only.  The ticker cannot win against the closed finish      *)
(* channel forever: select chooses between ready channels at random.       *)
(***************************************************************************)
FairSpec ==
    /\ Spec /\ WF_vars(MainStep) /\ WF_vars(RecorderStep /\ torn) /\ WF_vars(Follow) /\ SF_vars(Wait /\ finished' /\ Follow)
    /\ SF_vars(BeginVerify) /\ SF_vars(CompleteVerify)
    /\ \A q \in Requests : WF_vars(Serve(q) /\ vmu = q)

-----------------------------------------------------------------------------
FilesTypeOK ==
    /\ lines \in 0..scope.events /\ counted \in 0..lines /\ disk \in ManifestFiles
    /\ torn \in BOOLEAN /\ broken \in BOOLEAN /\ sealed \in BOOLEAN

MainTypeOK ==
    /\ scope \in Scopes /\ web \in BOOLEAN /\ runErr \in BOOLEAN
    /\ mpc \in {"setup", "abandon", "running", "close", "publish", "publishAbandoned", "finish", "join",
                "begin", "verify", "exit", "shutdown", "exited"}
    /\ server \in {"off", "up", "stopping", "down"}
    /\ code \in {0 - 1, 0, 1, 2}

TypeOK == FilesTypeOK /\ FollowerTypeOK /\ ViewerTypeOK /\ MainTypeOK

(***************************************************************************)
(* docs/session-artifacts.md: "complete means the view reader reached the  *)
(* closed capture without a derivation error".  A status file that says so *)
(* stands beside a closed manifest that counts every line, all of them     *)
(* read and every derived line written; and a run in which nothing failed  *)
(* ends with such a status, whenever the reader learns of the end.         *)
(***************************************************************************)
StatusExact ==
    /\ statusFile \in {"complete", "complete_with_errors"} =>
         /\ disk.status \notin {"open", "none"} /\ disk.events = lines /\ seen = lines /\ ~torn
         /\ ~buffered
         /\ statusFile = "complete" <=> errors = 0
    /\ fpc = "done" /\ ~trouble /\ ~broken /\ disk.status \notin {"open", "none"} =>
         statusFile \in {"complete", "complete_with_errors"}

(***************************************************************************)
(* FIX-0163: the viewer never reports a verified capture while events of   *)
(* it are missing from its index, whoever verifies and however the last    *)
(* poll, the last lines and the closing manifest interleave.               *)
(***************************************************************************)
VerifiedShowsAll ==
    vmu = Nobody /\ Verdict = "verified" =>
        shown = disk /\ shown.events = rows /\ rows = lines /\ ~torn

(***************************************************************************)
(* The viewer's verdict is final: once a poll could see "verified" or      *)
(* "failed", on which the page stops polling, no later step takes it back. *)
(***************************************************************************)
VerdictStays == [][(Verdict \in {"verified", "failed"}) => UNCHANGED Verdict]_vars

(***************************************************************************)
(* Exit code 0 of run means that the whole evidence is there: a manifest   *)
(* that counts every line, and artifact folders that are complete and say  *)
(* so.  The manifest says closed, unless the writer failed while Close     *)
(* drained it and left no trace in the stream.                             *)
(***************************************************************************)
ExitZeroMeansWhole ==
    code = 0 =>
        /\ disk = [status |-> IF broken THEN "failed" ELSE "closed", events |-> lines] /\ ~torn
        /\ statusFile = "complete" /\ seen = lines /\ ~buffered

\* The rows that match a filter, in their order.
KeepMatch(all, i, match) == IF i \in match THEN Append(all, i) ELSE all
Matching(match) == FoldLeft(LAMBDA all, i : KeepMatch(all, i, match), << >>, Rows)

Least(a, b) == IF a < b THEN a ELSE b

(***************************************************************************)
(* The pages of serveEvents, for every filter: a tail page is the last     *)
(* limit matches and its offset is where they start; a page at an offset   *)
(* is the matches from there.                                              *)
(***************************************************************************)
PagesExact ==
    \A match \in SUBSET (1..scope.events), limit \in 1..scope.events :
        LET all == Matching(match)
            n == Least(limit, Len(all))
        IN  /\ TailPage(match, limit) =
                 [page |-> SubSeq(all, Len(all) - n + 1, Len(all)), total |-> Len(all), offset |-> Len(all) - n]
            /\ \A offset \in 0..rows :
                 OffsetPage(match, offset, limit) =
                   [page |-> SubSeq(all, offset + 1, Least(offset + limit, Len(all))),
                    total |-> Len(all), offset |-> offset]

(***************************************************************************)
(* Once Run has returned the process ends: the writer is drained, the      *)
(* artifact reader stops at the end of a stream that grew until then, and  *)
(* neither a viewer request nor the server's shutdown holds it.            *)
(***************************************************************************)
SessionEnds == mpc = "close" ~> mpc = "exited"
-----------------------------------------------------------------------------
(* The inductive invariant behind the theorems of LiveCaptureProofs.       *)

HasManifest == disk.status \in {"closed", "failed"}

\* The recorder is sealed when Close has drained it; later nothing grows.
FilesInv ==
    /\ sealed <=> ~Recording
    /\ sealed /\ torn => broken
    /\ counted = lines \/ (broken /\ ~torn /\ lines = counted + 1)
    /\ ~sealed => disk.status = "open"
    /\ mpc \in {"publish", "publishAbandoned"} => ~HasManifest
    /\ HasManifest => disk.events = counted

\* What runProxy knows when it has no error to return.
MainInv ==
    /\ mpc \in {"setup", "abandon", "publishAbandoned"} => fpc = "absent"
    /\ mpc \in {"running", "close", "publish", "finish", "join"} => fpc # "absent"
    /\ mpc \in {"begin", "verify"} => fpc = "done"
    /\ mpc \in {"abandon", "publishAbandoned"} => runErr
    /\ mpc \in {"finish", "join", "begin", "verify", "exit", "shutdown", "exited"} /\ ~runErr =>
         disk.status = IF broken THEN "failed" ELSE "closed"
    /\ mpc \in {"begin", "verify"} /\ ~runErr => ~followErr
    /\ mpc \in {"exit", "shutdown", "exited"} /\ ~runErr =>
         fpc = "done" /\ ~followErr /\ ~VerifyFails /\ ~VerifyIssues
    /\ code = 0 => mpc \in {"shutdown", "exited"} /\ ~runErr
    /\ web <=> external
    /\ server = "stopping" /\ web => mpc = "shutdown"

\* The reader has read the whole of a capture that its manifest closes.
ReadAll ==
    finish /\ ~torn /\ HasManifest /\ disk.events = lines /\ seen = lines /\ ~buffered

\* The capture ended in a way that the reader cannot call complete.
EndedBadly == finish /\ (broken \/ ~HasManifest)

FollowInv ==
    /\ finish <=> mpc \in {"join", "begin", "verify", "exit", "shutdown", "exited"} /\ fpc # "absent"
    /\ finished => finish
    /\ fpc = "absent" => statusFile = "none" /\ ~finished
    /\ fpc \in {"absent", "read", "wait"} => ~followErr /\ ~trouble
    /\ fpc \in {"absent", "read", "wait", "closing"} => state = "open"
    /\ fpc \in {"read", "wait", "closing", "status"} => statusFile = "open"
    /\ fpc = "closing" =>
         /\ ~followErr => ReadAll
         /\ followErr /\ ~trouble => EndedBadly
    /\ fpc \in {"status", "done"} =>
         /\ state # "open" /\ (followErr <=> state # "complete")
         /\ state # "failed" => ReadAll /\ (state = "complete" <=> errors = 0)
         /\ state = "failed" /\ ~trouble => EndedBadly
    /\ fpc = "done" => statusFile = state \/ (trouble /\ state = "failed" /\ statusFile = "open")

\* Who may verify, and what holds from then on.
VerifyInv ==
    /\ done => ~tailing /\ IF web THEN mpc \in {"exit", "shutdown", "exited"} ELSE HasManifest
    /\ \A q \in Requests :
         /\ hpc[q] \in {"manifest", "final"} => tailing
         /\ hpc[q] = "final" => ~external /\ HasManifest
    /\ Verdict = "verified" => shown = disk /\ disk.events = rows /\ rows = lines /\ ~torn

IndInv == TypeOK /\ FilesInv /\ MainInv /\ FollowInv /\ VerifyInv
=============================================================================
