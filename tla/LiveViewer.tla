----------------------------- MODULE LiveViewer -----------------------------
(***************************************************************************)
(* The capture viewer of internal/viewer, opened on a capture that may     *)
(* still grow.  Its index is behind v.mu; a request first runs Refresh     *)
(* under the write lock and then reads under the read lock, and the        *)
(* recorder writes in between as it likes.                                 *)
(*                                                                         *)
(* The index is the number of rows: row i is line i, at the offset where   *)
(* line i starts.                                                          *)
(***************************************************************************)
EXTENDS CaptureFiles, Sequences, SequencesExt

CONSTANTS
    Requests,  \* the requests that can be served at a time
    Nobody

VARIABLES
    external,  \* Viewer.externalVerification
    tailing,   \* Viewer.tailing
    rows,      \* how many events are indexed
    shown,     \* Viewer.verification.Manifest
    issues,    \* Viewer.verification.Issues is not empty
    done,      \* Viewer.verificationDone
    failure,   \* Viewer.verificationError is not empty
    progress,  \* Viewer.verificationProgress is not nil
    vmu,       \* who holds v.mu over file reads
    hpc        \* where each request is

viewVars == <<external, tailing, rows, shown, issues, done, failure, progress>>
serveVars == <<vmu, hpc>>
viewerVars == <<viewVars, serveVars>>

ViewerInit ==
    /\ external \in BOOLEAN /\ tailing = TRUE /\ rows = 0
    /\ shown = [status |-> "open", events |-> 0]
    /\ issues = FALSE /\ done = FALSE /\ failure = FALSE /\ progress = FALSE
    /\ vmu = Nobody
    /\ hpc = [q \in Requests |-> "idle"]

ViewerTypeOK ==
    /\ external \in BOOLEAN /\ tailing \in BOOLEAN /\ issues \in BOOLEAN
    /\ done \in BOOLEAN /\ failure \in BOOLEAN /\ progress \in BOOLEAN
    /\ rows \in 0..lines /\ shown \in ManifestFiles \ {NoManifest}
    /\ vmu \in Requests \cup {Nobody}
    /\ hpc \in [Requests -> {"idle", "refresh", "manifest", "final", "respond"}]
    /\ \A q \in Requests : hpc[q] \in {"manifest", "final"} <=> vmu = q

-----------------------------------------------------------------------------
(* Verification, by this viewer or by the owner of the capture.            *)

(***************************************************************************)
(* What capture.Verify finds of a directory nobody writes any more: an     *)
(* error without a result, or a result with or without issues.             *)
(***************************************************************************)
VerifyFails  == torn \/ disk.status = "none"
VerifyIssues == disk.events # lines

BeginVerification ==
    /\ vmu = Nobody
    /\ external' = TRUE /\ done' = FALSE /\ failure' = FALSE /\ progress' = TRUE
    /\ UNCHANGED <<tailing, rows, shown, issues, serveVars>>

UpdateVerificationProgress ==
    /\ vmu = Nobody
    /\ progress' = TRUE
    /\ UNCHANGED <<external, tailing, rows, shown, issues, done, failure, serveVars>>

\* Faulty variant, the defect of FIX-0163: the last events are not indexed.
CompleteWithoutIndex ==
    /\ vmu = Nobody
    /\ shown' = IF VerifyFails THEN shown ELSE disk
    /\ issues' = (VerifyFails \/ VerifyIssues)
    /\ progress' = FALSE /\ done' = TRUE /\ tailing' = FALSE /\ failure' = VerifyFails
    /\ UNCHANGED <<external, rows, serveVars>>

\* A result that carries no manifest leaves the one shown last.
CompleteVerification ==
    /\ vmu = Nobody
    /\ shown' = IF VerifyFails THEN shown ELSE disk
    /\ rows' = lines
    /\ issues' = (VerifyFails \/ VerifyIssues)
    /\ progress' = FALSE /\ done' = TRUE /\ tailing' = FALSE /\ failure' = VerifyFails
    /\ UNCHANGED <<external, serveVars>>

-----------------------------------------------------------------------------
(* A request.                                                              *)

Goto(q, place) == hpc' = [hpc EXCEPT ![q] = place]

Arrive(q) ==
    /\ hpc[q] = "idle"
    /\ Goto(q, "refresh") /\ UNCHANGED <<viewVars, vmu>>

\* writeAPIError with status 500.
Fail(q) == Goto(q, "idle") /\ vmu' = Nobody

\* Refresh of a viewer that does not tail.
RefreshNothing(q) ==
    /\ hpc[q] = "refresh" /\ vmu = Nobody /\ ~tailing
    /\ Goto(q, "respond") /\ UNCHANGED <<viewVars, vmu>>

\* indexAppendedEvents(true): every complete line, and the rest is ignored.
RefreshIndex(q) ==
    /\ hpc[q] = "refresh" /\ vmu = Nobody /\ tailing
    /\ vmu' = q /\ rows' = lines
    /\ Goto(q, "manifest")
    /\ UNCHANGED <<external, tailing, shown, issues, done, failure, progress>>

\* Faulty variant: the owner's verification is not waited for.
RefreshManifestEager(q) ==
    /\ hpc[q] = "manifest"
    /\ \/ disk = NoManifest /\ Fail(q) /\ UNCHANGED shown
       \/ /\ disk # NoManifest /\ shown' = disk
          /\ IF disk.status = "open"
             THEN Goto(q, "respond") /\ vmu' = Nobody
             ELSE Goto(q, "final") /\ UNCHANGED vmu
    /\ UNCHANGED <<external, tailing, rows, issues, done, failure, progress>>

(***************************************************************************)
(* The manifest is read after the lines, so it may be a later one.         *)
(***************************************************************************)
RefreshManifest(q) ==
    /\ hpc[q] = "manifest"
    /\ \/ disk = NoManifest /\ Fail(q) /\ UNCHANGED shown
       \/ /\ disk # NoManifest /\ shown' = disk
          /\ IF disk.status = "open" \/ (external /\ ~done)
             THEN Goto(q, "respond") /\ vmu' = Nobody
             ELSE Goto(q, "final") /\ UNCHANGED vmu
    /\ UNCHANGED <<external, tailing, rows, issues, done, failure, progress>>

\* The capture is closed: indexAppendedEvents(false), then Verify.
RefreshFinal(q) ==
    /\ hpc[q] = "final" /\ rows' = lines
    /\ \/ torn /\ Fail(q) /\ UNCHANGED <<shown, issues, done, tailing>>
       \/ /\ ~torn
          /\ shown' = disk /\ issues' = VerifyIssues /\ done' = TRUE /\ tailing' = FALSE
          /\ Goto(q, "respond") /\ vmu' = Nobody
    /\ UNCHANGED <<external, failure, progress>>

\* serveSession's two words.
Mode == IF shown.status = "open" THEN "live" ELSE "closed"

Verdict ==
    CASE done /\ (issues \/ failure)  -> "failed"
      [] done /\ ~(issues \/ failure) -> "verified"
      [] ~done /\ progress            -> "verifying"
      [] OTHER                        -> "pending"

(***************************************************************************)
(* serveEvents: one pass over the rows.  A tail page is a window that      *)
(* slides over the matches; another page starts at an offset.  Both are    *)
(* [page, total], with the sequence numbers shown and the matches counted. *)
(***************************************************************************)
Rows == [i \in 1..rows |-> i]

NoRows == [page |-> << >>, total |-> 0]

\* Faulty variant: the window slides before it is full.
SlideEarly(page, i, limit) ==
    IF Len(page) >= limit - 1 /\ page # << >> THEN Append(Tail(page), i) ELSE Append(page, i)

Slide(page, i, limit) == IF Len(page) = limit THEN Append(Tail(page), i) ELSE Append(page, i)

TailVisit(p, i, match, limit) ==
    IF i \notin match THEN p
    ELSE [page |-> Slide(p.page, i, limit), total |-> p.total + 1]

TailPage(match, limit) ==
    LET p == FoldLeft(LAMBDA q, i : TailVisit(q, i, match, limit), NoRows, Rows)
    IN  [page |-> p.page, total |-> p.total, offset |-> p.total - Len(p.page)]

OffsetVisit(p, i, match, offset, limit) ==
    IF i \notin match THEN p
    ELSE [page |-> IF p.total >= offset /\ Len(p.page) < limit THEN Append(p.page, i) ELSE p.page,
          total |-> p.total + 1]

OffsetPage(match, offset, limit) ==
    LET p == FoldLeft(LAMBDA q, i : OffsetVisit(q, i, match, offset, limit), NoRows, Rows)
    IN  [page |-> p.page, total |-> p.total, offset |-> offset]

(***************************************************************************)
(* serveSession, serveEvents or serveEvent, under the read lock: the       *)
(* answer is Mode, Verdict, rows and shown, a page, or the row of a        *)
(* sequence, whose line is read after the lock and never changes.          *)
(***************************************************************************)
Respond(q) ==
    /\ hpc[q] = "respond" /\ vmu = Nobody
    /\ Goto(q, "idle") /\ UNCHANGED <<viewVars, vmu>>

ServeStep(q) ==
    RefreshNothing(q) \/ RefreshIndex(q) \/ RefreshManifest(q) \/ RefreshFinal(q) \/ Respond(q)
=============================================================================
