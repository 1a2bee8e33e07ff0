--------------------------- MODULE CaptureVerify ---------------------------
(***************************************************************************)
(* The capture directory as its readers see it, and the verifier of        *)
(* internal/capture/verify.go as operators over such an image.             *)
(*                                                                         *)
(* An image is                                                             *)
(*   lines     the lines of events.jsonl, in file order, up to the first   *)
(*             that is not newline-terminated or does not decode           *)
(*   torn      whether there is such a line: the scan ends there           *)
(*   files     the published blobs: digest -> [size, digest] of the bytes  *)
(*             really stored there                                         *)
(*   manifest  [readable, header, events, blobs, blobBytes]: whether       *)
(*             manifest.json can be read and decoded, and the fields among *)
(*             schema, events_path and blob_root that are not the expected *)
(*             ones                                                        *)
(* A line carries [seq, schema, capture, ref]; ref is a blob reference     *)
(* [digest, size, canonical] or NoRef.  Schema and capture identity are    *)
(* abstracted to whether they are the expected ones.                       *)
(***************************************************************************)
EXTENDS Integers, Sequences, FiniteSets, SequencesExt

CONSTANTS
    NoRef,       \* an event without a blob reference (Event.Blob == nil)
    WordValues   \* how many values the uint64 byte counter has (2^64 in the code)

ASSUME WordAssumption == WordValues \in Nat \ {0}

(***************************************************************************)
(* validateBlobRef: digest text, size and path must be canonical.  Here    *)
(* digests are values, so one flag stands for the textual checks.          *)
(***************************************************************************)
validateBlobRef(ref) == ref.canonical

(***************************************************************************)
(* verifyBlob: the file exists and its length and digest are the ones the  *)
(* reference names.                                                        *)
(***************************************************************************)
verifyBlob(files, ref) ==
    /\ ref.digest \in DOMAIN files
    /\ files[ref.digest].size = ref.size
    /\ files[ref.digest].digest = ref.digest

(***************************************************************************)
(* The visitor VerifyWithProgress runs on each event, as a step on the     *)
(* scan state s: previous sequence, event count, references seen first,    *)
(* unique bytes, and the issues found.                                     *)
(***************************************************************************)
ScanStart == [previous |-> 0, events |-> 0, seen |-> << >>, bytes |-> 0, issues |-> {}]

(***************************************************************************)
(* nextBlobBytes < blobBytes after an unsigned addition.                   *)
(***************************************************************************)
Overflows(bytes, size) == (bytes + size) % WordValues < bytes

SeenBefore(s, ref) == \E i \in DOMAIN s.seen : s.seen[i].digest = ref.digest

BlobVisit(s, files, ref) ==
    CASE ref = NoRef                     -> s
      [] ref # NoRef /\ ~validateBlobRef(ref)
                                         -> [s EXCEPT !.issues = @ \cup {"blob"}]
      [] OTHER ->
           IF SeenBefore(s, ref)
           THEN IF \E i \in DOMAIN s.seen : s.seen[i].digest = ref.digest /\ s.seen[i].size # ref.size
                THEN [s EXCEPT !.issues = @ \cup {"sizeConflict"}]
                ELSE s
           ELSE [s EXCEPT !.seen = Append(@, ref),
                          !.bytes = IF Overflows(@, ref.size) THEN @ ELSE @ + ref.size,
                          !.issues = @ \cup (IF Overflows(s.bytes, ref.size) THEN {"overflow"} ELSE {})
                                       \cup (IF verifyBlob(files, ref) THEN {} ELSE {"blob"})]

\* Faulty variant: a gap in the sequence is let through.
VisitEventAllowingGaps(s, files, line) ==
    BlobVisit([s EXCEPT !.events = @ + 1,
                        !.previous = line.seq,
                        !.issues = @ \cup (IF line.schema THEN {} ELSE {"schema"})
                                     \cup (IF line.capture THEN {} ELSE {"captureID"})
                                     \cup (IF line.seq > s.previous THEN {} ELSE {"sequence"})],
              files, line.ref)

VisitEvent(s, files, line) ==
    BlobVisit([s EXCEPT !.events = @ + 1,
                        !.previous = line.seq,
                        !.issues = @ \cup (IF line.schema THEN {} ELSE {"schema"})
                                     \cup (IF line.capture THEN {} ELSE {"captureID"})
                                     \cup (IF line.seq = s.previous + 1 THEN {} ELSE {"sequence"})],
              files, line.ref)

(***************************************************************************)
(* ScanEvents visits line after line and returns an error at the first one *)
(* that is unterminated or does not decode.  VerifyWithProgress reads the  *)
(* manifest before the scan and compares it with what the scan found.      *)
(***************************************************************************)
ScanEvents(lines, files) ==
    FoldLeft(LAMBDA s, line : VisitEvent(s, files, line), ScanStart, lines)

ManifestIssues(manifest, s) ==
    manifest.header
    \cup (IF manifest.events = s.events THEN {} ELSE {"eventCount"})
    \cup (IF manifest.blobs = Len(s.seen) THEN {} ELSE {"blobCount"})
    \cup (IF manifest.blobBytes = s.bytes THEN {} ELSE {"blobBytes"})

VerifyWithProgress(lines, torn, files, manifest) ==
    IF ~manifest.readable \/ torn
    THEN [error |-> TRUE, issues |-> {}]
    ELSE LET s == ScanEvents(lines, files)
         IN  [error |-> FALSE, issues |-> s.issues \cup ManifestIssues(manifest, s)]
=============================================================================
