-------------------------- MODULE CaptureRecorder --------------------------
(***************************************************************************)
(* The capture recorder of internal/capture/recorder.go: callers of Record *)
(* and RecordReader hand events to one ordered writer goroutine through a  *)
(* bounded queue; Close drains the writer and publishes the manifest.      *)
(*                                                                         *)
(* Recorder.enqueueMu serialises the calls, Recorder.mu guards the state.  *)
(* A section under mu that does no I/O is one action (guard mu = NoOne);   *)
(* the sections that write files keep mu across several actions, so every  *)
(* state of a file that a crash could leave behind, or that a live reader  *)
(* could open, is a state of the model.  A crash needs no action of its    *)
(* own: an invariant over the files holds of every image a crash leaves.   *)
(*                                                                         *)
(* Every ctx.Done() case is an action that is enabled whenever the code    *)
(* looks at the context.  An I/O call may fail when its name is in Faults. *)
(***************************************************************************)
EXTENDS CaptureVerify

CONSTANTS
    Recorders,      \* goroutines that call Record
    Streamers,      \* goroutines that call RecordReader
    Closers,        \* goroutines that call Close
    Payloads,       \* distinct payload contents, one per SHA-256 digest
    PayloadSize,    \* their lengths
    QueueCapacity,  \* Options.WriterQueueCapacity
    QueueBytes,     \* Options.WriterQueueBytes
    SyncEachEvent,  \* Options.SyncEachEvent
    Faults,         \* the I/O calls that may fail
    Limitations,    \* messages AddLimitation and Options.Limitations carry
    MaxCalls,       \* bound: calls made in one behaviour
    MaxLoss,        \* bound: the dropped events AddLoss reports in total
    NoOne           \* the holder of a free mutex; a caller with no job

Callers == Recorders \cup Streamers \cup Closers
Writer  == "writer"

FaultPoints == {"store", "append", "sync", "manifest", "rename"}

ASSUME RecorderAssumption ==
    /\ QueueCapacity \in Nat \ {0}
    /\ QueueBytes \in Nat \ {0}
    /\ MaxCalls \in Nat
    /\ MaxLoss \in Nat
    /\ PayloadSize \in [Payloads -> Nat]
    /\ SyncEachEvent \in BOOLEAN
    /\ Faults \subseteq FaultPoints
    /\ NoRef \notin Payloads
    /\ NoOne \notin Callers
    /\ Writer \notin Callers
    /\ NoOne # Writer
    /\ Recorders \cap Streamers = {}
    /\ Recorders \cap Closers = {}
    /\ Streamers \cap Closers = {}

(***************************************************************************)
(* The one limitation markDroppedLocked adds, and adds once.               *)
(***************************************************************************)
writerFailureLossReason == "capture writer failure left accepted events unpersisted"

(***************************************************************************)
(* A recordJob: the sequence number reserved for it, the payload it        *)
(* carries (NoRef for Record with Raw == nil) and the call it stands for.  *)
(***************************************************************************)
Raws == Payloads \cup {NoRef}
Jobs == [seq : Nat, raw : Raws, id : Nat]
Bytes(raw) == IF raw = NoRef THEN 0 ELSE PayloadSize[raw]

Places ==
    {"idle", "lock", "space", "spaceSelect", "reserve", "send",
     "waitIdle", "idleSelect", "sync", "stream",
     "closeQueue", "join", "closeSync", "manifest", "rename", "retry"}

VARIABLES
    \* the callers
    pc,          \* where each caller is, one of Places
    arg,         \* each caller's current call: its payload and its number
    calls,       \* how many calls have been made
    \* the mutexes and the channels
    enqueueMu,   \* Recorder.enqueueMu: its holder
    mu,          \* Recorder.mu: its holder, when it is kept over file I/O
    queue,       \* Recorder.queue, a buffered channel of jobs
    queueClosed, \* whether close(queue) has run
    spaceWait,   \* the waiter's view of the spaceChanged channel it captured
    idle,        \* whether the current Recorder.idle channel is closed
    writerStopped,
    \* the guarded state
    assignedSequence, sequence, pending, pendingBytes, failed, closed,
    seenBlob, manifest,
    \* the writer goroutine, and the I/O of whoever holds mu
    wpc, io, job,
    \* the capture directory
    stream,      \* complete lines of events.jsonl
    torn,        \* bytes of an incomplete line follow
    temps,       \* temporary blob files, by sequence number
    blobs,       \* published blobs
    manifestTmp, \* whether manifest.json.tmp exists
    disk,        \* manifest.json: the last published manifest, or NoRef
    \* history
    accepted,    \* the calls the recorder accepted, in order
    reported     \* how many dropped events AddLoss was told of

histVars  == <<accepted, reported>>
callVars  == <<pc, arg, calls>>
chanVars  == <<queue, queueClosed, spaceWait, idle, writerStopped>>
stateVars == <<assignedSequence, sequence, pending, pendingBytes, failed, closed, seenBlob, manifest>>
diskVars  == <<stream, torn, temps, blobs, manifestTmp, disk>>
ioVars    == <<wpc, io, job>>
vars == <<pc, arg, calls, enqueueMu, mu, queue, queueClosed, spaceWait, idle,
          writerStopped, assignedSequence, sequence, pending, pendingBytes, failed,
          closed, seenBlob, manifest, wpc, io, job, stream, torn, temps,
          blobs, manifestTmp, disk, accepted, reported>>

Manifests ==
    [status : {"open", "closed", "failed"}, complete : BOOLEAN,
     limits : SUBSET (Limitations \cup {writerFailureLossReason}), failure : BOOLEAN,
     events : Nat, blobs : Nat, blobBytes : Nat,
     writeErrors : Nat, dropped : Nat, truncated : Nat]

ASSUME ManifestAssumption == NoRef \notin Manifests

\* An absent blob reference is none of the references an event can carry.
ASSUME RefAssumption ==
    \A p \in Payloads : NoRef # [digest |-> p, size |-> PayloadSize[p], canonical |-> TRUE]

NoArg == [raw |-> NoRef, id |-> 0]
NoJob == [seq |-> 0, raw |-> NoRef, id |-> 0]

(***************************************************************************)
(* New: an empty directory, the writer started, the open manifest written. *)
(***************************************************************************)
Init ==
    /\ pc = [c \in Callers |-> "idle"] /\ arg = [c \in Callers |-> NoArg] /\ calls = 0
    /\ enqueueMu = NoOne /\ mu = NoOne
    /\ queue = << >> /\ queueClosed = FALSE /\ spaceWait = "none"
    /\ idle = TRUE /\ writerStopped = FALSE
    /\ assignedSequence = 0 /\ sequence = 0 /\ pending = 0 /\ pendingBytes = 0
    /\ failed = FALSE /\ closed = FALSE /\ seenBlob = {}
    /\ \E initial \in SUBSET Limitations :
         manifest = [status |-> "open", complete |-> initial = {}, limits |-> initial,
                     failure |-> FALSE, events |-> 0, blobs |-> 0, blobBytes |-> 0,
                     writeErrors |-> 0, dropped |-> 0, truncated |-> 0]
    /\ wpc = "recv" /\ io = "off" /\ job = NoJob
    /\ stream = << >> /\ torn = FALSE /\ temps = {} /\ blobs = {}
    /\ manifestTmp = FALSE /\ disk = manifest
    /\ accepted = << >> /\ reported = 0

-----------------------------------------------------------------------------
(* Helpers: the *Locked methods, as updates of the state mu guards.        *)

(***************************************************************************)
(* markFailedLocked: the first error is kept and counted.                  *)
(***************************************************************************)
markFailed(m) ==
    [m EXCEPT !.complete = FALSE, !.writeErrors = IF failed THEN @ ELSE @ + 1]

(***************************************************************************)
(* markDroppedLocked: one more accepted event is lost; the reason is       *)
(* listed once.                                                            *)
(***************************************************************************)
markDropped(m) ==
    [m EXCEPT !.dropped = @ + 1, !.complete = FALSE,
              !.limits = @ \cup {writerFailureLossReason}]

\* Faulty variant: a place given back twice.
completePendingTwice(n) ==
    /\ pending' = pending - 2
    /\ pendingBytes' = IF n <= pendingBytes THEN pendingBytes - n ELSE 0
    /\ idle' = IF pending = 1 THEN TRUE ELSE idle
    /\ spaceWait' = IF spaceWait = "armed" THEN "swapped" ELSE spaceWait

(***************************************************************************)
(* completePendingLocked: the counters go down, the idle channel is closed *)
(* when nothing is pending, and the spaceChanged channel is swapped.  The  *)
(* old channel is closed by the caller after it has released mu; only the  *)
(* holder of enqueueMu ever waits on it, so its view is one variable:      *)
(* "armed" (captured, current), "swapped" (captured, no longer current),   *)
(* "closed".                                                               *)
(***************************************************************************)
completePending(n) ==
    /\ pending' = IF pending > 0 THEN pending - 1 ELSE 0
    /\ pendingBytes' = IF pending > 0
                       THEN IF n <= pendingBytes THEN pendingBytes - n ELSE 0
                       ELSE pendingBytes
    /\ idle' = IF pending = 1 THEN TRUE ELSE idle
    /\ spaceWait' = IF spaceWait = "armed" THEN "swapped" ELSE spaceWait

\* Faulty variant: off by one at the capacity.
HasSpaceOffByOne(n) ==
    pending <= QueueCapacity /\ (pendingBytes + n <= QueueBytes \/ pending = 0)

(***************************************************************************)
(* waitForQueueSpace's test.  A record larger than the whole budget is     *)
(* let through when nothing else is pending.                               *)
(***************************************************************************)
HasSpace(n) ==
    /\ pending < QueueCapacity
    /\ pendingBytes + n <= QueueBytes \/ pending = 0

\* Faulty variant: the writer trusts the reference computed when the event was queued.
NeedsStoreNotByWriter(j, holder) == j.raw # NoRef /\ holder # Writer

(***************************************************************************)
(* The writer skips the store when the digest has been committed before;   *)
(* RecordReader does not know the digest until it has read the stream.     *)
(***************************************************************************)
NeedsStore(j, holder) == j.raw # NoRef /\ (holder # Writer \/ j.raw \notin seenBlob)

(***************************************************************************)
(* The deferred enqueueMu.Unlock of every call, and its return.            *)
(***************************************************************************)
Return(c) ==
    /\ pc' = [pc EXCEPT ![c] = "idle"] /\ arg' = [arg EXCEPT ![c] = NoArg]
    /\ enqueueMu' = NoOne

-----------------------------------------------------------------------------
(* Entering a call.                                                        *)

Call(c) ==
    /\ pc[c] = "idle" /\ calls < MaxCalls
    /\ calls' = calls + 1
    /\ \E p \in IF c \in Recorders THEN Raws ELSE IF c \in Streamers THEN Payloads ELSE {NoRef} :
         arg' = [arg EXCEPT ![c] = [raw |-> p, id |-> calls + 1]]
    /\ pc' = [pc EXCEPT ![c] = "lock"]
    /\ UNCHANGED <<enqueueMu, mu, chanVars, stateVars, ioVars, diskVars, histVars>>

MayLock == enqueueMu = NoOne

Lock(c) ==
    /\ pc[c] = "lock" /\ MayLock
    /\ enqueueMu' = c
    /\ pc' = [pc EXCEPT ![c] = IF c \in Recorders THEN "space"
                               ELSE IF c \in Streamers THEN "waitIdle" ELSE "closeQueue"]
    /\ UNCHANGED <<arg, calls, mu, chanVars, stateVars, ioVars, diskVars, histVars>>

-----------------------------------------------------------------------------
(* Record: enqueue, after waitForQueueSpace.                               *)

(***************************************************************************)
(* One turn of waitForQueueSpace's loop under mu.                          *)
(***************************************************************************)
CheckSpace(c) ==
    /\ pc[c] = "space" /\ mu = NoOne
    /\ \/ /\ closed \/ failed
          /\ Return(c) /\ UNCHANGED spaceWait
       \/ /\ ~closed /\ ~failed /\ HasSpace(Bytes(arg[c].raw))
          /\ pc' = [pc EXCEPT ![c] = "reserve"]
          /\ UNCHANGED <<arg, enqueueMu, spaceWait>>
       \/ /\ ~closed /\ ~failed /\ ~HasSpace(Bytes(arg[c].raw))
          /\ pc' = [pc EXCEPT ![c] = "spaceSelect"]
          /\ spaceWait' = "armed"
          /\ UNCHANGED <<arg, enqueueMu>>
    /\ UNCHANGED <<calls, mu, queue, queueClosed, idle, writerStopped,
                   stateVars, ioVars, diskVars, histVars>>

SpaceWoken(c) ==
    /\ pc[c] = "spaceSelect" /\ (spaceWait = "closed" \/ writerStopped)
    /\ pc' = [pc EXCEPT ![c] = "space"]
    /\ spaceWait' = "none"
    /\ UNCHANGED <<arg, calls, enqueueMu, mu, queue, queueClosed, idle,
                   writerStopped, stateVars, ioVars, diskVars, histVars>>

SpaceCancelled(c) ==
    /\ pc[c] = "spaceSelect"
    /\ Return(c) /\ spaceWait' = "none"
    /\ UNCHANGED <<calls, mu, queue, queueClosed, idle, writerStopped,
                   stateVars, ioVars, diskVars, histVars>>

(***************************************************************************)
(* enqueue's section under mu: the checks again, then a sequence number    *)
(* and a place in the queue are reserved.                                  *)
(***************************************************************************)
Reserve(c) ==
    /\ pc[c] = "reserve" /\ mu = NoOne
    /\ ~closed /\ ~failed
    /\ assignedSequence' = assignedSequence + 1
    /\ pending' = pending + 1
    /\ pendingBytes' = pendingBytes + Bytes(arg[c].raw)
    /\ idle' = IF pending = 0 THEN FALSE ELSE idle
    /\ pc' = [pc EXCEPT ![c] = "send"]
    /\ UNCHANGED <<arg, calls, enqueueMu, mu, queue, queueClosed, spaceWait,
                   writerStopped, sequence, failed, closed, seenBlob, manifest,
                   ioVars, diskVars, histVars>>

ReserveRefused(c) ==
    /\ pc[c] = "reserve" /\ mu = NoOne
    /\ closed \/ failed
    /\ Return(c)
    /\ UNCHANGED <<calls, mu, chanVars, stateVars, ioVars, diskVars, histVars>>

(***************************************************************************)
(* The final select of enqueue.  A send can be chosen while the writer is  *)
(* already draining: the event is accepted and will be counted as dropped. *)
(***************************************************************************)
Send(c) ==
    /\ pc[c] = "send" /\ Len(queue) < QueueCapacity
    /\ queue' = Append(queue, [seq |-> assignedSequence, raw |-> arg[c].raw, id |-> arg[c].id])
    /\ accepted' = Append(accepted, arg[c].id)
    /\ Return(c)
    /\ UNCHANGED <<calls, mu, queueClosed, spaceWait, idle, writerStopped,
                   stateVars, ioVars, diskVars, reported>>

(***************************************************************************)
(* rollbackEnqueue, for both of its callers: the context is done, or the   *)
(* writer has stopped.                                                     *)
(***************************************************************************)
rollbackEnqueue(c) ==
    /\ assignedSequence' = IF sequence < assignedSequence THEN assignedSequence - 1 ELSE assignedSequence
    /\ completePending(Bytes(arg[c].raw))
    /\ Return(c)
    /\ UNCHANGED <<calls, mu, queue, queueClosed, writerStopped, sequence,
                   failed, closed, seenBlob, manifest, ioVars, diskVars, histVars>>

\* Faulty variant: the job is sent although the caller is told it was cancelled.
SendThenCancelled(c) ==
    /\ pc[c] = "send" /\ Len(queue) < QueueCapacity
    /\ queue' = Append(queue, [seq |-> assignedSequence, raw |-> arg[c].raw, id |-> arg[c].id])
    /\ Return(c)
    /\ UNCHANGED <<calls, mu, queueClosed, spaceWait, idle, writerStopped,
                   stateVars, ioVars, diskVars, histVars>>

SendCancelled(c) == pc[c] = "send" /\ mu = NoOne /\ rollbackEnqueue(c)

SendStopped(c) == pc[c] = "send" /\ mu = NoOne /\ writerStopped /\ rollbackEnqueue(c)

-----------------------------------------------------------------------------
(* RecordReader: waitForIdle, then recordSync under mu.                    *)

(***************************************************************************)
(* One turn of waitForIdle's loop under mu.                                *)
(***************************************************************************)
CheckIdle(c) ==
    /\ pc[c] = "waitIdle" /\ mu = NoOne
    /\ \/ /\ closed \/ failed
          /\ Return(c)
       \/ /\ ~closed /\ ~failed
          /\ pc' = [pc EXCEPT ![c] = IF pending = 0 THEN "sync" ELSE "idleSelect"]
          /\ UNCHANGED <<arg, enqueueMu>>
    /\ UNCHANGED <<calls, mu, chanVars, stateVars, ioVars, diskVars, histVars>>

(***************************************************************************)
(* The captured idle channel is still Recorder.idle: only enqueue makes a  *)
(* new one, and enqueueMu is held here.                                    *)
(***************************************************************************)
IdleWoken(c) ==
    /\ pc[c] = "idleSelect" /\ (idle \/ writerStopped)
    /\ pc' = [pc EXCEPT ![c] = "waitIdle"]
    /\ UNCHANGED <<arg, calls, enqueueMu, mu, chanVars, stateVars, ioVars, diskVars, histVars>>

(***************************************************************************)
(* ctx.Done() in waitForIdle's select, or at the top of recordSync.        *)
(***************************************************************************)
StreamCancelled(c) ==
    /\ pc[c] \in {"idleSelect", "sync"} /\ (pc[c] = "sync" => mu = NoOne)
    /\ Return(c)
    /\ UNCHANGED <<calls, mu, chanVars, stateVars, ioVars, diskVars, histVars>>

(***************************************************************************)
(* recordSync keeps mu until it returns.  waitForIdle's answer was given   *)
(* in an earlier section; closed and failed are read again.                *)
(***************************************************************************)
StreamBegin(c) ==
    /\ pc[c] = "sync" /\ mu = NoOne
    /\ IF closed \/ failed
       THEN /\ Return(c)
            /\ UNCHANGED <<mu, assignedSequence, io, job>>
       ELSE /\ pc' = [pc EXCEPT ![c] = "stream"]
            /\ mu' = c
            /\ assignedSequence' = assignedSequence + 1
            /\ job' = [seq |-> assignedSequence + 1, raw |-> arg[c].raw, id |-> arg[c].id]
            /\ io' = "store"
            /\ UNCHANGED <<arg, enqueueMu>>
    /\ UNCHANGED <<calls, chanVars, sequence, pending, pendingBytes, failed, closed,
                   seenBlob, manifest, wpc, diskVars, histVars>>

(***************************************************************************)
(* recordSync's deferred unlocks, after success or failure.                *)
(***************************************************************************)
StreamEnd(c) ==
    /\ pc[c] = "stream" /\ io \in {"done", "bad"}
    /\ mu' = NoOne /\ io' = "off" /\ job' = NoJob
    /\ Return(c)
    /\ UNCHANGED <<calls, chanVars, stateVars, wpc, diskVars, histVars>>

-----------------------------------------------------------------------------
(* storeBlobLocked and appendEventLocked, run by whoever holds mu.         *)

storeVars == <<callVars, enqueueMu, mu, chanVars, wpc, job>>

(***************************************************************************)
(* storeBlobLocked opens .tmp-<sequence> and copies the payload into it.   *)
(***************************************************************************)
StoreOpen ==
    /\ io = "store"
    /\ temps' = temps \cup {job.seq}
    /\ io' = "publish"
    /\ UNCHANGED <<storeVars, stateVars, stream, torn, blobs, manifestTmp, disk, histVars>>

(***************************************************************************)
(* The temporary file becomes the blob, or is removed when the blob exists.*)
(***************************************************************************)
StorePublish ==
    /\ io = "publish"
    /\ temps' = temps \ {job.seq}
    /\ blobs' = blobs \cup {job.raw}
    /\ io' = "append"
    /\ UNCHANGED <<storeVars, stateVars, stream, torn, manifestTmp, disk, histVars>>

(***************************************************************************)
(* A failure while copying or publishing: cleanup removes the temporary    *)
(* file.  A stream's context or size check fails the recorder as well.     *)
(***************************************************************************)
StoreFail ==
    /\ io = "publish" /\ ("store" \in Faults \/ mu # Writer)
    /\ temps' = temps \ {job.seq}
    /\ failed' = TRUE /\ manifest' = markFailed(manifest)
    /\ io' = "bad"
    /\ UNCHANGED <<storeVars, assignedSequence, sequence, pending, pendingBytes, closed, seenBlob,
                   stream, torn, blobs, manifestTmp, disk, histVars>>

(***************************************************************************)
(* appendEventLocked checks that the event follows the committed ones and  *)
(* starts writing its line: writeAll may take several writes.              *)
(***************************************************************************)
Follows(j) == j.seq = sequence + 1

AppendBegin ==
    /\ io = "append"
    /\ io' = IF Follows(job) THEN "line" ELSE "bad"
    /\ torn' \in IF Follows(job) THEN {torn, TRUE} ELSE {torn}
    /\ UNCHANGED <<storeVars, stateVars, stream, temps, blobs, manifestTmp, disk, histVars>>

\* Faulty variant: a blob is counted each time an event refers to it.
countEveryBlob(m, j) ==
    IF j.raw = NoRef
    THEN [m EXCEPT !.events = @ + 1]
    ELSE [m EXCEPT !.events = @ + 1, !.blobs = @ + 1, !.blobBytes = @ + PayloadSize[j.raw]]

(***************************************************************************)
(* appendEventLocked's counters, once the line is written (and synced).    *)
(***************************************************************************)
countEvent(m, j) ==
    IF j.raw = NoRef \/ j.raw \in seenBlob
    THEN [m EXCEPT !.events = @ + 1]
    ELSE [m EXCEPT !.events = @ + 1, !.blobs = @ + 1, !.blobBytes = @ + PayloadSize[j.raw]]

AppendCommit ==
    /\ io = "line"
    /\ torn' = FALSE /\ stream' = Append(stream, job)
    /\ sequence' = job.seq
    /\ manifest' = countEvent(manifest, job)
    /\ seenBlob' = seenBlob \cup ({job.raw} \ {NoRef})
    /\ accepted' = IF mu = Writer THEN accepted ELSE Append(accepted, job.id)
    /\ io' = "done"
    /\ UNCHANGED <<storeVars, assignedSequence, pending, pendingBytes, failed, closed,
                   temps, blobs, manifestTmp, disk, reported>>

(***************************************************************************)
(* A write fails before the line is complete: what was written of it, if   *)
(* anything, stays.                                                        *)
(***************************************************************************)
AppendTorn ==
    /\ io = "line" /\ "append" \in Faults
    /\ torn' \in {torn, TRUE}
    /\ failed' = TRUE /\ manifest' = markFailed(manifest)
    /\ io' = "bad"
    /\ UNCHANGED <<storeVars, assignedSequence, sequence, pending, pendingBytes, closed, seenBlob,
                   stream, temps, blobs, manifestTmp, disk, histVars>>

(***************************************************************************)
(* The line is complete, its Sync fails: nothing is counted.               *)
(***************************************************************************)
SyncFail ==
    /\ io = "line" /\ SyncEachEvent /\ "sync" \in Faults
    /\ torn' = FALSE /\ stream' = Append(stream, job)
    /\ failed' = TRUE /\ manifest' = markFailed(manifest)
    /\ io' = "bad"
    /\ UNCHANGED <<storeVars, assignedSequence, sequence, pending, pendingBytes, closed, seenBlob,
                   temps, blobs, manifestTmp, disk, histVars>>

-----------------------------------------------------------------------------
(* runWriter.                                                              *)

WriterRecv ==
    /\ wpc \in {"recv", "drain"} /\ queue # << >>
    /\ job' = Head(queue) /\ queue' = Tail(queue)
    /\ wpc' = IF wpc = "recv" THEN "got" ELSE "drainGot"
    /\ UNCHANGED <<callVars, enqueueMu, mu, queueClosed, spaceWait, idle, writerStopped,
                   stateVars, io, diskVars, histVars>>

(***************************************************************************)
(* The writer takes mu.  The branch for a failed or closed recorder is in  *)
(* the code; no state reaches it.                                          *)
(***************************************************************************)
WriterBegin ==
    /\ wpc = "got" /\ mu = NoOne
    /\ mu' = Writer
    /\ io' = IF failed \/ closed THEN "bad" ELSE IF NeedsStore(job, Writer) THEN "store" ELSE "append"
    /\ wpc' = "io"
    /\ UNCHANGED <<callVars, enqueueMu, chanVars, stateVars, job, diskVars, histVars>>

(***************************************************************************)
(* The rest of the section under mu: the failure and the loss are counted, *)
(* the place in the queue is given back.                                   *)
(***************************************************************************)
WriterComplete ==
    /\ wpc = "io" /\ io \in {"done", "bad"}
    /\ failed' = (failed \/ io = "bad")
    /\ manifest' = IF io = "bad" THEN markDropped(markFailed(manifest)) ELSE manifest
    /\ completePending(Bytes(job.raw))
    /\ mu' = NoOne /\ io' = "off" /\ job' = NoJob
    /\ wpc' = IF io = "bad" THEN "notifyFailed" ELSE "notify"
    /\ UNCHANGED <<callVars, enqueueMu, queue, queueClosed, writerStopped, assignedSequence,
                   sequence, closed, seenBlob, diskVars, histVars>>

\* Faulty variant: the channel is swapped and never closed.
notifyNobody == spaceWait' = spaceWait

(***************************************************************************)
(* close(changed), after mu is released.                                   *)
(***************************************************************************)
notifySpace == spaceWait' = IF spaceWait = "swapped" THEN "closed" ELSE spaceWait

WriterNotify ==
    /\ wpc \in {"notify", "notifyFailed", "drainNotify"}
    /\ notifySpace
    /\ writerStopped' = (writerStopped \/ wpc = "notifyFailed")
    /\ wpc' = IF wpc = "notify" THEN "recv" ELSE "drain"
    /\ UNCHANGED <<callVars, enqueueMu, mu, queue, queueClosed, idle, stateVars, io, job,
                   diskVars, histVars>>

\* Faulty variant: the drained jobs are not counted.
drainWithoutCounting ==
    /\ wpc = "drainGot" /\ mu = NoOne
    /\ completePending(Bytes(job.raw))
    /\ job' = NoJob
    /\ wpc' = "drainNotify"
    /\ UNCHANGED <<callVars, enqueueMu, mu, queue, queueClosed, writerStopped, assignedSequence,
                   sequence, failed, closed, seenBlob, manifest, io, diskVars, histVars>>

(***************************************************************************)
(* drainFailedQueue: every job still queued is counted as dropped.         *)
(***************************************************************************)
drainFailedQueue ==
    /\ wpc = "drainGot" /\ mu = NoOne
    /\ manifest' = markDropped(manifest)
    /\ completePending(Bytes(job.raw))
    /\ job' = NoJob
    /\ wpc' = "drainNotify"
    /\ UNCHANGED <<callVars, enqueueMu, mu, queue, queueClosed, writerStopped, assignedSequence,
                   sequence, failed, closed, seenBlob, io, diskVars, histVars>>

(***************************************************************************)
(* The range over the queue ends when it is closed and empty.              *)
(***************************************************************************)
WriterExit ==
    /\ wpc \in {"recv", "drain"} /\ queue = << >> /\ queueClosed
    /\ wpc' = "done"
    /\ UNCHANGED <<callVars, enqueueMu, mu, chanVars, stateVars, io, job, diskVars, histVars>>

-----------------------------------------------------------------------------
(* AddLimitation and AddLoss: from any goroutine, under mu alone.          *)

\* Faulty variant: no test of closed.
AddLimitationLate(message) ==
    /\ mu = NoOne /\ message \notin manifest.limits
    /\ manifest' = [manifest EXCEPT !.complete = FALSE, !.limits = @ \cup {message}]
    /\ UNCHANGED <<callVars, enqueueMu, mu, chanVars, assignedSequence, sequence, pending,
                   pendingBytes, failed, closed, seenBlob, ioVars, diskVars, histVars>>

(***************************************************************************)
(* A limitation already listed changes nothing: it cannot be taken for the *)
(* one that is new.  After Close the call returns ErrClosed.               *)
(***************************************************************************)
AddLimitation(message) ==
    /\ mu = NoOne /\ ~closed /\ message \notin manifest.limits
    /\ manifest' = [manifest EXCEPT !.complete = FALSE, !.limits = @ \cup {message}]
    /\ UNCHANGED <<callVars, enqueueMu, mu, chanVars, assignedSequence, sequence, pending,
                   pendingBytes, failed, closed, seenBlob, ioVars, diskVars, histVars>>

\* Faulty variant: the loss is counted, the capture still complete.
AddLossStillComplete(dropped, truncated) ==
    /\ mu = NoOne /\ ~closed /\ dropped + truncated > 0
    /\ reported + dropped <= MaxLoss /\ manifest.truncated + truncated <= MaxLoss
    /\ manifest' = [manifest EXCEPT !.dropped = @ + dropped, !.truncated = @ + truncated]
    /\ reported' = reported + dropped
    /\ UNCHANGED <<callVars, enqueueMu, mu, chanVars, assignedSequence, sequence, pending,
                   pendingBytes, failed, closed, seenBlob, ioVars, diskVars, accepted>>

(***************************************************************************)
(* A loss some other part of the program reports, with or without a reason *)
(* for the list of limitations.  A report of nothing changes nothing.      *)
(***************************************************************************)
AddLoss(dropped, truncated) ==
    /\ mu = NoOne /\ ~closed /\ dropped + truncated > 0
    /\ reported + dropped <= MaxLoss /\ manifest.truncated + truncated <= MaxLoss
    /\ \E reason \in {{}} \cup {{message} : message \in Limitations} :
         manifest' = [manifest EXCEPT !.dropped = @ + dropped, !.truncated = @ + truncated,
                                      !.complete = FALSE, !.limits = @ \cup reason]
    /\ reported' = reported + dropped
    /\ UNCHANGED <<callVars, enqueueMu, mu, chanVars, assignedSequence, sequence, pending,
                   pendingBytes, failed, closed, seenBlob, ioVars, diskVars, accepted>>

-----------------------------------------------------------------------------
(* Close.                                                                  *)

(***************************************************************************)
(* The first section under mu: close(queue), unless Close has run before.  *)
(***************************************************************************)
CloseQueue(c) ==
    /\ pc[c] = "closeQueue" /\ mu = NoOne
    /\ \/ closed /\ Return(c) /\ UNCHANGED queueClosed
       \/ /\ ~closed /\ queueClosed' = TRUE
          /\ pc' = [pc EXCEPT ![c] = "join"]
          /\ UNCHANGED <<arg, enqueueMu>>
    /\ UNCHANGED <<calls, mu, queue, spaceWait, idle, writerStopped, stateVars,
                   ioVars, diskVars, histVars>>

\* Faulty variant: the status is the one the caller passes.
sealAsTold(m, status, cause) ==
    [m EXCEPT !.status = status, !.failure = cause, !.complete = @ /\ ~cause]

(***************************************************************************)
(* The manifest Close leaves: a recorder that failed never closes as       *)
(* "closed", whatever status its caller passes.                            *)
(***************************************************************************)
sealManifest(m, status, cause) ==
    [m EXCEPT !.status = IF failed /\ (~cause \/ status = "closed") THEN "failed" ELSE status,
              !.failure = cause \/ failed,
              !.complete = @ /\ ~cause /\ ~failed]

(***************************************************************************)
(* <-writerDone, then the second section, which keeps mu to the end.  The  *)
(* callers pass ("closed", nil) or ("failed", err).                        *)
(***************************************************************************)
CloseSeal(c) ==
    /\ pc[c] = "join" /\ wpc = "done" /\ mu = NoOne
    /\ mu' = c /\ closed' = TRUE
    /\ \E status \in {"closed", "failed"} :
         manifest' = sealManifest(manifest, status, status = "failed")
    /\ pc' = [pc EXCEPT ![c] = "closeSync"]
    /\ UNCHANGED <<arg, calls, enqueueMu, chanVars, assignedSequence, sequence, pending,
                   pendingBytes, failed, seenBlob, ioVars, diskVars, histVars>>

closeVars == <<calls, chanVars, stateVars, ioVars, stream, torn, temps, blobs, histVars>>

(***************************************************************************)
(* events.Sync: Close remembers an error for its caller and goes on, so    *)
(* that the manifest is published either way.                              *)
(***************************************************************************)
CloseSync(c) ==
    /\ pc[c] = "closeSync"
    /\ pc' = [pc EXCEPT ![c] = "manifest"]
    /\ UNCHANGED <<closeVars, arg, enqueueMu, mu, manifestTmp, disk>>

(***************************************************************************)
(* writeManifestLocked: a synced temporary file, then a rename.            *)
(***************************************************************************)
ManifestTemp(c) ==
    /\ pc[c] = "manifest"
    /\ manifestTmp' = TRUE
    /\ pc' = [pc EXCEPT ![c] = "rename"]
    /\ UNCHANGED <<closeVars, arg, enqueueMu, mu, disk>>

CloseReturn(c) == Return(c) /\ mu' = NoOne

ManifestTempFail(c) ==
    /\ pc[c] = "manifest" /\ "manifest" \in Faults
    /\ CloseReturn(c)
    /\ UNCHANGED <<closeVars, manifestTmp, disk>>

ManifestRename(c) ==
    /\ pc[c] \in {"rename", "retry"}
    /\ disk' = manifest /\ manifestTmp' = FALSE
    /\ CloseReturn(c)
    /\ UNCHANGED closeVars

(***************************************************************************)
(* The rename failed: the destination is removed before the second try.    *)
(***************************************************************************)
ManifestRemove(c) ==
    /\ pc[c] = "rename" /\ "rename" \in Faults
    /\ disk' = NoRef
    /\ pc' = [pc EXCEPT ![c] = "retry"]
    /\ UNCHANGED <<closeVars, arg, enqueueMu, mu, manifestTmp>>

ManifestRetryFail(c) ==
    /\ pc[c] = "retry" /\ "rename" \in Faults
    /\ manifestTmp' = FALSE
    /\ CloseReturn(c)
    /\ UNCHANGED <<closeVars, disk>>

-----------------------------------------------------------------------------
(* The specification.                                                      *)

RecordStep(c) ==
    \/ CheckSpace(c) \/ SpaceWoken(c) \/ Reserve(c) \/ ReserveRefused(c) \/ Send(c) \/ SendStopped(c)

StreamStep(c) == CheckIdle(c) \/ IdleWoken(c) \/ StreamBegin(c) \/ StreamEnd(c)

CloseStep(c) ==
    \/ CloseQueue(c) \/ CloseSeal(c) \/ CloseSync(c) \/ ManifestTemp(c) \/ ManifestRename(c)

Cancel(c) == SpaceCancelled(c) \/ SendCancelled(c) \/ StreamCancelled(c)

CloseFault(c) ==
    ManifestTempFail(c) \/ ManifestRemove(c) \/ ManifestRetryFail(c)

IOStep == StoreOpen \/ StorePublish \/ AppendBegin \/ AppendCommit

IOFault == StoreFail \/ AppendTorn \/ SyncFail

WriterStep ==
    WriterRecv \/ WriterBegin \/ WriterComplete \/ WriterNotify \/ drainFailedQueue \/ WriterExit

Annotate ==
    \/ \E message \in Limitations : AddLimitation(message)
    \/ \E dropped, truncated \in 0..MaxLoss : AddLoss(dropped, truncated)

(***************************************************************************)
(* Every call has returned, none may be made, and the writer waits for a   *)
(* job or is gone: the only states in which the recorder may stop.         *)
(***************************************************************************)
Finished ==
    /\ calls = MaxCalls /\ \A c \in Callers : pc[c] = "idle"
    /\ wpc \in {"recv", "drain", "done"} /\ queue = << >>
    /\ UNCHANGED vars

Next ==
    \/ \E c \in Callers : Call(c) \/ Lock(c) \/ Cancel(c)
    \/ \E c \in Recorders : RecordStep(c)
    \/ \E c \in Streamers : StreamStep(c)
    \/ \E c \in Closers : CloseStep(c) \/ CloseFault(c)
    \/ IOStep \/ IOFault \/ WriterStep \/ Annotate \/ Finished

Spec == Init /\ [][Next]_vars

(***************************************************************************)
(* Every goroutine that can run does run; a sync.Mutex is handed over in   *)
(* the order of arrival once a waiter has starved, so a caller that finds  *)
(* enqueueMu free again and again does get it.  No fairness is assumed of  *)
(* contexts, of failures or of new calls.                                  *)
(***************************************************************************)
Fairness ==
    /\ \A c \in Callers : SF_vars(Lock(c))
    /\ \A c \in Recorders : WF_vars(RecordStep(c))
    /\ \A c \in Streamers : WF_vars(StreamStep(c))
    /\ \A c \in Closers : WF_vars(CloseStep(c))
    /\ WF_vars(IOStep) /\ WF_vars(WriterStep)

FairSpec == Spec /\ Fairness

-----------------------------------------------------------------------------
(* What the recorder promises.                                             *)

(***************************************************************************)
(* Type correctness of the recorder's fields, channels and files.          *)
(***************************************************************************)
TypeOK ==
    /\ pc \in [Callers -> Places]
    /\ arg \in [Callers -> [raw : Raws, id : Nat]] /\ calls \in Nat
    /\ enqueueMu \in Callers \cup {NoOne} /\ mu \in Callers \cup {NoOne, Writer}
    /\ queue \in Seq(Jobs) /\ queueClosed \in BOOLEAN
    /\ spaceWait \in {"none", "armed", "swapped", "closed"}
    /\ idle \in BOOLEAN /\ writerStopped \in BOOLEAN
    /\ assignedSequence \in Nat /\ sequence \in Nat /\ pending \in Nat /\ pendingBytes \in Nat
    /\ failed \in BOOLEAN /\ closed \in BOOLEAN /\ seenBlob \subseteq Payloads
    /\ manifest \in Manifests
    /\ wpc \in {"recv", "got", "io", "notify", "notifyFailed", "drain", "drainGot", "drainNotify", "done"}
    /\ io \in {"off", "store", "publish", "append", "line", "done", "bad"} /\ job \in Jobs
    /\ stream \in Seq(Jobs) /\ torn \in BOOLEAN
    /\ temps \subseteq Nat /\ blobs \subseteq Payloads /\ manifestTmp \in BOOLEAN
    /\ disk \in Manifests \cup {NoRef}
    /\ accepted \in Seq(Nat) /\ reported \in Nat

(***************************************************************************)
(* In every state, so in every image a crash can leave, the complete lines *)
(* of events.jsonl are numbered 1, 2, 3... without a gap and every blob a  *)
(* line refers to has been published before it.                            *)
(***************************************************************************)
EvidenceOnDisk ==
    \A i \in DOMAIN stream :
        stream[i].seq = i /\ (stream[i].raw # NoRef => stream[i].raw \in blobs)

(***************************************************************************)
(* The committed events are the accepted ones, in the order in which       *)
(* Record and RecordReader accepted them, through cancellations, roll-backs*)
(* and the two write paths.                                                *)
(***************************************************************************)
OrderKept ==
    /\ sequence <= Len(accepted) /\ sequence <= Len(stream)
    /\ \A i \in 1..sequence : stream[i].id = accepted[i]

(***************************************************************************)
(* Every accepted event is committed, queued, in the writer's hands or     *)
(* counted as dropped in the manifest, and is exactly one of these.        *)
(***************************************************************************)
InHand == IF wpc \in {"got", "drainGot"} \/ (wpc = "io" /\ io # "done") THEN 1 ELSE 0

Accounted ==
    Len(accepted) = sequence + Len(queue) + InHand + (manifest.dropped - reported)

(***************************************************************************)
(* appendEventLocked never meets an event out of order: its check cannot   *)
(* fail the recorder, whatever was cancelled or rolled back before.        *)
(***************************************************************************)
AppendFollows == io = "append" => Follows(job)

(***************************************************************************)
(* pending and pendingBytes are exactly what is queued, in the writer's    *)
(* hands or reserved: no roll-back, failure or drain leaks a place or      *)
(* clamps the byte count.                                                  *)
(***************************************************************************)
HeldByWriter == IF wpc \in {"got", "drainGot", "io"} THEN <<job.raw>> ELSE << >>

Reserved == {c \in Recorders : pc[c] = "send"}

PendingRaws ==
    [i \in DOMAIN queue |-> queue[i].raw] \o HeldByWriter
        \o SetToSeq({arg[c].raw : c \in Reserved})

PendingExact ==
    /\ pending = Len(PendingRaws)
    /\ pendingBytes = FoldLeft(LAMBDA n, r : n + Bytes(r), 0, PendingRaws)

(***************************************************************************)
(* Back-pressure: the queue stays within its capacity and its byte budget, *)
(* but for one oversized record by itself, although waitForQueueSpace      *)
(* gives its answer in a section of its own, before the place is taken.    *)
(***************************************************************************)
QueueLimits ==
    pending <= QueueCapacity /\ (pending >= 2 => pendingBytes <= QueueBytes)

(***************************************************************************)
(* A caller that has reserved a place finds room in the channel: enqueue   *)
(* waits for space in waitForQueueSpace and never in the send.             *)
(***************************************************************************)
SendNeverBlocks == \A c \in Recorders : pc[c] = "send" => Len(queue) < QueueCapacity

(***************************************************************************)
(* No channel operation panics: no send on a closed queue, the queue is    *)
(* closed once, and so is each idle channel.                               *)
(***************************************************************************)
NoChannelPanic ==
    /\ \A c \in Recorders : pc[c] = "send" => ~queueClosed
    /\ \A c \in Closers : pc[c] = "closeQueue" /\ ~closed => ~queueClosed
    /\ idle <=> pending = 0

(***************************************************************************)
(* The bounded queue is safe: within its limits, and with no channel       *)
(* operation of enqueue, Close or the writer that blocks or panics.        *)
(***************************************************************************)
QueueSafe == QueueLimits /\ SendNeverBlocks /\ NoChannelPanic

(***************************************************************************)
(* A capture published as "closed" holds every accepted event, and one     *)
(* published as complete has no known loss either.                         *)
(***************************************************************************)
Whole == ~torn /\ [i \in DOMAIN stream |-> stream[i].id] = accepted

ClosedMeansWhole == disk # NoRef /\ disk.status = "closed" => Whole

CompleteMeansWhole ==
    disk # NoRef /\ disk.status # "open" /\ disk.complete =>
        /\ Whole /\ disk.status = "closed"
        /\ disk.limits = {} /\ disk.dropped = 0 /\ disk.truncated = 0 /\ disk.writeErrors = 0

(***************************************************************************)
(* What sealManifest publishes is true of the evidence on disk.            *)
(***************************************************************************)
FinalMeansWhole == ClosedMeansWhole /\ CompleteMeansWhole

(***************************************************************************)
(* What VerifyWithProgress says of the directory: at any moment at most    *)
(* the counters and an unterminated line are wrong, and nothing is once a  *)
(* recorder without write errors has published its final manifest.         *)
(***************************************************************************)
RefOf(r) == IF r = NoRef THEN NoRef ELSE [digest |-> r, size |-> PayloadSize[r], canonical |-> TRUE]

\* writeManifest writes the fields that VerifyWithProgress compares with constants.
DiskManifest ==
    [readable |-> disk # NoRef, header |-> {}, events |-> disk.events, blobs |-> disk.blobs,
     blobBytes |-> disk.blobBytes]

Verification ==
    VerifyWithProgress(
        [i \in DOMAIN stream |->
            [seq |-> stream[i].seq, schema |-> TRUE, capture |-> TRUE, ref |-> RefOf(stream[i].raw)]],
        torn,
        [b \in blobs |-> [size |-> PayloadSize[b], digest |-> b]],
        DiskManifest)

VerifierAgrees ==
    disk # NoRef =>
        /\ Verification.issues \subseteq {"eventCount", "blobCount", "blobBytes"}
        /\ disk.status # "open" /\ disk.writeErrors = 0 => Verification = [error |-> FALSE, issues |-> {}]

\* The payload bytes recorded so far, and those of one more payload, fit the verifier's
\* uint64 counter.  VerifierAgreesWhileBytesFit is proved for behaviours that keep to it.
BytesFit == \A p \in Payloads : manifest.blobBytes + PayloadSize[p] < WordValues

(***************************************************************************)
(* Once Close has sealed the recorder no late call changes the stream, the *)
(* blobs, the committed sequence or the manifest about to be published.    *)
(***************************************************************************)
SealedForever == [][closed => UNCHANGED <<closed, stream, torn, blobs, sequence, manifest>>]_vars

(***************************************************************************)
(* No call hangs: with a writer that makes progress every call of Record,  *)
(* RecordReader and Close returns, and no wake-up is lost.                 *)
(***************************************************************************)
CallReturns == \A c \in Callers : pc[c] # "idle" ~> pc[c] = "idle"

(***************************************************************************)
(* Every accepted event is in the end committed or counted as dropped.     *)
(***************************************************************************)
EverySettles ==
    \A n \in 1..MaxCalls :
        Len(accepted) >= n ~> sequence + (manifest.dropped - reported) >= n

(***************************************************************************)
(* Nothing waits for ever, neither a call nor an event it has handed over. *)
(***************************************************************************)
NothingHangs == CallReturns /\ EverySettles

(***************************************************************************)
(* The recorder implements CaptureLog: committed is what the manifest      *)
(* counts, lost is what the writer added to Counts.Dropped.                *)
(***************************************************************************)
Log == INSTANCE CaptureLog WITH
           log <- [i \in 1..sequence |-> stream[i].id],
           lost <- manifest.dropped - reported,
           broken <- failed,
           sealed <- closed

ImplementsLog == Log!LogSpec

(***************************************************************************)
(* What the readers of the directory rely on: the recorder implements      *)
(* CaptureFiles.  Lines only grow, one that fails stays where it is and    *)
(* nothing follows it, and the final manifest comes after the last line.   *)
(***************************************************************************)
Files == INSTANCE CaptureFiles WITH
             lines <- Len(stream),
             counted <- manifest.events,
             broken <- failed,
             sealed <- closed,
             disk <- IF disk = NoRef THEN [status |-> "none", events |-> 0]
                     ELSE [status |-> disk.status, events |-> disk.events]

ImplementsFiles == Files!FilesSpec

-----------------------------------------------------------------------------
(* The inductive invariant behind the theorems of CaptureRecorderProofs.   *)

\* Who holds which mutex, and what each role can be doing.
LockInv ==
    /\ \A c \in Callers :
         /\ pc[c] \notin {"idle", "lock"} <=> enqueueMu = c
         /\ pc[c] \in {"stream", "closeSync", "manifest", "rename", "retry"} <=> mu = c
    /\ \A c \in Recorders : pc[c] \in {"idle", "lock", "space", "spaceSelect", "reserve", "send"}
    /\ \A c \in Streamers : pc[c] \in {"idle", "lock", "waitIdle", "idleSelect", "sync", "stream"}
    /\ \A c \in Closers : pc[c] \in {"idle", "lock", "closeQueue", "join", "closeSync", "manifest",
                                     "rename", "retry"}
    /\ \A c \in Streamers : pc[c] # "idle" => arg[c].raw \in Payloads
    /\ mu = Writer <=> wpc = "io"
    /\ io # "off" <=> wpc = "io" \/ \E c \in Streamers : pc[c] = "stream"

\* What pending counts.
Busy == IF wpc \in {"got", "drainGot", "io"} THEN 1 ELSE 0
Res  == IF \E c \in Recorders : pc[c] = "send" THEN 1 ELSE 0

PendingInv ==
    /\ pending = Len(queue) + Busy + Res
    /\ idle <=> pending = 0
    /\ QueueLimits
    /\ \A c \in Recorders : pc[c] = "reserve" => HasSpace(Bytes(arg[c].raw))
    /\ \A c \in Streamers : pc[c] \in {"sync", "stream"} => pending = 0

\* How far Close has come.
CloseInv ==
    /\ closed => queueClosed /\ wpc = "done"
    /\ queueClosed => closed \/ \E c \in Closers : pc[c] = "join"
    /\ wpc = "done" => queueClosed /\ queue = << >>
    /\ \A c \in Callers :
         /\ pc[c] = "join" => queueClosed /\ ~closed
         /\ pc[c] \in {"closeSync", "manifest", "rename", "retry"} => closed
         /\ pc[c] \in {"spaceSelect", "reserve", "send", "idleSelect", "sync", "stream"} => ~queueClosed

\* What a failure implies for the writer.
FailInv ==
    /\ failed => /\ wpc # "got"
                 /\ wpc \in {"recv", "notify"} => pending = 0
                 /\ io \in {"off", "bad"}
    /\ ~failed => wpc \notin {"notifyFailed", "drain", "drainGot", "drainNotify"} /\ io # "bad"
    /\ writerStopped => failed

\* The numbering: committed, in hand, queued, reserved.
Numbered == IF wpc = "got" \/ io \in {"store", "publish", "append", "line"} THEN 1 ELSE 0

SequenceInv ==
    /\ sequence <= Len(stream)
    /\ ~failed => /\ Len(stream) = sequence
                  /\ assignedSequence = sequence + Numbered + Len(queue) + Res
                  /\ Numbered = 1 => job.seq = sequence + 1
                  /\ \A i \in DOMAIN queue : queue[i].seq = sequence + Numbered + i
    /\ EvidenceOnDisk
    /\ seenBlob \subseteq blobs
    /\ io \in {"store", "publish"} => job.raw \in Payloads
    /\ io \in {"append", "line"} => job.raw \in blobs \cup {NoRef}

\* The order of acceptance, and the account of losses.
OrderInv ==
    /\ OrderKept /\ Accounted
    /\ reported <= manifest.dropped
    /\ ~failed => /\ manifest.dropped = reported
                  /\ InHand = 1 => job.id = accepted[sequence + 1]
                  /\ \A i \in DOMAIN queue : queue[i].id = accepted[sequence + InHand + i]

IndInv == TypeOK /\ LockInv /\ PendingInv /\ CloseInv /\ FailInv /\ SequenceInv /\ OrderInv

\* What the manifest says, in memory and on disk.
FinalInv ==
    /\ manifest.events = sequence
    /\ closed <=> manifest.status # "open"
    /\ failed => manifest.status # "closed"
    /\ manifest.complete =>
         /\ manifest.limits = {} /\ manifest.status # "failed"
         /\ manifest.dropped = 0 /\ manifest.truncated = 0 /\ manifest.writeErrors = 0
    /\ torn => failed \/ io = "line"
    /\ ~closed => disk # NoRef /\ disk.status = "open"
    /\ disk # NoRef /\ disk.status # "open" => disk = manifest
    /\ \A c \in Closers :
         /\ pc[c] \in {"closeSync", "manifest", "rename"} => disk # NoRef /\ disk.status = "open"
         /\ pc[c] = "retry" => disk = NoRef

=============================================================================
