----------------------- MODULE CaptureRecorderProofs -----------------------
(***************************************************************************)
(* The safety theorems of CaptureRecorder, for any number of callers, any  *)
(* queue capacity and byte budget, any payloads and any set of faults.     *)
(*                                                                         *)
(* IndInv is inductive; each of its seven conjuncts has a lemma that says  *)
(* a step keeps it, with one case per action or per group of actions that  *)
(* do not touch what the conjunct is about.  From it follow what the       *)
(* recorder promises to the outside: the final manifest is true, the       *)
(* recorder implements CaptureLog, its directory is the CaptureFiles that  *)
(* the live readers rely on, the bytes it says are pending are the bytes   *)
(* that are, and the verifier agrees with what it wrote.                   *)
(***************************************************************************)
EXTENDS CaptureRecorder, FoldFacts, TLAPS

USE DEF callVars, chanVars, stateVars, ioVars, diskVars, histVars, storeVars, closeVars

-----------------------------------------------------------------------------
(* Sequences, as the channel and the files use them.                       *)

\* A receive takes the first element and shifts the others.
LEMMA TailShift ==
    ASSUME NEW S, NEW q \in Seq(S), q # << >>
    PROVE  /\ Head(q) = q[1] /\ Head(q) \in S /\ Tail(q) \in Seq(S)
           /\ Len(q) \in Nat /\ Len(q) >= 1 /\ Len(Tail(q)) = Len(q) - 1
           /\ \A i \in DOMAIN Tail(q) : i \in 1..(Len(q) - 1) /\ Tail(q)[i] = q[i + 1]
  OBVIOUS

\* A send, and an append to a file, leave what is there and add one element.
LEMMA AppendLast ==
    ASSUME NEW S, NEW q \in Seq(S), NEW x \in S
    PROVE  /\ Append(q, x) \in Seq(S) /\ Len(q) \in Nat /\ Len(Append(q, x)) = Len(q) + 1
           /\ DOMAIN Append(q, x) = 1..(Len(q) + 1)
           /\ \A i \in 1..Len(q) : Append(q, x)[i] = q[i]
           /\ Append(q, x)[Len(q) + 1] = x
  OBVIOUS

-----------------------------------------------------------------------------
(* The types of what the actions write.                                    *)

LEMMA BytesType == \A r \in Raws : Bytes(r) \in Nat
  BY RecorderAssumption DEF Raws, Bytes

LEMMA JobFields == \A j \in Jobs : j.seq \in Nat /\ j.raw \in Raws /\ j.id \in Nat
  BY DEF Jobs

LEMMA NoJobType == NoJob \in Jobs /\ NoArg \in [raw : Raws, id : Nat]
  BY DEF NoJob, NoArg, Jobs, Raws

LEMMA MarkFailedType == ASSUME NEW m \in Manifests PROVE markFailed(m) \in Manifests
<1> DEFINE errors == IF failed THEN m.writeErrors ELSE m.writeErrors + 1
<1>1. errors \in Nat
  BY DEF Manifests
<1>2. markFailed(m) = [m EXCEPT !.complete = FALSE, !.writeErrors = errors]
  BY DEF markFailed
<1> HIDE DEF errors
<1>3. QED
  BY <1>1, <1>2 DEF Manifests

LEMMA MarkDroppedType == ASSUME NEW m \in Manifests PROVE markDropped(m) \in Manifests
<1>1. m.dropped + 1 \in Nat
  BY DEF Manifests
<1>2. m.limits \cup {writerFailureLossReason} \in SUBSET (Limitations \cup {writerFailureLossReason})
  BY DEF Manifests
<1>3. QED
  BY <1>1, <1>2 DEF Manifests, markDropped

LEMMA CountEventType ==
    ASSUME NEW m \in Manifests, NEW j \in Jobs PROVE countEvent(m, j) \in Manifests
<1>1. m.events + 1 \in Nat /\ m.blobs + 1 \in Nat
  BY DEF Manifests
<1>2. j.raw # NoRef => m.blobBytes + PayloadSize[j.raw] \in Nat
  BY RecorderAssumption DEF Manifests, Jobs, Raws
<1>3. QED
  BY <1>1, <1>2 DEF Manifests, countEvent

LEMMA SealManifestType ==
    ASSUME NEW m \in Manifests, NEW status \in {"closed", "failed"}, NEW cause \in BOOLEAN,
           failed \in BOOLEAN
    PROVE  sealManifest(m, status, cause) \in Manifests
<1>1. (m.complete /\ ~cause /\ ~failed) \in BOOLEAN /\ (cause \/ failed) \in BOOLEAN
  OBVIOUS
<1>2. QED
  BY <1>1 DEF Manifests, sealManifest

LEMMA AddLimitationType ==
    ASSUME NEW m \in Manifests, NEW message \in Limitations
    PROVE  [m EXCEPT !.complete = FALSE, !.limits = @ \cup {message}] \in Manifests
<1>1. m.limits \cup {message} \in SUBSET (Limitations \cup {writerFailureLossReason})
  BY DEF Manifests
<1>2. QED
  BY <1>1 DEF Manifests

LEMMA AddLossType ==
    ASSUME NEW m \in Manifests, NEW dropped \in Nat, NEW truncated \in Nat,
           NEW reason \in SUBSET Limitations
    PROVE  [m EXCEPT !.dropped = @ + dropped, !.truncated = @ + truncated, !.complete = FALSE,
                     !.limits = @ \cup reason] \in Manifests
<1>1. m.dropped + dropped \in Nat /\ m.truncated + truncated \in Nat
  BY DEF Manifests
<1>2. m.limits \cup reason \in SUBSET (Limitations \cup {writerFailureLossReason})
  BY DEF Manifests
<1>3. QED
  BY <1>1, <1>2 DEF Manifests

\* What the invariant gives the leaves below.
LEMMA Basics ==
    ASSUME IndInv
    PROVE  /\ pc \in [Callers -> Places] /\ arg \in [Callers -> [raw : Raws, id : Nat]]
           /\ \A c \in Callers : arg[c].raw \in Raws /\ arg[c].id \in Nat /\ Bytes(arg[c].raw) \in Nat
           /\ queue \in Seq(Jobs) /\ Len(queue) \in Nat
           /\ stream \in Seq(Jobs) /\ Len(stream) \in Nat
           /\ accepted \in Seq(Nat) /\ Len(accepted) \in Nat
           /\ job \in Jobs /\ job.seq \in Nat /\ job.raw \in Raws /\ job.id \in Nat
           /\ Bytes(job.raw) \in Nat
           /\ assignedSequence \in Nat /\ sequence \in Nat /\ pending \in Nat /\ pendingBytes \in Nat
           /\ manifest \in Manifests /\ manifest.dropped \in Nat /\ reported \in Nat
           /\ failed \in BOOLEAN /\ closed \in BOOLEAN /\ queueClosed \in BOOLEAN /\ idle \in BOOLEAN
<1>1. TypeOK
  BY DEF IndInv
<1>2. \A c \in Callers : arg[c].raw \in Raws /\ arg[c].id \in Nat
  BY <1>1 DEF TypeOK
<1>3. job.seq \in Nat /\ job.raw \in Raws /\ job.id \in Nat
  BY <1>1, JobFields DEF TypeOK
<1>4. manifest.dropped \in Nat
  BY <1>1 DEF TypeOK, Manifests
<1>5. QED
  BY <1>1, <1>2, <1>3, <1>4, BytesType DEF TypeOK

\* enqueueMu admits one caller: while one is past it, no other has a place reserved.
LEMMA OneReservation ==
    ASSUME IndInv, NEW c \in Callers, pc[c] \notin {"idle", "lock"}
    PROVE  Res = IF pc[c] = "send" THEN 1 ELSE 0
  BY Basics, RecorderAssumption DEF IndInv, LockInv, Res, Callers

\* A stream holds both mutexes, with nothing pending and the writer without a job.
LEMMA StreamAlone ==
    ASSUME IndInv, NEW c \in Streamers, pc[c] \in {"sync", "stream"}
    PROVE  pending = 0 /\ queue = << >> /\ Busy = 0 /\ Res = 0 /\ wpc \notin {"got", "drainGot", "io"}
<1>1. pending = 0 /\ Res = 0
  BY OneReservation, RecorderAssumption DEF IndInv, PendingInv, Callers
<1>2. Len(queue) = 0 /\ Busy = 0
  BY <1>1, Basics DEF IndInv, PendingInv, Busy
<1>3. QED
  BY <1>1, <1>2, Basics DEF Busy

-----------------------------------------------------------------------------
(* Who holds which mutex.                                                  *)

LEMMA LockStep == ASSUME IndInv, [Next]_vars PROVE LockInv'
<1>0. pc \in [Callers -> Places] /\ arg \in [Callers -> [raw : Raws, id : Nat]] /\ LockInv
  BY DEF IndInv, TypeOK
<1>1. ASSUME NEW c \in Callers, Call(c) \/ Lock(c) PROVE LockInv'
  BY <1>0, <1>1, RecorderAssumption DEF LockInv, Call, Lock, MayLock, Callers
<1>2. ASSUME NEW c \in Callers, SpaceCancelled(c) \/ StreamCancelled(c) PROVE LockInv'
  BY <1>0, <1>2, RecorderAssumption DEF LockInv, SpaceCancelled, StreamCancelled, Return,
     Callers
<1>3. ASSUME NEW c \in Callers, SendCancelled(c) \/ SendStopped(c) PROVE LockInv'
  BY <1>0, <1>3, RecorderAssumption
     DEF LockInv, SendCancelled, SendStopped, rollbackEnqueue, Return, Callers
<1>4. ASSUME NEW c \in Recorders, CheckSpace(c) \/ SpaceWoken(c) PROVE LockInv'
  BY <1>0, <1>4, RecorderAssumption DEF LockInv, CheckSpace, SpaceWoken, Return, Callers
<1>5. ASSUME NEW c \in Recorders, Reserve(c) PROVE LockInv'
  BY <1>0, <1>5, RecorderAssumption DEF LockInv, Reserve, Callers
<1>6. ASSUME NEW c \in Recorders, ReserveRefused(c) PROVE LockInv'
  BY <1>0, <1>6, RecorderAssumption DEF LockInv, ReserveRefused, Return, Callers
<1>7. ASSUME NEW c \in Recorders, Send(c) PROVE LockInv'
  BY <1>0, <1>7, RecorderAssumption DEF LockInv, Send, Return, Callers
<1>8. ASSUME NEW c \in Streamers, StreamStep(c) PROVE LockInv'
  BY <1>0, <1>8, RecorderAssumption
     DEF LockInv, StreamStep, CheckIdle, IdleWoken, StreamBegin, StreamEnd, Return, Writer, Callers
<1>9. ASSUME NEW c \in Closers, CloseStep(c) PROVE LockInv'
  BY <1>0, <1>9, RecorderAssumption
     DEF LockInv, CloseStep, CloseQueue, CloseSeal, CloseSync, ManifestTemp, ManifestRename,
         CloseReturn, Return, Writer, Callers
<1>10. ASSUME NEW c \in Closers, CloseFault(c) PROVE LockInv'
  BY <1>0, <1>10, RecorderAssumption
     DEF LockInv, CloseFault, ManifestTempFail, ManifestRemove, ManifestRetryFail,
         CloseReturn, Return, Writer, Callers
<1>11. CASE IOStep \/ IOFault
  BY <1>0, <1>11 DEF LockInv, IOStep, IOFault, StoreOpen, StorePublish, StoreFail,
     AppendBegin,
                    AppendCommit, AppendTorn, SyncFail
<1>12. CASE WriterStep
  BY <1>0, <1>12, RecorderAssumption
     DEF LockInv, WriterStep, WriterRecv, WriterBegin, WriterComplete, WriterNotify,
         drainFailedQueue, WriterExit, Writer, Callers
<1>13. CASE Annotate \/ UNCHANGED vars
  BY <1>0, <1>13 DEF LockInv, Annotate, AddLimitation, AddLoss, vars
<1>14. QED
  BY <1>1, <1>2, <1>3, <1>4, <1>5, <1>6, <1>7, <1>8, <1>9, <1>10, <1>11, <1>12, <1>13
     DEF Next, Cancel, RecordStep, Finished, Callers

-----------------------------------------------------------------------------
(* How far Close has come.                                                 *)

LEMMA CloseInvStep == ASSUME IndInv, [Next]_vars PROVE CloseInv'
<1>0. pc \in [Callers -> Places] /\ LockInv /\ CloseInv /\ queue \in Seq(Jobs)
  BY DEF IndInv, TypeOK
<1>1. ASSUME NEW c \in Callers, Call(c) \/ Lock(c) PROVE CloseInv'
  BY <1>0, <1>1, RecorderAssumption DEF LockInv, CloseInv, Call, Lock, Callers
<1>2. ASSUME NEW c \in Callers, SpaceCancelled(c) \/ StreamCancelled(c) PROVE CloseInv'
  BY <1>0, <1>2, RecorderAssumption
     DEF LockInv, CloseInv, SpaceCancelled, StreamCancelled, Return, Callers
<1>3. ASSUME NEW c \in Callers, SendCancelled(c) \/ SendStopped(c) PROVE CloseInv'
  BY <1>0, <1>3, RecorderAssumption
     DEF LockInv, CloseInv, SendCancelled, SendStopped, rollbackEnqueue, Return, Callers
<1>4. ASSUME NEW c \in Recorders, CheckSpace(c) \/ SpaceWoken(c) PROVE CloseInv'
  BY <1>0, <1>4, RecorderAssumption DEF LockInv, CloseInv, CheckSpace, SpaceWoken, Return,
     Callers
<1>5. ASSUME NEW c \in Recorders, Reserve(c) PROVE CloseInv'
  BY <1>0, <1>5, RecorderAssumption DEF LockInv, CloseInv, Reserve, Callers
<1>6. ASSUME NEW c \in Recorders, ReserveRefused(c) PROVE CloseInv'
  BY <1>0, <1>6, RecorderAssumption DEF LockInv, CloseInv, ReserveRefused, Return, Callers
<1>7. ASSUME NEW c \in Recorders, Send(c) PROVE CloseInv'
  BY <1>0, <1>7, RecorderAssumption DEF LockInv, CloseInv, Send, Return, Callers
<1>8. ASSUME NEW c \in Streamers, StreamStep(c) PROVE CloseInv'
  BY <1>0, <1>8, RecorderAssumption
     DEF LockInv, CloseInv, StreamStep, CheckIdle, IdleWoken, StreamBegin, StreamEnd, Return,
         Callers
<1>9. ASSUME NEW c \in Closers, CloseStep(c) PROVE CloseInv'
  <2>1. CASE CloseQueue(c)
    BY <1>0, <2>1, RecorderAssumption DEF LockInv, CloseInv, CloseQueue, Return, Callers
  <2>2. CASE CloseSeal(c)
    BY <1>0, <2>2, RecorderAssumption DEF LockInv, CloseInv, CloseSeal, Callers
  <2>3. QED
    BY <1>0, <1>9, <2>1, <2>2, RecorderAssumption
       DEF LockInv, CloseInv, CloseStep, CloseSync, ManifestTemp, ManifestRename, CloseReturn,
           Return, Callers
<1>10. ASSUME NEW c \in Closers, CloseFault(c) PROVE CloseInv'
  BY <1>0, <1>10, RecorderAssumption
     DEF LockInv, CloseInv, CloseFault, ManifestTempFail, ManifestRemove,
         ManifestRetryFail, CloseReturn, Return, Callers
<1>11. CASE IOStep \/ IOFault
  <2>1. UNCHANGED <<pc, closed, queueClosed, wpc, queue>>
    BY <1>11 DEF IOStep, IOFault, StoreOpen, StorePublish, StoreFail, AppendBegin,
       AppendCommit,
                AppendTorn, SyncFail
  <2>2. QED
    BY <1>0, <2>1 DEF CloseInv
<1>12. CASE WriterStep
  BY <1>0, <1>12 DEF CloseInv, WriterStep, WriterRecv, WriterBegin, WriterComplete,
     WriterNotify,
                    drainFailedQueue, WriterExit
<1>13. CASE Annotate \/ UNCHANGED vars
  <2>1. UNCHANGED <<pc, closed, queueClosed, wpc, queue>>
    BY <1>13 DEF Annotate, AddLimitation, AddLoss, vars
  <2>2. QED
    BY <1>0, <2>1 DEF CloseInv
<1>14. QED
  BY <1>1, <1>2, <1>3, <1>4, <1>5, <1>6, <1>7, <1>8, <1>9, <1>10, <1>11, <1>12, <1>13
     DEF Next, Cancel, RecordStep, Finished, Callers

-----------------------------------------------------------------------------
(* What pending counts.                                                    *)

LEMMA Shrink ==
    ASSUME NEW x \in Nat, NEW y \in Nat, NEW m \in Nat, NEW limit \in Nat, y <= x, x + m <= limit
    PROVE  y + m <= limit
  OBVIOUS

\* completePendingLocked gives one place back; the limits cannot break by that.
LEMMA CompletePlace ==
    ASSUME IndInv, NEW n \in Nat, completePending(n), pending >= 1
    PROVE  /\ pending' = pending - 1 /\ pendingBytes' \in Nat /\ pendingBytes' <= pendingBytes
           /\ idle' <=> pending' = 0
           /\ QueueLimits'
           /\ \A m \in Nat : HasSpace(m) => HasSpace(m)'
<1>1. pending \in Nat /\ pendingBytes \in Nat /\ idle \in BOOLEAN
  BY Basics
<1>2. (idle <=> pending = 0) /\ QueueLimits
  BY DEF IndInv, PendingInv
<1>3. pending' = pending - 1 /\ pendingBytes' \in Nat /\ pendingBytes' <= pendingBytes
  BY <1>1 DEF completePending
<1>4. idle' <=> pending' = 0
  BY <1>1, <1>2 DEF completePending
<1>5. QueueLimits'
  BY <1>1, <1>2, <1>3, RecorderAssumption DEF QueueLimits
<1>6. ASSUME NEW m \in Nat, HasSpace(m) PROVE HasSpace(m)'
  <2>1. pending' < QueueCapacity
    BY <1>1, <1>3, <1>6, RecorderAssumption DEF HasSpace
  <2>2. pendingBytes + m <= QueueBytes
    BY <1>1, <1>6 DEF HasSpace
  <2>3. pendingBytes' + m <= QueueBytes
    <3>1. QueueBytes \in Nat
      BY RecorderAssumption
    <3>2. QED
      BY <1>1, <1>3, <2>2, <3>1, Shrink
  <2>4. QED
    BY <2>1, <2>3 DEF HasSpace
<1>7. QED
  BY <1>3, <1>4, <1>5, <1>6

LEMMA PendingStep == ASSUME IndInv, [Next]_vars PROVE PendingInv'
<1>0. LockInv /\ PendingInv
  BY DEF IndInv
<1>1. ASSUME NEW c \in Callers, Call(c) \/ Lock(c) PROVE PendingInv'
  <2>1. /\ Res' = Res
        /\ \A d \in Recorders : pc'[d] = "reserve" => pc[d] = "reserve" /\ arg'[d] = arg[d]
        /\ \A d \in Streamers : pc'[d] \in {"sync", "stream"} => pc[d] \in {"sync", "stream"}
    BY <1>1, Basics, RecorderAssumption DEF Call, Lock, Res, Callers
  <2>2. UNCHANGED <<pending, pendingBytes, idle, queue, wpc>>
    BY <1>1 DEF Call, Lock
  <2>3. QED
    BY <1>0, <2>1, <2>2 DEF PendingInv, Busy, QueueLimits, HasSpace
<1>2. ASSUME NEW c \in Callers, SpaceCancelled(c) \/ StreamCancelled(c) PROVE PendingInv'
  <2>1. /\ Res' = Res
        /\ \A d \in Recorders : pc'[d] = "reserve" => pc[d] = "reserve" /\ arg'[d] = arg[d]
        /\ \A d \in Streamers : pc'[d] \in {"sync", "stream"} => pc[d] \in {"sync", "stream"}
    BY <1>2, Basics, RecorderAssumption DEF SpaceCancelled, StreamCancelled, Return, Res,
       Callers
  <2>2. UNCHANGED <<pending, pendingBytes, idle, queue, wpc>>
    BY <1>2 DEF SpaceCancelled, StreamCancelled
  <2>3. QED
    BY <1>0, <2>1, <2>2 DEF PendingInv, Busy, QueueLimits, HasSpace
<1>3. ASSUME NEW c \in Recorders, SendCancelled(c) \/ SendStopped(c) PROVE PendingInv'
  <2>1. c \in Callers /\ pc[c] = "send" /\ Bytes(arg[c].raw) \in Nat
        /\ completePending(Bytes(arg[c].raw)) /\ Return(c) /\ UNCHANGED <<queue, wpc>>
    BY <1>3, Basics DEF SendCancelled, SendStopped, rollbackEnqueue, Callers
  <2>2. Res = 1 /\ Res' = 0
    BY <1>0, <2>1, Basics, RecorderAssumption DEF LockInv, Return, Res, Callers
  <2>3. pending >= 1
    BY <1>0, <2>2, Basics DEF PendingInv, Busy
  <2>4. \A d \in Recorders : pc'[d] # "reserve"
    BY <1>0, <2>1, Basics, RecorderAssumption DEF LockInv, Return, Callers
  <2>5. \A d \in Streamers : pc'[d] \notin {"sync", "stream"}
    BY <1>0, <2>1, Basics, RecorderAssumption DEF LockInv, Return, Callers
  <2>6. Busy' = Busy /\ Busy \in {0, 1} /\ Len(queue') = Len(queue) /\ Len(queue) \in Nat
    BY <2>1, Basics DEF Busy
  <2>7. pending' = pending - 1 /\ (idle' <=> pending' = 0) /\ QueueLimits'
    BY <1>0, <2>1, <2>3, CompletePlace, Basics DEF PendingInv
  <2>8. pending' = Len(queue') + Busy' + Res'
    BY <1>0, <2>2, <2>6, <2>7, Basics DEF PendingInv
  <2>9. QED
    BY <2>4, <2>5, <2>7, <2>8 DEF PendingInv
<1>4. ASSUME NEW c \in Recorders, CheckSpace(c) \/ SpaceWoken(c) \/ ReserveRefused(c) PROVE PendingInv'
  <2>1. Res' = Res
    BY <1>4, Basics, RecorderAssumption DEF CheckSpace, SpaceWoken, ReserveRefused, Return,
       Res, Callers
  <2>2. \A d \in Recorders : pc'[d] = "reserve" =>
            (pc[d] = "reserve" /\ arg'[d] = arg[d]) \/ (d = c /\ arg'[d] = arg[d] /\ HasSpace(Bytes(arg[c].raw)))
    BY <1>4, Basics, RecorderAssumption DEF CheckSpace, SpaceWoken, ReserveRefused, Return,
       Callers
  <2>3. \A d \in Streamers : pc'[d] = pc[d]
    BY <1>4, Basics, RecorderAssumption DEF CheckSpace, SpaceWoken, ReserveRefused, Return,
       Callers
  <2>4. UNCHANGED <<pending, pendingBytes, idle, queue, wpc>>
    BY <1>4 DEF CheckSpace, SpaceWoken, ReserveRefused
  <2>5. QED
    BY <1>0, <2>1, <2>2, <2>3, <2>4 DEF PendingInv, Busy, QueueLimits, HasSpace
<1>5. ASSUME NEW c \in Recorders, Reserve(c) PROVE PendingInv'
  <2>1. c \in Callers /\ pc[c] = "reserve" /\ Bytes(arg[c].raw) \in Nat
    BY <1>5, Basics DEF Reserve, Callers
  <2>2. Res = 0 /\ Res' = 1
    BY <1>0, <1>5, <2>1, Basics, RecorderAssumption DEF LockInv, Reserve, Res, Callers
  <2>3. HasSpace(Bytes(arg[c].raw))
    BY <1>0, <2>1 DEF PendingInv
  <2>4. pending' = pending + 1 /\ pendingBytes' = pendingBytes + Bytes(arg[c].raw)
        /\ idle' = (IF pending = 0 THEN FALSE ELSE idle) /\ UNCHANGED <<queue, wpc>>
    BY <1>5 DEF Reserve
  <2>5. \A d \in Recorders : pc'[d] # "reserve"
    BY <1>0, <1>5, <2>1, Basics, RecorderAssumption DEF LockInv, Reserve, Callers
  <2>6. \A d \in Streamers : pc'[d] \notin {"sync", "stream"}
    BY <1>0, <1>5, <2>1, Basics, RecorderAssumption DEF LockInv, Reserve, Callers
  <2>7. QueueLimits'
    <3>1. pending < QueueCapacity /\ pending \in Nat /\ pendingBytes \in Nat
      BY <2>3, Basics DEF HasSpace
    <3>2. pending = 0 \/ pendingBytes' <= QueueBytes
      BY <2>3, <2>4 DEF HasSpace
    <3>3. QED
      BY <2>4, <3>1, <3>2, RecorderAssumption DEF QueueLimits
  <2>8. pending' = Len(queue') + Busy' + Res' /\ (idle' <=> pending' = 0)
    BY <1>0, <2>2, <2>4, Basics DEF PendingInv, Busy
  <2>9. QED
    BY <2>5, <2>6, <2>7, <2>8 DEF PendingInv
<1>6. ASSUME NEW c \in Recorders, Send(c) PROVE PendingInv'
  <2>1. c \in Callers /\ pc[c] = "send" /\ Return(c) /\ UNCHANGED <<pending, pendingBytes, idle, wpc>>
    BY <1>6 DEF Send, Callers
  <2>2. Res = 1 /\ Res' = 0
    BY <1>0, <2>1, Basics, RecorderAssumption DEF LockInv, Return, Res, Callers
  <2>3. Len(queue') = Len(queue) + 1
    BY <1>6, Basics DEF Send
  <2>4. \A d \in Recorders : pc'[d] # "reserve"
    BY <1>0, <2>1, Basics, RecorderAssumption DEF LockInv, Return, Callers
  <2>5. \A d \in Streamers : pc'[d] \notin {"sync", "stream"}
    BY <1>0, <2>1, Basics, RecorderAssumption DEF LockInv, Return, Callers
  <2>6. QED
    BY <1>0, <2>1, <2>2, <2>3, <2>4, <2>5, Basics DEF PendingInv, Busy, QueueLimits
<1>7. ASSUME NEW c \in Streamers, StreamStep(c) PROVE PendingInv'
  <2>1. Res' = Res /\ (\A d \in Recorders : pc'[d] = pc[d] /\ arg'[d] = arg[d])
    BY <1>7, Basics, RecorderAssumption
       DEF StreamStep, CheckIdle, IdleWoken, StreamBegin, StreamEnd, Return, Res, Callers
  <2>2. \A d \in Streamers : pc'[d] \in {"sync", "stream"} => pending = 0
    BY <1>0, <1>7, Basics, RecorderAssumption
       DEF PendingInv, StreamStep, CheckIdle, IdleWoken, StreamBegin, StreamEnd, Return, Callers
  <2>3. UNCHANGED <<pending, pendingBytes, idle, queue, wpc>>
    BY <1>7 DEF StreamStep, CheckIdle, IdleWoken, StreamBegin, StreamEnd
  <2>4. QED
    BY <1>0, <2>1, <2>2, <2>3 DEF PendingInv, Busy, QueueLimits, HasSpace
<1>8. ASSUME NEW c \in Closers, CloseStep(c) \/ CloseFault(c) PROVE PendingInv'
  <2>1. \A d \in Callers : pc'[d] # pc[d] \/ arg'[d] # arg[d] => d \in Closers
    BY <1>8, Basics, RecorderAssumption
       DEF CloseStep, CloseQueue, CloseSeal, CloseSync, ManifestTemp, ManifestRename, CloseFault,
           ManifestTempFail, ManifestRemove, ManifestRetryFail, CloseReturn, Return,
           Callers
  <2>2. \A d \in Recorders \cup Streamers : pc'[d] = pc[d] /\ arg'[d] = arg[d]
    BY <2>1, RecorderAssumption DEF Callers
  <2>3. UNCHANGED <<pending, pendingBytes, idle, queue, wpc>>
    BY <1>8 DEF CloseStep, CloseQueue, CloseSeal, CloseSync, ManifestTemp, ManifestRename,
                CloseFault, ManifestTempFail, ManifestRemove, ManifestRetryFail
  <2>4. QED
    BY <1>0, <2>2, <2>3 DEF PendingInv, Busy, Res, QueueLimits, HasSpace
<1>9. CASE IOStep \/ IOFault
  <2>1. UNCHANGED <<pc, arg, pending, pendingBytes, idle, queue, wpc>>
    BY <1>9 DEF IOStep, IOFault, StoreOpen, StorePublish, StoreFail, AppendBegin,
       AppendCommit,
                AppendTorn, SyncFail
  <2>2. QED
    BY <1>0, <2>1 DEF PendingInv, Busy, Res, QueueLimits, HasSpace
<1>10. CASE WriterRecv
  <2>1. Len(queue') = Len(queue) - 1 /\ Busy = 0 /\ Busy' = 1
    BY <1>10, Basics, TailShift DEF WriterRecv, Busy
  <2>2. UNCHANGED <<pc, arg, pending, pendingBytes, idle>>
    BY <1>10 DEF WriterRecv
  <2>3. QED
    BY <1>0, <2>1, <2>2, Basics DEF PendingInv, Res, QueueLimits, HasSpace
<1>11. CASE WriterComplete \/ drainFailedQueue
  <2>1. completePending(Bytes(job.raw)) /\ Busy = 1 /\ Busy' = 0 /\ UNCHANGED <<pc, arg, queue>>
    BY <1>11 DEF WriterComplete, drainFailedQueue, Busy
  <2>2. pending >= 1 /\ Res' = Res
    BY <1>0, <2>1, Basics DEF PendingInv, Res
  <2>3. \A d \in Streamers : pc'[d] \notin {"sync", "stream"}
    BY <2>1, StreamAlone
  <2>4. pending' = pending - 1 /\ (idle' <=> pending' = 0) /\ QueueLimits'
        /\ \A m \in Nat : HasSpace(m) => HasSpace(m)'
    BY <2>1, <2>2, CompletePlace, Basics
  <2>5. ASSUME NEW d \in Recorders, pc'[d] = "reserve" PROVE HasSpace(Bytes(arg[d].raw))'
    <3>1. Bytes(arg[d].raw) \in Nat
      BY Basics DEF Callers
    <3>2. HasSpace(Bytes(arg[d].raw))
      BY <1>0, <2>1, <2>5 DEF PendingInv
    <3>3. pending' < QueueCapacity /\ (pendingBytes' + Bytes(arg[d].raw) <= QueueBytes \/ pending' = 0)
      BY <2>4, <3>1, <3>2 DEF HasSpace
    <3>4. QED
      BY <2>1, <3>3 DEF HasSpace, Bytes
  <2>6. pending' = Len(queue') + Busy' + Res'
    <3>1. Res \in Nat
      BY DEF Res
    <3>2. QED
      BY <1>0, <2>1, <2>2, <2>4, <3>1, Basics DEF PendingInv
  <2>7. QED
    BY <2>3, <2>4, <2>5, <2>6 DEF PendingInv
<1>12. CASE WriterBegin \/ WriterNotify \/ WriterExit
  <2>1. UNCHANGED <<pc, arg, pending, pendingBytes, idle, queue, Busy>>
    BY <1>12 DEF WriterBegin, WriterNotify, WriterExit, Busy
  <2>2. QED
    BY <1>0, <2>1 DEF PendingInv, Res, QueueLimits, HasSpace
<1>13. CASE Annotate \/ UNCHANGED vars
  <2>1. UNCHANGED <<pc, arg, pending, pendingBytes, idle, queue, wpc>>
    BY <1>13 DEF Annotate, AddLimitation, AddLoss, vars
  <2>2. QED
    BY <1>0, <2>1 DEF PendingInv, Busy, Res, QueueLimits, HasSpace
<1>14. ASSUME NEW c \in Callers, SendCancelled(c) PROVE c \in Recorders
  BY <1>0, <1>14 DEF LockInv, SendCancelled, Callers
<1>15. QED
  BY <1>1, <1>2, <1>3, <1>4, <1>5, <1>6, <1>7, <1>8, <1>9, <1>10, <1>11, <1>12, <1>13, <1>14
     DEF Next, Cancel, RecordStep, WriterStep, Finished

-----------------------------------------------------------------------------
(* What a failure implies for the writer.                                  *)

\* I/O is done by the writer, or by a stream while the writer has nothing to do.
LEMMA WhoseIO ==
    ASSUME IndInv, io # "off"
    PROVE  \/ wpc = "io" /\ mu = Writer
           \/ /\ wpc \notin {"got", "drainGot", "io"} /\ mu # Writer
              /\ pending = 0 /\ queue = << >> /\ Res = 0
<1>1. wpc = "io" \/ \E c \in Streamers : pc[c] = "stream"
  BY DEF IndInv, LockInv
<1>2. mu = Writer <=> wpc = "io"
  BY DEF IndInv, LockInv
<1>3. QED
  BY <1>1, <1>2, StreamAlone

LEMMA FailStep == ASSUME IndInv, [Next]_vars PROVE FailInv'
<1>0. LockInv /\ PendingInv /\ CloseInv /\ FailInv
  BY DEF IndInv
<1>1. ASSUME NEW c \in Recorders, SendCancelled(c) \/ SendStopped(c) PROVE FailInv'
  <2>1. pc[c] = "send" /\ UNCHANGED <<wpc, io, failed, writerStopped>>
    BY <1>1 DEF SendCancelled, SendStopped, rollbackEnqueue
  <2>2. pending # 0
    <3>1. Res = 1
      BY <2>1, OneReservation DEF Callers
    <3>2. QED
      BY <1>0, <3>1, Basics DEF PendingInv, Busy
  <2>3. QED
    BY <1>0, <2>1, <2>2 DEF FailInv
<1>2. ASSUME NEW c \in Recorders, Reserve(c) PROVE FailInv'
  BY <1>0, <1>2 DEF FailInv, Reserve
<1>3. ASSUME NEW c \in Streamers, StreamBegin(c) \/ StreamEnd(c) PROVE FailInv'
  <2>1. UNCHANGED <<pending, failed, wpc, writerStopped>>
    BY <1>3 DEF StreamBegin, StreamEnd
  <2>2. CASE StreamBegin(c)
    BY <1>0, <2>1, <2>2 DEF FailInv, StreamBegin
  <2>3. CASE StreamEnd(c)
    BY <1>0, <2>1, <2>3 DEF FailInv, StreamEnd
  <2>4. QED
    BY <1>3, <2>2, <2>3
<1>4. CASE IOStep
  <2>1. UNCHANGED <<pending, failed, wpc, writerStopped>>
    BY <1>4 DEF IOStep, StoreOpen, StorePublish, AppendBegin, AppendCommit
  <2>2. ~failed
    BY <1>0, <1>4 DEF FailInv, IOStep, StoreOpen, StorePublish, AppendBegin, AppendCommit
  <2>3. io' # "bad"
    <3>1. CASE AppendBegin
      BY <2>2, <3>1 DEF IndInv, SequenceInv, Numbered, AppendBegin, Follows
    <3>2. QED
      BY <1>4, <3>1 DEF IOStep, StoreOpen, StorePublish, AppendCommit
  <2>4. QED
    BY <1>0, <2>1, <2>2, <2>3 DEF FailInv
<1>5. CASE IOFault
  <2>1. io # "off" /\ failed' /\ io' = "bad" /\ UNCHANGED <<pending, wpc, writerStopped>>
    BY <1>5 DEF IOFault, StoreFail, AppendTorn, SyncFail
  <2>2. wpc # "got" /\ (wpc \in {"recv", "notify"} => pending = 0)
    BY <2>1, WhoseIO
  <2>3. QED
    BY <2>1, <2>2 DEF FailInv
<1>6. CASE WriterRecv
  <2>1. pending # 0
    <3>1. Len(queue) >= 1 /\ Len(queue) \in Nat
      BY <1>6, Basics, TailShift DEF WriterRecv
    <3>2. Res \in Nat /\ Busy \in Nat
      BY DEF Res, Busy
    <3>3. QED
      BY <1>0, <3>1, <3>2 DEF PendingInv
  <2>2. UNCHANGED <<failed, pending, io, writerStopped>>
    BY <1>6 DEF WriterRecv
  <2>3. QED
    BY <1>0, <1>6, <2>1, <2>2 DEF FailInv, WriterRecv
<1>7. CASE WriterBegin
  BY <1>0, <1>7 DEF FailInv, CloseInv, WriterBegin
<1>8. CASE WriterComplete
  BY <1>0, <1>8 DEF FailInv, WriterComplete
<1>9. CASE WriterNotify
  <2>1. UNCHANGED <<failed, pending, io>> /\ wpc \in {"notify", "notifyFailed", "drainNotify"}
    BY <1>9 DEF WriterNotify
  <2>2. writerStopped' => failed
    BY <1>0, <1>9 DEF FailInv, WriterNotify
  <2>3. wpc' = IF wpc = "notify" THEN "recv" ELSE "drain"
    BY <1>9 DEF WriterNotify
  <2>4. QED
    BY <1>0, <2>1, <2>2, <2>3 DEF FailInv
<1>19. CASE WriterExit
  BY <1>0, <1>19 DEF FailInv, WriterExit
<1>10. CASE drainFailedQueue
  BY <1>0, <1>10 DEF FailInv, drainFailedQueue
<1>11. ASSUME UNCHANGED <<pending, failed, wpc, io, writerStopped>> PROVE FailInv'
  BY <1>0, <1>11 DEF FailInv
<1>12. ASSUME NEW c \in Callers, Call(c) \/ Lock(c) \/ SpaceCancelled(c) \/ StreamCancelled(c)
       PROVE  FailInv'
  BY <1>11, <1>12 DEF Call, Lock, SpaceCancelled, StreamCancelled
<1>13. ASSUME NEW c \in Recorders, CheckSpace(c) \/ SpaceWoken(c) \/ ReserveRefused(c) \/ Send(c)
       PROVE  FailInv'
  BY <1>11, <1>13 DEF CheckSpace, SpaceWoken, ReserveRefused, Send
<1>14. ASSUME NEW c \in Streamers, CheckIdle(c) \/ IdleWoken(c) PROVE FailInv'
  BY <1>11, <1>14 DEF CheckIdle, IdleWoken
<1>15. ASSUME NEW c \in Closers, CloseStep(c) \/ CloseFault(c) PROVE FailInv'
  BY <1>11, <1>15
     DEF CloseStep, CloseQueue, CloseSeal, CloseSync, ManifestTemp, ManifestRename, CloseFault,
         ManifestTempFail, ManifestRemove, ManifestRetryFail
<1>16. CASE Annotate \/ UNCHANGED vars
  BY <1>11, <1>16 DEF Annotate, AddLimitation, AddLoss, vars
<1>17. ASSUME NEW c \in Callers, SendCancelled(c) PROVE c \in Recorders
  BY <1>0, <1>17 DEF LockInv, SendCancelled, Callers
<1>18. QED
  BY <1>1, <1>2, <1>3, <1>4, <1>5, <1>6, <1>7, <1>8, <1>9, <1>10, <1>12, <1>13, <1>14,
     <1>15,
     <1>16, <1>17, <1>19 DEF Next, Cancel, RecordStep, StreamStep, WriterStep, Finished

-----------------------------------------------------------------------------
(* Numbering and evidence.                                                 *)

\* The steps of the callers that touch neither the numbering nor the account.
Quiet(c) ==
    \/ Call(c) \/ Lock(c) \/ SpaceCancelled(c) \/ StreamCancelled(c)
    \/ c \in Recorders /\ (CheckSpace(c) \/ SpaceWoken(c) \/ ReserveRefused(c))
    \/ c \in Streamers /\ (CheckIdle(c) \/ IdleWoken(c))
    \/ c \in Closers /\ (CloseStep(c) \/ CloseFault(c))

coreVars == <<assignedSequence, sequence, failed, seenBlob, queue, wpc, io, job, stream, blobs,
              accepted, reported>>

LEMMA QuietKeeps ==
    ASSUME IndInv, NEW c \in Callers, Quiet(c)
    PROVE  Res' = Res /\ UNCHANGED coreVars /\ manifest'.dropped = manifest.dropped
<1>1. CASE Call(c) \/ Lock(c) \/ SpaceCancelled(c) \/ StreamCancelled(c)
  <2>1. Res' = Res
    BY <1>1, Basics, RecorderAssumption
       DEF Call, Lock, SpaceCancelled, StreamCancelled, Return, Res, Callers
  <2>2. QED
    BY <1>1, <2>1 DEF Call, Lock, SpaceCancelled, StreamCancelled, coreVars
<1>2. CASE c \in Recorders /\ (CheckSpace(c) \/ SpaceWoken(c) \/ ReserveRefused(c))
  <2>1. Res' = Res
    BY <1>2, Basics, RecorderAssumption DEF CheckSpace, SpaceWoken, ReserveRefused, Return,
       Res, Callers
  <2>2. QED
    BY <1>2, <2>1 DEF CheckSpace, SpaceWoken, ReserveRefused, coreVars
<1>3. CASE c \in Streamers /\ (CheckIdle(c) \/ IdleWoken(c))
  <2>1. Res' = Res
    BY <1>3, Basics, RecorderAssumption DEF CheckIdle, IdleWoken, Return, Res, Callers
  <2>2. QED
    BY <1>3, <2>1 DEF CheckIdle, IdleWoken, coreVars
<1>4. CASE c \in Closers /\ (CloseStep(c) \/ CloseFault(c))
  <2>1. \A d \in Recorders : pc'[d] = pc[d]
    BY <1>4, Basics, RecorderAssumption
       DEF CloseStep, CloseQueue, CloseSeal, CloseSync, ManifestTemp, ManifestRename, CloseFault,
           ManifestTempFail, ManifestRemove, ManifestRetryFail, CloseReturn, Return,
           Callers
  <2>2. UNCHANGED coreVars
    BY <1>4 DEF CloseStep, CloseQueue, CloseSeal, CloseSync, ManifestTemp, ManifestRename,
                CloseFault, ManifestTempFail, ManifestRemove, ManifestRetryFail,
                coreVars
  <2>3. manifest'.dropped = manifest.dropped
    <3>1. CASE CloseSeal(c)
      BY <3>1, Basics DEF CloseSeal, sealManifest, Manifests
    <3>2. QED
      BY <1>4, <3>1 DEF CloseStep, CloseQueue, CloseSync, ManifestTemp, ManifestRename,
         CloseFault,
                        ManifestTempFail, ManifestRemove, ManifestRetryFail
  <2>4. QED
    BY <2>1, <2>2, <2>3 DEF Res
<1>5. QED
  BY <1>1, <1>2, <1>3, <1>4 DEF Quiet

\* An active I/O stage, before a failure: whoever runs it has the next number in hand.
LEMMA ActiveIO ==
    ASSUME IndInv, io \in {"store", "publish", "append", "line"}
    PROVE  /\ ~failed /\ Numbered = 1 /\ wpc # "got"
           /\ job.seq = sequence + 1 /\ Len(stream) = sequence
           /\ InHand = IF mu = Writer THEN 1 ELSE 0
<1>1. ~failed
  BY DEF IndInv, FailInv
<1>2. wpc # "got" /\ wpc # "drainGot" /\ (mu = Writer <=> wpc = "io")
  BY WhoseIO DEF IndInv, LockInv
<1>3. QED
  BY <1>1, <1>2 DEF IndInv, SequenceInv, Numbered, InHand

LEMMA SequenceStep == ASSUME IndInv, [Next]_vars PROVE SequenceInv'
<1>0. LockInv /\ PendingInv /\ CloseInv /\ FailInv /\ SequenceInv
  BY DEF IndInv
<1>1. ASSUME Res' = Res, UNCHANGED coreVars PROVE SequenceInv'
  BY <1>0, <1>1 DEF SequenceInv, Numbered, EvidenceOnDisk, coreVars
<1>2. ASSUME NEW c \in Callers, Quiet(c) PROVE SequenceInv'
  BY <1>1, <1>2, QuietKeeps
<1>3. ASSUME NEW c \in Recorders, Reserve(c) PROVE SequenceInv'
  <2>0. c \in Callers /\ pc[c] = "reserve"
    BY <1>3 DEF Reserve, Callers
  <2>1. Res = 0 /\ Res' = 1
    BY <1>0, <1>3, <2>0, Basics, RecorderAssumption DEF LockInv, Reserve, Res, Callers
  <2>2. assignedSequence' = assignedSequence + 1
        /\ UNCHANGED <<sequence, failed, seenBlob, queue, wpc, io, job, stream, blobs>>
    BY <1>3 DEF Reserve
  <2>3. Numbered' = Numbered /\ Numbered \in Nat
    BY <2>2 DEF Numbered
  <2>4. QED
    BY <1>0, <2>1, <2>2, <2>3, Basics DEF SequenceInv, EvidenceOnDisk
<1>4. ASSUME NEW c \in Recorders, Send(c) PROVE SequenceInv'
  <2>1. c \in Callers /\ pc[c] = "send" /\ Return(c)
        /\ UNCHANGED <<assignedSequence, sequence, failed, seenBlob, wpc, io, job, stream, blobs>>
    BY <1>4 DEF Send, Callers
  <2>2. Res = 1 /\ Res' = 0
    BY <1>0, <2>1, Basics, RecorderAssumption DEF LockInv, Return, Res, Callers
  <2>3. PICK new \in Jobs : new.seq = assignedSequence /\ queue' = Append(queue, new)
    BY <1>4, <2>1, Basics DEF Send, Jobs
  <2>4. Numbered' = Numbered /\ Numbered \in Nat
    BY <2>1 DEF Numbered
  <2>5. Len(queue') = Len(queue) + 1 /\ DOMAIN queue' = 1..(Len(queue) + 1) /\ DOMAIN queue = 1..Len(queue)
        /\ (\A i \in 1..Len(queue) : queue'[i] = queue[i]) /\ queue'[Len(queue) + 1] = new
    BY <2>3, Basics, AppendLast
  <2>6. ASSUME ~failed PROVE \A i \in DOMAIN queue' : queue'[i].seq = sequence + Numbered + i
    <3>1. assignedSequence = sequence + Numbered + Len(queue) + 1
      BY <1>0, <2>2, <2>6 DEF SequenceInv
    <3>2. \A i \in 1..Len(queue) : queue[i].seq = sequence + Numbered + i
      BY <1>0, <2>5, <2>6 DEF SequenceInv
    <3>3. queue'[Len(queue) + 1].seq = sequence + Numbered + (Len(queue) + 1)
      BY <2>3, <2>4, <2>5, <3>1, Basics
    <3>4. \A i \in DOMAIN queue' : i \in 1..Len(queue) \/ i = Len(queue) + 1
      <4>1. ASSUME NEW n \in Nat PROVE \A i \in 1..(n + 1) : i \in 1..n \/ i = n + 1
        OBVIOUS
      <4>2. QED
        BY <2>5, <4>1, Basics
    <3>5. QED
      BY <2>5, <3>2, <3>3, <3>4
  <2>7. ~failed => assignedSequence = sequence + Numbered + Len(queue') + Res'
    BY <1>0, <2>2, <2>4, <2>5, Basics DEF SequenceInv
  <2>8. QED
    BY <1>0, <2>1, <2>4, <2>6, <2>7 DEF SequenceInv, EvidenceOnDisk
<1>5. ASSUME NEW c \in Recorders, SendCancelled(c) \/ SendStopped(c) PROVE SequenceInv'
  <2>1. c \in Callers /\ pc[c] = "send" /\ Return(c)
        /\ UNCHANGED <<sequence, failed, seenBlob, queue, wpc, io, job, stream, blobs>>
        /\ assignedSequence' = IF sequence < assignedSequence THEN assignedSequence - 1 ELSE assignedSequence
    BY <1>5 DEF SendCancelled, SendStopped, rollbackEnqueue, Callers
  <2>2. Res = 1 /\ Res' = 0
    BY <1>0, <2>1, Basics, RecorderAssumption DEF LockInv, Return, Res, Callers
  <2>3. Numbered' = Numbered /\ Numbered \in Nat
    BY <2>1 DEF Numbered
  <2>4. ~failed => assignedSequence' = sequence + Numbered + Len(queue) + Res'
    BY <1>0, <2>1, <2>2, <2>3, Basics DEF SequenceInv
  <2>5. QED
    BY <1>0, <2>1, <2>3, <2>4 DEF SequenceInv, EvidenceOnDisk
<1>6. ASSUME NEW c \in Streamers, StreamBegin(c) PROVE SequenceInv'
  <2>1. c \in Callers /\ Res' = Res
    BY <1>6, Basics, RecorderAssumption DEF StreamBegin, Return, Res, Callers
  <2>2. CASE closed \/ failed
    BY <1>1, <1>6, <2>1, <2>2 DEF StreamBegin, coreVars
  <2>3. CASE ~closed /\ ~failed
    <3>1. queue = << >> /\ Res = 0 /\ wpc \notin {"got", "drainGot", "io"}
      BY <1>6, StreamAlone DEF StreamBegin
    <3>2. Numbered = 0
      BY <1>0, <1>6, <3>1, RecorderAssumption DEF LockInv, StreamBegin, Numbered, Callers
    <3>3. /\ assignedSequence' = assignedSequence + 1 /\ io' = "store"
          /\ job'.seq = assignedSequence + 1 /\ job'.raw = arg[c].raw
          /\ UNCHANGED <<sequence, failed, seenBlob, queue, wpc, stream, blobs>>
      BY <1>6, <2>3 DEF StreamBegin
    <3>4. Numbered' = 1
      BY <3>3 DEF Numbered
    <3>5. arg[c].raw \in Payloads
      BY <1>0, <1>6 DEF LockInv, StreamBegin
    <3>6. Len(queue) = 0 /\ DOMAIN queue = {}
      BY <3>1
    <3>7. QED
      BY <1>0, <2>1, <2>3, <3>1, <3>2, <3>3, <3>4, <3>5, <3>6, Basics DEF SequenceInv,
         EvidenceOnDisk
  <2>4. QED
    BY <2>2, <2>3
<1>7. ASSUME NEW c \in Streamers, StreamEnd(c) PROVE SequenceInv'
  <2>1. Res' = Res /\ c \in Callers
    BY <1>7, Basics, RecorderAssumption DEF StreamEnd, Return, Res, Callers
  <2>2. io' = "off" /\ UNCHANGED <<assignedSequence, sequence, failed, seenBlob, queue, wpc, stream, blobs>>
    BY <1>7 DEF StreamEnd
  <2>3. Numbered = 0 /\ Numbered' = 0
    BY <1>7, <2>2, StreamAlone DEF StreamEnd, Numbered
  <2>4. QED
    BY <1>0, <2>1, <2>2, <2>3 DEF SequenceInv, EvidenceOnDisk
<1>8. CASE StoreOpen \/ StorePublish \/ AppendBegin
  <2>1. io \in {"store", "publish", "append", "line"} /\ Follows(job)
    BY <1>8, ActiveIO DEF StoreOpen, StorePublish, AppendBegin, Follows
  <2>2. UNCHANGED <<pc, assignedSequence, sequence, failed, seenBlob, queue, wpc, job, stream>>
        /\ io' \in {"publish", "append", "line"} /\ blobs \subseteq blobs'
    BY <1>8, <2>1 DEF StoreOpen, StorePublish, AppendBegin
  <2>3. Res' = Res /\ Numbered = 1 /\ Numbered' = 1
    BY <2>1, <2>2, ActiveIO DEF Res, Numbered
  <2>4. EvidenceOnDisk' /\ seenBlob' \subseteq blobs'
    BY <1>0, <2>2 DEF SequenceInv, EvidenceOnDisk
  <2>5. (io' = "publish" => job.raw \in Payloads) /\ (io' \in {"append", "line"} => job.raw \in blobs' \cup {NoRef})
    BY <1>0, <1>8, <2>1 DEF SequenceInv, StoreOpen, StorePublish, AppendBegin
  <2>6. QED
    BY <1>0, <2>2, <2>3, <2>4, <2>5 DEF SequenceInv
<1>9. CASE AppendCommit
  <2>1. /\ ~failed /\ Numbered = 1 /\ wpc # "got" /\ job.seq = sequence + 1 /\ Len(stream) = sequence
        /\ job.raw \in blobs \cup {NoRef}
    BY <1>0, <1>9, ActiveIO DEF AppendCommit, SequenceInv
  <2>2. /\ stream' = Append(stream, job) /\ sequence' = job.seq /\ io' = "done"
        /\ seenBlob' = seenBlob \cup ({job.raw} \ {NoRef})
        /\ UNCHANGED <<pc, assignedSequence, failed, queue, wpc, job, blobs>>
    BY <1>9 DEF AppendCommit
  <2>3. Res' = Res /\ Numbered' = 0
    BY <2>1, <2>2 DEF Res, Numbered
  <2>4. Len(stream') = sequence' /\ EvidenceOnDisk'
    BY <1>0, <2>1, <2>2, Basics, AppendLast DEF SequenceInv, EvidenceOnDisk
  <2>5. seenBlob' \subseteq blobs'
    BY <1>0, <2>1, <2>2 DEF SequenceInv
  <2>6. QED
    BY <1>0, <2>1, <2>2, <2>3, <2>4, <2>5, Basics DEF SequenceInv
<1>10. CASE IOFault
  <2>1. /\ io \in {"store", "publish", "append", "line"} /\ failed' /\ io' = "bad"
        /\ UNCHANGED <<sequence, seenBlob, blobs>> /\ (stream' = stream \/ stream' = Append(stream, job))
        /\ (stream' # stream => io = "line")
    BY <1>10 DEF IOFault, StoreFail, AppendTorn, SyncFail
  <2>2. sequence' <= Len(stream') /\ EvidenceOnDisk'
    <3>1. CASE stream' = stream
      BY <1>0, <2>1, <3>1 DEF SequenceInv, EvidenceOnDisk
    <3>2. CASE stream' # stream
      <4>1. io = "line" /\ stream' = Append(stream, job)
        BY <2>1, <3>2
      <4>2. job.seq = Len(stream) + 1 /\ Len(stream) = sequence /\ job.raw \in blobs \cup {NoRef}
        BY <1>0, <4>1, ActiveIO DEF SequenceInv
      <4>3. QED
        BY <1>0, <2>1, <4>1, <4>2, Basics, AppendLast DEF SequenceInv, EvidenceOnDisk
    <3>3. QED
      BY <3>1, <3>2
  <2>3. QED
    BY <1>0, <2>1, <2>2 DEF SequenceInv
<1>11. CASE WriterRecv
  <2>1. queue # << >> /\ job' = Head(queue) /\ queue' = Tail(queue)
        /\ wpc \in {"recv", "drain"} /\ (wpc = "recv" => wpc' = "got") /\ (wpc = "drain" => wpc' = "drainGot")
        /\ UNCHANGED <<pc, assignedSequence, sequence, failed, seenBlob, io, stream, blobs>>
    BY <1>11 DEF WriterRecv
  <2>2. io = "off"
    BY <2>1, WhoseIO
  <2>3. Res' = Res /\ Res \in Nat /\ Numbered = 0 /\ (~failed => wpc = "recv" /\ Numbered' = 1)
    BY <1>0, <2>1, <2>2 DEF Res, Numbered, FailInv
  <2>4. /\ Len(queue) \in Nat /\ Len(queue') = Len(queue) - 1 /\ job' = queue[1] /\ 1 \in DOMAIN queue
        /\ \A i \in DOMAIN queue' : i \in Nat /\ i + 1 \in DOMAIN queue /\ queue'[i] = queue[i + 1]
    BY <2>1, Basics, TailShift
  <2>5. ASSUME ~failed
        PROVE  /\ job'.seq = sequence + 1 /\ \A i \in DOMAIN queue' : queue'[i].seq = sequence + 1 + i
               /\ assignedSequence = sequence + 1 + Len(queue') + Res
    <3>1. \A i \in DOMAIN queue : queue[i].seq = sequence + 0 + i
      BY <1>0, <2>3, <2>5 DEF SequenceInv
    <3>2. assignedSequence = sequence + 0 + Len(queue) + Res
      BY <1>0, <2>3, <2>5 DEF SequenceInv
    <3>3. job'.seq = sequence + 1
      <4>1. job'.seq = sequence + 0 + 1
        BY <2>4, <3>1
      <4>2. QED
        BY <4>1, Basics
    <3>4. ASSUME NEW i \in DOMAIN queue' PROVE queue'[i].seq = sequence + 1 + i
      <4>1. i \in Nat /\ queue'[i].seq = sequence + 0 + (i + 1)
        BY <2>4, <3>1
      <4>2. QED
        BY <4>1, Basics
    <3>5. assignedSequence = sequence + 1 + Len(queue') + Res
      BY <2>3, <2>4, <3>2, Basics
    <3>6. QED
      BY <3>3, <3>4, <3>5
  <2>6. QED
    BY <1>0, <2>1, <2>2, <2>3, <2>5 DEF SequenceInv, EvidenceOnDisk
<1>12. CASE WriterBegin
  <2>1. ~failed /\ ~closed /\ wpc = "got" /\ wpc' = "io"
        /\ io' = (IF NeedsStore(job, Writer) THEN "store" ELSE "append")
        /\ UNCHANGED <<pc, assignedSequence, sequence, failed, seenBlob, queue, job, stream, blobs>>
    BY <1>0, <1>12 DEF FailInv, CloseInv, WriterBegin
  <2>2. Res' = Res /\ Numbered = 1 /\ Numbered' = 1
    BY <2>1 DEF Res, Numbered
  <2>3. (io' = "store" => job.raw \in Payloads) /\ (io' = "append" => job.raw \in blobs \cup {NoRef})
    BY <1>0, <2>1, Basics DEF SequenceInv, NeedsStore, Raws
  <2>4. QED
    BY <1>0, <2>1, <2>2, <2>3 DEF SequenceInv, EvidenceOnDisk
<1>13. CASE WriterComplete
  <2>1. wpc = "io" /\ io \in {"done", "bad"} /\ io' = "off" /\ wpc' \in {"notify", "notifyFailed"}
        /\ UNCHANGED <<pc, assignedSequence, sequence, seenBlob, queue, stream, blobs>>
        /\ (~failed' => ~failed)
    BY <1>13, Basics DEF WriterComplete
  <2>2. Res' = Res /\ Numbered = 0 /\ Numbered' = 0
    BY <2>1 DEF Res, Numbered
  <2>3. QED
    BY <1>0, <2>1, <2>2 DEF SequenceInv, EvidenceOnDisk
<1>14. CASE drainFailedQueue
  <2>1. wpc = "drainGot" /\ failed' /\ UNCHANGED <<sequence, seenBlob, stream, blobs, io>>
    BY <1>0, <1>14 DEF FailInv, drainFailedQueue
  <2>2. io = "off"
    BY <2>1, WhoseIO, RecorderAssumption DEF IndInv, LockInv
  <2>3. QED
    BY <1>0, <2>1, <2>2 DEF SequenceInv, EvidenceOnDisk
<1>15. CASE WriterNotify \/ WriterExit
  <2>1. wpc # "got" /\ wpc' # "got"
        /\ UNCHANGED <<pc, assignedSequence, sequence, failed, seenBlob, queue, io, job, stream, blobs>>
    BY <1>15 DEF WriterNotify, WriterExit
  <2>2. Res' = Res /\ Numbered' = Numbered
    BY <2>1 DEF Res, Numbered
  <2>3. QED
    BY <1>0, <2>1, <2>2 DEF SequenceInv, EvidenceOnDisk
<1>16. CASE Annotate \/ UNCHANGED vars
  <2>1. UNCHANGED <<pc, assignedSequence, sequence, failed, seenBlob, queue, wpc, io, job, stream, blobs>>
    BY <1>16 DEF Annotate, AddLimitation, AddLoss, vars
  <2>2. QED
    BY <1>0, <2>1 DEF SequenceInv, EvidenceOnDisk, Numbered, Res
<1>17. ASSUME NEW c \in Callers, SendCancelled(c) PROVE c \in Recorders
  BY <1>0, <1>17 DEF LockInv, SendCancelled, Callers
<1>18. QED
  BY <1>2, <1>3, <1>4, <1>5, <1>6, <1>7, <1>8, <1>9, <1>10, <1>11, <1>12, <1>13, <1>14,
     <1>15,
     <1>16, <1>17
     DEF Next, Quiet, Cancel, RecordStep, StreamStep, IOStep, WriterStep, Finished, Callers

-----------------------------------------------------------------------------
(* The order of acceptance and the account of losses.                      *)

\* The numbers of the account, by themselves.
LEMMA Numbers ==
    ASSUME IndInv
    PROVE  /\ sequence \in Nat /\ Len(queue) \in Nat /\ Len(accepted) \in Nat /\ Len(stream) \in Nat
           /\ InHand \in {0, 1} /\ manifest.dropped \in Nat /\ reported \in Nat
           /\ DOMAIN queue = 1..Len(queue)
  BY Basics DEF InHand

LEMMA UpToNext == \A n \in Nat : \A i \in 1..(n + 1) : i \in 1..n \/ i = n + 1
  OBVIOUS

LEMMA OrderStep == ASSUME IndInv, [Next]_vars PROVE OrderInv'
<1>0. FailInv /\ SequenceInv /\ OrderInv /\ OrderKept /\ Accounted
  BY DEF IndInv, OrderInv
<1>1. ASSUME UNCHANGED <<sequence, accepted, stream, queue, job, failed, reported>>,
             InHand' = InHand, manifest'.dropped = manifest.dropped
      PROVE  OrderInv'
  BY <1>0, <1>1 DEF OrderInv, OrderKept, Accounted
<1>2. ASSUME NEW c \in Callers, Quiet(c) PROVE OrderInv'
  <2>1. UNCHANGED coreVars /\ manifest'.dropped = manifest.dropped
    BY <1>2, QuietKeeps
  <2>2. QED
    BY <1>1, <2>1 DEF coreVars, InHand
<1>3. ASSUME NEW c \in Recorders, Reserve(c) \/ SendCancelled(c) \/ SendStopped(c) PROVE OrderInv'
  <2>1. UNCHANGED <<sequence, accepted, stream, queue, job, failed, reported, wpc, io, manifest>>
    BY <1>3 DEF Reserve, SendCancelled, SendStopped, rollbackEnqueue
  <2>2. QED
    BY <1>1, <2>1 DEF InHand
<1>4. ASSUME NEW c \in Recorders, Send(c) PROVE OrderInv'
  <2>1. PICK new \in Jobs : new.id = arg[c].id /\ queue' = Append(queue, new)
    BY <1>4, Basics DEF Send, Jobs, Callers
  <2>2. accepted' = Append(accepted, arg[c].id) /\ arg[c].id \in Nat
        /\ UNCHANGED <<sequence, stream, job, failed, reported, wpc, io, manifest>>
    BY <1>4, Basics DEF Send, Callers
  <2>3. InHand' = InHand /\ InHand \in Nat
    BY <2>2 DEF InHand
  <2>4. /\ Len(queue') = Len(queue) + 1 /\ queue'[Len(queue) + 1] = new
        /\ (\A i \in DOMAIN queue' : i \in DOMAIN queue \/ i = Len(queue) + 1)
        /\ (\A i \in DOMAIN queue : queue'[i] = queue[i]) /\ DOMAIN queue = 1..Len(queue)
    <3>1. /\ queue' = Append(queue, new) /\ queue \in Seq(Jobs) /\ new \in Jobs
          /\ DOMAIN queue = 1..Len(queue) /\ Len(queue) \in Nat
      BY <2>1, Basics
    <3>2. /\ Len(queue') = Len(queue) + 1 /\ queue'[Len(queue) + 1] = new
          /\ DOMAIN queue' = 1..(Len(queue) + 1)
          /\ \A i \in 1..Len(queue) : queue'[i] = queue[i]
      BY <3>1, AppendLast
    <3>3. QED
      BY <3>1, <3>2, UpToNext
  <2>5. /\ Len(accepted') = Len(accepted) + 1 /\ accepted'[Len(accepted) + 1] = arg[c].id
        /\ (\A i \in 1..Len(accepted) : accepted'[i] = accepted[i])
    BY <2>2, Basics, AppendLast
  <2>6. OrderKept'
    BY <1>0, <2>2, <2>5, Basics DEF OrderKept
  <2>7. Accounted'
    <3>1. Len(accepted) = sequence + Len(queue) + InHand + (manifest.dropped - reported)
      BY <1>0 DEF Accounted
    <3>2. Len(accepted') = sequence' + Len(queue') + InHand' + (manifest'.dropped - reported')
      BY <2>2, <2>3, <2>4, <2>5, <3>1, Numbers
    <3>3. QED
      BY <3>2 DEF Accounted
  <2>8. ASSUME ~failed
        PROVE  /\ InHand = 1 => job.id = accepted'[sequence + 1]
               /\ \A i \in DOMAIN queue' : queue'[i].id = accepted'[sequence + InHand + i]
    <3>1. Len(accepted) = sequence + Len(queue) + InHand
      BY <1>0, <2>3, <2>8, Basics DEF OrderInv, Accounted
    <3>2. InHand = 1 => job.id = accepted'[sequence + 1]
      <4>1. InHand = 1 => job.id = accepted[sequence + 1] /\ sequence + 1 \in 1..Len(accepted)
        BY <1>0, <2>8, <3>1, Basics DEF OrderInv
      <4>2. QED
        BY <2>5, <4>1
    <3>3. ASSUME NEW i \in DOMAIN queue PROVE queue'[i].id = accepted'[sequence + InHand + i]
      <4>1. sequence + InHand + i \in 1..Len(accepted)
        <5>1. i \in 1..Len(queue)
          BY Numbers
        <5>2. QED
          BY <3>1, <5>1, Numbers
      <4>2. queue[i].id = accepted[sequence + InHand + i]
        BY <1>0, <2>8 DEF OrderInv
      <4>3. QED
        BY <2>4, <2>5, <4>1, <4>2
    <3>4. queue'[Len(queue) + 1].id = accepted'[sequence + InHand + (Len(queue) + 1)]
      <4>1. sequence + InHand + (Len(queue) + 1) = Len(accepted) + 1
        BY <2>3, <3>1, Basics
      <4>2. QED
        BY <2>1, <2>4, <2>5, <4>1
    <3>5. QED
      BY <2>4, <3>2, <3>3, <3>4
  <2>9. QED
    BY <1>0, <2>2, <2>3, <2>6, <2>7, <2>8 DEF OrderInv
<1>5. ASSUME NEW c \in Streamers, StreamBegin(c) \/ StreamEnd(c) PROVE OrderInv'
  <2>1. UNCHANGED <<sequence, accepted, stream, queue, failed, reported, wpc, manifest>>
    BY <1>5 DEF StreamBegin, StreamEnd
  <2>2. InHand = 0 /\ InHand' = 0
    BY <1>5, <2>1, StreamAlone DEF StreamBegin, StreamEnd, InHand
  <2>3. QED
    BY <1>0, <2>1, <2>2 DEF OrderInv, OrderKept, Accounted
<1>6. CASE StoreOpen \/ StorePublish \/ AppendBegin
  <2>1. UNCHANGED <<sequence, accepted, stream, queue, job, failed, reported, wpc, manifest>>
        /\ io # "done" /\ io' # "done"
    BY <1>6 DEF StoreOpen, StorePublish, AppendBegin
  <2>2. QED
    BY <1>1, <2>1 DEF InHand
<1>7. CASE IOFault
  <2>1. /\ io \in {"store", "publish", "append", "line"} /\ failed' /\ io' = "bad"
        /\ UNCHANGED <<sequence, accepted, queue, job, reported, wpc>>
        /\ (stream' = stream \/ stream' = Append(stream, job)) /\ manifest' = markFailed(manifest)
    BY <1>7 DEF IOFault, StoreFail, AppendTorn, SyncFail
  <2>2. InHand' = InHand
    BY <2>1 DEF InHand
  <2>3. manifest'.dropped = manifest.dropped
    BY <2>1, Basics DEF markFailed, Manifests
  <2>4. \A i \in 1..sequence : stream'[i] = stream[i]
    <3>1. \A i \in 1..sequence : i \in 1..Len(stream)
      BY <1>0, Numbers DEF OrderKept
    <3>2. stream' = Append(stream, job) => \A i \in 1..Len(stream) : stream'[i] = stream[i]
      BY Basics, AppendLast
    <3>3. QED
      BY <2>1, <3>1, <3>2
  <2>5. sequence <= Len(stream')
    BY <1>0, <2>1, Basics, AppendLast DEF OrderKept
  <2>6. QED
    BY <1>0, <2>1, <2>2, <2>3, <2>4, <2>5 DEF OrderInv, OrderKept, Accounted
<1>8. CASE AppendCommit
  <2>1. /\ ~failed /\ wpc \notin {"got", "drainGot"} /\ job.seq = sequence + 1 /\ Len(stream) = sequence
        /\ InHand = (IF mu = Writer THEN 1 ELSE 0) /\ io = "line" /\ (mu = Writer <=> wpc = "io")
    BY <1>8, ActiveIO, WhoseIO DEF AppendCommit
  <2>2. /\ stream' = Append(stream, job) /\ sequence' = sequence + 1 /\ io' = "done"
        /\ accepted' = (IF mu = Writer THEN accepted ELSE Append(accepted, job.id))
        /\ manifest' = countEvent(manifest, job)
        /\ UNCHANGED <<failed, queue, wpc, job, reported>>
    BY <1>8, <2>1 DEF AppendCommit
  <2>3. manifest'.dropped = manifest.dropped
    BY <2>2, Basics DEF countEvent, Manifests
  <2>4. InHand' = 0
    BY <2>1, <2>2 DEF InHand
  <2>5. Len(accepted) = sequence + Len(queue) + InHand
    BY <1>0, <2>1, Basics DEF OrderInv, Accounted
  <2>6. /\ Len(stream') = sequence + 1 /\ stream'[sequence + 1] = job
        /\ \A i \in 1..sequence : stream'[i] = stream[i]
    BY <2>1, <2>2, Basics, AppendLast
  <2>7. CASE mu = Writer
    <3>1. accepted' = accepted /\ InHand = 1 /\ job.id = accepted[sequence + 1]
      BY <1>0, <2>1, <2>2, <2>7 DEF OrderInv
    <3>2. sequence + 1 <= Len(accepted)
      BY <2>5, <3>1, Numbers
    <3>3. \A i \in 1..sequence' : stream'[i].id = accepted'[i]
      <4>1. ASSUME NEW i \in 1..sequence' PROVE i \in 1..sequence \/ i = sequence + 1
        BY <2>2, Basics
      <4>2. QED
        BY <1>0, <2>6, <3>1, <4>1 DEF OrderKept
    <3>4. OrderKept'
      <4>1. sequence' <= Len(accepted') /\ sequence' <= Len(stream')
        BY <2>2, <2>6, <3>1, <3>2, Numbers
      <4>2. QED
        BY <3>3, <4>1 DEF OrderKept
    <3>5. Accounted'
      BY <1>0, <2>2, <2>3, <2>4, <3>1, Basics DEF Accounted
    <3>6. \A i \in DOMAIN queue' : queue'[i].id = accepted'[sequence' + InHand' + i]
      <4>1. ASSUME NEW i \in DOMAIN queue PROVE queue[i].id = accepted[sequence + 1 + 0 + i]
        <5>1. i \in Nat
          BY Numbers
        <5>2. queue[i].id = accepted[sequence + 1 + i]
          BY <1>0, <2>1, <3>1 DEF OrderInv
        <5>3. sequence + 1 + 0 + i = sequence + 1 + i
          BY <5>1, Numbers
        <5>4. QED
          BY <5>2, <5>3
      <4>2. QED
        BY <2>2, <2>4, <3>1, <4>1
    <3>7. reported' <= manifest'.dropped /\ manifest'.dropped = reported' /\ InHand' # 1
      BY <1>0, <2>1, <2>2, <2>3, <2>4 DEF OrderInv
    <3>8. QED
      BY <3>4, <3>5, <3>6, <3>7 DEF OrderInv
  <2>8. CASE mu # Writer
    <3>1. queue = << >> /\ InHand = 0
      BY <2>1, <2>8, WhoseIO
    <3>2. Len(queue) = 0 /\ DOMAIN queue = {}
      BY <3>1
    <3>3. Len(accepted) = sequence
      BY <2>5, <3>1, <3>2, Basics
    <3>4. /\ Len(accepted') = sequence + 1 /\ accepted'[sequence + 1] = job.id
          /\ \A i \in 1..sequence : accepted'[i] = accepted[i]
      BY <2>2, <2>8, <3>3, Basics, AppendLast
    <3>5. \A i \in 1..sequence' : stream'[i].id = accepted'[i]
      <4>1. ASSUME NEW i \in 1..sequence' PROVE i \in 1..sequence \/ i = sequence + 1
        BY <2>2, Basics
      <4>2. QED
        BY <1>0, <2>6, <3>4, <4>1 DEF OrderKept
    <3>6. OrderKept'
      <4>1. sequence' <= Len(accepted') /\ sequence' <= Len(stream')
        BY <2>2, <2>6, <3>4, Numbers
      <4>2. QED
        BY <3>5, <4>1 DEF OrderKept
    <3>7. Accounted'
      BY <1>0, <2>2, <2>3, <2>4, <3>1, <3>2, <3>3, <3>4, Basics DEF Accounted
    <3>8. QED
      BY <1>0, <2>1, <2>2, <2>3, <2>4, <3>2, <3>6, <3>7 DEF OrderInv
  <2>9. QED
    BY <2>7, <2>8
<1>9. CASE WriterRecv
  <2>1. queue # << >> /\ job' = Head(queue) /\ queue' = Tail(queue)
        /\ wpc \in {"recv", "drain"} /\ wpc' \in {"got", "drainGot"}
        /\ UNCHANGED <<sequence, accepted, failed, stream, reported, manifest>>
    BY <1>9 DEF WriterRecv
  <2>2. InHand = 0 /\ InHand' = 1
    BY <2>1 DEF InHand
  <2>3. /\ Len(queue) \in Nat /\ Len(queue') = Len(queue) - 1 /\ job' = queue[1] /\ 1 \in DOMAIN queue
        /\ \A i \in DOMAIN queue' : i \in Nat /\ i + 1 \in DOMAIN queue /\ queue'[i] = queue[i + 1]
    BY <2>1, Basics, TailShift
  <2>4. Accounted'
    BY <1>0, <2>1, <2>2, <2>3, Basics DEF Accounted
  <2>5. ASSUME ~failed
        PROVE  /\ job'.id = accepted[sequence + 1]
               /\ \A i \in DOMAIN queue' : queue'[i].id = accepted[sequence + 1 + i]
    <3>1. \A i \in DOMAIN queue : queue[i].id = accepted[sequence + 0 + i]
      BY <1>0, <2>2, <2>5 DEF OrderInv
    <3>2. job'.id = accepted[sequence + 1]
      <4>1. job'.id = accepted[sequence + 0 + 1]
        BY <2>3, <3>1
      <4>2. QED
        BY <4>1, Basics
    <3>3. ASSUME NEW i \in DOMAIN queue' PROVE queue'[i].id = accepted[sequence + 1 + i]
      <4>1. i \in Nat /\ queue'[i].id = accepted[sequence + 0 + (i + 1)]
        BY <2>3, <3>1
      <4>2. sequence + 0 + (i + 1) = sequence + 1 + i
        BY <4>1, Basics
      <4>3. QED
        BY <4>1, <4>2
    <3>4. QED
      BY <3>2, <3>3
  <2>6. QED
    BY <1>0, <2>1, <2>2, <2>4, <2>5 DEF OrderInv, OrderKept
<1>10. CASE WriterComplete /\ io = "done"
  <2>1. UNCHANGED <<sequence, accepted, stream, queue, failed, reported, manifest>>
        /\ wpc = "io" /\ wpc' = "notify"
    BY <1>10, Basics DEF WriterComplete
  <2>2. InHand = 0 /\ InHand' = 0
    BY <1>10, <2>1 DEF InHand
  <2>3. QED
    BY <1>0, <2>1, <2>2 DEF OrderInv, OrderKept, Accounted
<1>11. CASE (WriterComplete /\ io # "done") \/ drainFailedQueue
  <2>1. /\ failed' /\ InHand = 1 /\ InHand' = 0
        /\ UNCHANGED <<sequence, accepted, stream, queue, reported>>
    BY <1>0, <1>11 DEF WriterComplete, drainFailedQueue, InHand, FailInv
  <2>2. manifest'.dropped = manifest.dropped + 1
    <3>1. manifest' = markDropped(manifest) \/ manifest' = markDropped(markFailed(manifest))
      BY <1>11 DEF WriterComplete, drainFailedQueue
    <3>2. markFailed(manifest) \in Manifests /\ markFailed(manifest).dropped = manifest.dropped
      BY Basics, MarkFailedType DEF markFailed, Manifests
    <3>3. \A m \in Manifests : markDropped(m).dropped = m.dropped + 1
      BY DEF markDropped, Manifests
    <3>4. QED
      BY <3>1, <3>2, <3>3, Basics
  <2>3. QED
    <3>1. OrderKept'
      BY <1>0, <2>1 DEF OrderKept
    <3>2. Len(accepted) = sequence + Len(queue) + InHand + (manifest.dropped - reported)
      BY <1>0 DEF Accounted
    <3>3. Len(accepted') = sequence' + Len(queue') + InHand' + (manifest'.dropped - reported')
      BY <2>1, <2>2, <3>2, Numbers
    <3>4. reported' <= manifest'.dropped
      BY <1>0, <2>1, <2>2, Numbers DEF OrderInv
    <3>5. QED
      BY <2>1, <3>1, <3>3, <3>4 DEF OrderInv, Accounted
<1>12. CASE WriterBegin \/ WriterNotify \/ WriterExit
  <2>1. UNCHANGED <<sequence, accepted, stream, queue, job, failed, reported, manifest, InHand>>
    BY <1>12 DEF WriterBegin, WriterNotify, WriterExit, InHand
  <2>2. QED
    BY <1>1, <2>1
<1>13. ASSUME NEW message \in Limitations, AddLimitation(message) PROVE OrderInv'
  <2>1. manifest'.dropped = manifest.dropped
    BY <1>13, Basics DEF AddLimitation, Manifests
  <2>2. QED
    BY <1>1, <1>13, <2>1 DEF AddLimitation, InHand
<1>14. ASSUME NEW dropped \in Nat, NEW truncated \in Nat, AddLoss(dropped, truncated) PROVE OrderInv'
  <2>1. manifest'.dropped = manifest.dropped + dropped /\ reported' = reported + dropped
    <3>1. reported' = reported + dropped
      BY <1>14 DEF AddLoss
    <3>2. PICK reason :
            manifest' = [manifest EXCEPT !.dropped = @ + dropped, !.truncated = @ + truncated,
                                         !.complete = FALSE, !.limits = @ \cup reason]
      BY <1>14 DEF AddLoss
    <3>3. QED
      BY <3>1, <3>2, Basics DEF Manifests
  <2>2. UNCHANGED <<sequence, accepted, stream, queue, job, failed, InHand>>
    BY <1>14 DEF AddLoss, InHand
  <2>3. (manifest.dropped + dropped) - (reported + dropped) = manifest.dropped - reported
    BY Basics
  <2>4. QED
    <3>1. OrderKept'
      BY <1>0, <2>2 DEF OrderKept
    <3>2. Accounted'
      BY <1>0, <2>1, <2>2, <2>3 DEF Accounted
    <3>3. reported' <= manifest'.dropped /\ (manifest.dropped = reported => manifest'.dropped = reported')
      BY <1>0, <2>1, Numbers DEF OrderInv
    <3>4. QED
      BY <1>0, <2>2, <3>1, <3>2, <3>3 DEF OrderInv
<1>15. CASE UNCHANGED vars
  BY <1>1, <1>15 DEF vars, InHand
<1>16. ASSUME NEW c \in Callers, SendCancelled(c) PROVE c \in Recorders
  BY <1>16 DEF IndInv, LockInv, SendCancelled, Callers
<1>17. ASSUME Annotate PROVE OrderInv'
  BY <1>13, <1>14, <1>17, RecorderAssumption DEF Annotate
<1>18. QED
  BY <1>2, <1>3, <1>4, <1>5, <1>6, <1>7, <1>8, <1>9, <1>10, <1>11, <1>12, <1>15, <1>16,
     <1>17
     DEF Next, Quiet, Cancel, RecordStep, StreamStep, IOStep, WriterStep, Finished, Callers


-----------------------------------------------------------------------------
(* Types.                                                                  *)

LEMMA TypeStep == ASSUME IndInv, [Next]_vars PROVE TypeOK'
<1>0. TypeOK /\ LockInv /\ SequenceInv
  BY DEF IndInv
<1>1. ASSUME NEW c \in Callers, NEW place \in Places, pc' = [pc EXCEPT ![c] = place]
      PROVE  pc' \in [Callers -> Places]
  BY <1>0, <1>1 DEF TypeOK
<1>2. ASSUME NEW c \in Callers, Return(c)
      PROVE  /\ pc' \in [Callers -> Places] /\ arg' \in [Callers -> [raw : Raws, id : Nat]]
             /\ enqueueMu' \in Callers \cup {NoOne}
  BY <1>0, <1>2, NoJobType DEF TypeOK, Return, Places
<1>3. ASSUME NEW n \in Nat, completePending(n)
      PROVE  /\ pending' \in Nat /\ pendingBytes' \in Nat /\ idle' \in BOOLEAN
             /\ spaceWait' \in {"none", "armed", "swapped", "closed"}
  <2>1. pending' \in Nat
    BY <1>3, Basics DEF completePending
  <2>2. pendingBytes' \in Nat
    <3>1. pendingBytes' \in {pendingBytes, 0} \/ (n <= pendingBytes /\ pendingBytes' = pendingBytes - n)
      BY <1>3 DEF completePending
    <3>2. n \in Nat /\ pendingBytes \in Nat
      BY <1>3, Basics
    <3>3. QED
      BY <3>1, <3>2
  <2>3. idle' \in BOOLEAN
    BY <1>3, Basics DEF completePending
  <2>4. spaceWait' \in {"none", "armed", "swapped", "closed"}
    BY <1>0, <1>3 DEF TypeOK, completePending
  <2>5. QED
    BY <2>1, <2>2, <2>3, <2>4
<1>4. ASSUME NEW c \in Callers, Call(c) PROVE TypeOK'
  <2>1. PICK p \in Raws : arg' = [arg EXCEPT ![c] = [raw |-> p, id |-> calls + 1]]
    BY <1>4 DEF Call, Raws
  <2>2. [raw |-> p, id |-> calls + 1] \in [raw : Raws, id : Nat]
    BY <1>0 DEF TypeOK
  <2>3. arg' \in [Callers -> [raw : Raws, id : Nat]]
    BY <1>0, <2>1, <2>2 DEF TypeOK
  <2>4. pc' \in [Callers -> Places] /\ calls' \in Nat
    <3>1. pc' \in [Callers -> Places]
      BY <1>1, <1>4 DEF Call, Places
    <3>2. calls \in Nat /\ calls' = calls + 1
      BY <1>0, <1>4 DEF Call, TypeOK
    <3>3. QED
      BY <3>1, <3>2
  <2>5. UNCHANGED <<enqueueMu, mu, chanVars, stateVars, ioVars, diskVars, histVars>>
    BY <1>4 DEF Call
  <2>6. QED
    BY <1>0, <2>3, <2>4, <2>5 DEF TypeOK
<1>5. ASSUME NEW c \in Callers, Lock(c) PROVE TypeOK'
  <2>1. pc' \in [Callers -> Places] /\ enqueueMu' \in Callers \cup {NoOne}
    BY <1>1, <1>5 DEF Lock, Places
  <2>2. UNCHANGED <<arg, calls, mu, chanVars, stateVars, ioVars, diskVars, histVars>>
    BY <1>5 DEF Lock
  <2>3. QED
    BY <1>0, <2>1, <2>2 DEF TypeOK
<1>6. ASSUME NEW c \in Callers, SpaceCancelled(c) \/ StreamCancelled(c) \/ ReserveRefused(c) \/ CheckIdle(c) \/ IdleWoken(c)
      PROVE  TypeOK'
  <2>1. /\ pc' \in [Callers -> Places] /\ arg' \in [Callers -> [raw : Raws, id : Nat]]
        /\ enqueueMu' \in Callers \cup {NoOne}
    BY <1>0, <1>1, <1>2, <1>6
       DEF SpaceCancelled, StreamCancelled, ReserveRefused, CheckIdle, IdleWoken, Places, TypeOK
  <2>2. spaceWait' \in {"none", "armed", "swapped", "closed"}
    BY <1>0, <1>6 DEF SpaceCancelled, StreamCancelled, ReserveRefused, CheckIdle,
       IdleWoken, TypeOK
  <2>3. UNCHANGED <<calls, mu, queue, queueClosed, idle, writerStopped, stateVars, ioVars, diskVars, histVars>>
    BY <1>6 DEF SpaceCancelled, StreamCancelled, ReserveRefused, CheckIdle, IdleWoken
  <2>4. QED
    BY <1>0, <2>1, <2>2, <2>3 DEF TypeOK
<1>7. ASSUME NEW c \in Recorders, CheckSpace(c) \/ SpaceWoken(c) PROVE TypeOK'
  <2>0. c \in Callers
    BY DEF Callers
  <2>1. /\ pc' \in [Callers -> Places] /\ arg' \in [Callers -> [raw : Raws, id : Nat]]
        /\ enqueueMu' \in Callers \cup {NoOne}
    BY <1>0, <1>1, <1>2, <1>7, <2>0 DEF CheckSpace, SpaceWoken, Places, TypeOK
  <2>2. spaceWait' \in {"none", "armed", "swapped", "closed"}
    BY <1>0, <1>7 DEF CheckSpace, SpaceWoken, TypeOK
  <2>3. UNCHANGED <<calls, mu, queue, queueClosed, idle, writerStopped, stateVars, ioVars, diskVars, histVars>>
    BY <1>7 DEF CheckSpace, SpaceWoken
  <2>4. QED
    BY <1>0, <2>1, <2>2, <2>3 DEF TypeOK
<1>8. ASSUME NEW c \in Recorders, Reserve(c) PROVE TypeOK'
  <2>0. c \in Callers /\ Bytes(arg[c].raw) \in Nat
    BY Basics DEF Callers
  <2>1. pc' \in [Callers -> Places]
    BY <1>1, <1>8, <2>0 DEF Reserve, Places
  <2>2. assignedSequence' \in Nat /\ pending' \in Nat /\ pendingBytes' \in Nat /\ idle' \in BOOLEAN
    <3>1. /\ assignedSequence' = assignedSequence + 1 /\ pending' = pending + 1
          /\ pendingBytes' = pendingBytes + Bytes(arg[c].raw)
          /\ idle' \in {FALSE, idle}
      BY <1>8 DEF Reserve
    <3>2. assignedSequence \in Nat /\ pending \in Nat /\ pendingBytes \in Nat /\ idle \in BOOLEAN
      BY Basics
    <3>3. idle' \in BOOLEAN
      BY <3>1, <3>2
    <3>4. QED
      BY <2>0, <3>1, <3>2, <3>3
  <2>3. UNCHANGED <<arg, calls, enqueueMu, mu, queue, queueClosed, spaceWait, writerStopped, sequence,
                    failed, closed, seenBlob, manifest, ioVars, diskVars, histVars>>
    BY <1>8 DEF Reserve
  <2>4. QED
    BY <1>0, <2>1, <2>2, <2>3 DEF TypeOK
<1>9. ASSUME NEW c \in Recorders, Send(c) PROVE TypeOK'
  <2>0. c \in Callers
    BY DEF Callers
  <2>1. [seq |-> assignedSequence, raw |-> arg[c].raw, id |-> arg[c].id] \in Jobs
    BY <2>0, Basics DEF Jobs
  <2>2. queue' \in Seq(Jobs) /\ accepted' \in Seq(Nat)
    BY <1>9, <2>0, <2>1, Basics, AppendLast DEF Send
  <2>3. /\ pc' \in [Callers -> Places] /\ arg' \in [Callers -> [raw : Raws, id : Nat]]
        /\ enqueueMu' \in Callers \cup {NoOne}
    BY <1>2, <1>9, <2>0 DEF Send
  <2>4. UNCHANGED <<calls, mu, queueClosed, spaceWait, idle, writerStopped, stateVars, ioVars, diskVars,
                    reported>>
    BY <1>9 DEF Send
  <2>5. QED
    BY <1>0, <2>2, <2>3, <2>4 DEF TypeOK
<1>10. ASSUME NEW c \in Callers, SendCancelled(c) \/ SendStopped(c) PROVE TypeOK'
  <2>1. Bytes(arg[c].raw) \in Nat /\ rollbackEnqueue(c)
    BY <1>10, Basics DEF SendCancelled, SendStopped
  <2>2. /\ pc' \in [Callers -> Places] /\ arg' \in [Callers -> [raw : Raws, id : Nat]]
        /\ enqueueMu' \in Callers \cup {NoOne}
    BY <1>2, <2>1 DEF rollbackEnqueue
  <2>3. /\ pending' \in Nat /\ pendingBytes' \in Nat /\ idle' \in BOOLEAN
        /\ spaceWait' \in {"none", "armed", "swapped", "closed"}
    BY <1>3, <2>1 DEF rollbackEnqueue
  <2>4. assignedSequence' \in Nat
    BY <2>1, Basics DEF rollbackEnqueue
  <2>5. UNCHANGED <<calls, mu, queue, queueClosed, writerStopped, sequence, failed, closed, seenBlob,
                    manifest, ioVars, diskVars, histVars>>
    BY <2>1 DEF rollbackEnqueue
  <2>6. QED
    BY <1>0, <2>2, <2>3, <2>4, <2>5, SMTT(60) DEF TypeOK
<1>11. ASSUME NEW c \in Streamers, StreamBegin(c) \/ StreamEnd(c) PROVE TypeOK'
  <2>0. c \in Callers
    BY DEF Callers
  <2>1. [seq |-> assignedSequence + 1, raw |-> arg[c].raw, id |-> arg[c].id] \in Jobs
    BY <2>0, Basics DEF Jobs
  <2>2. assignedSequence' \in Nat /\ job' \in Jobs
        /\ io' \in {"off", "store", "publish", "append", "line", "done", "bad"}
    BY <1>0, <1>11, <2>1, NoJobType DEF StreamBegin, StreamEnd, TypeOK
  <2>3. /\ pc' \in [Callers -> Places] /\ arg' \in [Callers -> [raw : Raws, id : Nat]]
        /\ enqueueMu' \in Callers \cup {NoOne} /\ mu' \in Callers \cup {NoOne, Writer}
    BY <1>0, <1>1, <1>2, <1>11, <2>0 DEF StreamBegin, StreamEnd, Places, TypeOK
  <2>4. UNCHANGED <<calls, chanVars, sequence, pending, pendingBytes, failed, closed, seenBlob, manifest,
                    wpc, diskVars, histVars>>
    BY <1>11 DEF StreamBegin, StreamEnd
  <2>5. QED
    BY <1>0, <2>2, <2>3, <2>4 DEF TypeOK
<1>12. CASE StoreOpen \/ StorePublish \/ AppendBegin
  <2>1. /\ io' \in {"off", "store", "publish", "append", "line", "done", "bad"} /\ torn' \in BOOLEAN
        /\ UNCHANGED <<storeVars, stateVars, stream, manifestTmp, disk, histVars>>
    BY <1>0, <1>12 DEF StoreOpen, StorePublish, AppendBegin, TypeOK
  <2>2. temps' \subseteq Nat
    BY <1>0, <1>12, Basics DEF StoreOpen, StorePublish, AppendBegin, TypeOK
  <2>3. blobs' \subseteq Payloads
    BY <1>0, <1>12 DEF StoreOpen, StorePublish, AppendBegin, SequenceInv, TypeOK
  <2>4. QED
    BY <1>0, <2>1, <2>2, <2>3 DEF TypeOK
<1>13. CASE AppendCommit
  <2>1. stream' \in Seq(Jobs) /\ accepted' \in Seq(Nat) /\ sequence' \in Nat
    BY <1>13, Basics, AppendLast DEF AppendCommit
  <2>2. manifest' \in Manifests
    BY <1>13, Basics, CountEventType DEF AppendCommit
  <2>3. seenBlob' \subseteq Payloads
    BY <1>0, <1>13, Basics DEF AppendCommit, TypeOK, Raws
  <2>4. io' = "done" /\ torn' \in BOOLEAN
        /\ UNCHANGED <<storeVars, assignedSequence, pending, pendingBytes, failed, closed, temps, blobs,
                       manifestTmp, disk, reported>>
    BY <1>13, RecorderAssumption DEF AppendCommit
  <2>5. QED
    BY <1>0, <2>1, <2>2, <2>3, <2>4 DEF TypeOK
<1>14. CASE IOFault
  <2>1. stream' \in Seq(Jobs)
    <3>1. stream' = stream \/ stream' = Append(stream, job)
      BY <1>14 DEF IOFault, StoreFail, AppendTorn, SyncFail
    <3>2. stream \in Seq(Jobs) /\ job \in Jobs
      BY Basics
    <3>3. Append(stream, job) \in Seq(Jobs)
      BY <3>2, AppendLast
    <3>4. QED
      BY <3>1, <3>2, <3>3
  <2>2. manifest' \in Manifests
    BY <1>14, Basics, MarkFailedType DEF IOFault, StoreFail, AppendTorn, SyncFail
  <2>3. temps' \subseteq Nat
    BY <1>0, <1>14 DEF IOFault, StoreFail, AppendTorn, SyncFail, TypeOK
  <2>4. failed' \in BOOLEAN /\ io' = "bad" /\ torn' \in BOOLEAN
        /\ UNCHANGED <<storeVars, assignedSequence, sequence, pending, pendingBytes, closed, seenBlob,
                       blobs, manifestTmp, disk, histVars>>
    BY <1>0, <1>14 DEF IOFault, StoreFail, AppendTorn, SyncFail, TypeOK
  <2>5. QED
    BY <1>0, <2>1, <2>2, <2>3, <2>4 DEF TypeOK
<1>15. CASE WriterRecv
  <2>1. job' \in Jobs /\ queue' \in Seq(Jobs)
    BY <1>15, Basics, TailShift DEF WriterRecv
  <2>2. wpc' \in {"got", "drainGot"}
        /\ UNCHANGED <<callVars, enqueueMu, mu, queueClosed, spaceWait, idle, writerStopped, stateVars,
                       io, diskVars, histVars>>
    BY <1>15 DEF WriterRecv
  <2>3. QED
    BY <1>0, <2>1, <2>2 DEF TypeOK
<1>16. CASE WriterBegin
  <2>1. mu' = Writer /\ wpc' = "io" /\ io' \in {"bad", "store", "append"}
        /\ UNCHANGED <<callVars, enqueueMu, chanVars, stateVars, job, diskVars, histVars>>
    BY <1>16 DEF WriterBegin
  <2>2. QED
    BY <1>0, <2>1 DEF TypeOK
<1>17. CASE WriterComplete \/ drainFailedQueue
  <2>1. /\ pending' \in Nat /\ pendingBytes' \in Nat /\ idle' \in BOOLEAN
        /\ spaceWait' \in {"none", "armed", "swapped", "closed"}
    BY <1>3, <1>17, Basics DEF WriterComplete, drainFailedQueue
  <2>2. manifest' \in Manifests
    BY <1>17, Basics, MarkFailedType, MarkDroppedType DEF WriterComplete, drainFailedQueue
  <2>3. failed' \in BOOLEAN /\ job' \in Jobs /\ mu' \in Callers \cup {NoOne, Writer}
        /\ io' \in {"off", "store", "publish", "append", "line", "done", "bad"}
        /\ wpc' \in {"notifyFailed", "notify", "drainNotify"}
    BY <1>0, <1>17, NoJobType DEF WriterComplete, drainFailedQueue, TypeOK
  <2>4. UNCHANGED <<callVars, enqueueMu, queue, queueClosed, writerStopped, assignedSequence, sequence,
                    closed, seenBlob, diskVars, histVars>>
    BY <1>17 DEF WriterComplete, drainFailedQueue
  <2>5. QED
    BY <1>0, <2>1, <2>2, <2>3, <2>4 DEF TypeOK
<1>18. CASE WriterNotify \/ WriterExit
  <2>1. spaceWait' \in {"none", "armed", "swapped", "closed"} /\ writerStopped' \in BOOLEAN
        /\ wpc' \in {"recv", "drain", "done"}
        /\ UNCHANGED <<callVars, enqueueMu, mu, queue, queueClosed, idle, stateVars, io, job, diskVars,
                       histVars>>
    BY <1>0, <1>18 DEF WriterNotify, WriterExit, notifySpace, TypeOK
  <2>2. QED
    BY <1>0, <2>1 DEF TypeOK
<1>19. ASSUME Annotate PROVE TypeOK'
  <2>1. manifest' \in Manifests /\ reported' \in Nat
    <3>1. CASE \E message \in Limitations : AddLimitation(message)
      <4>1. PICK message \in Limitations : AddLimitation(message)
        BY <3>1
      <4>2. manifest \in Manifests /\ reported \in Nat
        BY Basics
      <4>3. manifest' = [manifest EXCEPT !.complete = FALSE, !.limits = @ \cup {message}]
            /\ reported' = reported
        BY <4>1 DEF AddLimitation
      <4>4. QED
        BY <4>2, <4>3, AddLimitationType
    <3>2. CASE \E dropped, truncated \in 0..MaxLoss : AddLoss(dropped, truncated)
      <4>1. PICK dropped \in Nat, truncated \in Nat : AddLoss(dropped, truncated)
        BY <3>2, RecorderAssumption
      <4>2. manifest \in Manifests /\ reported \in Nat
        BY Basics
      <4>3. PICK reason \in SUBSET Limitations :
              manifest' = [manifest EXCEPT !.dropped = @ + dropped, !.truncated = @ + truncated,
                                           !.complete = FALSE, !.limits = @ \cup reason]
        BY <4>1 DEF AddLoss
      <4>4. manifest' \in Manifests
        BY <4>2, <4>3, AddLossType
      <4>5. reported' = reported + dropped
        BY <4>1 DEF AddLoss
      <4>6. QED
        BY <4>2, <4>4, <4>5
    <3>3. QED
      BY <1>19, <3>1, <3>2 DEF Annotate
  <2>2. UNCHANGED <<callVars, enqueueMu, mu, chanVars, assignedSequence, sequence, pending, pendingBytes,
                    failed, closed, seenBlob, ioVars, diskVars, accepted>>
    BY <1>19 DEF Annotate, AddLimitation, AddLoss
  <2>3. QED
    BY <1>0, <2>1, <2>2 DEF TypeOK
<1>20. ASSUME NEW c \in Closers, CloseQueue(c) PROVE TypeOK'
  <2>1. /\ pc' \in [Callers -> Places] /\ arg' \in [Callers -> [raw : Raws, id : Nat]]
        /\ enqueueMu' \in Callers \cup {NoOne} /\ queueClosed' \in BOOLEAN
    BY <1>0, <1>1, <1>2, <1>20 DEF CloseQueue, Places, TypeOK, Callers
  <2>2. UNCHANGED <<calls, mu, queue, spaceWait, idle, writerStopped, stateVars, ioVars, diskVars, histVars>>
    BY <1>20 DEF CloseQueue
  <2>3. QED
    BY <1>0, <2>1, <2>2 DEF TypeOK
<1>21. ASSUME NEW c \in Closers, CloseSeal(c) PROVE TypeOK'
  <2>1. pc' \in [Callers -> Places] /\ mu' \in Callers \cup {NoOne, Writer} /\ closed' \in BOOLEAN
    BY <1>1, <1>21 DEF CloseSeal, Places, Callers
  <2>2. manifest' \in Manifests
    <3>1. PICK status \in {"closed", "failed"} :
            manifest' = sealManifest(manifest, status, status = "failed")
      BY <1>21 DEF CloseSeal
    <3>2. (status = "failed") \in BOOLEAN
      OBVIOUS
    <3>3. QED
      BY <3>1, <3>2, Basics, SealManifestType
  <2>3. UNCHANGED <<arg, calls, enqueueMu, chanVars, assignedSequence, sequence, pending, pendingBytes,
                    failed, seenBlob, ioVars, diskVars, histVars>>
    BY <1>21 DEF CloseSeal
  <2>4. QED
    BY <1>0, <2>1, <2>2, <2>3 DEF TypeOK
<1>22. ASSUME NEW c \in Closers, CloseSync(c) \/ ManifestTemp(c) \/ ManifestTempFail(c)
                   \/ ManifestRename(c) \/ ManifestRemove(c) \/ ManifestRetryFail(c)
       PROVE TypeOK'
  <2>1. /\ pc' \in [Callers -> Places] /\ arg' \in [Callers -> [raw : Raws, id : Nat]]
        /\ enqueueMu' \in Callers \cup {NoOne} /\ mu' \in Callers \cup {NoOne, Writer}
    BY <1>0, <1>1, <1>2, <1>22
       DEF CloseSync, ManifestTemp, ManifestTempFail, ManifestRename, ManifestRemove,
           ManifestRetryFail, CloseReturn, Places, TypeOK, Callers
  <2>2. manifestTmp' \in BOOLEAN /\ disk' \in Manifests \cup {NoRef}
    BY <1>0, <1>22 DEF CloseSync, ManifestTemp, ManifestTempFail, ManifestRename,
                       ManifestRemove, ManifestRetryFail, TypeOK
  <2>3. UNCHANGED closeVars
    BY <1>22 DEF CloseSync, ManifestTemp, ManifestTempFail, ManifestRename,
                 ManifestRemove, ManifestRetryFail
  <2>4. QED
    BY <1>0, <2>1, <2>2, <2>3 DEF TypeOK
<1>23. CASE UNCHANGED vars
  BY <1>0, <1>23 DEF TypeOK, vars
<1>24. QED
  BY <1>4, <1>5, <1>6, <1>7, <1>8, <1>9, <1>10, <1>11, <1>12, <1>13, <1>14, <1>15, <1>16,
     <1>17,
     <1>18, <1>19, <1>20, <1>21, <1>22, <1>23
     DEF Next, Cancel, RecordStep, StreamStep, CloseStep, CloseFault, IOStep, WriterStep, Finished, Callers

-----------------------------------------------------------------------------
(* The inductive invariant.                                                *)

LEMMA InitInv == ASSUME Init PROVE IndInv
<1>1. PICK initial \in SUBSET Limitations :
        manifest = [status |-> "open", complete |-> initial = {}, limits |-> initial,
                    failure |-> FALSE, events |-> 0, blobs |-> 0, blobBytes |-> 0,
                    writeErrors |-> 0, dropped |-> 0, truncated |-> 0]
  BY DEF Init
<1>2. manifest \in Manifests /\ manifest.dropped = 0
  <2>1. (initial = {}) \in BOOLEAN /\ initial \in SUBSET (Limitations \cup {writerFailureLossReason})
    OBVIOUS
  <2>2. QED
    BY <1>1, <2>1 DEF Manifests
<1>3. TypeOK
  <2>1. pc \in [Callers -> Places] /\ arg \in [Callers -> [raw : Raws, id : Nat]] /\ job \in Jobs
    BY NoJobType DEF Init, Places
  <2>2. queue \in Seq(Jobs) /\ stream \in Seq(Jobs) /\ accepted \in Seq(Nat)
    BY DEF Init
  <2>3. disk \in Manifests \cup {NoRef}
    BY <1>2 DEF Init
  <2>4. QED
    BY <1>2, <2>1, <2>2, <2>3 DEF Init, TypeOK
<1>4. LockInv
  BY RecorderAssumption DEF Init, LockInv, Callers, Writer
<1>5. PendingInv
  <2>1. Res = 0 /\ Busy = 0 /\ Len(queue) = 0 /\ pending = 0
    BY RecorderAssumption DEF Init, Res, Busy, Callers
  <2>2. QueueLimits
    BY <2>1, RecorderAssumption DEF QueueLimits
  <2>3. QED
    BY <2>1, <2>2, RecorderAssumption DEF Init, PendingInv, Callers
<1>6. CloseInv /\ FailInv
  BY RecorderAssumption DEF Init, CloseInv, FailInv, Callers
<1>7. SequenceInv
  <2>1. Res = 0 /\ Numbered = 0 /\ Len(queue) = 0 /\ DOMAIN queue = {} /\ Len(stream) = 0 /\ DOMAIN stream = {}
    BY RecorderAssumption DEF Init, Res, Numbered, Callers
  <2>2. QED
    BY <2>1 DEF Init, SequenceInv, EvidenceOnDisk
<1>8. OrderInv
  <2>1. InHand = 0 /\ Len(queue) = 0 /\ DOMAIN queue = {} /\ Len(stream) = 0 /\ Len(accepted) = 0
    BY DEF Init, InHand
  <2>2. OrderKept /\ Accounted
    BY <1>2, <2>1 DEF Init, OrderKept, Accounted
  <2>3. QED
    BY <1>2, <2>1, <2>2 DEF Init, OrderInv
<1>9. QED
  BY <1>3, <1>4, <1>5, <1>6, <1>7, <1>8 DEF IndInv

(***************************************************************************)
(* IndInv is an invariant of the recorder.  No one of its parts is         *)
(* inductive alone: the numbering needs the exclusion of enqueueMu, the    *)
(* roll-back needs the count of reservations, the drain needs what a       *)
(* failure implies, and the order needs the numbering.                     *)
(***************************************************************************)
THEOREM Invariance == Spec => []IndInv
<1>1. Init => IndInv
  BY InitInv
<1>2. IndInv /\ [Next]_vars => IndInv'
  BY TypeStep, LockStep, PendingStep, CloseInvStep, FailStep, SequenceStep,
     OrderStep DEF IndInv
<1>3. QED
  BY <1>1, <1>2, PTL DEF Spec

(***************************************************************************)
(* Type correctness of every field, channel and file of the recorder.      *)
(***************************************************************************)
THEOREM TypeCorrect == Spec => []TypeOK
<1>1. IndInv => TypeOK
  BY DEF IndInv
<1>2. QED
  BY <1>1, Invariance, PTL

(***************************************************************************)
(* Whatever instant a crash strikes, events.jsonl is numbered without gaps *)
(* and each blob it names has been published (storeBlobLocked before       *)
(* appendEventLocked, for both write paths).                               *)
(***************************************************************************)
THEOREM EvidenceAlwaysOnDisk == Spec => []EvidenceOnDisk
<1>1. IndInv => EvidenceOnDisk
  BY DEF IndInv, SequenceInv
<1>2. QED
  BY <1>1, Invariance, PTL

(***************************************************************************)
(* The committed lines are the accepted events in the order of acceptance, *)
(* through cancellations (rollbackEnqueue) and both write paths.           *)
(***************************************************************************)
THEOREM OrderAlwaysKept == Spec => []OrderKept
<1>1. IndInv => OrderKept
  BY DEF IndInv, OrderInv
<1>2. QED
  BY <1>1, Invariance, PTL

(***************************************************************************)
(* No accepted event is ever unaccounted for: it is committed, queued, in  *)
(* the writer's hands, or in Counts.Dropped.                               *)
(***************************************************************************)
THEOREM NothingUnaccounted == Spec => []Accounted
<1>1. IndInv => Accounted
  BY DEF IndInv, OrderInv
<1>2. QED
  BY <1>1, Invariance, PTL

(***************************************************************************)
(* appendEventLocked's "out of order" error cannot occur.                  *)
(***************************************************************************)
THEOREM AppendAlwaysFollows == Spec => []AppendFollows
<1>1. IndInv => AppendFollows
  BY ActiveIO DEF AppendFollows, Follows
<1>2. QED
  BY <1>1, Invariance, PTL

(***************************************************************************)
(* Back-pressure holds for every capacity and byte budget: pending stays   *)
(* within both, but for one oversized record by itself.                    *)
(***************************************************************************)
THEOREM QueueAlwaysLimited == Spec => []QueueLimits
<1>1. IndInv => QueueLimits
  BY DEF IndInv, PendingInv
<1>2. QED
  BY <1>1, Invariance, PTL

(***************************************************************************)
(* A caller with a reserved place never waits in the channel send.         *)
(***************************************************************************)
THEOREM SendAlwaysFindsRoom == Spec => []SendNeverBlocks
<1>1. ASSUME IndInv, NEW c \in Recorders, pc[c] = "send" PROVE Len(queue) < QueueCapacity
  <2>1. Res = 1
    BY <1>1, OneReservation DEF Callers
  <2>2. pending = Len(queue) + Busy + 1 /\ pending <= QueueCapacity
    BY <1>1, <2>1 DEF IndInv, PendingInv, QueueLimits
  <2>3. Busy \in Nat /\ Len(queue) \in Nat /\ QueueCapacity \in Nat
    BY <1>1, Basics, RecorderAssumption DEF Busy
  <2>4. QED
    BY <2>2, <2>3
<1>2. IndInv => SendNeverBlocks
  BY <1>1 DEF SendNeverBlocks
<1>3. QED
  BY <1>2, Invariance, PTL

(***************************************************************************)
(* No send on a closed queue, no second close of the queue or of an idle   *)
(* channel.                                                                *)
(***************************************************************************)
THEOREM NoPanic == Spec => []NoChannelPanic
<1>1. ASSUME IndInv, NEW c \in Recorders, pc[c] = "send" PROVE ~queueClosed
  BY <1>1 DEF IndInv, CloseInv, Callers
<1>2. ASSUME IndInv, NEW c \in Closers, pc[c] = "closeQueue", ~closed PROVE ~queueClosed
  <2>1. ~ \E d \in Closers : pc[d] = "join"
    BY <1>2 DEF IndInv, LockInv, Callers
  <2>2. QED
    BY <1>2, <2>1 DEF IndInv, CloseInv
<1>3. IndInv => (idle <=> pending = 0)
  BY DEF IndInv, PendingInv
<1>4. IndInv => NoChannelPanic
  BY <1>1, <1>2, <1>3 DEF NoChannelPanic
<1>5. QED
  BY <1>4, Invariance, PTL

(***************************************************************************)
(* The bounded queue is safe for every capacity, byte budget and number of *)
(* goroutines: it keeps its limits and no channel operation blocks or      *)
(* panics.                                                                 *)
(***************************************************************************)
THEOREM QueueAlwaysSafe == Spec => []QueueSafe
<1>1. QueueLimits /\ SendNeverBlocks /\ NoChannelPanic => QueueSafe
  BY DEF QueueSafe
<1>2. QED
  BY <1>1, QueueAlwaysLimited, SendAlwaysFindsRoom, NoPanic, PTL

(***************************************************************************)
(* Once Close has set closed, no late Record, RecordReader, AddLimitation, *)
(* AddLoss or second Close changes the evidence or the sealed manifest.    *)
(***************************************************************************)
THEOREM SealedMeansSealed == Spec => SealedForever
<1>1. ASSUME IndInv, [Next]_vars, closed
      PROVE  UNCHANGED <<closed, stream, torn, blobs, sequence, manifest>>
  <2>0. wpc = "done" /\ queueClosed /\ queue = << >>
    BY <1>1 DEF IndInv, CloseInv
  <2>1. io = "off"
    <3>1. \A c \in Streamers : pc[c] # "stream"
      BY <1>1, <2>0 DEF IndInv, CloseInv, Callers
    <3>2. QED
      BY <1>1, <2>0, <3>1 DEF IndInv, LockInv
  <2>2. ASSUME NEW c \in Callers, Call(c) \/ Lock(c) \/ Cancel(c)
        PROVE  UNCHANGED <<closed, stream, torn, blobs, sequence, manifest>>
    BY <2>2 DEF Call, Lock, Cancel, SpaceCancelled, SendCancelled, StreamCancelled,
       rollbackEnqueue
  <2>3. ASSUME NEW c \in Recorders, RecordStep(c)
        PROVE  UNCHANGED <<closed, stream, torn, blobs, sequence, manifest>>
    BY <2>3 DEF RecordStep, CheckSpace, SpaceWoken, Reserve, ReserveRefused, Send,
       SendStopped,
                rollbackEnqueue
  <2>4. ASSUME NEW c \in Streamers, StreamStep(c)
        PROVE  UNCHANGED <<closed, stream, torn, blobs, sequence, manifest>>
    BY <2>4 DEF StreamStep, CheckIdle, IdleWoken, StreamBegin, StreamEnd
  <2>5. ASSUME NEW c \in Closers, CloseStep(c) \/ CloseFault(c)
        PROVE  UNCHANGED <<closed, stream, torn, blobs, sequence, manifest>>
    <3>1. pc[c] # "join"
      BY <1>1 DEF IndInv, CloseInv, Callers
    <3>2. QED
      BY <2>5, <3>1 DEF CloseStep, CloseQueue, CloseSeal, CloseSync, ManifestTemp,
         ManifestRename,
                        CloseFault, ManifestTempFail, ManifestRemove, ManifestRetryFail
  <2>6. ~IOStep /\ ~IOFault /\ ~Annotate
    BY <1>1, <2>1 DEF IOStep, IOFault, StoreOpen, StorePublish, StoreFail, AppendBegin,
       AppendCommit,
                      AppendTorn, SyncFail, Annotate, AddLimitation, AddLoss
  <2>7. ~WriterStep
    BY <2>0 DEF WriterStep, WriterRecv, WriterBegin, WriterComplete, WriterNotify,
       drainFailedQueue,
                WriterExit
  <2>8. QED
    BY <1>1, <2>2, <2>3, <2>4, <2>5, <2>6, <2>7 DEF Next, Finished, vars
<1>2. IndInv /\ [Next]_vars => [closed => UNCHANGED <<closed, stream, torn, blobs, sequence, manifest>>]_vars
  BY <1>1
<1>3. QED
  BY <1>2, Invariance, PTL DEF Spec, SealedForever

-----------------------------------------------------------------------------
(* What the updates of the manifest do to its fields.                      *)

LEMMA FailedFields ==
    ASSUME NEW m, m \in Manifests
    PROVE  /\ markFailed(m) \in Manifests /\ markFailed(m).complete = FALSE
           /\ markFailed(m).status = m.status /\ markFailed(m).events = m.events
           /\ markFailed(m).dropped = m.dropped
<1>1. markFailed(m) \in Manifests
  BY MarkFailedType
<1>2. QED
  BY <1>1 DEF Manifests, markFailed

LEMMA DroppedFields ==
    ASSUME NEW m, m \in Manifests
    PROVE  /\ markDropped(m).complete = FALSE /\ markDropped(m).dropped = m.dropped + 1
           /\ markDropped(m).status = m.status /\ markDropped(m).events = m.events
  BY DEF Manifests, markDropped

LEMMA CountFields ==
    ASSUME NEW m, m \in Manifests, NEW j
    PROVE  /\ countEvent(m, j).events = m.events + 1 /\ countEvent(m, j).status = m.status
           /\ countEvent(m, j).complete = m.complete /\ countEvent(m, j).limits = m.limits
           /\ countEvent(m, j).dropped = m.dropped /\ countEvent(m, j).truncated = m.truncated
           /\ countEvent(m, j).writeErrors = m.writeErrors
  BY DEF Manifests, countEvent

LEMMA SealFields ==
    ASSUME NEW m, m \in Manifests, failed \in BOOLEAN, NEW status, status \in {"closed", "failed"}
    PROVE  /\ sealManifest(m, status, status = "failed").status =
                IF failed THEN "failed" ELSE status
           /\ sealManifest(m, status, status = "failed").complete =
                (m.complete /\ status # "failed" /\ ~failed)
           /\ sealManifest(m, status, status = "failed").events = m.events
           /\ sealManifest(m, status, status = "failed").limits = m.limits
           /\ sealManifest(m, status, status = "failed").dropped = m.dropped
           /\ sealManifest(m, status, status = "failed").truncated = m.truncated
           /\ sealManifest(m, status, status = "failed").writeErrors = m.writeErrors
  BY DEF Manifests, sealManifest

\* While mu is free nobody is inside storeBlobLocked or appendEventLocked.
LEMMA NoIO == ASSUME IndInv, mu = NoOne PROVE io = "off"
<1>1. wpc # "io"
  BY RecorderAssumption DEF IndInv, LockInv
<1>2. \A c \in Streamers : pc[c] # "stream"
  BY RecorderAssumption DEF IndInv, LockInv, Callers
<1>3. QED
  BY <1>1, <1>2 DEF IndInv, LockInv

\* A recorder in the middle of an event is not closed.
LEMMA IOMeansOpen == ASSUME IndInv, io # "off" PROVE ~closed
<1>1. CASE wpc = "io"
  BY <1>1 DEF IndInv, CloseInv
<1>2. CASE \E c \in Streamers : pc[c] = "stream"
  BY <1>2 DEF IndInv, CloseInv, Callers
<1>3. QED
  BY <1>1, <1>2 DEF IndInv, LockInv

\* The places of Close in which the final manifest is not yet published.
Sealing == {"closeSync", "manifest", "rename", "retry"}

\* A step that leaves the manifest alone, in memory and on disk.
LEMMA StillFinal ==
    ASSUME FinalInv, UNCHANGED <<manifest, sequence, failed, closed, disk>>,
           torn' => failed \/ io' = "line",
           \A c \in Closers : pc'[c] \in Sealing => pc'[c] = pc[c]
    PROVE  FinalInv'
  BY DEF FinalInv, Sealing

\* Calls that are not about Close.
LEMMA OtherCallsFinal ==
    ASSUME IndInv, FinalInv, NEW c \in Callers,
           \/ Call(c) \/ Lock(c) \/ Cancel(c)
           \/ c \in Recorders /\ RecordStep(c)
           \/ c \in Streamers /\ StreamStep(c)
    PROVE  FinalInv'
<1>0. pc \in [Callers -> Places] /\ (\A d \in Closers : d \in Callers)
  BY Basics DEF Callers
<1>1. CASE Call(c) \/ Lock(c) \/ Cancel(c)
  <2>1. UNCHANGED <<manifest, sequence, failed, closed, disk, torn, io>>
    BY <1>1 DEF Call, Lock, Cancel, SpaceCancelled, SendCancelled, StreamCancelled,
       rollbackEnqueue
  <2>2. \A d \in Closers : pc'[d] \in Sealing => pc'[d] = pc[d]
    BY <1>0, <1>1 DEF Call, Lock, Cancel, SpaceCancelled, SendCancelled, StreamCancelled,
       rollbackEnqueue, Return, Sealing
  <2>3. QED
    BY <2>1, <2>2, StillFinal DEF FinalInv
<1>2. CASE c \in Recorders /\ RecordStep(c)
  <2>1. UNCHANGED <<manifest, sequence, failed, closed, disk, torn, io>>
    BY <1>2 DEF RecordStep, CheckSpace, SpaceWoken, Reserve, ReserveRefused, Send,
       SendStopped,
       rollbackEnqueue
  <2>2. \A d \in Closers : pc'[d] \in Sealing => pc'[d] = pc[d]
    BY <1>0, <1>2 DEF RecordStep, CheckSpace, SpaceWoken, Reserve, ReserveRefused, Send,
       SendStopped,
       rollbackEnqueue, Return, Sealing
  <2>3. QED
    BY <2>1, <2>2, StillFinal DEF FinalInv
<1>3. CASE c \in Streamers /\ StreamStep(c)
  <2>1. UNCHANGED <<manifest, sequence, failed, closed, disk, torn>>
    BY <1>3 DEF StreamStep, CheckIdle, IdleWoken, StreamBegin, StreamEnd
  <2>2. \A d \in Closers : pc'[d] \in Sealing => pc'[d] = pc[d]
    BY <1>0, <1>3 DEF StreamStep, CheckIdle, IdleWoken, StreamBegin, StreamEnd, Return,
       Sealing
  <2>3. UNCHANGED io \/ io # "line"
    BY <1>3, NoIO DEF StreamStep, CheckIdle, IdleWoken, StreamBegin, StreamEnd
  <2>4. torn' => failed \/ io' = "line"
    BY <2>1, <2>3 DEF FinalInv
  <2>5. QED
    BY <2>1, <2>2, <2>4, StillFinal
<1>4. QED
  BY <1>1, <1>2, <1>3

LEMMA CloseFinal ==
    ASSUME IndInv, FinalInv, NEW c \in Closers, CloseStep(c) \/ CloseFault(c)
    PROVE  FinalInv'
<1>0. /\ pc \in [Callers -> Places] /\ (\A d \in Closers : d \in Callers) /\ c \in Callers
      /\ manifest \in Manifests /\ failed \in BOOLEAN /\ closed \in BOOLEAN
  BY Basics DEF Callers
<1>1. ASSUME NEW d \in Closers, pc[c] \in Sealing, pc[d] \in Sealing PROVE d = c
  BY <1>0, <1>1 DEF IndInv, LockInv, Sealing
<1>2. CASE CloseQueue(c)
  <2>1. UNCHANGED <<manifest, sequence, failed, closed, disk, torn, io>>
    BY <1>2 DEF CloseQueue
  <2>2. \A d \in Closers : pc'[d] \in Sealing => pc'[d] = pc[d]
    BY <1>0, <1>2 DEF CloseQueue, Return, Sealing
  <2>3. QED
    BY <2>1, <2>2, StillFinal DEF FinalInv
<1>3. CASE CloseSeal(c)
  <2>1. ~closed /\ closed' /\ UNCHANGED <<sequence, failed, disk, torn, io>>
    BY <1>0, <1>3 DEF CloseSeal, IndInv, CloseInv
  <2>2. PICK status \in {"closed", "failed"} : manifest' = sealManifest(manifest, status, status = "failed")
    BY <1>3 DEF CloseSeal
  <2>3. /\ manifest'.status = (IF failed THEN "failed" ELSE status)
        /\ manifest'.complete = (manifest.complete /\ status # "failed" /\ ~failed)
        /\ manifest'.events = manifest.events /\ manifest'.limits = manifest.limits
        /\ manifest'.dropped = manifest.dropped /\ manifest'.truncated = manifest.truncated
        /\ manifest'.writeErrors = manifest.writeErrors
    BY <1>0, <2>2, SealFields
  <2>4. \A d \in Closers : pc'[d] # "retry" \/ pc'[d] = pc[d]
    BY <1>0, <1>3 DEF CloseSeal
  <2>5. disk # NoRef /\ disk.status = "open"
    BY <2>1 DEF FinalInv
  <2>6. QED
    BY <2>1, <2>3, <2>4, <2>5 DEF FinalInv
<1>4. CASE CloseSync(c) \/ ManifestTemp(c)
  <2>1. UNCHANGED <<manifest, sequence, failed, closed, disk, torn, io>>
    BY <1>4 DEF CloseSync, ManifestTemp
  <2>2. pc[c] \in {"closeSync", "manifest"} /\ pc'[c] \in {"manifest", "rename"}
    BY <1>0, <1>4 DEF CloseSync, ManifestTemp
  <2>3. \A d \in Closers : d # c => pc'[d] = pc[d]
    BY <1>0, <1>4 DEF CloseSync, ManifestTemp
  <2>4. QED
    BY <2>1, <2>2, <2>3 DEF FinalInv
<1>5. CASE ManifestTempFail(c) \/ ManifestRetryFail(c)
  <2>1. UNCHANGED <<manifest, sequence, failed, closed, disk, torn, io>>
    BY <1>5 DEF ManifestTempFail, ManifestRetryFail
  <2>2. \A d \in Closers : pc'[d] \in Sealing => pc'[d] = pc[d]
    BY <1>0, <1>5 DEF ManifestTempFail, ManifestRetryFail, CloseReturn, Return, Sealing
  <2>3. QED
    BY <2>1, <2>2, StillFinal DEF FinalInv
<1>6. CASE ManifestRename(c)
  <2>1. UNCHANGED <<manifest, sequence, failed, closed, torn, io>> /\ disk' = manifest
    BY <1>6 DEF ManifestRename
  <2>2. pc[c] \in Sealing /\ closed
    BY <1>0, <1>6 DEF ManifestRename, Sealing, IndInv, CloseInv
  <2>3. \A d \in Closers : pc'[d] \notin Sealing
    BY <1>0, <1>1, <1>6, <2>2 DEF ManifestRename, CloseReturn, Return, Sealing
  <2>4. QED
    BY <2>1, <2>2, <2>3 DEF FinalInv, Sealing
<1>7. CASE ManifestRemove(c)
  <2>1. UNCHANGED <<manifest, sequence, failed, closed, torn, io>> /\ disk' = NoRef
    BY <1>7 DEF ManifestRemove
  <2>2. pc[c] \in Sealing /\ closed
    BY <1>0, <1>7 DEF ManifestRemove, Sealing, IndInv, CloseInv
  <2>3. \A d \in Closers : pc'[d] \in Sealing => pc'[d] = "retry"
    BY <1>0, <1>1, <1>7, <2>2 DEF ManifestRemove, Sealing
  <2>4. QED
    BY <2>1, <2>2, <2>3 DEF FinalInv, Sealing
<1>8. QED
  BY <1>2, <1>3, <1>4, <1>5, <1>6, <1>7 DEF CloseStep, CloseFault

\* A step that changes the counters of an open manifest, and no caller's place.
LEMMA OpenFinal ==
    ASSUME FinalInv, ~closed, UNCHANGED <<closed, disk, pc>>,
           manifest'.events = sequence', manifest'.status = manifest.status,
           torn' => failed' \/ io' = "line",
           manifest'.complete =>
             /\ manifest'.limits = {} /\ manifest'.dropped = 0
             /\ manifest'.truncated = 0 /\ manifest'.writeErrors = 0
    PROVE  FinalInv'
  BY DEF FinalInv

LEMMA WriterFinal ==
    ASSUME IndInv, FinalInv, IOStep \/ IOFault \/ WriterStep
    PROVE  FinalInv'
<1>0. manifest \in Manifests /\ failed \in BOOLEAN
  BY Basics
<1>1. CASE StoreOpen \/ StorePublish \/ AppendBegin
  <2>1. UNCHANGED <<manifest, sequence, failed, closed, disk, pc>> /\ io # "line"
    BY <1>1 DEF StoreOpen, StorePublish, AppendBegin
  <2>2. torn' => failed \/ io' = "line"
    BY <1>1, <2>1 DEF FinalInv, StoreOpen, StorePublish, AppendBegin, IndInv, SequenceInv
  <2>3. QED
    BY <2>1, <2>2, StillFinal
<1>2. CASE AppendCommit
  <2>1. ~closed /\ sequence' = sequence + 1
    BY <1>2, IOMeansOpen, ActiveIO DEF AppendCommit
  <2>2. manifest' = countEvent(manifest, job) /\ ~torn' /\ UNCHANGED <<closed, disk, pc>>
    BY <1>2 DEF AppendCommit
  <2>3. QED
    BY <1>0, <2>1, <2>2, CountFields, OpenFinal DEF FinalInv
<1>3. CASE IOFault
  <2>1. ~closed
    BY <1>3, IOMeansOpen DEF IOFault, StoreFail, AppendTorn, SyncFail
  <2>2. manifest' = markFailed(manifest) /\ failed' /\ UNCHANGED <<sequence, closed, disk, pc>>
    BY <1>3 DEF IOFault, StoreFail, AppendTorn, SyncFail
  <2>3. QED
    BY <1>0, <2>1, <2>2, FailedFields, OpenFinal DEF FinalInv
<1>4. CASE WriterRecv \/ WriterNotify \/ WriterExit
  <2>1. UNCHANGED <<manifest, sequence, failed, closed, disk, torn, io, pc>>
    BY <1>4 DEF WriterRecv, WriterNotify, WriterExit
  <2>2. QED
    BY <2>1, StillFinal DEF FinalInv
<1>5. CASE WriterBegin
  <2>1. UNCHANGED <<manifest, sequence, failed, closed, disk, torn, pc>> /\ io = "off"
    BY <1>5, NoIO DEF WriterBegin
  <2>2. QED
    BY <2>1, StillFinal DEF FinalInv
<1>6. CASE WriterComplete
  <2>1. ~closed
    BY <1>6, IOMeansOpen DEF WriterComplete
  <2>2. UNCHANGED <<sequence, closed, disk, torn, pc>> /\ failed' = (failed \/ io = "bad") /\ io # "line"
    BY <1>6 DEF WriterComplete
  <2>3. torn' => failed' \/ io' = "line"
    BY <2>2 DEF FinalInv
  <2>4. CASE io = "bad"
    <3>1. manifest' = markDropped(markFailed(manifest))
      BY <1>6, <2>4 DEF WriterComplete
    <3>2. manifest'.complete = FALSE /\ manifest'.status = manifest.status /\ manifest'.events = manifest.events
      BY <1>0, <3>1, FailedFields, DroppedFields
    <3>3. QED
      BY <2>1, <2>2, <2>3, <3>2, OpenFinal DEF FinalInv
  <2>5. CASE io # "bad"
    <3>1. manifest' = manifest
      BY <1>6, <2>5 DEF WriterComplete
    <3>2. QED
      BY <2>1, <2>2, <2>3, <3>1, OpenFinal DEF FinalInv
  <2>6. QED
    BY <2>4, <2>5
<1>7. CASE drainFailedQueue
  <2>1. ~closed
    BY <1>7 DEF drainFailedQueue, IndInv, CloseInv
  <2>2. UNCHANGED <<sequence, closed, disk, torn, pc, failed, io>> /\ manifest' = markDropped(manifest)
    BY <1>7 DEF drainFailedQueue
  <2>3. manifest'.complete = FALSE /\ manifest'.status = manifest.status /\ manifest'.events = manifest.events
    BY <1>0, <2>2, DroppedFields
  <2>4. QED
    BY <2>1, <2>2, <2>3, OpenFinal DEF FinalInv
<1>8. QED
  BY <1>1, <1>2, <1>3, <1>4, <1>5, <1>6, <1>7 DEF IOStep, WriterStep

LEMMA AnnotateFinal == ASSUME IndInv, FinalInv, Annotate PROVE FinalInv'
<1>0. manifest \in Manifests
  BY Basics
<1>1. ASSUME NEW message \in Limitations, AddLimitation(message) PROVE FinalInv'
  <2>1. ~closed /\ UNCHANGED <<sequence, failed, closed, disk, torn, io, pc>>
    BY <1>1 DEF AddLimitation
  <2>2. manifest'.complete = FALSE /\ manifest'.status = manifest.status /\ manifest'.events = manifest.events
    BY <1>0, <1>1 DEF AddLimitation, Manifests
  <2>3. QED
    BY <2>1, <2>2, OpenFinal DEF FinalInv
<1>2. ASSUME NEW dropped \in 0..MaxLoss, NEW truncated \in 0..MaxLoss, AddLoss(dropped, truncated)
      PROVE  FinalInv'
  <2>1. ~closed /\ UNCHANGED <<sequence, failed, closed, disk, torn, io, pc>>
    BY <1>2 DEF AddLoss
  <2>2. manifest'.complete = FALSE /\ manifest'.status = manifest.status /\ manifest'.events = manifest.events
    BY <1>0, <1>2 DEF AddLoss, Manifests
  <2>3. QED
    BY <2>1, <2>2, OpenFinal DEF FinalInv
<1>3. QED
  BY <1>1, <1>2 DEF Annotate

LEMMA FinalStep == ASSUME IndInv, FinalInv, [Next]_vars PROVE FinalInv'
<1>1. CASE UNCHANGED vars
  BY <1>1 DEF FinalInv, vars
<1>2. CASE Finished
  BY <1>1, <1>2 DEF Finished
<1>3. ASSUME NEW c \in Callers, Call(c) \/ Lock(c) \/ Cancel(c) PROVE FinalInv'
  BY <1>3, OtherCallsFinal
<1>4. ASSUME NEW c \in Recorders, RecordStep(c) PROVE FinalInv'
  BY <1>4, OtherCallsFinal DEF Callers
<1>5. ASSUME NEW c \in Streamers, StreamStep(c) PROVE FinalInv'
  BY <1>5, OtherCallsFinal DEF Callers
<1>6. ASSUME NEW c \in Closers, CloseStep(c) \/ CloseFault(c) PROVE FinalInv'
  BY <1>6, CloseFinal
<1>7. QED
  BY <1>1, <1>2, <1>3, <1>4, <1>5, <1>6, WriterFinal, AnnotateFinal DEF Next

LEMMA InitFinal == ASSUME Init PROVE FinalInv
<1>1. PICK initial \in SUBSET Limitations :
        manifest = [status |-> "open", complete |-> initial = {}, limits |-> initial,
                    failure |-> FALSE, events |-> 0, blobs |-> 0, blobBytes |-> 0,
                    writeErrors |-> 0, dropped |-> 0, truncated |-> 0]
  BY DEF Init
<1>2. /\ manifest.status = "open" /\ manifest.events = 0 /\ (manifest.complete => initial = {})
      /\ manifest.limits = initial /\ manifest.dropped = 0 /\ manifest.truncated = 0
      /\ manifest.writeErrors = 0
  BY <1>1
<1>3. disk = manifest /\ disk # NoRef
  BY InitInv, ManifestAssumption DEF Init, IndInv, TypeOK
<1>4. /\ \A c \in Closers : pc[c] = "idle"
      /\ ~closed /\ ~failed /\ ~torn /\ sequence = 0
  BY DEF Init, Callers
<1>5. QED
  BY <1>2, <1>3, <1>4 DEF FinalInv

(***************************************************************************)
(* The manifest, in memory and on disk, says what the recorder has done:   *)
(* it counts the committed events, it is final exactly when the recorder   *)
(* is closed, and only one that never failed is final as "closed".         *)
(***************************************************************************)
THEOREM ManifestInvariance == Spec => [](IndInv /\ FinalInv)
<1>1. Init => FinalInv
  BY InitFinal
<1>2. IndInv /\ FinalInv /\ [Next]_vars => FinalInv'
  BY FinalStep
<1>3. QED
  BY <1>1, <1>2, Invariance, PTL DEF Spec

-----------------------------------------------------------------------------
(* The committed events as a sequence.                                     *)

LEMMA SameSeq ==
    ASSUME NEW S, NEW s, s \in Seq(S), NEW t, t \in Seq(S), Len(s) = Len(t),
           \A i \in 1..Len(s) : s[i] = t[i]
    PROVE  s = t
  OBVIOUS

LEMMA PrefixOfAppend ==
    ASSUME NEW S, NEW s, s \in Seq(S), NEW x, x \in S
    PROVE  SubSeq(Append(s, x), 1, Len(s)) = s
<1>1. /\ Append(s, x) \in Seq(S) /\ Len(Append(s, x)) = Len(s) + 1 /\ Len(s) \in Nat
      /\ \A i \in 1..Len(s) : Append(s, x)[i] = s[i]
  BY AppendLast
<1>2. SubSeq(Append(s, x), 1, Len(s)) \in Seq(S) /\ Len(SubSeq(Append(s, x), 1, Len(s))) = Len(s)
  BY <1>1
<1>3. \A i \in 1..Len(s) : SubSeq(Append(s, x), 1, Len(s))[i] = s[i]
  BY <1>1
<1>4. QED
  BY <1>2, <1>3, SameSeq

\* What CaptureLog calls the log.
Committed == [i \in 1..sequence |-> stream[i].id]

LEMMA CommittedType ==
    ASSUME IndInv
    PROVE  Committed \in Seq(Nat) /\ Len(Committed) = sequence /\ \A i \in 1..sequence : Committed[i] = stream[i].id
<1>1. sequence \in Nat /\ sequence <= Len(stream) /\ stream \in Seq(Jobs)
  BY Basics DEF IndInv, SequenceInv
<1>2. \A i \in 1..sequence : stream[i] \in Jobs
  BY <1>1
<1>3. Committed \in [1..sequence -> Nat]
  BY <1>2, JobFields DEF Committed
<1>4. Committed \in Seq(Nat) /\ Len(Committed) = sequence
  BY <1>1, <1>3
<1>5. QED
  BY <1>4 DEF Committed

\* With nothing queued, in hand or lost, the log is all that was accepted.
LEMMA AllCommitted ==
    ASSUME IndInv, Len(accepted) = sequence
    PROVE  Committed = accepted
<1>1. accepted \in Seq(Nat)
  BY Basics
<1>2. \A i \in 1..sequence : Committed[i] = accepted[i]
  BY CommittedType DEF IndInv, OrderInv, OrderKept
<1>3. QED
  BY <1>1, <1>2, CommittedType, SameSeq

\* A closed recorder that never failed has committed everything.
LEMMA ClosedWhole ==
    ASSUME IndInv, FinalInv, closed, ~failed
    PROVE  Whole
<1>1. queue = << >> /\ wpc = "done"
  BY DEF IndInv, CloseInv
<1>2. InHand = 0 /\ manifest.dropped = reported
  BY <1>1 DEF InHand, IndInv, OrderInv
<1>3. Len(accepted) = sequence /\ Len(stream) = sequence
  BY <1>1, <1>2, Numbers DEF IndInv, OrderInv, Accounted, SequenceInv
<1>4. io = "off"
  BY IOMeansOpen
<1>5. DOMAIN stream = 1..sequence
  BY <1>3, Basics
<1>6. QED
  BY <1>3, <1>4, <1>5, AllCommitted DEF Whole, FinalInv, Committed

(***************************************************************************)
(* A capture that Close publishes as "closed" holds every event that       *)
(* Record and RecordReader accepted, in their order; one published as      *)
(* complete has no loss, limitation or write error either.                 *)
(***************************************************************************)
THEOREM FinalAlwaysWhole == Spec => []FinalMeansWhole
<1>1. ASSUME IndInv, FinalInv PROVE FinalMeansWhole
  <2>1. ASSUME disk # NoRef, disk.status # "open" PROVE disk = manifest /\ closed
    BY <1>1, <2>1 DEF FinalInv
  <2>2. ASSUME disk # NoRef, disk.status = "closed" PROVE Whole
    BY <1>1, <2>1, <2>2, ClosedWhole DEF FinalInv
  <2>3. ASSUME disk # NoRef, disk.status # "open", disk.complete
        PROVE  /\ disk.status = "closed" /\ disk.limits = {} /\ disk.dropped = 0
               /\ disk.truncated = 0 /\ disk.writeErrors = 0
    <3>1. disk.status \in {"open", "closed", "failed"}
      BY <1>1, <2>1, <2>3, Basics DEF Manifests
    <3>2. QED
      BY <1>1, <2>1, <2>3, <3>1 DEF FinalInv
  <2>4. QED
    BY <2>2, <2>3 DEF FinalMeansWhole, ClosedMeansWhole, CompleteMeansWhole
<1>2. QED
  BY <1>1, ManifestInvariance, PTL

-----------------------------------------------------------------------------
(* The directory is a CaptureFiles.                                        *)

\* manifest.json as CaptureFiles sees it.
Published == IF disk = NoRef THEN [status |-> "none", events |-> 0]
             ELSE [status |-> disk.status, events |-> disk.events]

filesSeen == <<stream, torn, manifest.events, failed, closed, disk>>

LEMMA FilesStutter == ASSUME UNCHANGED filesSeen PROVE UNCHANGED Files!fileVars
  BY DEF filesSeen, Files!fileVars

LEMMA CallsFiles ==
    ASSUME IndInv, FinalInv, NEW c \in Callers,
           \/ Call(c) \/ Lock(c) \/ Cancel(c)
           \/ c \in Recorders /\ RecordStep(c)
           \/ c \in Streamers /\ StreamStep(c)
    PROVE  UNCHANGED filesSeen
<1>1. CASE Call(c) \/ Lock(c) \/ Cancel(c)
  BY <1>1 DEF Call, Lock, Cancel, SpaceCancelled, SendCancelled, StreamCancelled,
     rollbackEnqueue,
     filesSeen
<1>2. CASE c \in Recorders /\ RecordStep(c)
  BY <1>2 DEF RecordStep, CheckSpace, SpaceWoken, Reserve, ReserveRefused, Send,
     SendStopped,
     rollbackEnqueue, filesSeen
<1>3. CASE c \in Streamers /\ StreamStep(c)
  BY <1>3 DEF StreamStep, CheckIdle, IdleWoken, StreamBegin, StreamEnd, filesSeen
<1>4. QED
  BY <1>1, <1>2, <1>3

LEMMA CloseFiles ==
    ASSUME IndInv, FinalInv, NEW c \in Closers, CloseStep(c) \/ CloseFault(c)
    PROVE  UNCHANGED filesSeen \/ Files!FilesNext
<1>0. c \in Callers /\ manifest \in Manifests /\ failed \in BOOLEAN /\ closed \in BOOLEAN
  BY Basics DEF Callers
<1>1. CASE CloseQueue(c) \/ CloseSync(c) \/ ManifestTemp(c) \/ ManifestTempFail(c) \/ ManifestRetryFail(c)
  BY <1>1 DEF CloseQueue, CloseSync, ManifestTemp, ManifestTempFail, ManifestRetryFail,
     filesSeen
<1>2. CASE CloseSeal(c)
  <2>1. ~closed /\ closed' /\ UNCHANGED <<stream, torn, failed, disk>> /\ io = "off"
    BY <1>0, <1>2, NoIO DEF CloseSeal, IndInv, CloseInv
  <2>2. manifest'.events = manifest.events
    BY <1>0, <1>2, SealFields DEF CloseSeal
  <2>3. torn => failed
    BY <2>1 DEF FinalInv
  <2>4. Files!Seal
    BY <2>1, <2>2, <2>3 DEF Files!Seal
  <2>5. QED
    BY <2>4 DEF Files!FilesNext
<1>3. CASE ManifestRename(c)
  <2>1. closed /\ disk' = manifest /\ UNCHANGED <<stream, torn, manifest, failed, closed>>
    BY <1>0, <1>3 DEF ManifestRename, IndInv, CloseInv
  <2>2. disk = NoRef \/ (disk # NoRef /\ disk.status = "open")
    BY <1>3 DEF ManifestRename, FinalInv
  <2>3. manifest # NoRef /\ manifest.status \in {"closed", "failed"} /\ (failed => manifest.status = "failed")
    BY <1>0, <2>1, ManifestAssumption DEF FinalInv, Manifests
  <2>4. Published' = [status |-> manifest.status, events |-> manifest.events]
    BY <2>1, <2>3 DEF Published
  <2>5. Published.status \in {"open", "none"}
    BY <2>2 DEF Published
  <2>6. Files!Publish
    BY <2>1, <2>3, <2>4, <2>5 DEF Files!Publish, Published
  <2>7. QED
    BY <2>6 DEF Files!FilesNext
<1>4. CASE ManifestRemove(c)
  <2>1. closed /\ disk' = NoRef /\ UNCHANGED <<stream, torn, manifest, failed, closed>>
    BY <1>0, <1>4 DEF ManifestRemove, IndInv, CloseInv
  <2>2. disk # NoRef /\ disk.status = "open"
    BY <1>4 DEF ManifestRemove, FinalInv
  <2>3. Files!RemoveManifest
    BY <2>1, <2>2 DEF Files!RemoveManifest, Files!NoManifest
  <2>4. QED
    BY <2>3 DEF Files!FilesNext
<1>5. QED
  BY <1>1, <1>2, <1>3, <1>4 DEF CloseStep, CloseFault

LEMMA WriterFiles ==
    ASSUME IndInv, FinalInv, IOStep \/ IOFault \/ WriterStep
    PROVE  UNCHANGED filesSeen \/ Files!FilesNext
<1>0. manifest \in Manifests /\ failed \in BOOLEAN /\ closed \in BOOLEAN /\ torn \in BOOLEAN /\ stream \in Seq(Jobs) /\ job \in Jobs
  BY Basics DEF IndInv, TypeOK
<1>1. Len(Append(stream, job)) = Len(stream) + 1
  BY <1>0, AppendLast
<1>2. CASE StoreOpen \/ StorePublish
  BY <1>2 DEF StoreOpen, StorePublish, filesSeen
<1>3. CASE AppendBegin
  <2>1. ~failed /\ ~closed /\ UNCHANGED <<stream, manifest, failed, closed, disk>>
    BY <1>3, IOMeansOpen, ActiveIO DEF AppendBegin
  <2>2. torn' = torn \/ (~torn /\ torn' = TRUE)
    BY <1>0, <1>3 DEF AppendBegin
  <2>3. CASE torn' = torn
    BY <2>1, <2>3 DEF filesSeen
  <2>4. CASE ~torn /\ torn' = TRUE
    BY <2>1, <2>4 DEF Files!PartOfLine, Files!FilesNext
  <2>5. QED
    BY <2>2, <2>3, <2>4
<1>4. CASE AppendCommit
  <2>1. ~failed /\ ~closed /\ UNCHANGED <<failed, closed, disk>>
    BY <1>4, IOMeansOpen, ActiveIO DEF AppendCommit
  <2>2. manifest'.events = manifest.events + 1 /\ torn' = FALSE /\ stream' = Append(stream, job)
    BY <1>0, <1>4, CountFields DEF AppendCommit
  <2>3. Files!WholeLine
    BY <1>1, <2>1, <2>2 DEF Files!WholeLine
  <2>4. QED
    BY <2>3 DEF Files!FilesNext
<1>5. CASE IOFault
  <2>1. ~failed /\ ~closed /\ failed' = TRUE /\ UNCHANGED <<closed, disk>>
    BY <1>5, IOMeansOpen, ActiveIO DEF IOFault, StoreFail, AppendTorn, SyncFail
  <2>2. manifest'.events = manifest.events
    BY <1>0, <1>5, FailedFields DEF IOFault, StoreFail, AppendTorn, SyncFail
  <2>3. CASE SyncFail
    <3>1. Files!BreakUncounted
      BY <1>1, <2>1, <2>2, <2>3 DEF Files!BreakUncounted, SyncFail
    <3>2. QED
      BY <3>1 DEF Files!FilesNext
  <2>4. CASE StoreFail \/ AppendTorn
    <3>1. stream' = stream /\ torn' \in {torn, TRUE}
      BY <2>4 DEF StoreFail, AppendTorn
    <3>2. Files!Break
      BY <2>1, <2>2, <3>1 DEF Files!Break
    <3>3. QED
      BY <3>2 DEF Files!FilesNext
  <2>5. QED
    BY <1>5, <2>3, <2>4 DEF IOFault
<1>6. CASE WriterRecv \/ WriterBegin \/ WriterNotify \/ WriterExit
  BY <1>6 DEF WriterRecv, WriterBegin, WriterNotify, WriterExit, filesSeen
<1>7. CASE WriterComplete
  <2>1. failed' = failed /\ UNCHANGED <<stream, torn, closed, disk>>
    BY <1>0, <1>7 DEF WriterComplete, IndInv, FailInv
  <2>2. manifest'.events = manifest.events
    BY <1>0, <1>7, FailedFields, DroppedFields DEF WriterComplete
  <2>3. QED
    BY <2>1, <2>2 DEF filesSeen
<1>8. CASE drainFailedQueue
  BY <1>0, <1>8, DroppedFields DEF drainFailedQueue, filesSeen
<1>9. QED
  BY <1>2, <1>3, <1>4, <1>5, <1>6, <1>7, <1>8 DEF IOStep, WriterStep

LEMMA AnnotateFiles == ASSUME IndInv, Annotate PROVE UNCHANGED filesSeen
<1>0. manifest \in Manifests
  BY Basics
<1>1. ASSUME NEW message \in Limitations, AddLimitation(message) PROVE UNCHANGED filesSeen
  BY <1>0, <1>1 DEF AddLimitation, Manifests, filesSeen
<1>2. ASSUME NEW dropped \in 0..MaxLoss, NEW truncated \in 0..MaxLoss, AddLoss(dropped, truncated)
      PROVE  UNCHANGED filesSeen
  BY <1>0, <1>2 DEF AddLoss, Manifests, filesSeen
<1>3. QED
  BY <1>1, <1>2 DEF Annotate

(***************************************************************************)
(* The recorder's directory, step by step, is the CaptureFiles that the    *)
(* viewer and the artifact reader are checked against: whatever queue,     *)
(* callers and failures, every write to events.jsonl and manifest.json is  *)
(* a step of it or leaves it alone.                                        *)
(***************************************************************************)
THEOREM FilesImplemented == Spec => ImplementsFiles
<1>1. Init => Files!FilesInit
  <2>1. ASSUME Init PROVE disk # NoRef /\ disk.status = "open" /\ disk.events = 0 /\ manifest.events = 0
    BY <2>1, InitFinal DEF Init, FinalInv
  <2>2. QED
    BY <2>1 DEF Init, Files!FilesInit
<1>2. IndInv /\ FinalInv /\ [Next]_vars => [Files!FilesNext]_(Files!fileVars)
  <2> SUFFICES ASSUME IndInv, FinalInv, [Next]_vars
               PROVE  UNCHANGED filesSeen \/ Files!FilesNext
    BY FilesStutter
  <2>1. CASE UNCHANGED vars \/ Finished
    BY <2>1 DEF vars, Finished, filesSeen
  <2>2. ASSUME NEW c \in Callers, Call(c) \/ Lock(c) \/ Cancel(c) PROVE UNCHANGED filesSeen
    BY <2>2, CallsFiles
  <2>3. ASSUME NEW c \in Recorders, RecordStep(c) PROVE UNCHANGED filesSeen
    BY <2>3, CallsFiles DEF Callers
  <2>4. ASSUME NEW c \in Streamers, StreamStep(c) PROVE UNCHANGED filesSeen
    BY <2>4, CallsFiles DEF Callers
  <2>5. QED
    BY <2>1, <2>2, <2>3, <2>4, CloseFiles, WriterFiles, AnnotateFiles DEF Next
<1>3. QED
  BY <1>1, <1>2, ManifestInvariance, PTL DEF Spec, ImplementsFiles, Files!FilesSpec

-----------------------------------------------------------------------------
(* The recorder is a CaptureLog.                                           *)

logSeen == <<accepted, Committed, manifest.dropped - reported, failed, closed>>

LEMMA LogStutter == ASSUME UNCHANGED logSeen PROVE UNCHANGED Log!logVars
  BY DEF logSeen, Committed, Log!logVars

\* The log stays as it is when lines are only added after the committed ones.
LEMMA SameLog ==
    ASSUME IndInv, UNCHANGED sequence, stream' = stream \/ stream' = Append(stream, job)
    PROVE  UNCHANGED Committed
<1>1. sequence \in Nat /\ sequence <= Len(stream) /\ stream \in Seq(Jobs) /\ job \in Jobs
  BY Basics DEF IndInv, SequenceInv
<1>2. \A i \in 1..sequence : stream'[i] = stream[i]
  <2>1. \A i \in 1..sequence : i \in 1..Len(stream)
    BY <1>1
  <2>2. QED
    BY <1>1, <2>1, AppendLast
<1>3. QED
  BY <1>2 DEF Committed

LEMMA CallsLog ==
    ASSUME IndInv, NEW c \in Callers,
           \/ Call(c) \/ Lock(c) \/ Cancel(c)
           \/ c \in Recorders /\ RecordStep(c)
           \/ c \in Streamers /\ StreamStep(c)
    PROVE  UNCHANGED logSeen \/ Log!LogNext
<1>1. CASE Call(c) \/ Lock(c) \/ Cancel(c)
  BY <1>1 DEF Call, Lock, Cancel, SpaceCancelled, SendCancelled, StreamCancelled,
     rollbackEnqueue,
     logSeen, Committed
<1>2. CASE c \in Recorders /\ Send(c)
  <2>1. /\ accepted' = Append(accepted, arg[c].id)
        /\ UNCHANGED <<sequence, stream, manifest, reported, failed, closed>>
    BY <1>2 DEF Send
  <2>2. ~closed
    BY <1>2 DEF Send, IndInv, CloseInv
  <2>3. Log!Extends(accepted', accepted)
    BY <2>1, Basics, AppendLast, PrefixOfAppend DEF Log!Extends
  <2>4. Log!Accept
    BY <2>1, <2>2, <2>3 DEF Log!Accept
  <2>5. QED
    BY <2>4 DEF Log!LogNext
<1>3. CASE c \in Recorders /\ RecordStep(c) /\ ~Send(c)
  BY <1>3 DEF RecordStep, CheckSpace, SpaceWoken, Reserve, ReserveRefused, SendStopped,
     rollbackEnqueue, logSeen, Committed
<1>4. CASE c \in Streamers /\ StreamStep(c)
  BY <1>4 DEF StreamStep, CheckIdle, IdleWoken, StreamBegin, StreamEnd, logSeen, Committed
<1>5. QED
  BY <1>1, <1>2, <1>3, <1>4

LEMMA CloseLog ==
    ASSUME IndInv, NEW c \in Closers, CloseStep(c) \/ CloseFault(c)
    PROVE  UNCHANGED logSeen \/ Log!LogNext
<1>1. CASE CloseSeal(c)
  <2>1. wpc = "done" /\ pc[c] = "join" /\ closed' = TRUE
        /\ UNCHANGED <<sequence, stream, accepted, reported, failed>>
    BY <1>1 DEF CloseSeal
  <2>2. ~closed /\ queue = << >>
    BY <2>1 DEF IndInv, CloseInv, Callers
  <2>3. manifest'.dropped = manifest.dropped
    <3>1. manifest \in Manifests /\ failed \in BOOLEAN
      BY Basics
    <3>2. QED
      BY <1>1, <3>1, SealFields DEF CloseSeal
  <2>4. Len(Committed) + (manifest.dropped - reported) = Len(accepted)
    <3>1. InHand = 0 /\ Len(queue) = 0
      BY <2>1, <2>2 DEF InHand
    <3>2. QED
      BY <3>1, Numbers, CommittedType DEF IndInv, OrderInv, Accounted
  <2>5. Log!Seal
    BY <2>1, <2>2, <2>3, <2>4 DEF Log!Seal, Committed
  <2>6. QED
    BY <2>5 DEF Log!LogNext
<1>2. CASE ~CloseSeal(c)
  BY <1>2 DEF CloseStep, CloseFault, CloseQueue, CloseSync, ManifestTemp, ManifestRename,
     ManifestTempFail, ManifestRemove, ManifestRetryFail, logSeen, Committed
<1>3. QED
  BY <1>1, <1>2

LEMMA LoseStep ==
    ASSUME IndInv, failed, ~closed, InHand = 1, manifest'.dropped = manifest.dropped + 1,
           UNCHANGED <<sequence, stream, accepted, reported, failed, closed>>
    PROVE  Log!LogNext
<1>1. Len(Committed) + (manifest.dropped - reported) < Len(accepted)
  BY Numbers, CommittedType DEF IndInv, OrderInv, Accounted
<1>2. manifest'.dropped - reported' = (manifest.dropped - reported) + 1
  BY Numbers
<1>3. Log!Lose
  BY <1>1, <1>2 DEF Log!Lose, Committed
<1>4. QED
  BY <1>3 DEF Log!LogNext

\* The line of an event in hand makes the log one longer.
LEMMA CommitStep ==
    ASSUME IndInv, AppendCommit
    PROVE  /\ Len(Committed) = sequence /\ Committed \in Seq(Nat) /\ job.id \in Nat
           /\ Committed' = Append(Committed, job.id)
<1>1. /\ sequence \in Nat /\ Len(stream) = sequence /\ stream \in Seq(Jobs) /\ job \in Jobs /\ job.id \in Nat
      /\ stream' = Append(stream, job) /\ sequence' = sequence + 1
  BY Basics, ActiveIO DEF AppendCommit
<1>2. Committed \in Seq(Nat) /\ Len(Committed) = sequence /\ \A i \in 1..sequence : Committed[i] = stream[i].id
  BY CommittedType
<1>3. /\ \A i \in 1..sequence : stream'[i] = stream[i]
      /\ stream'[sequence + 1] = job
  BY <1>1, AppendLast
<1>4. Committed' = [i \in 1..(sequence + 1) |-> stream'[i].id]
  BY <1>1 DEF Committed
<1>5. \A i \in 1..(sequence + 1) : stream'[i].id \in Nat
  <2>1. \A i \in 1..sequence : stream[i].id \in Nat
    BY <1>1, JobFields
  <2>2. QED
    BY <1>1, <1>3, <2>1, UpToNext
<1>6. Committed' \in Seq(Nat) /\ Len(Committed') = sequence + 1
  <2>1. Committed' \in [1..(sequence + 1) -> Nat] /\ sequence + 1 \in Nat
    BY <1>1, <1>4, <1>5
  <2>2. QED
    BY <2>1
<1>7. /\ Append(Committed, job.id) \in Seq(Nat) /\ Len(Append(Committed, job.id)) = sequence + 1
      /\ \A i \in 1..sequence : Append(Committed, job.id)[i] = Committed[i]
      /\ Append(Committed, job.id)[sequence + 1] = job.id
  BY <1>1, <1>2, AppendLast
<1>8. \A i \in 1..(sequence + 1) : Committed'[i] = Append(Committed, job.id)[i]
  <2>1. \A i \in 1..(sequence + 1) : Committed'[i] = stream'[i].id
    BY <1>4
  <2>2. QED
    BY <1>1, <1>2, <1>3, <1>7, <2>1, UpToNext
<1>9. QED
  BY <1>1, <1>2, <1>6, <1>7, <1>8, SameSeq

LEMMA WriterLog ==
    ASSUME IndInv, IOStep \/ IOFault \/ WriterStep
    PROVE  UNCHANGED logSeen \/ Log!LogNext
<1>0. manifest \in Manifests /\ failed \in BOOLEAN /\ closed \in BOOLEAN
  BY Basics
<1>1. CASE StoreOpen \/ StorePublish \/ AppendBegin
  BY <1>1 DEF StoreOpen, StorePublish, AppendBegin, logSeen, Committed
<1>2. CASE AppendCommit
  <2>1. ~failed /\ ~closed /\ UNCHANGED <<failed, closed, reported>>
    BY <1>2, IOMeansOpen, ActiveIO DEF AppendCommit
  <2>2. manifest'.dropped = manifest.dropped
    BY <1>0, <1>2, CountFields DEF AppendCommit
  <2>3. Len(accepted) = sequence + Len(queue) + InHand
    BY <2>1, Numbers DEF IndInv, OrderInv, Accounted
  <2>4. CASE mu = Writer
    <3>1. InHand = 1 /\ accepted' = accepted
      BY <1>2, <2>4, ActiveIO DEF AppendCommit
    <3>2. job.id = accepted[sequence + 1] /\ sequence < Len(accepted)
      BY <2>1, <2>3, <3>1, Numbers DEF IndInv, OrderInv
    <3>3. Log!Commit
      BY <1>2, <2>1, <2>2, <3>1, <3>2, CommitStep DEF Log!Commit, Committed
    <3>4. QED
      BY <3>3 DEF Log!LogNext
  <2>5. CASE mu # Writer
    <3>1. InHand = 0 /\ queue = << >> /\ accepted' = Append(accepted, job.id)
      BY <1>2, <2>5, ActiveIO, WhoseIO DEF AppendCommit
    <3>2. Len(accepted) = sequence
      BY <2>3, <3>1, Numbers
    <3>3. Committed = accepted /\ Committed' = accepted'
      BY <1>2, <3>1, <3>2, AllCommitted, CommitStep
    <3>4. Log!Extends(accepted', accepted)
      BY <3>1, Basics, AppendLast, PrefixOfAppend DEF Log!Extends
    <3>5. Log!AcceptCommitted
      BY <2>1, <2>2, <3>3, <3>4 DEF Log!AcceptCommitted, Committed
    <3>6. QED
      BY <3>5 DEF Log!LogNext
  <2>6. QED
    BY <2>4, <2>5
<1>3. CASE IOFault
  <2>1. ~failed /\ ~closed /\ failed' = TRUE /\ UNCHANGED <<closed, sequence, accepted, reported>>
    BY <1>3, IOMeansOpen, ActiveIO DEF IOFault, StoreFail, AppendTorn, SyncFail
  <2>2. manifest'.dropped = manifest.dropped
    BY <1>0, <1>3, FailedFields DEF IOFault, StoreFail, AppendTorn, SyncFail
  <2>3. UNCHANGED Committed
    BY <1>3, <2>1, SameLog DEF IOFault, StoreFail, AppendTorn, SyncFail
  <2>4. Log!Break
    BY <2>1, <2>2, <2>3 DEF Log!Break, Committed
  <2>5. QED
    BY <2>4 DEF Log!LogNext
<1>4. CASE WriterRecv \/ WriterBegin \/ WriterNotify \/ WriterExit
  BY <1>4 DEF WriterRecv, WriterBegin, WriterNotify, WriterExit, logSeen, Committed
<1>5. CASE WriterComplete
  <2>1. ~closed /\ UNCHANGED <<sequence, stream, accepted, reported, closed>>
    BY <1>5, IOMeansOpen DEF WriterComplete
  <2>2. CASE io = "bad"
    <3>1. failed /\ failed' = failed /\ InHand = 1
      BY <1>0, <1>5, <2>2 DEF WriterComplete, IndInv, FailInv, InHand
    <3>2. manifest'.dropped = manifest.dropped + 1
      BY <1>0, <1>5, <2>2, FailedFields, DroppedFields DEF WriterComplete
    <3>3. QED
      BY <2>1, <3>1, <3>2, LoseStep
  <2>3. CASE io # "bad"
    BY <1>0, <1>5, <2>1, <2>3 DEF WriterComplete, logSeen, Committed
  <2>4. QED
    BY <2>2, <2>3
<1>6. CASE drainFailedQueue
  <2>1. ~closed /\ failed /\ InHand = 1
    BY <1>0, <1>6 DEF drainFailedQueue, IndInv, CloseInv, FailInv, InHand
  <2>2. manifest'.dropped = manifest.dropped + 1
    BY <1>0, <1>6, DroppedFields DEF drainFailedQueue
  <2>3. UNCHANGED <<sequence, stream, accepted, reported, failed, closed>>
    BY <1>6 DEF drainFailedQueue
  <2>4. QED
    BY <2>1, <2>2, <2>3, LoseStep
<1>7. QED
  BY <1>1, <1>2, <1>3, <1>4, <1>5, <1>6 DEF IOStep, WriterStep

LEMMA AnnotateLog == ASSUME IndInv, Annotate PROVE UNCHANGED logSeen
<1>0. manifest \in Manifests /\ manifest.dropped \in Nat /\ reported \in Nat
  BY Basics
<1>1. ASSUME NEW message \in Limitations, AddLimitation(message) PROVE UNCHANGED logSeen
  BY <1>0, <1>1 DEF AddLimitation, Manifests, logSeen, Committed
<1>2. ASSUME NEW dropped \in 0..MaxLoss, NEW truncated \in 0..MaxLoss, AddLoss(dropped, truncated)
      PROVE  UNCHANGED logSeen
  <2>1. manifest'.dropped = manifest.dropped + dropped /\ reported' = reported + dropped
    BY <1>0, <1>2 DEF AddLoss, Manifests
  <2>2. manifest'.dropped - reported' = manifest.dropped - reported
    BY <1>0, <2>1
  <2>3. UNCHANGED <<accepted, sequence, stream, failed, closed>>
    BY <1>2 DEF AddLoss
  <2>4. QED
    BY <2>2, <2>3 DEF logSeen, Committed
<1>3. QED
  BY <1>1, <1>2 DEF Annotate

(***************************************************************************)
(* The recorder implements CaptureLog: with any queue, any callers of      *)
(* Record, RecordReader and Close and any failure, events are committed in *)
(* the order of acceptance, a broken recorder commits nothing more, and it *)
(* is sealed only when every accepted event is committed or counted lost.  *)
(***************************************************************************)
THEOREM LogImplemented == Spec => ImplementsLog
<1>1. Init => Log!LogInit
  <2>1. ASSUME Init PROVE /\ accepted = << >> /\ sequence = 0 /\ ~failed /\ ~closed
                          /\ manifest.dropped - reported = 0
    BY <2>1 DEF Init
  <2>2. ASSUME Init PROVE Committed = << >>
    BY <2>1, <2>2 DEF Committed
  <2>3. QED
    BY <2>1, <2>2 DEF Init, Committed, Log!LogInit
<1>2. IndInv /\ [Next]_vars => [Log!LogNext]_(Log!logVars)
  <2> SUFFICES ASSUME IndInv, [Next]_vars
               PROVE  UNCHANGED logSeen \/ Log!LogNext
    BY LogStutter
  <2>1. CASE UNCHANGED vars \/ Finished
    BY <2>1 DEF vars, Finished, logSeen, Committed
  <2>2. ASSUME NEW c \in Callers, Call(c) \/ Lock(c) \/ Cancel(c)
        PROVE UNCHANGED logSeen \/ Log!LogNext
    BY <2>2, CallsLog
  <2>3. ASSUME NEW c \in Recorders, RecordStep(c) PROVE UNCHANGED logSeen \/ Log!LogNext
    BY <2>3, CallsLog DEF Callers
  <2>4. ASSUME NEW c \in Streamers, StreamStep(c) PROVE UNCHANGED logSeen \/ Log!LogNext
    BY <2>4, CallsLog DEF Callers
  <2>5. QED
    BY <2>1, <2>2, <2>3, <2>4, CloseLog, WriterLog, AnnotateLog DEF Next
<1>3. QED
  BY <1>1, <1>2, Invariance, PTL DEF Spec, ImplementsLog, Log!LogSpec

-----------------------------------------------------------------------------
(* The bytes that are pending.  The property sums them with a fold over a  *)
(* sequence; FoldFacts says what such a fold computes, one stage for each  *)
(* element, so the sums of an appended, of a joined and of a shortened     *)
(* sequence follow by induction on the stage.                              *)

BytesOf(raws) == FoldLeft(LAMBDA n, r : n + Bytes(r), 0, raws)

\* The sum of a sequence as the last of its partial sums.
LEMMA BytesPrefixes ==
    ASSUME NEW raws \in Seq(Raws)
    PROVE  \E p \in [0..Len(raws) -> Nat] :
              /\ p[0] = 0 /\ p[Len(raws)] = BytesOf(raws)
              /\ \A i \in 1..Len(raws) : p[i] = p[i - 1] + Bytes(raws[i])
<1> DEFINE n == Len(raws)
<1> DEFINE Acc == Nat
<1> DEFINE base == 0
<1> DEFINE step == [q \in Nat \X (1..n) |-> q[1] + Bytes(raws[q[2]])]
<1> DEFINE h == CHOOSE h : h = [s \in SUBSET (DOMAIN raws) |->
                                  IF s = {} THEN 0 ELSE h[s \ {Max(s)}] + Bytes(raws[Max(s)])]
<1>1. n \in Nat /\ DOMAIN raws = 1..n /\ \A i \in 1..n : Bytes(raws[i]) \in Nat
  BY BytesType
<1>2. step \in [Nat \X (1..n) -> Nat]
  BY <1>1
<1>3. \A a \in Nat, i \in 1..n : step[<<a, i>>] = a + Bytes(raws[i])
  BY <1>1
<1>4. BytesOf(raws) = h[DOMAIN raws]
  BY DEF BytesOf, FoldLeft, MapThenFoldSet
<1>5. h = [s \in SUBSET (DOMAIN raws) |->
             IF s = {} THEN 0 ELSE h[s \ {Max(s)}] + Bytes(raws[Max(s)])]
  <2>1. PICK g \in Iters(n, Nat, 0, step) : TRUE
    <3> HIDE DEF step, n
    <3> QED
      BY <1>1, <1>2, IterExists
  <2>2. g = [s \in SUBSET (DOMAIN raws) |->
               IF s = {} THEN 0 ELSE g[s \ {Max(s)}] + Bytes(raws[Max(s)])]
    <3> HIDE DEF step, n
    <3>1. /\ g \in [SUBSET (1..n) -> Nat]
          /\ \A s \in SUBSET (1..n) :
               g[s] = IF s = {} THEN 0 ELSE step[<<g[s \ {Max(s)}], Max(s)>>]
      BY <2>1 DEF Iters
    <3>2. ASSUME NEW s \in SUBSET (1..n), s # {}
          PROVE  g[s] = g[s \ {Max(s)}] + Bytes(raws[Max(s)])
      <4>1. Max(s) \in 1..n
        BY <1>1, <3>2, MaxOfBounded
      <4>2. g[s \ {Max(s)}] \in Nat
        BY <3>1
      <4> QED
        BY <3>1, <3>2, <4>1, <4>2, <1>3
    <3> QED
      BY <1>1, <3>1, <3>2
  <2> QED
    BY <2>2
<1> HIDE DEF h
<1>6. h[{}] = 0
  <2>1. {} \in SUBSET (DOMAIN raws)
    OBVIOUS
  <2> QED
    BY <1>5, <2>1
<1>7. ASSUME NEW s \in SUBSET (1..n), s # {}, h[s \ {Max(s)}] \in Nat
      PROVE  h[s] = step[<<h[s \ {Max(s)}], Max(s)>>]
  <2>1. Max(s) \in 1..n
    BY <1>1, <1>7, MaxOfBounded
  <2>2. h[s] = h[s \ {Max(s)}] + Bytes(raws[Max(s)])
    BY <1>1, <1>5, <1>7
  <2> HIDE DEF step
  <2> QED
    BY <1>3, <1>7, <2>1, <2>2
<1>8. IsIter(h, n, Acc, base, step)
  <2> HIDE DEF step
  <2> QED
    BY <1>1, <1>2, <1>6, <1>7 DEF IsIter
<1>9. PICK p \in Stages(n, Acc, base, step) : p[n] = h[1..n]
  <2> HIDE DEF step, n, Acc, base
  <2> QED
    BY <1>8, IterPrefixes
<1> HIDE DEF step
<1>10. p \in [0..n -> Nat] /\ p[0] = 0
  BY <1>9 DEF Stages
<1>11. ASSUME NEW i \in 1..n PROVE p[i] = p[i - 1] + Bytes(raws[i])
  <2>1. i - 1 \in 0..n
    BY <1>1
  <2>2. p[i - 1] \in Nat
    BY <2>1, <1>10
  <2> QED
    BY <1>3, <1>9, <2>2 DEF Stages
<1> QED
  BY <1>1, <1>4, <1>9, <1>10, <1>11

LEMMA BytesOfType == \A raws \in Seq(Raws) : BytesOf(raws) \in Nat
<1> TAKE raws \in Seq(Raws)
<1>1. Len(raws) \in Nat /\ Len(raws) \in 0..Len(raws)
  OBVIOUS
<1> QED
  BY <1>1, BytesPrefixes

LEMMA BytesOfEmpty == BytesOf(<< >>) = 0
<1>1. << >> \in Seq(Raws) /\ Len(<< >>) = 0
  OBVIOUS
<1> QED
  BY <1>1, BytesPrefixes

\* What a send adds.
LEMMA BytesOfAppend ==
    ASSUME NEW raws \in Seq(Raws), NEW r \in Raws
    PROVE  BytesOf(Append(raws, r)) = BytesOf(raws) + Bytes(r)
<1> DEFINE n == Len(raws)
<1>1. n \in Nat /\ Append(raws, r) \in Seq(Raws) /\ Len(Append(raws, r)) = n + 1
  OBVIOUS
<1>2. PICK p \in [0..n -> Nat] :
         /\ p[0] = 0 /\ p[n] = BytesOf(raws)
         /\ \A i \in 1..n : p[i] = p[i - 1] + Bytes(raws[i])
  BY BytesPrefixes
<1>3. PICK q \in [0..(n + 1) -> Nat] :
         /\ q[0] = 0 /\ q[n + 1] = BytesOf(Append(raws, r))
         /\ \A i \in 1..(n + 1) : q[i] = q[i - 1] + Bytes(Append(raws, r)[i])
  BY <1>1, BytesPrefixes
<1> DEFINE T == {i \in 0..n : p[i] = q[i]}
<1>4. 0 \in T
  BY <1>1, <1>2, <1>3
<1>5. ASSUME NEW i \in 1..n, i - 1 \in T PROVE i \in T
  <2>1. i \in 1..(n + 1) /\ i \in 0..n /\ Append(raws, r)[i] = raws[i]
    BY <1>1
  <2> QED
    BY <1>2, <1>3, <1>5, <2>1
<1>6. n \in T
  <2>1. n \in 0..n
    BY <1>1
  <2> HIDE DEF T, n
  <2> QED
    BY <1>1, <1>4, <1>5, <2>1, BoundedInduction
<1>7. n + 1 \in 1..(n + 1) /\ (n + 1) - 1 = n /\ Append(raws, r)[n + 1] = r
  BY <1>1
<1>8. q[n + 1] = q[n] + Bytes(r)
  BY <1>3, <1>7
<1> QED
  BY <1>2, <1>3, <1>6, <1>8

LEMMA BytesOfConcat ==
    ASSUME NEW a \in Seq(Raws), NEW b \in Seq(Raws)
    PROVE  BytesOf(a \o b) = BytesOf(a) + BytesOf(b)
<1> DEFINE T == {t \in Seq(Raws) : BytesOf(a \o t) = BytesOf(a) + BytesOf(t)}
<1>1. << >> \in T
  <2>1. << >> \in Seq(Raws) /\ a \o << >> = a
    OBVIOUS
  <2> QED
    BY <2>1, BytesOfType, BytesOfEmpty
<1>2. ASSUME NEW t \in Seq(Raws), NEW r \in Raws, t \in T PROVE Append(t, r) \in T
  <2>1. Append(t, r) \in Seq(Raws) /\ a \o t \in Seq(Raws) /\ a \o Append(t, r) = Append(a \o t, r)
    OBVIOUS
  <2>2. BytesOf(Append(t, r)) = BytesOf(t) + Bytes(r)
    BY BytesOfAppend
  <2>3. BytesOf(Append(a \o t, r)) = BytesOf(a \o t) + Bytes(r)
    BY <2>1, BytesOfAppend
  <2>4. BytesOf(a) \in Nat /\ BytesOf(t) \in Nat /\ Bytes(r) \in Nat
    BY BytesOfType, BytesType
  <2>5. BytesOf(a \o t) = BytesOf(a) + BytesOf(t)
    BY <1>2
  <2>6. BytesOf(a \o Append(t, r)) = BytesOf(a) + BytesOf(Append(t, r))
    <3> HIDE DEF T
    <3> QED
      BY <2>1, <2>2, <2>3, <2>4, <2>5
  <2> QED
    BY <2>1, <2>6
<1>3. b \in T
  <2> HIDE DEF T
  <2> QED
    BY <1>1, <1>2, SequenceInduction
<1> QED
  BY <1>3

LEMMA BytesOfOne == ASSUME NEW r \in Raws PROVE BytesOf(<<r>>) = Bytes(r)
<1>1. << >> \in Seq(Raws) /\ Append(<< >>, r) = <<r>>
  OBVIOUS
<1>2. BytesOf(Append(<< >>, r)) = BytesOf(<< >>) + Bytes(r)
  BY <1>1, BytesOfAppend
<1>3. Bytes(r) \in Nat
  BY BytesType
<1> QED
  BY <1>1, <1>2, <1>3, BytesOfEmpty

\* What a receive takes away.
LEMMA BytesOfTail ==
    ASSUME NEW raws \in Seq(Raws), raws # << >>
    PROVE  BytesOf(raws) = Bytes(Head(raws)) + BytesOf(Tail(raws))
<1>1. Head(raws) \in Raws /\ Tail(raws) \in Seq(Raws) /\ <<Head(raws)>> \in Seq(Raws)
  OBVIOUS
<1>2. raws = <<Head(raws)>> \o Tail(raws)
  OBVIOUS
<1> QED
  BY <1>1, <1>2, BytesOfConcat, BytesOfOne

\* The payloads in the channel, the bytes of the job in writeLoop's hands, and both.
QueueRaws == [i \in DOMAIN queue |-> queue[i].raw]
HeldBytes == IF wpc \in {"got", "drainGot", "io"} THEN Bytes(job.raw) ELSE 0
Settled   == BytesOf(QueueRaws) + HeldBytes

\* What pendingBytes counts: the queue, the job in hand, the place reserved.
BytesInv ==
    /\ Res = 0 => pendingBytes = Settled
    /\ \A c \in Recorders : pc[c] = "send" => pendingBytes = Settled + Bytes(arg[c].raw)

LEMMA BytesBasics ==
    ASSUME IndInv
    PROVE  QueueRaws \in Seq(Raws) /\ Len(QueueRaws) = Len(queue)
           /\ BytesOf(QueueRaws) \in Nat /\ HeldBytes \in Nat /\ Settled \in Nat
<1>1. queue \in Seq(Jobs) /\ Bytes(job.raw) \in Nat
  BY Basics
<1>2. QueueRaws \in Seq(Raws) /\ Len(QueueRaws) = Len(queue)
  <2>1. \A i \in 1..Len(queue) : queue[i].raw \in Raws
    BY <1>1, JobFields
  <2>2. DOMAIN queue = 1..Len(queue) /\ Len(queue) \in Nat
    BY <1>1
  <2> QED
    BY <2>1, <2>2 DEF QueueRaws
<1>3. BytesOf(QueueRaws) \in Nat
  BY <1>2, BytesOfType
<1>4. HeldBytes \in Nat
  BY <1>1 DEF HeldBytes
<1> QED
  BY <1>2, <1>3, <1>4 DEF Settled

\* A step that leaves the channel, the job in hand and the reservation alone.
LEMMA BytesStill ==
    ASSUME BytesInv, UNCHANGED <<pendingBytes, queue, HeldBytes>>,
           \A c \in Recorders : (pc'[c] = "send" <=> pc[c] = "send")
                                /\ (pc[c] = "send" => arg'[c] = arg[c])
    PROVE  BytesInv'
<1>1. Res' = Res
  BY DEF Res
<1>2. Settled' = Settled
  BY DEF Settled, QueueRaws
<1>3. \A c \in Recorders : pc[c] = "send" => Bytes(arg'[c].raw) = Bytes(arg[c].raw)
  OBVIOUS
<1> HIDE DEF Settled
<1>4. \A c \in Recorders : Bytes(arg[c].raw)' = Bytes(arg'[c].raw)
  BY DEF Bytes
<1> QED
  BY <1>1, <1>2, <1>3, <1>4 DEF BytesInv

\* One step for each action: enqueue reserves and sends, writeLoop receives and releases.
LEMMA BytesStep == ASSUME IndInv, BytesInv, [Next]_vars PROVE BytesInv'
<1>0. LockInv /\ PendingInv
  BY DEF IndInv
<1>1. ASSUME NEW c \in Callers, Call(c) \/ Lock(c) PROVE BytesInv'
  <2>1. \A d \in Recorders : (pc'[d] = "send" <=> pc[d] = "send")
                                /\ (pc[d] = "send" => arg'[d] = arg[d])
    BY <1>1, Basics, RecorderAssumption DEF Call, Lock, Callers
  <2>2. UNCHANGED <<pendingBytes, queue, HeldBytes>>
    BY <1>1 DEF Call, Lock, HeldBytes, Bytes
  <2>3. QED
    BY <2>1, <2>2, BytesStill
<1>2. ASSUME NEW c \in Callers, SpaceCancelled(c) \/ StreamCancelled(c) PROVE BytesInv'
  <2>1. \A d \in Recorders : (pc'[d] = "send" <=> pc[d] = "send")
                                /\ (pc[d] = "send" => arg'[d] = arg[d])
    BY <1>2, Basics, RecorderAssumption DEF SpaceCancelled, StreamCancelled, Return, Callers
  <2>2. UNCHANGED <<pendingBytes, queue, HeldBytes>>
    BY <1>2 DEF SpaceCancelled, StreamCancelled, HeldBytes, Bytes
  <2>3. QED
    BY <2>1, <2>2, BytesStill
<1>3. ASSUME NEW c \in Recorders, SendCancelled(c) \/ SendStopped(c) PROVE BytesInv'
  <2>1. c \in Callers /\ pc[c] = "send" /\ Bytes(arg[c].raw) \in Nat
        /\ completePending(Bytes(arg[c].raw)) /\ Return(c) /\ UNCHANGED <<queue, wpc, job>>
    BY <1>3, Basics DEF SendCancelled, SendStopped, rollbackEnqueue, Callers
  <2>2. Res = 1 /\ \A d \in Recorders : pc'[d] # "send"
    BY <1>0, <2>1, Basics, RecorderAssumption DEF LockInv, Return, Res, Callers
  <2>3. pending >= 1 /\ pending \in Nat
    BY <1>0, <2>2, Basics DEF PendingInv, Busy
  <2>4. pendingBytes = Settled + Bytes(arg[c].raw)
    BY <2>1 DEF BytesInv
  <2>5. pendingBytes' = Settled
    BY <2>1, <2>3, <2>4, BytesBasics DEF completePending
  <2>6. Settled' = Settled
    BY <2>1 DEF Settled, QueueRaws, HeldBytes, Bytes
  <2>7. QED
    BY <2>2, <2>5, <2>6 DEF BytesInv
<1>4. ASSUME NEW c \in Recorders, CheckSpace(c) \/ SpaceWoken(c) \/ ReserveRefused(c) PROVE BytesInv'
  <2>1. \A d \in Recorders : (pc'[d] = "send" <=> pc[d] = "send")
                                /\ (pc[d] = "send" => arg'[d] = arg[d])
    BY <1>4, Basics, RecorderAssumption DEF CheckSpace, SpaceWoken, ReserveRefused, Return,
       Callers
  <2>2. UNCHANGED <<pendingBytes, queue, HeldBytes>>
    BY <1>4 DEF CheckSpace, SpaceWoken, ReserveRefused, HeldBytes, Bytes
  <2>3. QED
    BY <2>1, <2>2, BytesStill
<1>5. ASSUME NEW c \in Recorders, Reserve(c) PROVE BytesInv'
  <2>1. c \in Callers /\ pc[c] = "reserve" /\ Bytes(arg[c].raw) \in Nat
    BY <1>5, Basics DEF Reserve, Callers
  <2>2. Res = 0 /\ Res' = 1
    BY <1>0, <1>5, <2>1, Basics, RecorderAssumption DEF LockInv, Reserve, Res, Callers
  <2>3. \A d \in Recorders : pc'[d] = "send" => d = c
    BY <1>0, <1>5, <2>1, Basics, RecorderAssumption DEF LockInv, Reserve, Callers
  <2>4. pendingBytes' = Settled + Bytes(arg[c].raw)
    BY <1>5, <2>2 DEF BytesInv, Reserve
  <2>5. Settled' = Settled /\ Bytes(arg[c].raw)' = Bytes(arg[c].raw)
    BY <1>5 DEF Reserve, Settled, QueueRaws, HeldBytes, Bytes
  <2>6. QED
    BY <2>2, <2>3, <2>4, <2>5 DEF BytesInv
<1>6. ASSUME NEW c \in Recorders, Send(c) PROVE BytesInv'
  <2>1. c \in Callers /\ pc[c] = "send" /\ Return(c) /\ UNCHANGED <<pendingBytes, HeldBytes>>
    BY <1>6 DEF Send, Callers, HeldBytes, Bytes
  <2>2. \A d \in Recorders : pc'[d] # "send"
    BY <1>0, <2>1, Basics, RecorderAssumption DEF LockInv, Return, Callers
  <2>3. arg[c].raw \in Raws /\ Bytes(arg[c].raw) \in Nat
    BY <2>1, Basics
  <2>4. QueueRaws' = Append(QueueRaws, arg[c].raw)
    <3> DEFINE new == [seq |-> assignedSequence, raw |-> arg[c].raw, id |-> arg[c].id]
    <3>1. queue' = Append(queue, new) /\ new.raw = arg[c].raw
      BY <1>6 DEF Send
    <3> HIDE DEF new
    <3>2. queue \in Seq(Jobs)
      BY Basics
    <3> QED
      BY <3>1, <3>2 DEF QueueRaws
  <2>5. BytesOf(Append(QueueRaws, arg[c].raw)) = BytesOf(QueueRaws) + Bytes(arg[c].raw)
    BY <2>3, BytesBasics, BytesOfAppend
  <2>6. BytesOf(QueueRaws)' = BytesOf(QueueRaws) + Bytes(arg[c].raw)
    <3>1. BytesOf(QueueRaws)' = BytesOf(QueueRaws')
      BY DEF BytesOf, Bytes, FoldLeft, MapThenFoldSet
    <3> QED
      BY <2>4, <2>5, <3>1
  <2>7. Settled' = Settled + Bytes(arg[c].raw)
    BY <2>1, <2>3, <2>6, BytesBasics DEF Settled
  <2>8. QED
    BY <2>1, <2>2, <2>7 DEF BytesInv
<1>7. ASSUME NEW c \in Streamers, StreamStep(c) PROVE BytesInv'
  <2>1. \A d \in Recorders : pc'[d] = pc[d] /\ arg'[d] = arg[d]
    BY <1>7, Basics, RecorderAssumption
       DEF StreamStep, CheckIdle, IdleWoken, StreamBegin, StreamEnd, Return, Callers
  <2>2. UNCHANGED <<pendingBytes, queue, wpc>>
    BY <1>7 DEF StreamStep, CheckIdle, IdleWoken, StreamBegin, StreamEnd
  <2>3. job' # job => wpc \notin {"got", "drainGot", "io"}
    <3>1. job' # job => pc[c] \in {"sync", "stream"}
      BY <1>7 DEF StreamStep, CheckIdle, IdleWoken, StreamBegin, StreamEnd
    <3> QED
      BY <3>1, StreamAlone
  <2>4. HeldBytes' = HeldBytes
    BY <2>2, <2>3 DEF HeldBytes, Bytes
  <2>5. QED
    BY <2>1, <2>2, <2>4, BytesStill
<1>8. ASSUME NEW c \in Closers, CloseStep(c) \/ CloseFault(c) PROVE BytesInv'
  <2>1. \A d \in Recorders : pc'[d] = pc[d] /\ arg'[d] = arg[d]
    BY <1>8, Basics, RecorderAssumption
       DEF CloseStep, CloseQueue, CloseSeal, CloseSync, ManifestTemp, ManifestRename, CloseFault,
           ManifestTempFail, ManifestRemove, ManifestRetryFail, CloseReturn, Return,
           Callers
  <2>2. UNCHANGED <<pendingBytes, queue, wpc, job>>
    BY <1>8 DEF CloseStep, CloseQueue, CloseSeal, CloseSync, ManifestTemp, ManifestRename,
                CloseFault, ManifestTempFail, ManifestRemove, ManifestRetryFail
  <2>3. HeldBytes' = HeldBytes
    BY <2>2 DEF HeldBytes, Bytes
  <2>4. QED
    BY <2>1, <2>2, <2>3, BytesStill
<1>9. CASE IOStep \/ IOFault
  <2>1. UNCHANGED <<pc, arg, pendingBytes, queue, wpc, job>>
    BY <1>9 DEF IOStep, IOFault, StoreOpen, StorePublish, StoreFail, AppendBegin,
       AppendCommit,
                AppendTorn, SyncFail
  <2>2. HeldBytes' = HeldBytes
    BY <2>1 DEF HeldBytes, Bytes
  <2>3. QED
    BY <2>1, <2>2, BytesStill
<1>10. CASE WriterRecv
  <2>1. queue \in Seq(Jobs) /\ queue # << >> /\ queue' = Tail(queue) /\ job' = Head(queue)
        /\ UNCHANGED <<pc, arg, pendingBytes>>
    BY <1>10, Basics DEF WriterRecv
  <2>2. HeldBytes = 0 /\ HeldBytes' = Bytes(job'.raw)
    BY <1>10 DEF WriterRecv, HeldBytes, Bytes
  <2>3. QueueRaws # << >> /\ Head(QueueRaws) = job'.raw /\ QueueRaws' = Tail(QueueRaws)
    BY <2>1 DEF QueueRaws
  <2>4. BytesOf(QueueRaws) = Bytes(job'.raw) + BytesOf(QueueRaws')
    BY <2>3, BytesBasics, BytesOfTail
  <2>5. BytesOf(QueueRaws)' = BytesOf(QueueRaws')
    BY DEF BytesOf, Bytes, FoldLeft, MapThenFoldSet
  <2>6. BytesOf(QueueRaws') \in Nat /\ Bytes(job'.raw) \in Nat
    <3>1. QueueRaws' \in Seq(Raws) /\ job'.raw \in Raws
      BY <2>3, BytesBasics
    <3> QED
      BY <3>1, BytesOfType, BytesType
  <2>7. Settled' = Settled
    BY <2>2, <2>4, <2>5, <2>6 DEF Settled
  <2>8. \A d \in Recorders : Bytes(arg[d].raw)' = Bytes(arg[d].raw)
    BY <2>1 DEF Bytes
  <2>9. Res' = Res
    BY <2>1 DEF Res
  <2>10. QED
    BY <2>1, <2>7, <2>8, <2>9 DEF BytesInv
<1>11. CASE WriterComplete \/ drainFailedQueue
  <2>1. completePending(Bytes(job.raw)) /\ Busy = 1 /\ UNCHANGED <<pc, arg, queue>>
        /\ HeldBytes = Bytes(job.raw) /\ HeldBytes' = 0
    BY <1>11 DEF WriterComplete, drainFailedQueue, Busy, HeldBytes
  <2>2. pending >= 1 /\ Res' = Res /\ pending \in Nat
    BY <1>0, <2>1, Basics DEF PendingInv, Res
  <2>3. Settled' = BytesOf(QueueRaws) /\ Settled = BytesOf(QueueRaws) + Bytes(job.raw)
    <3>1. BytesOf(QueueRaws)' = BytesOf(QueueRaws)
      BY <2>1 DEF QueueRaws
    <3> QED
      BY <2>1, <3>1, BytesBasics DEF Settled
  <2>4. pendingBytes' = IF Bytes(job.raw) <= pendingBytes THEN pendingBytes - Bytes(job.raw) ELSE 0
    BY <2>1, <2>2 DEF completePending
  <2>5. Bytes(job.raw) \in Nat /\ BytesOf(QueueRaws) \in Nat
    BY Basics, BytesBasics
  <2>6. Res = 0 => pendingBytes' = Settled'
    BY <2>3, <2>4, <2>5 DEF BytesInv
  <2>7. ASSUME NEW c \in Recorders, pc[c] = "send"
        PROVE  pendingBytes' = Settled' + Bytes(arg[c].raw)
    <3>1. Bytes(arg[c].raw) \in Nat
      BY Basics DEF Callers
    <3>2. pendingBytes = Settled + Bytes(arg[c].raw)
      BY <2>7 DEF BytesInv
    <3> QED
      BY <2>3, <2>4, <2>5, <3>1, <3>2
  <2>8. \A d \in Recorders : Bytes(arg[d].raw)' = Bytes(arg[d].raw)
    BY <2>1 DEF Bytes
  <2>9. QED
    BY <2>1, <2>2, <2>6, <2>7, <2>8 DEF BytesInv
<1>12. CASE WriterBegin \/ WriterNotify \/ WriterExit
  <2>1. UNCHANGED <<pc, arg, pendingBytes, queue, HeldBytes>>
    BY <1>12 DEF WriterBegin, WriterNotify, WriterExit, HeldBytes, Bytes
  <2>2. QED
    BY <2>1, BytesStill
<1>13. CASE Annotate \/ UNCHANGED vars
  <2>1. UNCHANGED <<pc, arg, pendingBytes, queue, wpc, job>>
    <3>1. CASE Annotate
      <4>1. ASSUME NEW message \in Limitations, AddLimitation(message)
            PROVE  UNCHANGED <<pc, arg, pendingBytes, queue, wpc, job>>
        BY <4>1 DEF AddLimitation
      <4>2. ASSUME NEW dropped \in 0..MaxLoss, NEW truncated \in 0..MaxLoss,
                   AddLoss(dropped, truncated)
            PROVE  UNCHANGED <<pc, arg, pendingBytes, queue, wpc, job>>
        BY <4>2 DEF AddLoss
      <4> QED
        BY <3>1, <4>1, <4>2 DEF Annotate
    <3>2. CASE UNCHANGED vars
      BY <3>2 DEF vars
    <3> QED
      BY <1>13, <3>1, <3>2
  <2>2. HeldBytes' = HeldBytes
    BY <2>1 DEF HeldBytes, Bytes
  <2>3. QED
    BY <2>1, <2>2, BytesStill
<1>14. ASSUME NEW c \in Callers, SendCancelled(c) PROVE c \in Recorders
  BY <1>0, <1>14 DEF LockInv, SendCancelled, Callers
<1>15. QED
  BY <1>1, <1>2, <1>3, <1>4, <1>5, <1>6, <1>7, <1>8, <1>9, <1>10, <1>11, <1>12, <1>13, <1>14
     DEF Next, Cancel, RecordStep, WriterStep, Finished

\* The one place that can be reserved, as the property's sequence.
LEMMA SingletonSeq == \A x : SetToSeq({x}) = <<x>>
<1> TAKE x
<1>1. Cardinality({x}) = 1
  BY FS_Singleton
<1>2. 1..1 = {1}
  OBVIOUS
<1>3. \A f \in [1..1 -> {x}] : f = <<x>>
  BY <1>2
<1>4. <<x>> \in [1..1 -> {x}] /\ IsInjective(<<x>>)
  BY <1>2 DEF IsInjective
<1> QED
  BY <1>1, <1>3, <1>4 DEF SetToSeq

LEMMA EmptySetSeq == SetToSeq({}) = << >>
<1> DEFINE E == {}
<1>1. Cardinality(E) = 0
  <2> HIDE DEF E
  <2>1. E = {}
    BY DEF E
  <2> QED
    BY <2>1, FS_EmptySet
<1>2. 1..0 = {}
  OBVIOUS
<1>3. \A f \in [1..0 -> {}] : f = << >>
  BY <1>2
<1>4. << >> \in [1..0 -> {}] /\ IsInjective(<< >>)
  BY <1>2 DEF IsInjective
<1> QED
  BY <1>1, <1>3, <1>4 DEF SetToSeq

LEMMA BytesMeanPending == ASSUME IndInv, BytesInv PROVE PendingExact
<1> DEFINE S == SetToSeq({arg[c].raw : c \in Reserved})
<1>1. HeldByWriter \in Seq(Raws) /\ Len(HeldByWriter) = Busy /\ BytesOf(HeldByWriter) = HeldBytes
  <2>1. << >> \in Seq(Raws) /\ Len(<< >>) = 0
    OBVIOUS
  <2>2. <<job.raw>> \in Seq(Raws) /\ Len(<<job.raw>>) = 1 /\ BytesOf(<<job.raw>>) = Bytes(job.raw)
    BY Basics, BytesOfOne
  <2> QED
    BY <2>1, <2>2, BytesOfEmpty DEF HeldByWriter, Busy, HeldBytes
<1>2. /\ S \in Seq(Raws) /\ Len(S) = Res
      /\ pendingBytes = Settled + BytesOf(S)
  <2>1. CASE Reserved = {}
    <3>1. Res = 0
      BY <2>1 DEF Res, Reserved
    <3>2. {arg[c].raw : c \in Reserved} = {}
      BY <2>1
    <3>3. S = << >> /\ << >> \in Seq(Raws) /\ Len(<< >>) = 0
      BY <3>2, EmptySetSeq
    <3> QED
      BY <3>1, <3>3, BytesOfEmpty, BytesBasics DEF BytesInv
  <2>2. CASE Reserved # {}
    <3>1. PICK c \in Recorders : pc[c] = "send"
      BY <2>2 DEF Reserved
    <3>2. \A d \in Recorders : pc[d] = "send" => d = c
      BY <3>1 DEF IndInv, LockInv, Callers
    <3>8. Reserved = {c}
      BY <3>1, <3>2 DEF Reserved
    <3>3. {arg[d].raw : d \in Reserved} = {arg[c].raw}
      BY <3>8
    <3>4. S = <<arg[c].raw>>
      BY <3>3, SingletonSeq
    <3>5. arg[c].raw \in Raws
      BY Basics DEF Callers
    <3>6. Res = 1
      BY <3>1 DEF Res
    <3>7. <<arg[c].raw>> \in Seq(Raws) /\ Len(<<arg[c].raw>>) = 1
      BY <3>5
    <3> QED
      BY <3>1, <3>4, <3>5, <3>6, <3>7, BytesOfOne DEF BytesInv
  <2> QED
    BY <2>1, <2>2
<1> HIDE DEF S
<1>3. PendingRaws = QueueRaws \o HeldByWriter \o S
  BY DEF PendingRaws, QueueRaws, S
<1>4. QueueRaws \in Seq(Raws) /\ QueueRaws \o HeldByWriter \in Seq(Raws)
  BY <1>1, BytesBasics
<1>5. Len(PendingRaws) = Len(queue) + Busy + Res
  <2>1. Len(QueueRaws \o HeldByWriter) = Len(queue) + Busy
    BY <1>1, <1>4, BytesBasics
  <2> DEFINE A == QueueRaws \o HeldByWriter
  <2>2. Len(A \o S) = Len(A) + Len(S)
    <3>1. A \in Seq(Raws) /\ S \in Seq(Raws)
      BY <1>2, <1>4
    <3> HIDE DEF A
    <3> QED
      BY <3>1
  <2> QED
    BY <1>2, <1>3, <2>1, <2>2
<1>6. BytesOf(PendingRaws) = Settled + BytesOf(S)
  <2>1. BytesOf(QueueRaws \o HeldByWriter) = Settled
    BY <1>1, <1>4, BytesOfConcat DEF Settled
  <2> QED
    BY <1>2, <1>3, <1>4, <2>1, BytesOfConcat
<1>7. pendingBytes = BytesOf(PendingRaws)
  BY <1>2, <1>6
<1>8. pending = Len(PendingRaws)
  BY <1>5 DEF IndInv, PendingInv
<1>9. pendingBytes = FoldLeft(LAMBDA n, r : n + Bytes(r), 0, PendingRaws)
  BY <1>7 DEF BytesOf, FoldLeft, MapThenFoldSet
<1> QED
  BY <1>8, <1>9 DEF PendingExact, FoldLeft, MapThenFoldSet

LEMMA InitBytes == ASSUME Init PROVE BytesInv
<1>1. QueueRaws = << >>
  BY DEF Init, QueueRaws
<1>2. Settled = 0 /\ pendingBytes = 0
  BY <1>1, BytesOfEmpty DEF Init, Settled, HeldBytes
<1>3. \A c \in Recorders : pc[c] # "send"
  BY DEF Init, Callers
<1> QED
  BY <1>2, <1>3 DEF BytesInv

\* Recorder.pendingEvents and pendingBytes, which enqueue compares with the limits before it
\* accepts an event, are exactly the number and the bytes of the jobs that are reserved, in the
\* channel or in writeLoop's hands: an error path neither leaks a place nor frees one twice.
THEOREM PendingAlwaysExact == Spec => []PendingExact
<1>1. Init => IndInv /\ BytesInv
  BY InitInv, InitBytes
<1>2. BytesInv /\ IndInv /\ [Next]_vars => BytesInv'
  BY BytesStep
<1>3. IndInv /\ BytesInv => PendingExact
  BY BytesMeanPending
<1> QED
  BY <1>1, <1>2, <1>3, Invariance, PTL DEF Spec

-----------------------------------------------------------------------------
(* The verifier.  ScanEvents is a fold over the lines; its stages say what *)
(* one more line adds, so ScanInv, that the verifier finds nothing wrong   *)
(* in the lines written so far and has counted what the recorder has, is   *)
(* kept by every step of the recorder.                                     *)

\* The references and the lines that a recorder can write, and what a scan of them holds.
RefsOf == {RefOf(p) : p \in Payloads}
LineOf(j) == [seq |-> j.seq, schema |-> TRUE, capture |-> TRUE, ref |-> RefOf(j.raw)]
LinesOf == [seq : Nat, schema : {TRUE}, capture : {TRUE}, ref : RefsOf \cup {NoRef}]
IssueNames == {"schema", "captureID", "sequence", "sizeConflict", "overflow", "blob"}
Scans == [previous : Nat, events : Nat, seen : Seq(RefsOf), bytes : Nat, issues : SUBSET IssueNames]

LEMMA RefFields ==
    ASSUME NEW p \in Payloads
    PROVE  /\ RefOf(p) \in RefsOf /\ RefOf(p) # NoRef
           /\ RefOf(p).digest = p /\ RefOf(p).size = PayloadSize[p] /\ RefOf(p).canonical = TRUE
           /\ PayloadSize[p] \in Nat
<1>1. p # NoRef /\ PayloadSize[p] \in Nat
  BY RecorderAssumption
<1>2. RefOf(p) = [digest |-> p, size |-> PayloadSize[p], canonical |-> TRUE]
  BY <1>1 DEF RefOf
<1>3. RefOf(p) \in RefsOf
  BY DEF RefsOf
<1> QED
  BY <1>1, <1>2, <1>3, RefAssumption

LEMMA RefsFields ==
    ASSUME NEW ref \in RefsOf
    PROVE  /\ ref # NoRef /\ ref.size \in Nat /\ ref.canonical = TRUE
           /\ ref.digest \in Payloads /\ ref.size = PayloadSize[ref.digest]
<1>1. PICK p \in Payloads : ref = RefOf(p)
  BY DEF RefsOf
<1> QED
  BY <1>1, RefFields

LEMMA LineFields ==
    ASSUME NEW j \in Jobs
    PROVE  /\ LineOf(j) \in LinesOf
           /\ LineOf(j).seq = j.seq /\ LineOf(j).schema = TRUE /\ LineOf(j).capture = TRUE
           /\ LineOf(j).ref = RefOf(j.raw)
<1>1. j.seq \in Nat /\ j.raw \in Raws
  BY DEF Jobs
<1>2. RefOf(j.raw) \in RefsOf \cup {NoRef}
  BY <1>1 DEF RefOf, RefsOf, Raws
<1> QED
  BY <1>1, <1>2 DEF LineOf, LinesOf

LEMMA BlobVisitType ==
    ASSUME NEW s \in Scans, NEW files, NEW ref \in RefsOf \cup {NoRef}
    PROVE  BlobVisit(s, files, ref) \in Scans
<1>0. s.seen \in Seq(RefsOf) /\ s.bytes \in Nat /\ s.issues \in SUBSET IssueNames
  BY DEF Scans
<1>1. CASE ref = NoRef
  BY <1>1 DEF BlobVisit
<1>2. CASE ref # NoRef
  <2>0. ref.canonical = TRUE /\ ref \in RefsOf /\ ref.size \in Nat
    BY <1>2, RefsFields
  <2>1. ASSUME NEW xs \in SUBSET IssueNames PROVE [s EXCEPT !.issues = xs] \in Scans
    BY <2>1 DEF Scans
  <2>2. CASE SeenBefore(s, ref)
    <3>1. \/ BlobVisit(s, files, ref) = s
          \/ BlobVisit(s, files, ref) = [s EXCEPT !.issues = s.issues \cup {"sizeConflict"}]
      BY <1>2, <2>0, <2>2 DEF BlobVisit, validateBlobRef
    <3>2. s.issues \cup {"sizeConflict"} \in SUBSET IssueNames
      BY <1>0 DEF IssueNames
    <3> QED
      BY <2>1, <3>1, <3>2
  <2>3. CASE ~SeenBefore(s, ref)
    <3> DEFINE bytes == IF Overflows(s.bytes, ref.size) THEN s.bytes ELSE s.bytes + ref.size
    <3> DEFINE issues == s.issues \cup (IF Overflows(s.bytes, ref.size) THEN {"overflow"} ELSE {})
                                 \cup (IF verifyBlob(files, ref) THEN {} ELSE {"blob"})
    <3>1. BlobVisit(s, files, ref) =
            [s EXCEPT !.seen = Append(@, ref), !.bytes = bytes, !.issues = issues]
      BY <1>2, <2>0, <2>3 DEF BlobVisit, validateBlobRef
    <3>2. bytes \in Nat
      BY <1>0, <2>0
    <3>3. issues \in SUBSET IssueNames
      BY <1>0 DEF IssueNames
    <3>4. Append(s.seen, ref) \in Seq(RefsOf)
      BY <1>0, <2>0
    <3> HIDE DEF bytes, issues
    <3> QED
      BY <3>1, <3>2, <3>3, <3>4 DEF Scans
  <2> QED
    BY <2>2, <2>3
<1> QED
  BY <1>1, <1>2

LEMMA VisitType ==
    ASSUME NEW s \in Scans, NEW files, NEW line \in LinesOf
    PROVE  VisitEvent(s, files, line) \in Scans
<1> DEFINE issues == s.issues \cup (IF line.schema THEN {} ELSE {"schema"})
                              \cup (IF line.capture THEN {} ELSE {"captureID"})
                              \cup (IF line.seq = s.previous + 1 THEN {} ELSE {"sequence"})
<1> DEFINE t == [s EXCEPT !.events = @ + 1, !.previous = line.seq, !.issues = issues]
<1>1. s.issues \in SUBSET IssueNames /\ line.seq \in Nat /\ s.events + 1 \in Nat
  BY DEF Scans, LinesOf
<1>2. issues \in SUBSET IssueNames
  BY <1>1 DEF IssueNames
<1>3. VisitEvent(s, files, line) = BlobVisit(t, files, line.ref)
  BY DEF VisitEvent
<1> HIDE DEF issues
<1>4. t \in Scans
  BY <1>1, <1>2 DEF Scans
<1>5. line.ref \in RefsOf \cup {NoRef}
  BY DEF LinesOf
<1> HIDE DEF t
<1> QED
  BY <1>3, <1>4, <1>5, BlobVisitType

LEMMA ScanStages ==
    ASSUME NEW L \in Seq(LinesOf), NEW files
    PROVE  \E p \in [0..Len(L) -> Scans] :
              /\ p[0] = ScanStart /\ p[Len(L)] = ScanEvents(L, files)
              /\ \A i \in 1..Len(L) : p[i] = VisitEvent(p[i - 1], files, L[i])
<1> DEFINE n == Len(L)
<1> DEFINE Acc == Scans
<1> DEFINE base == ScanStart
<1> DEFINE step == [q \in Acc \X (1..n) |-> VisitEvent(q[1], files, L[q[2]])]
<1> DEFINE h == CHOOSE h : h = [s \in SUBSET (DOMAIN L) |->
                  IF s = {} THEN ScanStart ELSE VisitEvent(h[s \ {Max(s)}], files, L[Max(s)])]
<1>1. n \in Nat /\ DOMAIN L = 1..n /\ base \in Acc
  <2>1. ScanStart \in Scans
    <3>1. << >> \in Seq(RefsOf)
      OBVIOUS
    <3> QED
      BY <3>1 DEF ScanStart, Scans
  <2> QED
    BY <2>1
<1>2. \A a \in Acc, i \in 1..n : VisitEvent(a, files, L[i]) \in Acc
  <2> SUFFICES ASSUME NEW a \in Scans, NEW i \in 1..Len(L) PROVE VisitEvent(a, files, L[i]) \in Scans
    OBVIOUS
  <2>1. L[i] \in LinesOf
    OBVIOUS
  <2> QED
    BY <2>1, VisitType
<1> HIDE DEF n, Acc, base
<1>3. step \in [Acc \X (1..n) -> Acc]
  BY <1>1, <1>2
<1>4. \A a \in Acc, i \in 1..n : step[<<a, i>>] = VisitEvent(a, files, L[i])
  BY <1>1
<1>5. ScanEvents(L, files) = h[DOMAIN L]
  BY DEF ScanEvents, FoldLeft, MapThenFoldSet
<1> HIDE DEF step
<1>6. h = [s \in SUBSET (DOMAIN L) |->
             IF s = {} THEN base ELSE VisitEvent(h[s \ {Max(s)}], files, L[Max(s)])]
  <2>1. PICK g \in Iters(n, Acc, base, step) : TRUE
    BY <1>1, <1>3, IterExists
  <2>2. /\ g \in [SUBSET (1..n) -> Acc]
        /\ \A s \in SUBSET (1..n) :
             g[s] = IF s = {} THEN base ELSE step[<<g[s \ {Max(s)}], Max(s)>>]
    BY <2>1 DEF Iters
  <2>3. ASSUME NEW s \in SUBSET (1..n), s # {}
        PROVE  g[s] = VisitEvent(g[s \ {Max(s)}], files, L[Max(s)])
    <3>1. Max(s) \in 1..n
      BY <1>1, <2>3, MaxOfBounded
    <3>2. g[s \ {Max(s)}] \in Acc
      BY <2>2
    <3> QED
      BY <1>4, <2>2, <2>3, <3>1, <3>2
  <2>4. g = [s \in SUBSET (DOMAIN L) |->
               IF s = {} THEN base ELSE VisitEvent(g[s \ {Max(s)}], files, L[Max(s)])]
    BY <1>1, <2>2, <2>3
  <2> QED
    BY <2>4 DEF base
<1> HIDE DEF h
<1>7. h[{}] = base
  <2>1. {} \in SUBSET (DOMAIN L)
    OBVIOUS
  <2> QED
    BY <1>6, <2>1
<1>8. ASSUME NEW s \in SUBSET (1..n), s # {}, h[s \ {Max(s)}] \in Acc
      PROVE  h[s] = step[<<h[s \ {Max(s)}], Max(s)>>]
  <2>1. Max(s) \in 1..n
    BY <1>1, <1>8, MaxOfBounded
  <2>2. h[s] = VisitEvent(h[s \ {Max(s)}], files, L[Max(s)])
    BY <1>1, <1>6, <1>8
  <2> QED
    BY <1>4, <1>8, <2>1, <2>2
<1>9. IsIter(h, n, Acc, base, step)
  BY <1>1, <1>3, <1>7, <1>8 DEF IsIter
<1>10. PICK p \in Stages(n, Acc, base, step) : p[n] = h[1..n]
  BY <1>9, IterPrefixes
<1>11. p \in [0..n -> Acc] /\ p[0] = base
  BY <1>10 DEF Stages
<1>12. ASSUME NEW i \in 1..n PROVE p[i] = VisitEvent(p[i - 1], files, L[i])
  <2>1. i - 1 \in 0..n
    BY <1>1
  <2> QED
    BY <1>4, <1>10, <1>11, <2>1 DEF Stages
<1> QED
  BY <1>1, <1>5, <1>10, <1>11, <1>12 DEF n, Acc, base

\* A scan does not depend on the files that its lines do not refer to.
LEMMA ScanSame ==
    ASSUME NEW L \in Seq(LinesOf), NEW F, NEW G,
           \A i \in 1..Len(L) : L[i].ref # NoRef => (verifyBlob(F, L[i].ref) <=> verifyBlob(G, L[i].ref))
    PROVE  ScanEvents(L, F) = ScanEvents(L, G)
<1>1. PICK p \in [0..Len(L) -> Scans] :
         /\ p[0] = ScanStart /\ p[Len(L)] = ScanEvents(L, F)
         /\ \A i \in 1..Len(L) : p[i] = VisitEvent(p[i - 1], F, L[i])
  BY ScanStages
<1>2. PICK q \in [0..Len(L) -> Scans] :
         /\ q[0] = ScanStart /\ q[Len(L)] = ScanEvents(L, G)
         /\ \A i \in 1..Len(L) : q[i] = VisitEvent(q[i - 1], G, L[i])
  BY ScanStages
<1> DEFINE T == {i \in 0..Len(L) : p[i] = q[i]}
<1>3. 0 \in T
  BY <1>1, <1>2
<1>4. ASSUME NEW i \in 1..Len(L), i - 1 \in T PROVE i \in T
  <2>1. p[i - 1] = q[i - 1] /\ i \in 0..Len(L)
    BY <1>4
  <2>2. ASSUME NEW s PROVE BlobVisit(s, F, L[i].ref) = BlobVisit(s, G, L[i].ref)
    BY DEF BlobVisit
  <2>3. VisitEvent(p[i - 1], F, L[i]) = VisitEvent(p[i - 1], G, L[i])
    BY <2>2 DEF VisitEvent
  <2> QED
    BY <1>1, <1>2, <2>1, <2>3
<1>5. \A i \in 0..Len(L) : i \in T
  <2>1. Len(L) \in Nat
    OBVIOUS
  <2> HIDE DEF T
  <2> QED
    BY <1>3, <1>4, <2>1, BoundedInduction
<1>6. p[Len(L)] = q[Len(L)]
  BY <1>5
<1> QED
  BY <1>1, <1>2, <1>6

LEMMA ScanAppend ==
    ASSUME NEW L \in Seq(LinesOf), NEW x \in LinesOf, NEW F
    PROVE  ScanEvents(Append(L, x), F) = VisitEvent(ScanEvents(L, F), F, x)
<1> DEFINE n == Len(L)
<1> DEFINE M == Append(L, x)
<1>0. /\ M \in Seq(LinesOf) /\ Len(M) = n + 1 /\ n \in Nat /\ M[n + 1] = x
      /\ \A i \in 1..n : M[i] = L[i]
  OBVIOUS
<1> HIDE DEF M
<1>1. PICK p \in [0..n -> Scans] :
         /\ p[0] = ScanStart /\ p[n] = ScanEvents(L, F)
         /\ \A i \in 1..n : p[i] = VisitEvent(p[i - 1], F, L[i])
  BY ScanStages
<1>2. PICK q \in [0..(n + 1) -> Scans] :
         /\ q[0] = ScanStart /\ q[n + 1] = ScanEvents(M, F)
         /\ \A i \in 1..(n + 1) : q[i] = VisitEvent(q[i - 1], F, M[i])
  <2>1. \E q \in [0..Len(M) -> Scans] :
         /\ q[0] = ScanStart /\ q[Len(M)] = ScanEvents(M, F)
         /\ \A i \in 1..Len(M) : q[i] = VisitEvent(q[i - 1], F, M[i])
    BY <1>0, ScanStages
  <2> QED
    BY <1>0, <2>1
<1> HIDE DEF n
<1> DEFINE T == {i \in 0..n : p[i] = q[i]}
<1>3. 0 \in T
  BY <1>0, <1>1, <1>2
<1>4. ASSUME NEW i \in 1..n, i - 1 \in T PROVE i \in T
  <2>1. p[i - 1] = q[i - 1] /\ i \in 0..n /\ i \in 1..(n + 1) /\ M[i] = L[i]
    BY <1>0, <1>4
  <2> QED
    BY <1>1, <1>2, <2>1
<1>5. \A i \in 0..n : i \in T
  <2> HIDE DEF T
  <2> QED
    BY <1>0, <1>3, <1>4, BoundedInduction
<1>6. p[n] = q[n]
  BY <1>0, <1>5
<1>7. n + 1 \in 1..(n + 1) /\ (n + 1) - 1 = n
  BY <1>0
<1>8. q[n + 1] = VisitEvent(q[n], F, x)
  BY <1>0, <1>2, <1>7
<1> QED
  BY <1>1, <1>2, <1>6, <1>8 DEF M

LEMMA ScanType ==
    ASSUME NEW L \in Seq(LinesOf), NEW F
    PROVE  ScanEvents(L, F) \in Scans /\ ScanEvents(<< >>, F) = ScanStart
<1>1. ScanEvents(L, F) \in Scans
  BY ScanStages
<1>2. << >> \in Seq(LinesOf) /\ Len(<< >>) = 0
  OBVIOUS
<1>3. ScanEvents(<< >>, F) = ScanStart
  BY <1>2, ScanStages
<1> QED
  BY <1>1, <1>3

\* The recorder's lines and blobs, as the verifier reads them.
LinesFor(str) == [i \in DOMAIN str |-> LineOf(str[i])]
FilesFor(B) == [b \in B |-> [size |-> PayloadSize[b], digest |-> b]]
ScanOf(str, B) == ScanEvents(LinesFor(str), FilesFor(B))

LEMMA LinesType ==
    ASSUME NEW str \in Seq(Jobs)
    PROVE  /\ LinesFor(str) \in Seq(LinesOf) /\ Len(LinesFor(str)) = Len(str)
           /\ \A i \in 1..Len(str) : LinesFor(str)[i] = LineOf(str[i])
<1>1. ASSUME NEW i \in 1..Len(str) PROVE LineOf(str[i]) \in LinesOf
  <2>1. str[i] \in Jobs
    OBVIOUS
  <2> QED
    BY <2>1, LineFields
<1> QED
  BY <1>1 DEF LinesFor

LEMMA ScanOfAppend ==
    ASSUME NEW str \in Seq(Jobs), NEW j \in Jobs, NEW B
    PROVE  ScanOf(Append(str, j), B) = VisitEvent(ScanOf(str, B), FilesFor(B), LineOf(j))
<1> DEFINE L == LinesFor(str)
<1>1. L \in Seq(LinesOf) /\ Len(L) = Len(str) /\ \A i \in 1..Len(str) : L[i] = LineOf(str[i])
  BY LinesType
<1>2. LineOf(j) \in LinesOf
  BY LineFields
<1>3. LinesFor(Append(str, j)) = Append(L, LineOf(j))
  <2> DEFINE M == LinesFor(Append(str, j))
  <2>1. /\ Append(str, j) \in Seq(Jobs) /\ Len(Append(str, j)) = Len(str) + 1
        /\ Append(str, j)[Len(str) + 1] = j /\ \A i \in 1..Len(str) : Append(str, j)[i] = str[i]
    OBVIOUS
  <2>2. /\ M \in Seq(LinesOf) /\ Len(M) = Len(str) + 1
        /\ \A i \in 1..(Len(str) + 1) : M[i] = LineOf(Append(str, j)[i])
    BY <2>1, LinesType
  <2> HIDE DEF L, M
  <2>3. Append(L, LineOf(j)) \in Seq(LinesOf) /\ Len(Append(L, LineOf(j))) = Len(str) + 1
    BY <1>1, <1>2
  <2>4. \A i \in 1..(Len(str) + 1) : M[i] = Append(L, LineOf(j))[i]
    BY <1>1, <1>2, <2>1, <2>2
  <2>5. M = Append(L, LineOf(j))
    BY <2>2, <2>3, <2>4, SameSeq
  <2> QED
    BY <2>5 DEF M
<1> HIDE DEF L
<1>4. ScanOf(str, B) = ScanEvents(L, FilesFor(B))
  BY DEF ScanOf, L
<1> QED
  BY <1>1, <1>2, <1>3, <1>4, ScanAppend DEF ScanOf

LEMMA ScanOfMore ==
    ASSUME NEW str \in Seq(Jobs), NEW B, NEW C, B \subseteq C,
           \A i \in DOMAIN str : str[i].raw # NoRef => str[i].raw \in B
    PROVE  ScanOf(str, C) = ScanOf(str, B)
<1> DEFINE L == LinesFor(str)
<1>1. L \in Seq(LinesOf) /\ Len(L) = Len(str) /\ \A i \in 1..Len(str) : L[i] = LineOf(str[i])
  BY LinesType
<1>2. ASSUME NEW i \in 1..Len(L), L[i].ref # NoRef
      PROVE  verifyBlob(FilesFor(B), L[i].ref) <=> verifyBlob(FilesFor(C), L[i].ref)
  <2>1. i \in 1..Len(str) /\ L[i] = LineOf(str[i]) /\ str[i] \in Jobs
    BY <1>1
  <2>2. L[i].ref = RefOf(str[i].raw)
    BY <2>1, LineFields
  <2>3. str[i].raw # NoRef
    BY <1>2, <2>2 DEF RefOf
  <2>4. str[i].raw \in Payloads /\ str[i].raw \in B
    BY <2>1, <2>3 DEF Jobs, Raws
  <2>5. L[i].ref.digest = str[i].raw
    BY <2>2, <2>4, RefFields
  <2> QED
    BY <2>4, <2>5 DEF verifyBlob, FilesFor
<1> HIDE DEF L
<1>3. ScanEvents(L, FilesFor(C)) = ScanEvents(L, FilesFor(B))
  BY <1>1, <1>2, ScanSame
<1> QED
  BY <1>3 DEF ScanOf, L

\* What a scan that finds nothing wrong has counted after n lines.
ScanFits(S, n) == S \in Scans /\ S.issues = {} /\ S.events = n /\ S.previous = n

\* The references it has seen are the ones that the recorder has counted.
ScanCounts(S, m, known) ==
    /\ Len(S.seen) = m.blobs /\ S.bytes = m.blobBytes
    /\ \A p \in Payloads : p \in known <=> SeenBefore(S, RefOf(p))

\* The references of an appended line.
LEMMA SeenAppend ==
    ASSUME NEW S, NEW V, NEW p \in Payloads, NEW seen \in Seq(RefsOf),
           S.seen = seen, V.seen = Append(seen, RefOf(p))
    PROVE  \A r \in Payloads : SeenBefore(V, RefOf(r)) <=> r = p \/ SeenBefore(S, RefOf(r))
<1> SUFFICES ASSUME NEW r \in Payloads
             PROVE  SeenBefore(V, RefOf(r)) <=> r = p \/ SeenBefore(S, RefOf(r))
  OBVIOUS
<1> DEFINE more == Append(seen, RefOf(p))
<1>1. RefOf(p) \in RefsOf /\ RefOf(p).digest = p /\ RefOf(r).digest = r
  BY RefFields
<1>2. /\ DOMAIN more = 1..(Len(seen) + 1) /\ DOMAIN seen = 1..Len(seen) /\ Len(seen) \in Nat
      /\ more[Len(seen) + 1] = RefOf(p) /\ \A i \in 1..Len(seen) : more[i] = seen[i]
  BY <1>1
<1> HIDE DEF more
<1>3. V.seen = more
  BY DEF more
<1>4. SeenBefore(V, RefOf(r)) <=> \E i \in 1..(Len(seen) + 1) : more[i].digest = r
  BY <1>1, <1>2, <1>3 DEF SeenBefore
<1>5. SeenBefore(S, RefOf(r)) <=> \E i \in 1..Len(seen) : seen[i].digest = r
  BY <1>1, <1>2 DEF SeenBefore
<1>6. ASSUME NEW i \in 1..(Len(seen) + 1), more[i].digest = r
      PROVE  r = p \/ \E k \in 1..Len(seen) : seen[k].digest = r
  <2>1. CASE i = Len(seen) + 1
    BY <1>1, <1>2, <1>6, <2>1
  <2>2. CASE i # Len(seen) + 1
    <3>1. i \in 1..Len(seen)
      BY <1>2, <2>2
    <3> QED
      BY <1>2, <1>6, <3>1
  <2> QED
    BY <2>1, <2>2
<1>7. ASSUME r = p \/ \E k \in 1..Len(seen) : seen[k].digest = r
      PROVE  \E i \in 1..(Len(seen) + 1) : more[i].digest = r
  <2>1. CASE r = p
    <3>1. Len(seen) + 1 \in 1..(Len(seen) + 1)
      BY <1>2
    <3> QED
      BY <1>1, <1>2, <2>1, <3>1
  <2>2. CASE \E k \in 1..Len(seen) : seen[k].digest = r
    <3>1. PICK k \in 1..Len(seen) : seen[k].digest = r
      BY <2>2
    <3>2. k \in 1..(Len(seen) + 1)
      BY <1>2
    <3> QED
      BY <1>2, <3>1, <3>2
  <2> QED
    BY <1>7, <2>1, <2>2
<1> QED
  BY <1>4, <1>5, <1>6, <1>7

\* The visit of the next line of the recorder finds nothing wrong with it.
LEMMA VisitGood ==
    ASSUME NEW S, NEW n \in Nat, NEW j \in Jobs, NEW B, NEW m \in Manifests, NEW known,
           ScanFits(S, n), ScanCounts(S, m, known), j.seq = n + 1, j.raw \in B \cup {NoRef},
           j.raw # NoRef => m.blobBytes + PayloadSize[j.raw] < WordValues
    PROVE  LET V == VisitEvent(S, FilesFor(B), LineOf(j))
               old == j.raw = NoRef \/ j.raw \in known
           IN  /\ ScanFits(V, n + 1)
               /\ Len(V.seen) = IF old THEN m.blobs ELSE m.blobs + 1
               /\ V.bytes = IF old THEN m.blobBytes ELSE m.blobBytes + PayloadSize[j.raw]
               /\ \A p \in Payloads :
                    p \in known \cup ({j.raw} \ {NoRef}) <=> SeenBefore(V, RefOf(p))
<1> DEFINE V == VisitEvent(S, FilesFor(B), LineOf(j))
<1> DEFINE t == [S EXCEPT !.events = @ + 1, !.previous = n + 1, !.issues = {}]
<1>0. /\ S \in Scans /\ S.issues = {} /\ S.events = n /\ S.previous = n
      /\ Len(S.seen) = m.blobs /\ S.bytes = m.blobBytes /\ S.seen \in Seq(RefsOf)
      /\ m.blobs \in Nat /\ m.blobBytes \in Nat
      /\ \A p \in Payloads : p \in known <=> SeenBefore(S, RefOf(p))
  BY DEF ScanFits, ScanCounts, Scans, Manifests
<1>1. V = BlobVisit(t, FilesFor(B), RefOf(j.raw))
  <2>1. /\ LineOf(j).seq = S.previous + 1 /\ LineOf(j).schema = TRUE /\ LineOf(j).capture = TRUE
        /\ LineOf(j).ref = RefOf(j.raw) /\ LineOf(j).seq = n + 1
    BY <1>0, LineFields
  <2>2. (S.issues \cup (IF LineOf(j).schema THEN {} ELSE {"schema"}))
          \cup (IF LineOf(j).capture THEN {} ELSE {"captureID"})
          \cup (IF LineOf(j).seq = S.previous + 1 THEN {} ELSE {"sequence"}) = {}
    BY <1>0, <2>1
  <2> QED
    BY <2>1, <2>2 DEF VisitEvent
<1>2. /\ t.seen = S.seen /\ t.bytes = S.bytes /\ t.issues = {} /\ t.events = n + 1
      /\ t.previous = n + 1 /\ t \in Scans
  <2>1. {} \in SUBSET IssueNames /\ n + 1 \in Nat
    OBVIOUS
  <2> QED
    BY <1>0, <2>1 DEF Scans
<1>3. ASSUME NEW r PROVE SeenBefore(t, r) <=> SeenBefore(S, r)
  BY <1>2 DEF SeenBefore
<1> HIDE DEF t, V
<1>4. CASE j.raw = NoRef
  <2>1. V = t
    BY <1>1, <1>4 DEF BlobVisit, RefOf
  <2>2. ScanFits(V, n + 1) /\ Len(V.seen) = m.blobs /\ V.bytes = m.blobBytes
    BY <1>0, <1>2, <2>1 DEF ScanFits
  <2>3. \A p \in Payloads : p \in known \cup ({j.raw} \ {NoRef}) <=> SeenBefore(V, RefOf(p))
    BY <1>0, <1>3, <1>4, <2>1
  <2> QED
    BY <1>4, <2>2, <2>3 DEF V
<1>5. CASE j.raw # NoRef
  <2> DEFINE ref == RefOf(j.raw)
  <2>0. j.raw \in Payloads /\ j.raw \in B
    BY <1>5 DEF Jobs, Raws
  <2>1. ref \in RefsOf /\ ref # NoRef /\ ref.digest = j.raw /\ ref.size = PayloadSize[j.raw]
        /\ ref.canonical = TRUE /\ ref.size \in Nat
    BY <2>0, RefFields
  <2>2. SeenBefore(t, ref) <=> j.raw \in known
    BY <1>0, <1>3, <2>0
  <2> HIDE DEF ref
  <2>3. CASE j.raw \in known
    <3>1. ~\E i \in DOMAIN t.seen : t.seen[i].digest = ref.digest /\ t.seen[i].size # ref.size
      <4>1. ASSUME NEW i \in DOMAIN t.seen PROVE t.seen[i].size = PayloadSize[t.seen[i].digest]
        <5>1. t.seen[i] \in RefsOf
          BY <1>0, <1>2
        <5> QED
          BY <5>1, RefsFields
      <4> QED
        BY <2>1, <4>1
    <3>2. V = t
      BY <1>1, <2>1, <2>2, <2>3, <3>1 DEF BlobVisit, validateBlobRef, ref
    <3>3. ScanFits(V, n + 1) /\ Len(V.seen) = m.blobs /\ V.bytes = m.blobBytes
      BY <1>0, <1>2, <3>2 DEF ScanFits
    <3>4. \A p \in Payloads : p \in known \cup ({j.raw} \ {NoRef}) <=> SeenBefore(V, RefOf(p))
      BY <1>0, <1>3, <2>3, <3>2
    <3> QED
      BY <2>3, <3>3, <3>4 DEF V
  <2>4. CASE j.raw \notin known
    <3>1. ~Overflows(t.bytes, ref.size) /\ t.bytes + ref.size = m.blobBytes + PayloadSize[j.raw]
      <4>1. WordValues \in Nat \ {0} /\ t.bytes + ref.size \in Nat /\ t.bytes + ref.size < WordValues
        BY <1>0, <1>2, <1>5, <2>1, WordAssumption
      <4>2. (t.bytes + ref.size) % WordValues = t.bytes + ref.size
        BY <4>1
      <4> QED
        BY <1>0, <1>2, <2>1, <4>2 DEF Overflows
    <3>2. verifyBlob(FilesFor(B), ref)
      BY <2>0, <2>1 DEF verifyBlob, FilesFor
    <3>3. V = [t EXCEPT !.seen = Append(t.seen, ref), !.bytes = t.bytes + ref.size,
                        !.issues = (t.issues \cup {}) \cup {}]
      <4>1. V = [t EXCEPT !.seen = Append(@, ref),
                     !.bytes = IF Overflows(@, ref.size) THEN @ ELSE @ + ref.size,
                     !.issues = @ \cup (IF Overflows(t.bytes, ref.size) THEN {"overflow"} ELSE {})
                                  \cup (IF verifyBlob(FilesFor(B), ref) THEN {} ELSE {"blob"})]
        BY <1>1, <2>1, <2>2, <2>4 DEF BlobVisit, validateBlobRef, ref
      <4> QED
        BY <3>1, <3>2, <4>1
    <3>4. V.seen = Append(S.seen, ref) /\ V.bytes = m.blobBytes + PayloadSize[j.raw]
          /\ V.issues = {} /\ V.events = n + 1 /\ V.previous = n + 1
      BY <1>2, <3>1, <3>3 DEF Scans
    <3>5. V \in Scans
      BY <1>1, <1>2, <2>1, BlobVisitType DEF ref
    <3>6. Len(V.seen) = m.blobs + 1
      BY <1>0, <2>1, <3>4
    <3>7. \A p \in Payloads : SeenBefore(V, RefOf(p)) <=> p = j.raw \/ SeenBefore(S, RefOf(p))
      BY <1>0, <2>0, <3>4, SeenAppend DEF ref
    <3>8. \A p \in Payloads : p \in known \cup ({j.raw} \ {NoRef}) <=> SeenBefore(V, RefOf(p))
      BY <1>0, <1>5, <3>7
    <3>9. ScanFits(V, n + 1)
      BY <3>4, <3>5 DEF ScanFits
    <3> QED
      BY <1>5, <2>4, <3>4, <3>6, <3>8, <3>9 DEF V
  <2> QED
    BY <2>3, <2>4
<1> QED
  BY <1>4, <1>5

\* What holds of the scan in every state: it finds nothing wrong in the lines, and it has
\* counted what the recorder has, unless the last line is one whose sync failed.
ScanInv ==
    /\ failed => manifest.writeErrors > 0
    /\ ScanFits(ScanOf(stream, blobs), Len(stream))
    /\ sequence = Len(stream) => ScanCounts(ScanOf(stream, blobs), manifest, seenBlob)

LEMMA ScanPrime ==
    /\ ScanOf(stream, blobs)' = ScanOf(stream', blobs')
    /\ ScanInv' <=> /\ failed' => manifest'.writeErrors > 0
                    /\ ScanFits(ScanOf(stream', blobs'), Len(stream'))
                    /\ sequence' = Len(stream') =>
                         ScanCounts(ScanOf(stream', blobs'), manifest', seenBlob')
  BY DEF ScanInv

\* A step that neither writes a line nor counts one.
scanSeen == <<stream, sequence, seenBlob, manifest.blobs, manifest.blobBytes>>

LEMMA ScanStill ==
    ASSUME IndInv, ScanInv, UNCHANGED scanSeen,
           blobs' = blobs \/ (blobs \subseteq blobs'),
           failed' => manifest'.writeErrors > 0
    PROVE  ScanInv'
<1>1. stream \in Seq(Jobs) /\ \A i \in DOMAIN stream : stream[i].raw # NoRef => stream[i].raw \in blobs
  BY Basics DEF IndInv, SequenceInv, EvidenceOnDisk
<1>2. ScanOf(stream, blobs') = ScanOf(stream, blobs)
  BY <1>1, ScanOfMore
<1>3. UNCHANGED <<stream, sequence, seenBlob>> /\ manifest'.blobs = manifest.blobs
      /\ manifest'.blobBytes = manifest.blobBytes
  BY DEF scanSeen
<1> QED
  BY <1>2, <1>3, ScanPrime DEF ScanInv, ScanCounts

LEMMA FailedErrors ==
    ASSUME NEW m \in Manifests, failed \in BOOLEAN, failed => m.writeErrors > 0
    PROVE  /\ markFailed(m).writeErrors > 0 /\ markFailed(m).blobs = m.blobs
           /\ markFailed(m).blobBytes = m.blobBytes
  BY DEF markFailed, Manifests

LEMMA DroppedErrors ==
    ASSUME NEW m \in Manifests
    PROVE  /\ markDropped(m).writeErrors = m.writeErrors /\ markDropped(m).blobs = m.blobs
           /\ markDropped(m).blobBytes = m.blobBytes
  BY DEF markDropped, Manifests

\* The line that is written in full.
LEMMA ScanLine ==
    ASSUME IndInv, ScanInv, BytesFit, io = "line", stream' = Append(stream, job), UNCHANGED blobs
    PROVE  LET V == ScanOf(stream', blobs')
               old == job.raw = NoRef \/ job.raw \in seenBlob
           IN  /\ Len(stream') = Len(stream) + 1 /\ job.seq = sequence + 1
               /\ sequence = Len(stream) /\ ~failed
               /\ ScanFits(V, Len(stream'))
               /\ Len(V.seen) = IF old THEN manifest.blobs ELSE manifest.blobs + 1
               /\ V.bytes = IF old THEN manifest.blobBytes ELSE manifest.blobBytes + PayloadSize[job.raw]
               /\ \A p \in Payloads :
                    p \in seenBlob \cup ({job.raw} \ {NoRef}) <=> SeenBefore(V, RefOf(p))
<1> DEFINE V == ScanOf(stream', blobs')
<1>1. /\ stream \in Seq(Jobs) /\ job \in Jobs /\ manifest \in Manifests /\ Len(stream) \in Nat
      /\ sequence \in Nat /\ failed \in BOOLEAN
  BY Basics DEF IndInv, TypeOK
<1>2. ~failed /\ sequence = Len(stream) /\ job.seq = sequence + 1 /\ job.raw \in blobs \cup {NoRef}
  <2>1. ~failed
    BY DEF IndInv, FailInv
  <2> QED
    BY <2>1 DEF IndInv, SequenceInv, Numbered
<1>3. V = VisitEvent(ScanOf(stream, blobs), FilesFor(blobs), LineOf(job))
  BY <1>1, ScanOfAppend
<1>4. job.raw # NoRef => manifest.blobBytes + PayloadSize[job.raw] < WordValues
  BY <1>1 DEF BytesFit, Jobs, Raws
<1>5. Len(stream') = Len(stream) + 1
  BY <1>1
<1>6. ScanFits(ScanOf(stream, blobs), Len(stream)) /\ ScanCounts(ScanOf(stream, blobs), manifest, seenBlob)
  BY <1>2 DEF ScanInv
<1> HIDE DEF V
<1> QED
  BY <1>1, <1>2, <1>3, <1>4, <1>5, <1>6, VisitGood DEF V

LEMMA ScanStep == ASSUME IndInv, ScanInv, BytesFit, [Next]_vars PROVE ScanInv'
<1>0. manifest \in Manifests /\ failed \in BOOLEAN /\ (failed => manifest.writeErrors > 0)
  BY Basics DEF ScanInv
<1>1. ASSUME UNCHANGED <<stream, blobs, sequence, seenBlob, manifest, failed>> PROVE ScanInv'
  BY <1>0, <1>1, ScanStill DEF scanSeen
<1>2. ASSUME NEW c \in Callers,
             \/ Call(c) \/ Lock(c) \/ Cancel(c)
             \/ c \in Recorders /\ RecordStep(c)
             \/ c \in Streamers /\ StreamStep(c)
      PROVE  ScanInv'
  <2>1. CASE Call(c) \/ Lock(c) \/ Cancel(c)
    BY <1>1, <2>1 DEF Call, Lock, Cancel, SpaceCancelled, SendCancelled, StreamCancelled,
       rollbackEnqueue
  <2>2. CASE c \in Recorders /\ RecordStep(c)
    BY <1>1, <2>2 DEF RecordStep, CheckSpace, SpaceWoken, Reserve, ReserveRefused, Send,
       SendStopped, rollbackEnqueue
  <2>3. CASE c \in Streamers /\ StreamStep(c)
    BY <1>1, <2>3 DEF StreamStep, CheckIdle, IdleWoken, StreamBegin, StreamEnd
  <2>4. QED
    BY <1>2, <2>1, <2>2, <2>3
<1>3. ASSUME NEW c \in Closers, CloseStep(c) \/ CloseFault(c) PROVE ScanInv'
  <2>1. CASE CloseSeal(c)
    <3>1. PICK status \in {"closed", "failed"} : manifest' = sealManifest(manifest, status, status = "failed")
      BY <2>1 DEF CloseSeal
    <3>2. manifest'.blobs = manifest.blobs /\ manifest'.blobBytes = manifest.blobBytes
          /\ manifest'.writeErrors = manifest.writeErrors
      BY <1>0, <3>1 DEF sealManifest, Manifests
    <3>3. UNCHANGED <<stream, blobs, sequence, seenBlob, failed>>
      BY <2>1 DEF CloseSeal
    <3> QED
      BY <1>0, <3>2, <3>3, ScanStill DEF scanSeen
  <2>2. CASE ~CloseSeal(c)
    BY <1>1, <1>3, <2>2
       DEF CloseStep, CloseQueue, CloseSync, ManifestTemp, ManifestRename, CloseFault,
           ManifestTempFail, ManifestRemove, ManifestRetryFail
  <2>3. QED
    BY <2>1, <2>2
<1>4. CASE StoreOpen \/ AppendBegin \/ WriterRecv \/ WriterBegin \/ WriterNotify \/ WriterExit
  BY <1>1, <1>4 DEF StoreOpen, AppendBegin, WriterRecv, WriterBegin, WriterNotify,
     WriterExit
<1>5. CASE StorePublish
  <2>1. UNCHANGED <<stream, sequence, seenBlob, manifest, failed>> /\ blobs \subseteq blobs'
    BY <1>5 DEF StorePublish
  <2> QED
    BY <1>0, <2>1, ScanStill DEF scanSeen
<1>6. CASE StoreFail \/ AppendTorn
  <2>1. UNCHANGED <<stream, sequence, seenBlob, blobs>> /\ manifest' = markFailed(manifest)
    BY <1>6 DEF StoreFail, AppendTorn
  <2> QED
    BY <1>0, <2>1, FailedErrors, ScanStill DEF scanSeen
<1>7. CASE AppendCommit
  <2>1. /\ io = "line" /\ stream' = Append(stream, job) /\ UNCHANGED <<blobs, failed>>
        /\ sequence' = job.seq /\ manifest' = countEvent(manifest, job)
        /\ seenBlob' = seenBlob \cup ({job.raw} \ {NoRef})
    BY <1>7 DEF AppendCommit
  <2> DEFINE V == ScanOf(stream', blobs')
  <2> DEFINE old == job.raw = NoRef \/ job.raw \in seenBlob
  <2>2. /\ ~failed /\ ScanFits(V, Len(stream'))
        /\ Len(V.seen) = IF old THEN manifest.blobs ELSE manifest.blobs + 1
        /\ V.bytes = IF old THEN manifest.blobBytes ELSE manifest.blobBytes + PayloadSize[job.raw]
        /\ \A p \in Payloads :
             p \in seenBlob \cup ({job.raw} \ {NoRef}) <=> SeenBefore(V, RefOf(p))
    BY <2>1, ScanLine
  <2>3. /\ manifest'.blobs = IF old THEN manifest.blobs ELSE manifest.blobs + 1
        /\ manifest'.blobBytes = IF old THEN manifest.blobBytes
                                 ELSE manifest.blobBytes + PayloadSize[job.raw]
    BY <1>0, <2>1 DEF countEvent, Manifests
  <2> HIDE DEF V, old
  <2>4. ScanCounts(V, manifest', seenBlob')
    BY <2>1, <2>2, <2>3 DEF ScanCounts
  <2> QED
    BY <2>1, <2>2, <2>4, ScanPrime DEF V
<1>8. CASE SyncFail
  <2>1. /\ io = "line" /\ stream' = Append(stream, job) /\ UNCHANGED <<blobs, sequence>>
        /\ failed' /\ manifest' = markFailed(manifest)
    BY <1>8 DEF SyncFail
  <2>2. /\ ScanFits(ScanOf(stream', blobs'), Len(stream'))
        /\ Len(stream') = Len(stream) + 1 /\ sequence = Len(stream)
    BY <2>1, ScanLine
  <2>3. manifest'.writeErrors > 0
    BY <1>0, <2>1, FailedErrors
  <2>4. sequence' # Len(stream')
    <3>1. sequence \in Nat
      BY Basics
    <3> QED
      BY <2>1, <2>2, <3>1
  <2> QED
    BY <2>2, <2>3, <2>4, ScanPrime
<1>9. CASE WriterComplete
  <2>1. UNCHANGED <<stream, sequence, seenBlob, blobs>> /\ failed' = (failed \/ io = "bad")
    BY <1>9 DEF WriterComplete
  <2>2. CASE io = "bad"
    <3>1. manifest' = markDropped(markFailed(manifest))
      BY <1>9, <2>2 DEF WriterComplete
    <3>2. markFailed(manifest) \in Manifests
      BY <1>0, MarkFailedType
    <3> QED
      BY <1>0, <2>1, <3>1, <3>2, FailedErrors, DroppedErrors, ScanStill DEF scanSeen
  <2>3. CASE io # "bad"
    <3>1. manifest' = manifest /\ failed' = failed
      BY <1>0, <1>9, <2>1, <2>3 DEF WriterComplete
    <3> QED
      BY <1>1, <2>1, <3>1
  <2>4. QED
    BY <2>2, <2>3
<1>10. CASE drainFailedQueue
  <2>1. UNCHANGED <<stream, sequence, seenBlob, blobs, failed>> /\ manifest' = markDropped(manifest)
    BY <1>10 DEF drainFailedQueue
  <2> QED
    BY <1>0, <2>1, DroppedErrors, ScanStill DEF scanSeen
<1>11. CASE Annotate
  <2>1. ASSUME NEW message \in Limitations, AddLimitation(message) PROVE ScanInv'
    <3>1. UNCHANGED <<stream, sequence, seenBlob, blobs, failed>>
      BY <2>1 DEF AddLimitation
    <3>2. manifest'.blobs = manifest.blobs /\ manifest'.blobBytes = manifest.blobBytes
          /\ manifest'.writeErrors = manifest.writeErrors
      BY <1>0, <2>1 DEF AddLimitation, Manifests
    <3> QED
      BY <1>0, <3>1, <3>2, ScanStill DEF scanSeen
  <2>2. ASSUME NEW dropped \in 0..MaxLoss, NEW truncated \in 0..MaxLoss, AddLoss(dropped, truncated)
        PROVE  ScanInv'
    <3>1. UNCHANGED <<stream, sequence, seenBlob, blobs, failed>>
      BY <2>2 DEF AddLoss
    <3>2. manifest'.blobs = manifest.blobs /\ manifest'.blobBytes = manifest.blobBytes
          /\ manifest'.writeErrors = manifest.writeErrors
      BY <1>0, <2>2 DEF AddLoss, Manifests
    <3> QED
      BY <1>0, <3>1, <3>2, ScanStill DEF scanSeen
  <2> QED
    BY <1>11, <2>1, <2>2 DEF Annotate
<1>12. CASE UNCHANGED vars
  BY <1>1, <1>12 DEF vars
<1>13. ASSUME NEW c \in Recorders PROVE c \in Callers
  BY DEF Callers
<1>14. ASSUME NEW c \in Streamers PROVE c \in Callers
  BY DEF Callers
<1>15. QED
  BY <1>2, <1>3, <1>4, <1>5, <1>6, <1>7, <1>8, <1>9, <1>10, <1>11, <1>12, <1>13, <1>14
     DEF Next, IOStep, IOFault, WriterStep, Finished

LEMMA InitScan == ASSUME Init PROVE ScanInv
<1>1. PICK initial \in SUBSET Limitations :
        manifest = [status |-> "open", complete |-> initial = {}, limits |-> initial,
                    failure |-> FALSE, events |-> 0, blobs |-> 0, blobBytes |-> 0,
                    writeErrors |-> 0, dropped |-> 0, truncated |-> 0]
  BY DEF Init
<1>2. manifest.blobs = 0 /\ manifest.blobBytes = 0
  BY <1>1
<1>3. stream = << >> /\ seenBlob = {} /\ ~failed /\ Len(stream) = 0
  BY DEF Init
<1>4. LinesFor(stream) = << >>
  BY <1>3 DEF LinesFor
<1>5. << >> \in Seq(LinesOf)
  OBVIOUS
<1>6. ScanOf(stream, blobs) = ScanStart /\ ScanStart \in Scans
  BY <1>4, <1>5, ScanType DEF ScanOf
<1>7. /\ ScanStart.issues = {} /\ ScanStart.events = 0 /\ ScanStart.previous = 0
      /\ ScanStart.bytes = 0 /\ ScanStart.seen = << >>
  BY DEF ScanStart
<1>8. Len(ScanStart.seen) = 0 /\ \A r : ~SeenBefore(ScanStart, r)
  BY <1>7 DEF SeenBefore
<1>9. ScanFits(ScanStart, 0) /\ ScanCounts(ScanStart, manifest, seenBlob)
  BY <1>2, <1>3, <1>6, <1>7, <1>8 DEF ScanFits, ScanCounts
<1> QED
  BY <1>3, <1>6, <1>9 DEF ScanInv

LEMMA ScanMeansAgrees == ASSUME IndInv, FinalInv, ScanInv PROVE VerifierAgrees
<1> SUFFICES ASSUME disk # NoRef PROVE VerifierAgrees
  BY DEF VerifierAgrees
<1> DEFINE S == ScanOf(stream, blobs)
<1>1. S = ScanEvents([i \in DOMAIN stream |->
              [seq |-> stream[i].seq, schema |-> TRUE, capture |-> TRUE, ref |-> RefOf(stream[i].raw)]],
              [b \in blobs |-> [size |-> PayloadSize[b], digest |-> b]])
  BY DEF ScanOf, LinesFor, FilesFor, LineOf
<1>0. /\ DiskManifest.header = {} /\ DiskManifest.events = disk.events
      /\ DiskManifest.blobs = disk.blobs /\ DiskManifest.blobBytes = disk.blobBytes
  BY DEF DiskManifest
<1>r. DiskManifest.readable
  <2>1. DiskManifest.readable = (disk # NoRef)
    BY Zenon DEF DiskManifest
  <2> QED
    BY <2>1
<1>2. Verification = IF torn THEN [error |-> TRUE, issues |-> {}]
                     ELSE [error |-> FALSE, issues |-> S.issues \cup ManifestIssues(DiskManifest, S)]
  <2> DEFINE L == [i \in DOMAIN stream |->
              [seq |-> stream[i].seq, schema |-> TRUE, capture |-> TRUE, ref |-> RefOf(stream[i].raw)]]
  <2> DEFINE F == [b \in blobs |-> [size |-> PayloadSize[b], digest |-> b]]
  <2>1. Verification = VerifyWithProgress(L, torn, F, DiskManifest)
    BY DEF Verification
  <2> HIDE DEF L, F, S
  <2>2. S = ScanEvents(L, F)
    BY <1>1 DEF L, F
  <2> QED
    BY <1>r, <2>1, <2>2 DEF VerifyWithProgress
<1>3. S.issues = {} /\ S.events = Len(stream)
  BY DEF ScanInv, ScanFits
<1> HIDE DEF S
<1>4. Verification.issues \subseteq {"eventCount", "blobCount", "blobBytes"}
  BY <1>0, <1>2, <1>3 DEF ManifestIssues
<1>5. ASSUME disk.status # "open", disk.writeErrors = 0
      PROVE  Verification = [error |-> FALSE, issues |-> {}]
  <2>1. disk = manifest /\ closed
    BY <1>5 DEF FinalInv
  <2>2. ~failed
    BY <1>5, <2>1 DEF ScanInv
  <2>3. io = "off"
    BY <2>1, IOMeansOpen
  <2>4. ~torn /\ sequence = Len(stream)
    BY <2>2, <2>3 DEF FinalInv, IndInv, SequenceInv
  <2>5. manifest.events = S.events /\ manifest.blobs = Len(S.seen) /\ manifest.blobBytes = S.bytes
    BY <1>3, <2>4 DEF ScanInv, FinalInv, ScanCounts, S
  <2>6. S.issues \cup ManifestIssues(DiskManifest, S) = {}
    BY <1>0, <1>3, <2>1, <2>5 DEF ManifestIssues
  <2> QED
    BY <1>2, <2>4, <2>6
<1> QED
  BY <1>4, <1>5 DEF VerifierAgrees

\* capture.Verify at any moment, also after a crash: every line, reference and blob that
\* writeLoop has written verifies, so that a directory can at most be ahead of the counts of
\* its manifest, and one whose manifest is final and counts no write error verifies without
\* an issue.  The hypothesis keeps the payload bytes below the range of the verifier's uint64
\* counter, past which Verify reports an overflow of its own.
THEOREM VerifierAgreesWhileBytesFit == Spec /\ []BytesFit => []VerifierAgrees
<1>1. Init => ScanInv
  BY InitScan
<1>2. IndInv /\ ScanInv /\ BytesFit /\ [Next]_vars => ScanInv'
  BY ScanStep
<1>3. IndInv /\ FinalInv /\ ScanInv => VerifierAgrees
  BY ScanMeansAgrees
<1>4. QED
  BY <1>1, <1>2, <1>3, ManifestInvariance, PTL DEF Spec
=============================================================================
