----------------------------- MODULE CaptureLog -----------------------------
(***************************************************************************)
(* What a capture recorder promises, without queue, locks or files: events *)
(* are accepted in some order and committed in that same order; a recorder *)
(* that breaks commits nothing more, and everything it had accepted and    *)
(* did not commit is counted as lost before it is sealed.                  *)
(***************************************************************************)
EXTENDS Naturals, Sequences

VARIABLES
    accepted,  \* the events the callers were told are recorded
    log,       \* the committed events
    lost,      \* how many accepted events are known to be lost
    broken,    \* a write has failed
    sealed     \* the recorder is closed

logVars == <<accepted, log, lost, broken, sealed>>

LogInit ==
    accepted = << >> /\ log = << >> /\ lost = 0 /\ broken = FALSE /\ sealed = FALSE

\* new is old and one more event.
Extends(new, old) == Len(new) = Len(old) + 1 /\ SubSeq(new, 1, Len(old)) = old

Accept ==
    /\ ~sealed /\ Extends(accepted', accepted)
    /\ UNCHANGED <<log, lost, broken, sealed>>

Commit ==
    /\ ~broken /\ ~sealed /\ Len(log) < Len(accepted)
    /\ log' = Append(log, accepted[Len(log) + 1])
    /\ UNCHANGED <<accepted, lost, broken, sealed>>

\* A streamed event is accepted by being committed, after everything before it.
AcceptCommitted ==
    /\ ~broken /\ ~sealed /\ log = accepted
    /\ Extends(accepted', accepted) /\ log' = accepted'
    /\ UNCHANGED <<lost, broken, sealed>>

Break == ~broken /\ ~sealed /\ broken' = TRUE /\ UNCHANGED <<accepted, log, lost, sealed>>

Lose ==
    /\ broken /\ ~sealed /\ Len(log) + lost < Len(accepted)
    /\ lost' = lost + 1
    /\ UNCHANGED <<accepted, log, broken, sealed>>

Seal ==
    /\ ~sealed /\ Len(log) + lost = Len(accepted)
    /\ sealed' = TRUE
    /\ UNCHANGED <<accepted, log, lost, broken>>

LogNext == Accept \/ Commit \/ AcceptCommitted \/ Break \/ Lose \/ Seal

LogSpec == LogInit /\ [][LogNext]_logVars
=============================================================================
