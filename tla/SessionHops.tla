---------------------------- MODULE SessionHops ----------------------------
(***************************************************************************)
(* What Runner.Run promises about the hops of a session: one after the     *)
(* other, numbered without gaps, at most MaxHops of them, each served once,*)
(* each followed one closed with one session.close event before the next   *)
(* client is awaited, and nothing after the end.                           *)
(***************************************************************************)
EXTENDS Naturals

CONSTANT MaxHops
VARIABLES
    hop,     \* the hop the session is at
    mode,    \* "waiting" for its client, "active", "between" two hops, "over"
    closed   \* session.close events, by hop

hopsVars == <<hop, mode, closed>>

HopsInit == hop = 1 /\ mode = "waiting" /\ closed = [h \in 1..(MaxHops + 1) |-> 0]

Join == mode = "waiting" /\ mode' = "active" /\ UNCHANGED <<hop, closed>>

Close ==
    /\ mode = "active" /\ mode' \in {"between", "over"}
    /\ closed' = [closed EXCEPT ![hop] = @ + 1]
    /\ UNCHANGED hop

Follow ==
    /\ mode = "between" /\ hop < MaxHops
    /\ mode' = "waiting" /\ hop' = hop + 1
    /\ UNCHANGED closed

End == mode # "over" /\ mode' = "over" /\ UNCHANGED <<hop, closed>>

HopsSpec == HopsInit /\ [][Join \/ Close \/ Follow \/ End]_hopsVars
=============================================================================
