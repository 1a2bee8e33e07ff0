------------------------- MODULE MCCaptureRecorder -------------------------
(***************************************************************************)
(* Instances of CaptureRecorder for TLC.                                   *)
(***************************************************************************)
EXTENDS CaptureRecorder

CONSTANTS a, b  \* two payloads: one that fits the byte budget, one that is larger

MCPayloadSize == [p \in Payloads |-> IF p = a THEN 1 ELSE 3]

Sym == Permutations(Recorders)
=============================================================================
