-------------------------- MODULE MCCaptureImage --------------------------
(***************************************************************************)
(* An instance of CaptureImage for TLC: two blobs and a two-bit counter.   *)
(***************************************************************************)
EXTENDS CaptureImage

CONSTANTS d1, d2
=============================================================================
