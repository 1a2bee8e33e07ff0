--------------------------- MODULE MCLiveCapture ----------------------------
(***************************************************************************)
(* Instances of LiveCapture for TLC.                                       *)
(***************************************************************************)
EXTENDS LiveCapture

CONSTANT q1

OneRequest == {q1}

(***************************************************************************)
(* Failing outputs without requests, and requests without failing outputs: *)
(* the two readers share nothing but the files and runProxy.               *)
(***************************************************************************)
LiveScopes ==
    { [faulty |-> TRUE,  asking |-> {},   events |-> 2],
      [faulty |-> FALSE, asking |-> {q1}, events |-> 1] }
=============================================================================
