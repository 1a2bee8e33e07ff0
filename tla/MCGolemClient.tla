--------------------------- MODULE MCGolemClient ----------------------------
(***************************************************************************)
(* Instances of GolemClient for TLC.                                       *)
(***************************************************************************)
EXTENDS GolemClient
=============================================================================
