--------------------------- MODULE MCAccountStore ---------------------------
(***************************************************************************)
(* Instances of AccountStore for TLC: "default" is the second of three     *)
(* names.                                                                  *)
(***************************************************************************)
EXTENDS AccountStore
=============================================================================
