--------------------------- MODULE MCProxySession ---------------------------
(***************************************************************************)
(* Instances of ProxySession for TLC: a client that follows transfers in a *)
(* run that may be cancelled at any time, and a session without following  *)
(* where a stranger connects as well.                                      *)
(***************************************************************************)
EXTENDS ProxySession

Following == [strangers |-> {}, follow |-> TRUE, cancels |-> TRUE]
Single == [strangers |-> {2}, follow |-> FALSE, cancels |-> FALSE]
MCFollowing == {Following}
MCBoth == {Following, Single}
=============================================================================
