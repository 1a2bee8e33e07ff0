--------------------------- MODULE MCPackExchange ---------------------------
(***************************************************************************)
(* Instances of PackExchange for TLC: two versions of one pack and a       *)
(* second, encrypted pack; lists of one, lists of two that begin with the  *)
(* first pack, a list that repeats a URL, and one that mixes URLs and      *)
(* chunks with the encrypted pack between the others.                      *)
(***************************************************************************)
EXTENDS PackExchange

P1 == [uuid |-> "p", version |-> 1]
P2 == [uuid |-> "p", version |-> 2]
Q1 == [uuid |-> "q", version |-> 1]
MCKeys == {P1, P2, Q1}
MCOther == [uuid |-> "other", version |-> 1]
MCEncrypted == {Q1}
Entries == {[key |-> P1, url |-> TRUE], [key |-> P1, url |-> FALSE],
            [key |-> P2, url |-> TRUE],
            [key |-> Q1, url |-> TRUE]}
Twice == <<[key |-> P1, url |-> TRUE], [key |-> P1, url |-> TRUE], [key |-> Q1, url |-> FALSE]>>
Mixed == <<[key |-> P1, url |-> FALSE], [key |-> Q1, url |-> TRUE], [key |-> P2, url |-> TRUE]>>
Pairs == {o \in [1..2 -> Entries] : o[1].key = P1}
MCOffers == {<<>>} \cup [1..1 -> Entries] \cup Pairs \cup {Twice, Mixed}
MCLater == {<<[key |-> P1, url |-> TRUE], [key |-> Q1, url |-> TRUE]>>}
MCModes == {[decrypt |-> TRUE, packsOnly |-> FALSE], [decrypt |-> FALSE, packsOnly |-> TRUE]}
=============================================================================
