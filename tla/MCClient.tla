------------------------------ MODULE MCClient ------------------------------
(* A small instance of Client: clocks that are a second off either way.      *)
EXTENDS ClientMain

SkewsOfOne == {-1, 1}
EarliestTimestamp == -2
=============================================================================
