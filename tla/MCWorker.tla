------------------------------ MODULE MCWorker ------------------------------
(* Small instances of Worker: two clients, and a datagram of every class.   *)
EXTENDS Worker

Packet(b, n, l, ok, a) == [bytes |-> b, nonc |-> n, len |-> l, parses |-> ok, src |-> a]

\* Two good requests of different clients that share a nonce but not their bytes.
GoodA == Packet("A", "n", 1024, TRUE, "alice")
GoodB == Packet("B", "n", 1024, TRUE, "bob")

Runt  == Packet("R", "n", 1023, FALSE, "alice")
Bad   == Packet("X", "n", 1024, FALSE, "bob")
Jumbo == Packet("J", "n", 1025, TRUE, "bob")

AllKinds == {GoodA, GoodB, Runt, Bad, Jumbo}
Good == {GoodA, GoodB}
One == {GoodA}
=============================================================================
