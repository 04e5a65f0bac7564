--------------------------- MODULE MCUdpEntityIo ---------------------------
(* UdpEntityIo on small instances. *)
EXTENDS UdpEntityIo

CONSTANTS b1, b2, b3

MCSize == [b \in Buf |-> CASE b = b1 -> 1 [] b = b2 -> 2 [] OTHER -> 3]

ThreadSymmetry == Permutations(Threads)
=============================================================================
