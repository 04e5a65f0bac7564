------------------------------ MODULE MCTcpIo ------------------------------
(* TcpIo on small instances. *)
EXTENDS TcpIo

CONSTANTS b1, b2, b3

\* Sizes that make the byte counter wrap at WordMod = 4.
MCSize == [b \in Buf |-> CASE b = b1 -> 1 [] b = b2 -> 2 [] OTHER -> 3]
=============================================================================
