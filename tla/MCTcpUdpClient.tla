--------------------------- MODULE MCTcpUdpClient ---------------------------
(* TcpUdpClient for TLC: destinations are interchangeable.                 *)
EXTENDS TcpUdpClient, TLC

DstSymmetry == Permutations(Dsts)
=============================================================================
