---------------------------- MODULE MCTcpServer ----------------------------
(* TcpServer with model values for the clients.                            *)
EXTENDS TcpServer, TLC

CONSTANTS c1, c2, c3
MCTwo == {c1, c2}
MCThree == {c1, c2, c3}
Procs2 == 1..2
Procs4 == 1..4
EitherResidue == BOOLEAN
NoResidue == {FALSE}
Symmetry == Permutations(Clients)
=============================================================================
