----------------------------- MODULE MCLogServer ----------------------------
(* LogServer for TLC.                                                      *)
EXTENDS LogServer, TLC

CONSTANTS c1, c2

OneClient      == {c1}
TwoClients     == {c1, c2}
ClientSymmetry == Permutations(TwoClients)
=============================================================================
