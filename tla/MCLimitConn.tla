----------------------------- MODULE MCLimitConn ----------------------------
(* LimitConn for TLC.                                                      *)
EXTENDS LimitConn, TLC

CONSTANTS c1, c2, c3

ThreeClients   == {c1, c2, c3}
ClientSymmetry == Permutations(ThreeClients)
=============================================================================
