-------------------------- MODULE MCNamedSemaphore --------------------------
(* NamedSemaphore for TLC.                                                 *)
EXTENDS NamedSemaphore, TLC

CONSTANTS c1, c2

TwoClients     == {c1, c2}
ClientSymmetry == Permutations(TwoClients)
=============================================================================
