----------------------------- MODULE MCCopyLoop -----------------------------
(* CopyLoop for TLC.                                                       *)
EXTENDS CopyLoop, TLC

CONSTANTS h1, h2

TwoHandlers     == {h1, h2}
HandlerSymmetry == Permutations(TwoHandlers)
=============================================================================
