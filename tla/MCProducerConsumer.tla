------------------------- MODULE MCProducerConsumer -------------------------
(* ProducerConsumer for TLC.                                               *)
EXTENDS ProducerConsumer, TLC

CONSTANTS p1, p2, c1, c2

OneProducer  == {p1}
OneConsumer  == {c1}
TwoProducers == {p1, p2}
TwoConsumers == {c1, c2}
ThreadSymmetry == Permutations(TwoProducers) \cup Permutations(TwoConsumers)
=============================================================================
