----------------------------- MODULE MCEchoFIFO -----------------------------
(* EchoFIFO for TLC: what the user types and how often programs start.     *)
EXTENDS EchoFIFO

TwoTexts   == {"hello", "world"}
AnyLines   == TwoTexts \cup {QUIT, Empty}

OneSession == [echo |-> 1, client |-> 1]
ThreeRuns  == [echo |-> 3, client |-> 3]
=============================================================================
