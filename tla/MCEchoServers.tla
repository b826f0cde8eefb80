---------------------------- MODULE MCEchoServers ---------------------------
(* EchoServers for TLC.                                                    *)
EXTENDS EchoServers

CONSTANTS c1, c2

TwoClients == {c1, c2}
=============================================================================
