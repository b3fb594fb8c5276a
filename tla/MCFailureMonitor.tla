-------------------------- MODULE MCFailureMonitor --------------------------
(* The failure monitor with two addresses and a table for one of them.     *)
EXTENDS FailureMonitor

At(address, index) == [address |-> address, incarnation |-> 7, index |-> index]

MCEndpoints == {At(1, 1)}
MCSustains == {[sustained |-> 1, half |-> FALSE], [sustained |-> 0, half |-> TRUE]}
=============================================================================
