------------------------------ MODULE MCCalls ------------------------------
(***************************************************************************)
(* Settings for TLC: an at-most-once and a reliable call under each        *)
(* tie-break, and an own call beside a remote one.                         *)
(***************************************************************************)
EXTENDS Calls

CONSTANTS o, r, l       \* an at-most-once, a reliable and an own call

MCOnce == {o}
MCReliable == {r}
MCOwnCalls == {l}

MCWorlds ==
    {[peerIsLarger |-> "yes", calls |-> {o, r}, maxPending |-> 2, faults |-> 2],
     [peerIsLarger |-> "no", calls |-> {o, r}, maxPending |-> 2, faults |-> 2],
     [peerIsLarger |-> "yes", calls |-> {r}, maxPending |-> 1, faults |-> 3],
     [peerIsLarger |-> "no", calls |-> {o, l}, maxPending |-> 1, faults |-> 2]}
=============================================================================
