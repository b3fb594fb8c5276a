---------------------------- MODULE DurableIndex ----------------------------
(***************************************************************************)
(* What a journal promises of the index it recovers: for every position,   *)
(* the batch whose write it holds.  The recovered index changes only when  *)
(* the batch being committed lands, whole, and when the floor it carries   *)
(* does; nothing else (a roll, a recycled segment, a crash, an open) moves *)
(* it, and a commit is acknowledged only once both have landed.            *)
(***************************************************************************)
EXTENDS Naturals

CONSTANTS
    Positions,      \* the positions a batch may write
    Batches         \* the batches a caller may commit

VARIABLES
    entries,    \* for every position, the batch recovery finds there, or 0
    floor,      \* positions below it are gone
    batch,      \* the batch being committed
    stage       \* how much of it has landed

vars == <<entries, floor, batch, stage>>

Applied(b, e) ==
    [p \in Positions |->
        IF p \notin b.from .. b.to THEN e[p]
        ELSE IF b.kind = "put" THEN b.seq ELSE 0]

Above(f, e) == [p \in Positions |-> IF p < f THEN 0 ELSE e[p]]

Init ==
    /\ entries = [p \in Positions |-> 0]
    /\ floor = 0
    /\ stage = "down"
    /\ batch \in Batches

Reopen ==
    /\ stage = "down"
    /\ stage' = "idle"
    /\ UNCHANGED <<entries, floor, batch>>

Begin ==
    /\ stage = "idle"
    /\ batch' \in Batches
    /\ stage' = "begun"
    /\ UNCHANGED <<entries, floor>>

Land ==
    /\ stage = "begun"
    /\ batch.kind # "none"
    /\ entries' = Applied(batch, entries)
    /\ stage' = IF batch.floor = floor THEN "done" ELSE "landed"
    /\ UNCHANGED <<floor, batch>>

Raise ==
    /\ stage = IF batch.kind = "none" THEN "begun" ELSE "landed"
    /\ batch.floor > floor
    /\ floor' = batch.floor
    /\ entries' = Above(floor', entries)
    /\ stage' = "done"
    /\ UNCHANGED batch

Acknowledge ==
    /\ stage = "done"
    /\ stage' = "idle"
    /\ batch' \in Batches
    /\ UNCHANGED <<entries, floor>>

\* A failure or a crash ends the commit, with what landed so far.
Abandon ==
    /\ stage # "down"
    /\ stage' = "down"
    /\ batch' \in Batches
    /\ UNCHANGED <<entries, floor>>

Next == Reopen \/ Begin \/ Land \/ Raise \/ Acknowledge \/ Abandon

Spec == Init /\ [][Next]_vars
=============================================================================
