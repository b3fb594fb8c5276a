---------------------------- MODULE MCJournalLog ----------------------------
(* Small instances of JournalLog. *)
EXTENDS JournalLog

Put == {<<"put">>}
Pairs == {<<"put", "put">>}
Mixed == {<<"clear", "put">>}

World(modes, shapes, rots, recycled, writeback, opens) ==
    [modes |-> modes, shapes |-> shapes, faults |-> rots, recycled |-> recycled,
     writeback |-> writeback, opens |-> opens]

\* Crashes around two-barrier and one-barrier commits into a recycled segment;
\* one media fault; and failed writebacks.
AllWorlds ==
    {World({"ordered"}, Put \cup Pairs, 0, TRUE, FALSE, 3),
     World({"batched"}, Mixed, 0, TRUE, FALSE, 3),
     World({"ordered"}, Pairs, 1, FALSE, FALSE, 3),
     World({"batched"}, Pairs, 0, FALSE, TRUE, 2),
     World({"ordered", "batched"}, Put, 0, FALSE, TRUE, 3)}

\* One-entry batches in two barriers, and failed writebacks.
WritebackWorlds == {World({"ordered"}, Put, 0, FALSE, TRUE, 3)}
=============================================================================
