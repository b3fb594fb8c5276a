----------------------------- MODULE MCSegments -----------------------------
(* Small instances of Segments. *)
EXTENDS Segments

World(puts, clears, slots, opens, bad) ==
    [puts |-> puts, clears |-> clears, slots |-> slots, opens |-> opens, rots |-> bad]

\* A batch to a segment and every position cleared at once; two batches to a
\* segment and one position cleared; and a header copy that rots, over three
\* opens.
AllWorlds ==
    {World({1, 2}, {<<1, 2>>}, 1, 2, 0),
     World({1, 2}, {<<1, 1>>}, 2, 2, 0),
     World({1}, {}, 1, 3, 1)}
=============================================================================
