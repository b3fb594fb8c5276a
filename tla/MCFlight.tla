------------------------------ MODULE MCFlight ------------------------------
(***************************************************************************)
(* One connection of two bytes of window, in settings that bring a few     *)
(* kinds of fault together each.                                           *)
(***************************************************************************)
EXTENDS Flight

Setting(a, b, closing, kinds, n) ==
    [bytes |-> <<a, b>>, closing |-> closing, kinds |-> kinds, faults |-> n]

MCLatencies == {1, 2}
MCDurations == {1, 3}

MCWorlds == {
    Setting(1, 0, {1}, {"pair", "send", "heal"}, 2), \* partitions that overlap, healed early
    Setting(1, 0, {1}, {"both", "recv"}, 2),         \* a random partition over another
    Setting(3, 0, {1}, {"send"}, 1),                 \* a stream longer than its window
    Setting(1, 0, {1}, {"pair", "close"}, 2),        \* a half-close of what is stalled
    Setting(1, 1, {1, 2}, {"close"}, 1),             \* both ends write, close and are closed
    Setting(3, 0, {2}, {"hole"}, 1),                 \* a black hole under a full window
    Setting(2, 0, {}, {"write", "read"}, 2),         \* clogs that overlap
    Setting(2, 1, {1}, {"abort"}, 1)}                \* a reset

=============================================================================
