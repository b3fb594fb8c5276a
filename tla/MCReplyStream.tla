---------------------------- MODULE MCReplyStream ----------------------------
(***************************************************************************)
(* Streams between two runtimes and within one; a window below, at and     *)
(* above what the producing runtime allows.                                *)
(***************************************************************************)
EXTENDS ReplyStream

World(route, window, max, cap, senders, uses) ==
    [route |-> route, window |-> window, max |-> max, cap |-> cap,
     senders |-> senders, uses |-> uses]

AllWorlds ==
    {World("remote", 2, 2, 2, {s}, {"cut"}) : s \in {CHOOSE s \in Senders : TRUE}}
    \cup {World("remote", 3, 2, 2, Senders, {}),
          World("remote", 2, 3, 1, Senders, {"limit"}),
          World("local", 2, 2, 3, Senders, {"ready", "limit"})}
=============================================================================
