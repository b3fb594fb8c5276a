---------------------------- MODULE MCReconnect -----------------------------
(***************************************************************************)
(* Model checking of Reconnect.                                            *)
(***************************************************************************)
EXTENDS Reconnect, TLC

\* Two callers on the simulation's executor and one on tokio's, each without and
\* with a limit on failures, zero included.
MCWorlds ==
    {[executor |-> "sim", callers |-> Callers, limit |-> n] : n \in {{}, {0}, {2}}}
    \cup {[executor |-> "threads", callers |-> {c}, limit |-> n] :
             c \in {CHOOSE c \in Callers : TRUE}, n \in {{}, {2}}}

=============================================================================
