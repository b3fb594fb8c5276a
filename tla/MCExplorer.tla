----------------------------- MODULE MCExplorer -----------------------------
(* A controller and two workers, exploring one of several small programs:  *)
(* coverage and buckets of different sites, two sites that share a         *)
(* message, and the three kinds of guidance.                               *)
EXTENDS Explorer

Program(sites, values, length, runs, capacity) ==
    [sites |-> sites, values |-> values, length |-> length, runs |-> runs,
     capacity |-> capacity]
SiteOf(id, kind) == [id |-> id, kind |-> kind]

MCPrograms ==
    {Program({SiteOf("a", "sometimes"), SiteOf("b", "each")}, {1}, 2, 3, 3),
     Program({SiteOf("a", "sometimes"), SiteOf("b", "sometimes")}, {1}, 1, 3, 2),
     Program({SiteOf("a", "sometimes"), SiteOf("a", "always")}, {0, 1}, 1, 3, 1),
     Program({SiteOf("a", "numeric")}, {0, 1}, 1, 4, 1),
     Program({SiteOf("a", "all")}, {1, 2}, 1, 3, 1),
     Program({SiteOf("a", "each")}, {0, 1}, 1, 3, 1)}
=============================================================================
