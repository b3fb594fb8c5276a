-------------------------- MODULE MCAssertionTable --------------------------
(* Two processes that evaluate one site at the same time. *)
EXTENDS AssertionTable

MCPrograms ==
    {[sites |-> {[id |-> "a", kind |-> "sometimes"]}, values |-> {1}, length |-> 1,
      runs |-> 1, capacity |-> 2]}
=============================================================================
