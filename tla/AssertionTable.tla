--------------------------- MODULE AssertionTable ---------------------------
(***************************************************************************)
(* The assertion and each-bucket tables (table.rs, slots.rs, buckets.rs):  *)
(* processes that share the region find or claim the entry of an assertion *)
(* site, count their evaluation in it and signal what is globally new.     *)
(* Every access to shared memory is a step of its own, sequentially        *)
(* consistent, except that the state and the identity of an entry are read *)
(* and written together; a process may die between any two steps.          *)
(*                                                                         *)
(* A site is its identity (the hash of its message) and its kind.  An      *)
(* evaluation brings a value: whether a condition held, how far a numeric  *)
(* comparison got, the score of a bucket, or the true ones of two          *)
(* propositions.                                                           *)
(***************************************************************************)
EXTENDS Integers, FiniteSets, FiniteSetsExt, Functions

CONSTANTS
    Procs,          \* processes that share the region
    Programs,       \* what may be explored: the sites and values a timeline
                    \* evaluates, its length, the run budget of a seed, and
                    \* the entries the region holds
    MaxJournal,     \* MAX_JOURNAL_ENTRIES
    NoId            \* the identity of an entry that is not claimed

ASSUME TableAssumption ==
    /\ \A g \in Programs :
        /\ \A s \in g.sites : /\ s.kind \in {"always", "sometimes", "numeric", "all", "each"}
                              /\ s.id # NoId
        /\ g.values \subseteq 0 .. 3
        /\ g.length \in Nat
        /\ {g.runs, g.capacity} \subseteq Nat \ {0}
    /\ MaxJournal \in Nat \ {0}

VARIABLES
    program,    \* the program that is explored
    next,       \* header: the number of entries claimed so far
    dropped,    \* header: evaluations that could not be tracked
    table,      \* the entries
    at,         \* where each process is in its evaluation
    journal,    \* the discoveries of each process's current timeline
    running,    \* processes that run a timeline
    owed,       \* history: evaluations begun, without those that died or met the
                \* entry of another site
    firsts,     \* history: first passes signalled, by identity
    missed      \* history: states whose discovery no journal delivers

tableVars == <<program, next, dropped, table, at, journal, running, owed,
               firsts, missed>>
novelty == <<firsts, missed>>

Index == 0 .. program.capacity - 1
Ids == {s.id : s \in UNION {g.sites : g \in Programs}}

\* A zeroed entry, and one that init filled for a site.
Zeroed == [state |-> "unused", id |-> NoId, kind |-> "none", count |-> 0,
           best |-> 0, seen |-> {}, discovered |-> FALSE, conflicted |-> FALSE]
Initialized(e, site) ==
    [Zeroed EXCEPT !.state = e.state, !.id = e.id, !.kind = site.kind,
                   !.best = IF site.kind = "numeric" THEN -1 ELSE 0]

\* A process between two evaluations, after n of them.
Idle(n) == [pc |-> "idle", site |-> [id |-> NoId, kind |-> "none"], value |-> 0, i |-> 0,
            count |-> 0, mine |-> 0, news |-> FALSE, known |-> FALSE, done |-> n]

\* entries(): how many entries a search looks at.
Claimed == IF next < program.capacity THEN next ELSE program.capacity

TypeOK ==
    /\ program \in Programs
    /\ {next, dropped, owed} \subseteq Nat
    /\ \A e \in Index :
        /\ table[e].state \in {"unused", "initializing", "ready"}
        /\ table[e].id \in Ids \cup {NoId}
    /\ \A p \in Procs :
        /\ at[p].pc \in {"idle", "find", "await", "full", "mark", "marked", "check",
                         "release", "awaitWinner", "publish", "record", "measure", "latch"}
        /\ at[p].mine \in Index
        /\ at[p].i \in 0 .. program.capacity
        /\ Cardinality(journal[p]) <= MaxJournal
    /\ running \subseteq Procs

TableInit ==
    /\ program \in Programs
    /\ next = 0
    /\ dropped = 0
    /\ table = [e \in 0 .. program.capacity - 1 |-> Zeroed]
    /\ at = [p \in Procs |-> Idle(0)]
    /\ journal = [p \in Procs |-> {}]
    /\ owed = 0
    /\ firsts = [id \in Ids |-> 0]
    /\ missed = {}

Move(p, pc) == at' = [at EXCEPT ![p].pc = pc]
Finish(p) == at' = [at EXCEPT ![p] = Idle(at[p].done + 1)]
SetState(e, state) == table' = [table EXCEPT ![e].state = state]

----------------------------------------------------------------------------
(* table::claim.                                                           *)

Evaluate(p, site, value) ==
    /\ at[p].pc = "idle"
    /\ at[p].done < program.length
    /\ at' = [at EXCEPT ![p] = [Idle(@.done) EXCEPT
                !.pc = "find", !.site = site, !.value = value, !.count = Claimed]]
    /\ owed' = owed + 1
    /\ UNCHANGED <<program, next, dropped, table, journal, running, novelty>>

\* The first search, one entry a step: an entry of this identity is waited for.
Find(p) ==
    /\ at[p].pc = "find"
    /\ at[p].i < at[p].count
    /\ LET e == table[at[p].i] IN
        IF e.state # "unused" /\ e.id = at[p].site.id THEN Move(p, "await")
        ELSE at' = [at EXCEPT ![p].i = @ + 1]
    /\ UNCHANGED <<program, next, dropped, table, journal, running, owed, novelty>>

\* claim returned the ready entry e, which may belong to another site.
Claims(p, e) ==
    IF table[e].kind = at[p].site.kind
    THEN /\ at' = [at EXCEPT ![p].pc = "record", ![p].mine = e]
         /\ UNCHANGED <<table, owed>>
    ELSE /\ table' = [table EXCEPT ![e].conflicted = TRUE]
         /\ owed' = owed - 1
         /\ Finish(p)

\* The bounded wait ended with no entry (Claim::Busy): counted as dropped.
GivesUp(p) ==
    /\ dropped' = dropped + 1
    /\ Finish(p)
    /\ UNCHANGED <<table, owed>>

\* Mutant: an entry that is never published is waited for without a bound.
AwaitForever(p) ==
    /\ at[p].pc = "await"
    /\ \/ /\ table[at[p].i].state = "ready"
          /\ Claims(p, at[p].i)
          /\ UNCHANGED dropped
       \/ /\ table[at[p].i].state = "unused"
          /\ at' = [at EXCEPT ![p].pc = "find", ![p].i = 0, ![p].count = Claimed]
          /\ UNCHANGED <<dropped, table, owed>>
    /\ UNCHANGED <<program, next, journal, running, novelty>>

\* await_published from the first search: the entry is ready, its claimant gave
\* way (search again), or the spins ran out.
Await(p) ==
    /\ at[p].pc = "await"
    /\ \/ /\ table[at[p].i].state = "ready"
          /\ Claims(p, at[p].i)
          /\ UNCHANGED dropped
       \/ /\ table[at[p].i].state = "unused"
          /\ at' = [at EXCEPT ![p].pc = "find", ![p].i = 0, ![p].count = Claimed]
          /\ UNCHANGED <<dropped, table, owed>>
       \/ /\ table[at[p].i].state = "initializing"
          /\ GivesUp(p)
    /\ UNCHANGED <<program, next, journal, running, novelty>>

\* fetch_add on the count: an index of one's own, or the table is full.
TakeIndex(p) ==
    /\ at[p].pc = "find"
    /\ at[p].i = at[p].count
    /\ next' = next + 1
    /\ IF next >= program.capacity THEN Move(p, "full")
       ELSE at' = [at EXCEPT ![p].pc = "mark", ![p].mine = next]
    /\ UNCHANGED <<program, dropped, table, journal, running, owed, novelty>>

\* Mutant: an evaluation the full table cannot track is not counted.
FullUncounted(p) ==
    /\ at[p].pc = "full"
    /\ next' = next - 1
    /\ Finish(p)
    /\ UNCHANGED <<program, dropped, table, journal, running, owed, novelty>>

Full(p) ==
    /\ at[p].pc = "full"
    /\ next' = next - 1
    /\ dropped' = dropped + 1
    /\ Finish(p)
    /\ UNCHANGED <<program, table, journal, running, owed, novelty>>

Ready(id) == {e \in Index : table[e].state = "ready" /\ table[e].id = id}

Mark(p) ==
    /\ at[p].pc = "mark"
    /\ table' = [table EXCEPT ![at[p].mine].id = at[p].site.id,
                              ![at[p].mine].state = "initializing"]
    /\ at' = [at EXCEPT ![p].pc = "marked", ![p].known = Ready(at[p].site.id) # {}]
    /\ UNCHANGED <<program, next, dropped, journal, running, owed, novelty>>

Recount(p) ==
    /\ at[p].pc = "marked"
    /\ at' = [at EXCEPT ![p].pc = "check", ![p].i = 0, ![p].count = Claimed]
    /\ UNCHANGED <<program, next, dropped, table, journal, running, owed, novelty>>

\* Mutant: the second search looks at lower indexes only.
CheckLower(p) ==
    /\ at[p].pc = "check"
    /\ at[p].i < at[p].count
    /\ LET e == table[at[p].i] IN
        IF \/ e.state = "unused"
           \/ e.id # at[p].site.id
           \/ at[p].i >= at[p].mine
        THEN at' = [at EXCEPT ![p].i = @ + 1]
        ELSE Move(p, "release")
    /\ UNCHANGED <<program, next, dropped, table, journal, running, owed, novelty>>

\* The second search: a published claim wins, and so does a lower index that
\* is still being initialized.
Check(p) ==
    /\ at[p].pc = "check"
    /\ at[p].i < at[p].count
    /\ LET e == table[at[p].i] IN
        IF \/ at[p].i = at[p].mine
           \/ e.state = "unused"
           \/ e.id # at[p].site.id
           \/ (e.state = "initializing" /\ at[p].i > at[p].mine)
        THEN at' = [at EXCEPT ![p].i = @ + 1]
        ELSE Move(p, "release")
    /\ UNCHANGED <<program, next, dropped, table, journal, running, owed, novelty>>

Release(p) ==
    /\ at[p].pc = "release"
    /\ table' = [table EXCEPT ![at[p].mine].id = NoId, ![at[p].mine].state = "unused"]
    /\ Move(p, "awaitWinner")
    /\ UNCHANGED <<program, next, dropped, journal, running, owed, novelty>>

\* await_published of the winner: anything but a ready entry is Busy.
AwaitWinner(p) ==
    /\ at[p].pc = "awaitWinner"
    /\ IF table[at[p].i].state = "ready" THEN Claims(p, at[p].i) /\ UNCHANGED dropped
       ELSE GivesUp(p)
    /\ UNCHANGED <<program, next, journal, running, novelty>>

Initialize(p) ==
    /\ at[p].pc = "check"
    /\ at[p].i = at[p].count
    /\ table' = [table EXCEPT ![at[p].mine] = Initialized(@, at[p].site)]
    /\ Move(p, "publish")
    /\ UNCHANGED <<program, next, dropped, journal, running, owed, novelty>>

Publish(p) ==
    /\ at[p].pc = "publish"
    /\ SetState(at[p].mine, "ready")
    /\ Move(p, "record")
    /\ UNCHANGED <<program, next, dropped, journal, running, owed, novelty>>

----------------------------------------------------------------------------
(* What an evaluation does with its entry (assertion_bool, _numeric,       *)
(* _sometimes_all, _sometimes_each), and the journal its discoveries go to.*)

\* What a discovery is worth: progress, a new state, or plain coverage.
Priority(kind) ==
    CASE kind \in {"watermark", "frontier", "quality"} -> 2
      [] kind \in {"bucket", "combination"} -> 1
      [] kind = "first" -> 0

Outranks(a, b) == a.rank > b.rank \/ (a.rank = b.rank /\ a.count > b.count)

\* journal::record: one event for a state; a full journal gives up its weakest.
\* What replaces an event takes its place.
Record(events, new) ==
    LET same == {old \in events : old.state = new.state}
        weakest == {old \in events : \A other \in events \ {old} : Outranks(other, old)}
        rival == IF same # {} THEN same
                 ELSE IF Cardinality(events) < MaxJournal THEN {} ELSE weakest
        placed == IF rival = {} THEN new
                  ELSE [new EXCEPT !.place = (CHOOSE old \in rival : TRUE).place]
    IN IF \A old \in rival : Outranks(new, old) THEN (events \ rival) \cup {placed} ELSE events

States(events) == {e.state : e \in events}

\* on_discovery: the hook records the event at the current replay coordinate.
OnDiscovery(p, kind, state) ==
    /\ LET new == [state |-> state, rank |-> Priority(kind), count |-> at[p].done,
                   place |-> at[p].done]
           kept == Record(journal[p], new)
       IN /\ journal' = [journal EXCEPT ![p] = kept]
          /\ missed' = missed \cup (States(journal[p] \cup {new}) \ States(kept))
    /\ firsts' = IF kind \in {"first", "bucket"}
                 THEN [firsts EXCEPT ![at[p].site.id] = @ + 1] ELSE firsts

Site(p) == <<at[p].site.id, 0>>
Combination(p) == <<at[p].site.id, at[p].value>>

\* How many of the two propositions are true.
TrueCount(value) == (value % 2) + (value \div 2)

\* The pass or fail counter.
RecordPass(p) ==
    /\ at[p].pc = "record"
    /\ table' = [table EXCEPT ![at[p].mine].count = @ + 1]
    /\ CASE at[p].site.kind \in {"all", "each"} -> Move(p, "measure")
         [] at[p].site.kind = "numeric" -> Move(p, "latch")
         [] at[p].site.kind = "sometimes" ->
                IF at[p].value > 0 THEN Move(p, "latch") ELSE Finish(p)
         [] at[p].site.kind = "always" -> Finish(p)
    /\ UNCHANGED <<program, next, dropped, journal, running, owed, novelty>>

\* fetch_or of the combination, or fetch_max of the score.
Measure(p) ==
    /\ at[p].pc = "measure"
    /\ LET e == table[at[p].mine]
           v == at[p].value
       IN IF e.kind = "all"
          THEN /\ table' = [table EXCEPT ![at[p].mine].seen = @ \cup {v}]
               /\ at' = [at EXCEPT ![p].pc = "latch", ![p].news = v \notin e.seen]
          ELSE /\ table' = [table EXCEPT ![at[p].mine].best = Max({@, v})]
               /\ at' = [at EXCEPT ![p].pc = "latch", ![p].news = v > e.best]
    /\ UNCHANGED <<program, next, dropped, journal, running, owed, novelty>>

\* The atomic step that decides novelty: a compare-exchange of the latch, or a
\* fetch_max of the watermark or the frontier.
Latch(p) ==
    /\ at[p].pc = "latch"
    /\ LET e == table[at[p].mine]
           v == IF at[p].site.kind = "all" THEN TrueCount(at[p].value) ELSE at[p].value
       IN CASE at[p].site.kind = "sometimes" ->
                /\ table' = [table EXCEPT ![at[p].mine].discovered = TRUE]
                /\ IF e.discovered THEN UNCHANGED <<journal, novelty>>
                   ELSE OnDiscovery(p, "first", Site(p))
            [] at[p].site.kind = "each" ->
                /\ table' = [table EXCEPT ![at[p].mine].discovered = TRUE]
                /\ IF ~e.discovered THEN OnDiscovery(p, "bucket", Site(p))
                   ELSE IF at[p].news THEN OnDiscovery(p, "quality", Site(p))
                   ELSE UNCHANGED <<journal, novelty>>
            [] at[p].site.kind = "numeric" ->
                /\ table' = [table EXCEPT ![at[p].mine].best = Max({@, v})]
                /\ IF v > e.best THEN OnDiscovery(p, "watermark", Site(p))
                   ELSE UNCHANGED <<journal, novelty>>
            [] at[p].site.kind = "all" ->
                /\ table' = [table EXCEPT ![at[p].mine].best = Max({@, v})]
                /\ IF v > e.best THEN OnDiscovery(p, "frontier", Site(p))
                   ELSE IF v > 0 /\ at[p].news
                   THEN OnDiscovery(p, "combination", Combination(p))
                   ELSE UNCHANGED <<journal, novelty>>
    /\ Finish(p)
    /\ UNCHANGED <<program, next, dropped, running, owed>>

----------------------------------------------------------------------------
\* A process in the middle of an evaluation it has not counted yet.
InFlight(p) == at[p].pc \notin {"idle", "measure", "latch"}

\* A process ends in the middle of a timeline: nothing it holds is released.
Vanishes(dead) ==
    /\ running' = running \ dead
    /\ owed' = owed - Cardinality({p \in dead : InFlight(p)})
    /\ at' = [p \in Procs |-> IF p \in dead THEN Idle(0) ELSE at[p]]

Step(p) ==
    \/ \E site \in program.sites, value \in program.values : Evaluate(p, site, value)
    \/ Find(p) \/ Await(p) \/ TakeIndex(p) \/ Full(p)
    \/ Mark(p) \/ Recount(p) \/ Check(p) \/ Release(p) \/ AwaitWinner(p)
    \/ Initialize(p) \/ Publish(p)
    \/ RecordPass(p) \/ Measure(p) \/ Latch(p)

\* The tables alone, under processes that never die.
TableSpec == TableInit /\ running = Procs /\ [][\E p \in Procs : Step(p)]_tableVars

----------------------------------------------------------------------------
(* Properties.                                                             *)

\* Every evaluation is counted once: in the entry of its site, as dropped, or
\* against an entry of another site; the rest are under way or died with their
\* process (claim waits for an entry that is being initialized, init precedes
\* the release-store, Busy and Full are counted).
NothingLost ==
    owed = SumFunctionOnSet([e \in Index |-> table[e].count], Index) + dropped
           + Cardinality({p \in Procs : InFlight(p)})

\* A second entry for an identity comes only from claims made at the same time:
\* whoever marks its entry when the identity is already published gives way
\* (the second search of claim, all indexes).
NoLateDuplicate == \A p \in Procs : at[p].pc = "publish" => ~at[p].known

\* The hook fires once for a first pass, whoever makes it (hooks.rs: across any
\* number of processes sharing the region exactly once per distinct discovery).
DiscoveredOnce == \A id \in Ids : firsts[id] <= 1

\* No evaluation is lost or counted twice, whoever dies in the middle of one,
\* and no identity gets a second entry once it is published (claim).
CountedOnce == NothingLost /\ NoLateDuplicate

=============================================================================
