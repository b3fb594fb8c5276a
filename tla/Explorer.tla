------------------------------ MODULE Explorer ------------------------------
(***************************************************************************)
(* The exploration controller and its pool of forked workers (controller.rs*)
(* and worker.rs), over the assertion tables they share.  The controller   *)
(* runs the root timeline itself, then pops jobs off a frontier and forks a*)
(* worker for each; a worker runs one timeline, writes its journal to its  *)
(* result slot and exits.  Workers crash, hang, and are killed for it.     *)
(*                                                                         *)
(* A recipe is its length; the seeds in it decide nothing here.            *)
(***************************************************************************)
EXTENDS AssertionTable, Sequences

CONSTANTS
    Controller,         \* the controller's own process, one of Procs
    Workers,            \* config.workers: slots 0 .. Workers - 1
    Branching,          \* branching_factor
    MaxFrontier,        \* max_frontier
    MaxRecipe,          \* max_recipe_len
    MaxStates,          \* MAX_TRACKED_STATES
    MaxExemplars        \* MAX_EXEMPLARS_PER_STATE

ASSUME ExplorerAssumption ==
    /\ IsFiniteSet(Procs)
    /\ Controller \in Procs
    /\ Workers \in 0 .. Cardinality(Procs) - 1
    /\ {Branching, MaxFrontier, MaxRecipe, MaxStates, MaxExemplars} \subseteq Nat \ {0}

VARIABLES
    ctl,        \* what the controller does: the root run, the loop, a run of
                \* its own, draining the pool, done, dropped
    job,        \* the recipe the controller runs in its own process
    started,    \* runs_started
    frontier,   \* jobs waiting
    known,      \* the states table: one entry per semantic state
    round,      \* continuation_round
    timelines,  \* stats.total_timelines
    active,     \* live workers: the slot and the job of each
    free,       \* free_slots, the last one first
    slot,       \* the journal in each result slot
    status      \* what waitpid would say of each process

explorerVars == <<ctl, job, started, frontier, known, round, timelines,
                  active, free, slot, status>>
vars == <<tableVars, explorerVars>>

Slots == 0 .. Workers - 1
Pids == Procs \ {Controller}

ExplorerTypeOK ==
    /\ TypeOK
    /\ ctl \in {"root", "loop", "inProcess", "drain", "done", "dropped"}
    /\ started \in 0 .. program.runs
    /\ Len(frontier) <= MaxFrontier
    /\ Range(frontier) \subseteq 1 .. MaxRecipe
    /\ Len(known) <= MaxStates
    /\ DOMAIN active \subseteq Pids
    /\ status \in [Procs -> {"none", "running", "written", "ended", "gone"}]

Init ==
    /\ TableInit
    /\ running = {Controller}
    /\ ctl = "root"
    /\ job = 0
    /\ started = 0
    /\ frontier = <<>>
    /\ known = <<>>
    /\ round = 0
    /\ timelines = 0
    /\ active = <<>>
    /\ free = [n \in 1 .. Workers |-> Workers - n]
    /\ slot = [s \in Slots |-> {}]
    /\ status = [p \in Procs |-> "none"]

----------------------------------------------------------------------------
(* Policy: what a finished run adds to the frontier.                       *)

\* select_anchor: the discovery that drives the expansion.
Anchor(events) == CHOOSE e \in events : \A other \in events \ {e} : Outranks(e, other)

Position(states, id) == {n \in DOMAIN states : states[n].state = id}

\* register_state: one exemplar more for the event's state; the oldest goes.
Register(states, event, recipe) ==
    LET new == [state |-> event.state, progress |-> FALSE, visits |-> 0,
                exemplars |-> <<>>, oldest |-> 0]
        all == IF Position(states, event.state) = {} /\ Len(states) < MaxStates
               THEN Append(states, new) ELSE states
        With(s) ==
            [s EXCEPT !.progress = @ \/ event.rank = 2,
                      !.exemplars = IF Len(@) < MaxExemplars THEN Append(@, recipe)
                                    ELSE [@ EXCEPT ![(s.oldest % MaxExemplars) + 1] = recipe],
                      !.oldest = IF Len(s.exemplars) < MaxExemplars THEN @ ELSE @ + 1]
    IN [n \in DOMAIN all |-> IF all[n].state = event.state THEN With(all[n]) ELSE all[n]]

\* The event in the last place of a journal.
Latest(events) == CHOOSE e \in events : \A other \in events : other.place <= e.place

\* The discoveries of a run, registered in the order of the journal.
RegisterAll(states, events, recipe) ==
    LET after[some \in SUBSET events] ==
            IF some = {} THEN states
            ELSE Register(after[some \ {Latest(some)}], Latest(some), recipe)
    IN after[events]

\* Mutant: the frontier is not bounded.
ExpandUnbounded(queue, recipe) == queue \o [n \in 1 .. Branching |-> recipe + 1]

\* expand_from: children one segment longer, until the frontier is full.
Expand(queue, recipe) ==
    queue \o [n \in 1 .. Min({Branching, MaxFrontier - Len(queue)}) |-> recipe + 1]

\* process_result: the run is counted, its discoveries registered, and a
\* productive one expanded once.  A failure only adds to the statistics.
ProcessResult(recipe, events, lost) ==
    /\ timelines' = timelines + 1
    /\ LET all == RegisterAll(known, events, recipe)
           expands == events # {} /\ recipe < MaxRecipe
           visited == IF expands THEN Position(all, Anchor(events).state) ELSE {}
       IN /\ known' = [n \in DOMAIN all |->
                        IF n \in visited THEN [all[n] EXCEPT !.visits = @ + 1] ELSE all[n]]
          /\ frontier' = IF expands THEN Expand(frontier, recipe) ELSE frontier
          /\ missed' = missed \cup lost \cup {id \in States(events) : Position(all, id) = {}}

Deepest(s) == Max(Range(s.exemplars))

\* The key schedule_continuations minimises: visits weighted by depth, progress
\* first, deeper first, then the order of registration.
Sooner(a, b) ==
    LET Key(n) == <<known[n].visits \div (Deepest(known[n]) + 1),
                    IF known[n].progress THEN 0 ELSE 1,
                    MaxRecipe - Deepest(known[n]), n>>
    IN \E k \in 1 .. 4 : /\ Key(a)[k] < Key(b)[k]
                         /\ \A l \in 1 .. k - 1 : Key(a)[l] = Key(b)[l]

\* The exemplars of a state that may still grow, by position.
Eligible(n) == {k \in DOMAIN known[n].exemplars : known[n].exemplars[k] < MaxRecipe}
Candidates == {n \in DOMAIN known : Eligible(n) # {}}

\* schedule_continuations: a batch from the most promising state, whose eligible
\* exemplars take turns.
ScheduleContinuations ==
    \E n \in Candidates :
        /\ \A other \in Candidates \ {n} : Sooner(n, other)
        /\ round' = round + 1
        /\ known' = [known EXCEPT ![n].visits = @ + 1]
        /\ \E k \in Eligible(n) :
            /\ Cardinality({j \in Eligible(n) : j < k}) = round' % Cardinality(Eligible(n))
            /\ frontier' = Expand(frontier, known[n].exemplars[k])

----------------------------------------------------------------------------
(* The controller's loop, one iteration a step.                            *)

\* begin_run in process p: an empty journal.
BeginRun(p) ==
    /\ running' = running \cup {p}
    /\ at' = [at EXCEPT ![p] = Idle(0)]
    /\ journal' = [journal EXCEPT ![p] = {}]
    /\ UNCHANGED <<program, next, dropped, table, owed, novelty>>

\* A run in the controller's own process ended: the root, or a job it could
\* not fork for.
EndInProcess ==
    /\ ctl \in {"root", "inProcess"}
    /\ at[Controller].pc = "idle"
    /\ ctl' = "loop"
    /\ started' = IF ctl = "root" THEN started + 1 ELSE started
    /\ job' = 0
    /\ ProcessResult(job, journal[Controller], {})
    /\ journal' = [journal EXCEPT ![Controller] = {}]
    /\ running' = running \ {Controller}
    /\ at' = [at EXCEPT ![Controller] = Idle(0)]
    /\ UNCHANGED <<program, next, dropped, table, owed, firsts,
                   round, active, free, slot, status>>

Looping == ctl = "loop" /\ started < program.runs

\* The pool has no slot to give.
PoolFull == Workers > 0 /\ free = <<>>

\* The slot at the top of the free list, and the list without it.
TopSlot == free[Len(free)]
OtherSlots == SubSeq(free, 1, Len(free) - 1)

\* A process the kernel may give the next worker.
NewPid == CHOOSE p \in Pids : p \notin DOMAIN active

\* Mutant: the result slot keeps what its last worker wrote.
ForkUncleared ==
    /\ Looping /\ frontier # <<>> /\ free # <<>>
    /\ frontier' = Tail(frontier)
    /\ started' = started + 1
    /\ active' = [p \in DOMAIN active \cup {NewPid} |->
                    IF p = NewPid THEN [slot |-> TopSlot, job |-> Head(frontier)] ELSE active[p]]
    /\ free' = OtherSlots
    /\ status' = [status EXCEPT ![NewPid] = "running"]
    /\ BeginRun(NewPid)
    /\ UNCHANGED <<ctl, job, known, round, timelines, slot>>

\* spawn_worker: a cleared slot and a child that starts its timeline.
Fork ==
    /\ Looping /\ frontier # <<>> /\ free # <<>>
    /\ frontier' = Tail(frontier)
    /\ started' = started + 1
    /\ active' = [p \in DOMAIN active \cup {NewPid} |->
                    IF p = NewPid THEN [slot |-> TopSlot, job |-> Head(frontier)] ELSE active[p]]
    /\ free' = OtherSlots
    /\ slot' = [slot EXCEPT ![TopSlot] = {}]
    /\ status' = [status EXCEPT ![NewPid] = "running"]
    /\ BeginRun(NewPid)
    /\ UNCHANGED <<ctl, job, known, round, timelines>>

\* There are no workers, or fork failed: the job runs in the controller.
RunInProcess ==
    /\ Looping /\ frontier # <<>> /\ ~PoolFull
    /\ frontier' = Tail(frontier)
    /\ started' = started + 1
    /\ ctl' = "inProcess"
    /\ job' = Head(frontier)
    /\ slot' = IF Workers = 0 THEN slot ELSE [slot EXCEPT ![TopSlot] = {}]
    /\ BeginRun(Controller)
    /\ UNCHANGED <<known, round, timelines, active, free, status>>

Continue ==
    /\ Looping /\ frontier = <<>> /\ DOMAIN active = {}
    /\ IF Candidates # {} THEN ScheduleContinuations /\ UNCHANGED ctl
       ELSE ctl' = "drain" /\ UNCHANGED <<round, known, frontier>>
    /\ UNCHANGED <<tableVars, job, started, timelines, active, free, slot, status>>

BudgetSpent ==
    /\ ctl = "loop" /\ started >= program.runs
    /\ ctl' = "drain"
    /\ UNCHANGED <<tableVars, job, started, frontier, known, round, timelines,
                   active, free, slot, status>>

Drained ==
    /\ ctl = "drain" /\ DOMAIN active = {}
    /\ ctl' = "done"
    /\ UNCHANGED <<tableVars, job, started, frontier, known, round, timelines,
                   active, free, slot, status>>

----------------------------------------------------------------------------
(* Reaping: poll_active, then finish_worker.                               *)

Waits ==
    /\ DOMAIN active # {}
    /\ \/ ctl = "drain"
       \/ Looping /\ (frontier = <<>> \/ PoolFull)

FinishWorker(p, events, lost) ==
    /\ ProcessResult(active[p].job, events, lost)
    /\ active' = [q \in DOMAIN active \ {p} |-> active[q]]
    /\ free' = Append(free, active[p].slot)
    /\ status' = [status EXCEPT ![p] = "none"]
    /\ journal' = [journal EXCEPT ![p] = {}]
    /\ UNCHANGED <<ctl, job, started, round, slot>>

\* Mutant: a worker whose result is lost is forgotten.
ReapForgets(p) ==
    /\ Waits
    /\ p \in DOMAIN active
    /\ \/ status[p] = "ended" /\ FinishWorker(p, slot[active[p].slot], {})
       \/ /\ status[p] = "gone"
          /\ active' = [q \in DOMAIN active \ {p} |-> active[q]]
          /\ free' = Append(free, active[p].slot)
          /\ status' = [status EXCEPT ![p] = "none"]
          /\ UNCHANGED <<ctl, job, started, round, slot, journal, missed, known, frontier,
                         timelines>>
    /\ UNCHANGED <<program, next, dropped, table, at, running, owed, firsts>>

\* The worker exited, or somebody else reaped it and its result is lost.
Reap(p) ==
    /\ Waits
    /\ p \in DOMAIN active
    /\ status[p] \in {"ended", "gone"}
    /\ FinishWorker(p, IF status[p] = "gone" THEN {} ELSE slot[active[p].slot], {})
    /\ UNCHANGED <<program, next, dropped, table, at, running, owed, firsts>>

\* What dies with a process that has not written its result.
Unwritten(p) == IF status[p] = "running" THEN States(journal[p]) ELSE {}

\* Mutant: a killed worker is taken to have reported nothing.
KillSlowEmpty(p) ==
    /\ Waits
    /\ p \in DOMAIN active
    /\ status[p] \in {"running", "written"}
    /\ Vanishes({p})
    /\ FinishWorker(p, {}, Unwritten(p))
    /\ UNCHANGED <<program, next, dropped, table, firsts>>

\* The worker outlived the ceiling: it is killed, wherever it is, and reaped.
KillSlow(p) ==
    /\ Waits
    /\ p \in DOMAIN active
    /\ status[p] \in {"running", "written"}
    /\ Vanishes({p})
    /\ FinishWorker(p, slot[active[p].slot], Unwritten(p))
    /\ UNCHANGED <<program, next, dropped, table, firsts>>

\* The controller unwinds: its workers are killed and reaped.
Drop ==
    /\ ctl \notin {"done", "dropped"}
    /\ ctl' = "dropped"
    /\ Vanishes(DOMAIN active \cup {Controller})
    /\ active' = <<>>
    /\ status' = [p \in Procs |-> "none"]
    /\ UNCHANGED <<program, next, dropped, table, journal, novelty, job, started,
                   frontier, known, round, timelines, free, slot>>

----------------------------------------------------------------------------
(* A worker's process.                                                     *)

\* How a worker ended, well or with a failure or a crash, only adds to the
\* statistics; what it left in its slot is read in each case.

\* The timeline is over: the journal goes to the result slot.
WriteSlot(p) ==
    /\ status[p] = "running"
    /\ at[p].pc = "idle"
    /\ slot' = [slot EXCEPT ![active[p].slot] = journal[p]]
    /\ status' = [status EXCEPT ![p] = "written"]
    /\ running' = running \ {p}
    /\ at' = [at EXCEPT ![p] = Idle(0)]
    /\ UNCHANGED <<program, next, dropped, table, journal, owed, novelty, ctl, job,
                   started, frontier, known, round, timelines, active, free>>

Exit(p) ==
    /\ status[p] = "written"
    /\ status' = [status EXCEPT ![p] = "ended"]
    /\ UNCHANGED <<tableVars, ctl, job, started, frontier, known, round, timelines,
                   active, free, slot>>

\* A panic, an abort or a signal, at any point.
Crash(p) ==
    /\ status[p] \in {"running", "written"}
    /\ status' = [status EXCEPT ![p] = "ended"]
    /\ Vanishes({p})
    /\ missed' = missed \cup Unwritten(p)
    /\ UNCHANGED <<program, next, dropped, table, journal, firsts, ctl, job, started,
                   frontier, known, round, timelines, active, free, slot>>

\* The embedding harness reaps a worker that ended.
ReapedElsewhere(p) ==
    /\ status[p] = "ended"
    /\ status' = [status EXCEPT ![p] = "gone"]
    /\ missed' = missed \cup States(slot[active[p].slot])
    /\ UNCHANGED <<program, next, dropped, table, at, journal, running, owed, firsts,
                   ctl, job, started, frontier, known, round, timelines, active, free, slot>>

TimelineStep(p) == p \in running /\ Step(p) /\ UNCHANGED explorerVars

ControllerStep ==
    \/ TimelineStep(Controller)
    \/ EndInProcess \/ Fork \/ RunInProcess \/ Continue \/ BudgetSpent \/ Drained
    \/ \E p \in Pids : Reap(p) \/ KillSlow(p)

WorkerStep(p) ==
    TimelineStep(p) \/ WriteSlot(p) \/ Exit(p) \/ Crash(p) \/ ReapedElsewhere(p)

Next == ControllerStep \/ Drop \/ \E p \in Pids : WorkerStep(p)

Spec == Init /\ [][Next]_vars /\ WF_vars(ControllerStep)

----------------------------------------------------------------------------
(* Properties.                                                             *)

\* A worker that did not get to write its result leaves an empty one: nothing
\* in a slot is an earlier worker's (clear_slot before fork, entries before
\* the length).
SlotIsOwn ==
    \A p \in DOMAIN active :
        slot[active[p].slot] # {} => status[p] # "running" /\ slot[active[p].slot] = journal[p]

\* Every run that started is processed once, whatever became of its worker
\* (process_result by reaping, killing, or running in process).
EveryRunProcessed ==
    ctl \notin {"root", "dropped"} =>
        started = timelines + Cardinality(DOMAIN active) + (IF ctl = "inProcess" THEN 1 ELSE 0)

\* Every run ends up in the books of the controller once, with its own result
\* and no other's, though workers crash, hang and are killed (clear_slot,
\* write_slot, finish_worker, poll_active).
RunsAccounted == ExplorerTypeOK /\ SlotIsOwn /\ EveryRunProcessed

\* An entry whose latch fired: nobody will signal it again.
Latched(e) ==
    /\ table[e].state = "ready"
    /\ \/ table[e].discovered
       \/ table[e].kind = "numeric" /\ table[e].best >= 0
       \/ table[e].kind = "all" /\ table[e].best > 0

\* The discovery behind a latch that fired is not lost between a worker's
\* journal, its slot and the controller: the controller knows the state, or
\* will when it reaps the worker, unless a process died with it or a table was
\* full (the latch never fires again, so nothing else would bring it).
NoveltyReachesController ==
    ctl # "dropped" => \A e \in Index : Latched(e) =>
        \/ \E n \in DOMAIN known : known[n].state = <<table[e].id, 0>>
        \/ \E p \in running : <<table[e].id, 0>> \in States(journal[p])
        \/ \E p \in DOMAIN active : <<table[e].id, 0>> \in States(slot[active[p].slot])
        \/ <<table[e].id, 0>> \in missed

\* Exploration ends although workers may hang, crash in the middle of a claim,
\* or be reaped by somebody else (the ceiling on a worker, the bounded wait for
\* an entry, the run budget).
ExplorationEnds == <>(ctl \in {"done", "dropped"})
=============================================================================
