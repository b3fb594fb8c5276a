------------------------- MODULE ExplorerInvariant --------------------------
(***************************************************************************)
(* The inductive invariant of the exploration controller, its workers and  *)
(* the assertion tables they share, and the facts about their steps that   *)
(* ExplorerProofs states and proves.                                       *)
(***************************************************************************)
EXTENDS Explorer

-----------------------------------------------------------------------------
(* The inductive invariant: types.                                         *)

Kinds == {"always", "sometimes", "numeric", "all", "each"}
Sites == UNION {g.sites : g \in Programs}
NoSite == [id |-> NoId, kind |-> "none"]

Event == [state : Ids \X (0 .. 3), rank : 0 .. 2, count : Nat, place : Nat]
Entry == [state : {"unused", "initializing", "ready"}, id : Ids \cup {NoId},
          kind : Kinds \cup {"none"}, count : Nat, best : Int, seen : SUBSET (0 .. 3),
          discovered : BOOLEAN, conflicted : BOOLEAN]
Place == [pc : {"idle", "find", "await", "full", "mark", "marked", "check", "release",
                "awaitWinner", "publish", "record", "measure", "latch"},
          site : Sites \cup {NoSite}, value : 0 .. 3, i : 0 .. program.capacity,
          count : 0 .. program.capacity, mine : Index, news : BOOLEAN, known : BOOLEAN,
          done : Nat]
Tracked == [state : Ids \X (0 .. 3), progress : BOOLEAN, visits : Nat,
            exemplars : Seq(0 .. MaxRecipe), oldest : Nat]

TableTyped ==
    /\ program \in Programs
    /\ next \in Nat
    /\ dropped \in Nat
    /\ owed \in Nat
    /\ table \in [Index -> Entry]
    /\ at \in [Procs -> Place]
    /\ \A p \in Procs : at[p].pc # "idle" => at[p].site \in Sites
    /\ running \in SUBSET Procs

ControllerTyped ==
    /\ ctl \in {"root", "loop", "inProcess", "drain", "done", "dropped"}
    /\ job \in 0 .. MaxRecipe
    /\ started \in 0 .. program.runs
    /\ frontier \in Seq(1 .. MaxRecipe)
    /\ Len(frontier) <= MaxFrontier
    /\ known \in Seq(Tracked)
    /\ Len(known) <= MaxStates
    /\ round \in Nat
    /\ timelines \in Nat

PoolTyped ==
    /\ DOMAIN active \subseteq Pids
    /\ \A p \in DOMAIN active : active[p].slot \in Slots /\ active[p].job \in 0 .. MaxRecipe
    /\ free \in Seq(Slots)
    /\ slot \in [Slots -> SUBSET Event]
    /\ \A s \in Slots : IsFiniteSet(slot[s])
    /\ status \in [Procs -> {"none", "running", "written", "ended", "gone"}]

-----------------------------------------------------------------------------
(* The inductive invariant: the tables.                                    *)

\* p owns the entry it took, uses a published one, or waits for one.
Owns(p) == at[p].pc \in {"mark", "marked", "check", "release", "publish"}
Uses(p) == at[p].pc \in {"record", "measure", "latch"}
Awaits(p) == at[p].pc \in {"await", "release", "awaitWinner"}

\* Who found the table full still has its fetch_add to take back.
Overdrawn == {p \in Procs : at[p].pc = "full"}
NextSound == Overdrawn = {} \/ next >= program.capacity + Cardinality(Overdrawn)

\* Nothing is claimed past the count.
ClaimedBelow ==
    /\ \A e \in Index : table[e].state # "unused" => e < next
    /\ \A p \in Procs : Owns(p) => at[p].mine < next
    /\ \A p \in Procs : Awaits(p) => at[p].i < next /\ at[p].i \in Index

\* An entry that is not published has no evaluations in it.
Unpublished == \A e \in Index : table[e].state # "ready" => table[e].count = 0

\* What the owner of an entry knows of it.
OwnedBy(p) ==
    /\ at[p].pc = "mark" => table[at[p].mine].state = "unused"
    /\ Owns(p) /\ at[p].pc # "mark" =>
        table[at[p].mine].state = "initializing" /\ table[at[p].mine].id = at[p].site.id
    /\ at[p].pc = "publish" =>
        /\ table[at[p].mine].kind = at[p].site.kind
        /\ ~table[at[p].mine].discovered
        /\ table[at[p].mine].best = IF at[p].site.kind = "numeric" THEN -1 ELSE 0
        /\ ~at[p].known
Owned == \A p \in Procs : OwnedBy(p)
Apart == \A p, q \in Procs : p # q /\ Owns(p) /\ Owns(q) => at[p].mine # at[q].mine

\* What the user of an entry knows of it.
UsedBy(p) ==
    Uses(p) => /\ table[at[p].mine].state = "ready"
               /\ table[at[p].mine].id = at[p].site.id
               /\ table[at[p].mine].kind = at[p].site.kind
               /\ at[p].pc = "measure" => at[p].site.kind \in {"all", "each"}
               /\ at[p].pc = "latch" => at[p].site.kind # "always"
Used == \A p \in Procs : UsedBy(p)

\* An entry somebody waits for is of the identity it looks for, or was given up
\* and is nobody's.
AwaitedBy(p) ==
    Awaits(p) => table[at[p].i].state = "unused" \/ table[at[p].i].id = at[p].site.id
Awaited == \A p \in Procs : AwaitedBy(p)
Unmarked == \A p, q \in Procs : Awaits(p) /\ at[q].pc = "mark" => at[q].mine # at[p].i

\* A published entry of the identity is still ahead of the second search.
WillMeet(p) ==
    \E e \in Ready(at[p].site.id) : at[p].pc = "check" => at[p].i <= e /\ e < at[p].count
AheadOf(p) == at[p].known /\ at[p].pc \in {"marked", "check"} => WillMeet(p)
Ahead == \A p \in Procs : AheadOf(p)

\* The events of a journal are of different evaluations, all of them past.
JournalOf(p) ==
    /\ journal[p] \in SUBSET Event
    /\ IsFiniteSet(journal[p])
    /\ Cardinality(journal[p]) <= MaxJournal
    /\ \A a, b \in journal[p] : a.count = b.count => a = b
    /\ p \in running => \A a \in journal[p] : a.count < at[p].done
Journals == journal \in [Procs -> SUBSET Event] /\ \A p \in Procs : JournalOf(p)

TableInv ==
    /\ TableTyped /\ NextSound /\ ClaimedBelow /\ Unpublished /\ Owned /\ Apart
    /\ Used /\ Awaited /\ Unmarked /\ Ahead /\ Journals /\ NothingLost

-----------------------------------------------------------------------------
(* The inductive invariant: the controller and its pool.                   *)

\* A slot is free or one worker's.
SlotsApart ==
    /\ \A m, n \in DOMAIN free : free[m] = free[n] => m = n
    /\ \A p, q \in DOMAIN active : active[p].slot = active[q].slot => p = q
    /\ \A p \in DOMAIN active : \A n \in DOMAIN free : free[n] # active[p].slot
    /\ ctl # "dropped" => Cardinality(DOMAIN active) + Len(free) = Workers

\* Who runs a timeline: live workers that did not write their result, and the
\* controller in a run of its own.  The others evaluate nothing.
Runners ==
    /\ \A p \in Procs : status[p] = "none" <=> p \notin DOMAIN active
    /\ \A p \in Pids : p \in running <=> status[p] = "running"
    /\ Controller \in running <=> ctl \in {"root", "inProcess"}
    /\ \A p \in Procs \ running : at[p].pc = "idle"

RootFirst == ctl = "root" => started = 0 /\ timelines = 0 /\ DOMAIN active = {}

\* What somebody else reaped is known to be lost.
GoneMissed == \A p \in DOMAIN active :
    status[p] = "gone" => States(slot[active[p].slot]) \subseteq missed

PoolInv ==
    /\ ControllerTyped /\ PoolTyped /\ SlotsApart /\ Runners /\ RootFirst
    /\ SlotIsOwn /\ EveryRunProcessed /\ GoneMissed

IInv == TableInv /\ PoolInv /\ NoveltyReachesController

-----------------------------------------------------------------------------
(* What a step of a process, of the controller or of its pool does.        *)

Pcs == {"idle", "find", "await", "full", "mark", "marked", "check", "release",
        "awaitWinner", "publish", "record", "measure", "latch"}

OthersStay(p) == \A q \in Procs : q # p => at'[q] = at[q]

\* What a process carries through an evaluation.
SameWork(p) == /\ at'[p].site = at[p].site
               /\ at'[p].value = at[p].value
               /\ at'[p].done = at[p].done
               /\ at'[p].count = at[p].count

\* Published entries stay what they are; the others' entries are left alone; no
\* entry is given an identity but the one p marks.
ReadyStays ==
    \A e \in Index : table[e].state = "ready" =>
        table'[e].state = "ready" /\ table'[e].id = table[e].id /\ table'[e].kind = table[e].kind
OwnedStay(p) ==
    \A q \in Procs : q # p /\ Owns(q) => table'[at[q].mine] = table[at[q].mine]
IdsStay(p) ==
    \A e \in Index : \/ table'[e].state = "unused"
                     \/ table[e].state # "unused" /\ table'[e].id = table[e].id
                     \/ at[p].pc = "mark" /\ at[p].mine = e
NoStrayCount == \A e \in Index : table'[e].state # "ready" => table'[e].count = 0
TableKept(p) ==
    /\ table' \in [Index -> Entry]
    /\ ReadyStays /\ OwnedStay(p) /\ IdsStay(p) /\ NoStrayCount

\* What p is left with.
Placed(p) ==
    /\ at'[p].pc # "idle" => at'[p].site \in Sites
    /\ Owns(p)' => /\ at'[p].mine < next'
                   /\ \A q \in Procs : q # p /\ Owns(q) => at[q].mine # at'[p].mine
    /\ Awaits(p)' => /\ at'[p].i < next' /\ at'[p].i \in Index
                     /\ \A q \in Procs : q # p /\ at[q].pc = "mark" => at[q].mine # at'[p].i
    /\ at'[p].pc = "mark" =>
        \A q \in Procs : q # p /\ Awaits(q) => at'[p].mine # at[q].i
    /\ OwnedBy(p)' /\ UsedBy(p)' /\ AwaitedBy(p)' /\ AheadOf(p)'

\* The count never falls below an entry that was claimed.
NextKept == \A e \in Index : e < next => e < next'

\* The claims of all processes, together.
ClaimsInv ==
    /\ ClaimedBelow /\ Unpublished /\ Owned /\ Apart /\ Used /\ Awaited /\ Unmarked /\ Ahead

Takes(p, pc, e) == at' = [at EXCEPT ![p].pc = pc, ![p].mine = e]
Searches(p, pc, n) == at' = [at EXCEPT ![p].pc = pc, ![p].i = 0, ![p].count = n]
Marks(p, pc, b) == at' = [at EXCEPT ![p].pc = pc, ![p].known = b]
Measures(p, pc, b) == at' = [at EXCEPT ![p].pc = pc, ![p].news = b]

\* What every step of p leaves sound.
StepSound(p) ==
    /\ program' = program /\ running' = running
    /\ at' \in [Procs -> Place] /\ OthersStay(p)
    /\ next' \in Nat /\ dropped' \in Nat
    /\ TableKept(p) /\ NextKept /\ Placed(p)

\* No count, and no latch, changes.
SameCounts == \A e \in Index : table'[e].count = table[e].count
Fired(x) == /\ x.state = "ready"
            /\ \/ x.discovered
               \/ x.kind = "numeric" /\ x.best >= 0
               \/ x.kind = "all" /\ x.best > 0
NoneFires == \A e \in Index : Fired(table'[e]) => Fired(table[e]) /\ table'[e].id = table[e].id

\* The entry p uses gets one evaluation more.
OneMore(p) ==
    /\ table'[at[p].mine].count = table[at[p].mine].count + 1
    /\ \A e \in Index : e # at[p].mine => table'[e].count = table[e].count

\* What the hook is told.
Discoveries == {"watermark", "frontier", "quality", "bucket", "combination", "first"}

\* The hook is told of state s, and no latch fired but for it.
Tells(p, k, s) ==
    /\ OnDiscovery(p, k, s)
    /\ \A e \in Index : Fired(table'[e]) =>
        (Fired(table[e]) /\ table'[e].id = table[e].id) \/ s = <<table'[e].id, 0>>
Told(p) == \/ NoneFires /\ UNCHANGED <<journal, missed>>
           \/ \E k \in Discoveries, s \in Ids \X (0 .. 3) : Tells(p, k, s)

Busy == {p \in Procs : InFlight(p)}
Total == SumFunctionOnSet([e \in Index |-> table[e].count], Index)

\* The ways a step may change the books.
Counts(p) ==
    \/ SameCounts /\ owed' = owed /\ dropped' = dropped /\ (InFlight(p) <=> InFlight(p)')
    \/ SameCounts /\ owed' = owed + 1 /\ dropped' = dropped /\ ~InFlight(p) /\ InFlight(p)'
    \/ SameCounts /\ owed' = owed - 1 /\ dropped' = dropped /\ InFlight(p) /\ ~InFlight(p)'
    \/ SameCounts /\ owed' = owed /\ dropped' = dropped + 1 /\ InFlight(p) /\ ~InFlight(p)'
    \/ OneMore(p) /\ owed' = owed /\ dropped' = dropped /\ InFlight(p) /\ ~InFlight(p)'

\* What a step does to the journals: nothing, or it tells the hook of something.
Reports(p) ==
    \/ /\ NoneFires /\ UNCHANGED <<journal, missed>>
       /\ at'[p].done = at[p].done \/ at'[p].done = at[p].done + 1
    \/ /\ at'[p].done = at[p].done + 1
       /\ \E k \in Discoveries, s \in Ids \X (0 .. 3) : Tells(p, k, s)

\* Every step of an evaluation keeps the claims, the count and the books.
StepKeeps(p) == StepSound(p) /\ Counts(p) /\ NextSound' /\ Reports(p)

\* A journal is bounded, and its events are of different evaluations.
Bounded(events) ==
    /\ events \in SUBSET Event
    /\ IsFiniteSet(events)
    /\ Cardinality(events) <= MaxJournal
    /\ \A a, b \in events : a.count = b.count => a = b

\* A state the controller knows, will be told of, or that is known to be lost.
Heard(s) ==
    \/ \E n \in DOMAIN known : known[n].state = s
    \/ \E p \in running : s \in States(journal[p])
    \/ \E p \in DOMAIN active : s \in States(slot[active[p].slot])
    \/ s \in missed

\* Where the processes of dead go, and what dies with them.
Leaves(dead) ==
    /\ UNCHANGED <<program, next, dropped, table>>
    /\ at' = [p \in Procs |-> IF p \in dead THEN Idle(0) ELSE at[p]]
    /\ owed' = owed - Cardinality({p \in dead : InFlight(p)})

\* A states table that has grown: every state in it is still there.
Grown(after, before) ==
    /\ after \in Seq(Tracked) /\ Len(after) <= MaxStates
    /\ \A n \in DOMAIN before : n \in DOMAIN after /\ after[n].state = before[n].state

\* One exemplar more for a state: appended, or in the place of the oldest.
WithExemplar(s, event, recipe) ==
    [s EXCEPT !.progress = @ \/ event.rank = 2,
              !.exemplars = IF Len(@) < MaxExemplars THEN Append(@, recipe)
                            ELSE [@ EXCEPT ![(s.oldest % MaxExemplars) + 1] = recipe],
              !.oldest = IF Len(s.exemplars) < MaxExemplars THEN @ ELSE @ + 1]

\* The recursion of RegisterAll, on the sets of a family.
Registers(g, family, states, recipe) ==
    g = [some \in family |->
            IF some = {} THEN states
            ELSE Register(g[some \ {Latest(some)}], Latest(some), recipe)]

\* process_result: the run is counted, and of what it found nothing is lost.
Processed(events, lost) ==
    /\ timelines' = timelines + 1
    /\ Grown(known', known)
    /\ frontier' \in Seq(1 .. MaxRecipe) /\ Len(frontier') <= MaxFrontier
    /\ missed \subseteq missed' /\ lost \subseteq missed'
    /\ \A id \in States(events) : (\E n \in DOMAIN known' : known'[n].state = id) \/ id \in missed'

\* t is s with x at its end.
Pushed(t, s, x, S) ==
    /\ t \in Seq(S) /\ Len(t) = Len(s) + 1 /\ Len(s) \in Nat
    /\ DOMAIN t = DOMAIN s \cup {Len(s) + 1} /\ Len(s) + 1 \notin DOMAIN s
    /\ t[Len(s) + 1] = x /\ \A n \in DOMAIN s : t[n] = s[n]

-----------------------------------------------------------------------------
(* What the lemmas about single steps establish.                           *)

\* Two finite sets that differ in x at most differ in their size by it.
CountsMove(S, T, x) ==
    /\ IsFiniteSet(T) /\ Cardinality(S) \in Nat /\ Cardinality(T) \in Nat
    /\ x \in S /\ x \notin T => Cardinality(S) = Cardinality(T) + 1
    /\ x \notin S /\ x \in T => Cardinality(T) = Cardinality(S) + 1
    /\ (x \in S <=> x \in T) => T = S

\* The fields of where p is.
PlaceTyped(p) ==
    /\ at[p].pc \in Pcs
    /\ at[p].site \in Sites \cup {NoSite}
    /\ at[p].value \in 0 .. 3
    /\ at[p].i \in 0 .. program.capacity
    /\ at[p].count \in 0 .. program.capacity
    /\ at[p].mine \in Index
    /\ at[p].news \in BOOLEAN
    /\ at[p].known \in BOOLEAN
    /\ at[p].done \in Nat
    /\ at[p].pc # "idle" => at[p].site \in Sites

\* The fields of the entry e.
EntryTyped(e) ==
    /\ table[e].state \in {"unused", "initializing", "ready"}
    /\ table[e].id \in Ids \cup {NoId}
    /\ table[e].kind \in Kinds \cup {"none"}
    /\ table[e].count \in Nat
    /\ table[e].best \in Int
    /\ table[e].seen \in SUBSET (0 .. 3)
    /\ table[e].discovered \in BOOLEAN
    /\ table[e].conflicted \in BOOLEAN

\* What the programs of a configuration have in common.
ProgramSound ==
    /\ program.capacity \in Nat /\ program.capacity >= 1
    /\ program.runs \in Nat /\ program.runs >= 1
    /\ program.length \in Nat
    /\ program.values \subseteq 0 .. 3
    /\ program.sites \subseteq Sites
    /\ MaxJournal \in Nat /\ MaxJournal >= 1
    /\ 0 \in Index
    /\ IsFiniteSet(Index)

\* A step of p that changes nothing but where it is.
Moves(p, pc) ==
    /\ at' \in [Procs -> Place] /\ OthersStay(p)
    /\ at'[p].pc = pc
    /\ at'[p].mine = at[p].mine /\ at'[p].i = at[p].i
    /\ at'[p].known = at[p].known /\ at'[p].news = at[p].news
    /\ SameWork(p)

\* A step of p that ends its evaluation.
Finishes(p) ==
    /\ at' \in [Procs -> Place] /\ OthersStay(p)
    /\ at'[p].pc = "idle" /\ at'[p].done = at[p].done + 1

\* A step of p that moves it to pc, with these fields, in the same evaluation.
Becomes(p, pc, i, n, e, news, has) ==
    /\ at' \in [Procs -> Place] /\ OthersStay(p)
    /\ at'[p].pc = pc
    /\ at'[p].site = at[p].site
    /\ at'[p].value = at[p].value
    /\ at'[p].i = i
    /\ at'[p].count = n
    /\ at'[p].mine = e
    /\ at'[p].news = news
    /\ at'[p].known = has
    /\ at'[p].done = at[p].done

\* The parts of the invariant of the tables, and what they say of p.
TableParts(p) ==
    /\ TableTyped /\ ClaimedBelow /\ Unpublished /\ Owned /\ Apart /\ Used /\ Awaited
    /\ Unmarked /\ Ahead /\ NextSound
    /\ OwnedBy(p) /\ UsedBy(p) /\ AwaitedBy(p) /\ AheadOf(p)
    /\ next \in Nat /\ dropped \in Nat /\ owed \in Nat
    /\ table \in [Index -> Entry]

\* p takes the published entry, or finds it of another kind and leaves.
ClaimsWell(p) ==
    /\ StepSound(p) /\ NoneFires /\ SameCounts
    /\ \/ at'[p].pc = "record" /\ at'[p].done = at[p].done /\ owed' = owed
       \/ at'[p].pc = "idle" /\ at'[p].done = at[p].done + 1 /\ owed' = owed - 1

\* p drops its evaluation.
GivesUpWell(p) ==
    /\ StepSound(p) /\ NoneFires /\ SameCounts
    /\ at'[p].pc = "idle" /\ at'[p].done = at[p].done + 1
    /\ dropped' = dropped + 1 /\ owed' = owed

\* p goes on with the entry it waited for, searches on, or leaves.
AwaitsWell(p) ==
    /\ StepSound(p) /\ NoneFires /\ SameCounts
    /\ \/ at'[p].pc \in {"record", "find"} /\ at'[p].done = at[p].done
          /\ UNCHANGED <<dropped, owed>>
       \/ at'[p].pc = "idle" /\ at'[p].done = at[p].done + 1
          /\ \/ dropped' = dropped + 1 /\ owed' = owed
             \/ dropped' = dropped /\ owed' = owed - 1

\* p goes on with the entry of who came first, or leaves.
AwaitsWinnerWell(p) ==
    /\ StepSound(p) /\ NoneFires /\ SameCounts
    /\ \/ at'[p].pc = "record" /\ at'[p].done = at[p].done /\ UNCHANGED <<dropped, owed>>
       \/ at'[p].pc = "idle" /\ at'[p].done = at[p].done + 1
          /\ \/ dropped' = dropped + 1 /\ owed' = owed
             \/ dropped' = dropped /\ owed' = owed - 1

\* The count is ahead of the capacity by those who have to take theirs back.
OverdrawnCounted ==
    /\ IsFiniteSet(Overdrawn) /\ Cardinality(Overdrawn) \in Nat
    /\ Overdrawn # {} => Cardinality(Overdrawn) >= 1 /\ next >= program.capacity + Cardinality(Overdrawn)

\* p has a slot of its own, or found the table full.
TakesIndexWell(p) ==
    /\ StepSound(p) /\ at'[p].done = at[p].done /\ next' = next + 1
    /\ \/ at'[p].pc = "mark" /\ next < program.capacity
       \/ at'[p].pc = "full" /\ next >= program.capacity

\* p takes its count back and drops its evaluation.
TakesBackWell(p) ==
    /\ StepSound(p) /\ next' = next - 1 /\ dropped' = dropped + 1
    /\ at'[p].pc = "idle" /\ at'[p].done = at[p].done + 1

\* A step of p to pc that fires nothing, counts nothing and ends no evaluation.
StepsTo(p, pc) ==
    StepSound(p) /\ NoneFires /\ SameCounts /\ at'[p].pc = pc /\ at'[p].done = at[p].done

\* An initialized entry: the identity it had, the kind of the site, no evaluation.
InitializedWell(e, site) ==
    /\ Initialized(e, site) \in Entry
    /\ Initialized(e, site).state = e.state /\ Initialized(e, site).id = e.id
    /\ Initialized(e, site).count = 0 /\ Initialized(e, site).kind = site.kind
    /\ Initialized(e, site).discovered = FALSE
    /\ Initialized(e, site).best = IF site.kind = "numeric" THEN -1 ELSE 0

\* What the user of an entry relies on.
UserParts(p) ==
    /\ TableTyped /\ next \in Nat /\ dropped \in Nat
    /\ at[p].mine \in Index /\ table[at[p].mine] \in Entry
    /\ table[at[p].mine].state = "ready"
    /\ table[at[p].mine].id = at[p].site.id
    /\ table[at[p].mine].kind = at[p].site.kind
    /\ at[p].pc = "measure" => at[p].site.kind \in {"all", "each"}
    /\ at[p].pc = "latch" => at[p].site.kind # "always"
    /\ at[p].site \in Sites /\ at[p].site.kind \in Kinds /\ at[p].site.id \in Ids
    /\ at[p].value \in 0 .. 3 /\ at[p].done \in Nat

\* p counts its evaluation, and goes on or is done with it.
RecordsWell(p) ==
    /\ StepSound(p) /\ NoneFires /\ OneMore(p)
    /\ \/ at'[p].pc \in {"measure", "latch"} /\ at'[p].done = at[p].done
       \/ at'[p].pc = "idle" /\ at'[p].done = at[p].done + 1

\* p ends its evaluation, and tells what it discovered.
LatchesWell(p) ==
    /\ StepSound(p) /\ SameCounts /\ Told(p)
    /\ at'[p].pc = "idle" /\ at'[p].done = at[p].done + 1

\* How a step of p changes the number of evaluations in flight and of counts to
\* take back.
CrowdMoved(p) ==
    /\ Cardinality(Busy) \in Nat /\ Cardinality(Busy') \in Nat
    /\ InFlight(p) /\ ~InFlight(p)' => Cardinality(Busy) = Cardinality(Busy') + 1
    /\ ~InFlight(p) /\ InFlight(p)' => Cardinality(Busy') = Cardinality(Busy) + 1
    /\ (InFlight(p) <=> InFlight(p)') => Busy' = Busy
    /\ Cardinality(Overdrawn) \in Nat /\ Cardinality(Overdrawn') \in Nat
    /\ at[p].pc = "full" /\ at'[p].pc # "full" =>
         Cardinality(Overdrawn) = Cardinality(Overdrawn') + 1
    /\ at[p].pc # "full" /\ at'[p].pc = "full" =>
         Cardinality(Overdrawn') = Cardinality(Overdrawn) + 1
    /\ at[p].pc # "full" /\ at'[p].pc # "full" => Overdrawn' = Overdrawn

\* The fields of an event.
EventTyped(a) ==
    /\ a.state \in Ids \X (0 .. 3) /\ a.rank \in Nat /\ a.rank \in 0 .. 2 /\ a.count \in Nat
    /\ a.place \in Nat

\* The journal with the new event is within its bound and holds no other event.
RecordsEvent(events, new) ==
    /\ Bounded(Record(events, new))
    /\ \A a \in Record(events, new) : a \in events \/ a.count = new.count

\* The journals are sound, and the state s is in the one of p or known to be lost.
Reported(p, s) ==
    /\ Journals'
    /\ \A q \in Procs : q # p => journal'[q] = journal[q]
    /\ missed \subseteq missed'
    /\ States(journal[p]) \subseteq States(journal'[p]) \cup missed'
    /\ s \in States(journal'[p]) \cup missed'

\* The fields of a tracked state.
TrackedTyped(s) ==
    /\ s.state \in Ids \X (0 .. 3) /\ s.progress \in BOOLEAN /\ s.visits \in Nat
    /\ s.exemplars \in Seq(0 .. MaxRecipe) /\ s.oldest \in Nat

\* A sequence over S is a function from 1 .. n.
SeqIsFunction(S) ==
    /\ \A q \in Seq(S) : Len(q) \in Nat /\ DOMAIN q = 1 .. Len(q) /\ q \in [1 .. Len(q) -> S]
    /\ \A n \in Nat : \A f \in [1 .. n -> S] : f \in Seq(S) /\ Len(f) = n /\ DOMAIN f = 1 .. n

\* The known states grow, the frontier stays within its bound.
SchedulesWell ==
    /\ round' \in Nat /\ Grown(known', known)
    /\ frontier' \in Seq(1 .. MaxRecipe) /\ Len(frontier') <= MaxFrontier

\* What the books of the pool say of its workers.
PoolSound ==
    /\ IsFiniteSet(DOMAIN active) /\ Cardinality(DOMAIN active) \in Nat
    /\ \A p \in DOMAIN active :
         /\ p \in Pids /\ p \in Procs /\ p # Controller
         /\ active[p].slot \in Slots /\ active[p].job \in 0 .. MaxRecipe
         /\ slot[active[p].slot] \in SUBSET Event /\ IsFiniteSet(slot[active[p].slot])
         /\ status[p] # "none"
         /\ p \in running <=> status[p] = "running"
    /\ \A p \in Pids : p \in Procs /\ p # Controller
    /\ \A p \in Procs : status[p] # "none" => p \in DOMAIN active
    /\ Controller \in Procs /\ Controller \notin DOMAIN active
    /\ \A p \in running : p \in Procs
    /\ program.runs \in Nat /\ program.runs >= 1

\* The parts of the invariant.
Parts ==
    /\ TableInv /\ PoolInv /\ NoveltyReachesController /\ TableTyped /\ Journals
    /\ ControllerTyped /\ PoolTyped /\ SlotsApart /\ Runners /\ RootFirst /\ SlotIsOwn
    /\ EveryRunProcessed /\ GoneMissed

\* Only the status of p moves.
StatusMoved(p, st) ==
    /\ Runners' /\ status' \in [Procs -> {"none", "running", "written", "ended", "gone"}]
    /\ status'[p] = st /\ \A q \in Procs : q # p => status'[q] = status[q]

\* The slot on top is free, and not among the others.
TopIsFree ==
    /\ Len(free) \in Nat /\ Len(free) >= 1
    /\ TopSlot \in Slots
    /\ OtherSlots \in Seq(Slots) /\ Len(OtherSlots) = Len(free) - 1
    /\ \A n \in DOMAIN OtherSlots : n \in DOMAIN free /\ OtherSlots[n] = free[n] /\ free[n] # TopSlot
    /\ \A p \in DOMAIN active : active[p].slot # TopSlot

\* The new worker is nobody that runs.
NewPidIsFresh ==
    /\ NewPid \in Pids /\ NewPid \in Procs /\ NewPid \notin DOMAIN active /\ NewPid # Controller
    /\ NewPid \notin running /\ at[NewPid].pc = "idle"

\* p, and nobody else, starts a timeline.
RunBegins(p) ==
    /\ TableInv' /\ NoneFires /\ program' = program /\ missed' = missed
    /\ running' = running \cup {p} /\ at'[p].pc = "idle"
    /\ \A q \in Procs : q # p => at'[q] = at[q] /\ journal'[q] = journal[q]

\* One start more, within the bounds of the run.
PopsWell ==
    /\ frontier' \in Seq(1 .. MaxRecipe) /\ Len(frontier') <= MaxFrontier
    /\ Head(frontier) \in 0 .. MaxRecipe
    /\ started' \in 0 .. program.runs
    /\ started = timelines + Cardinality(DOMAIN active)
    /\ started \in Nat /\ timelines \in Nat
    /\ Controller \notin running /\ at[Controller].pc = "idle"

\* How p moves the count: not, by one below the capacity or above it, or back.
NextMoves(p) ==
    \/ at[p].pc # "full" /\ at'[p].pc # "full" /\ next' = next
    \/ at[p].pc # "full" /\ at'[p].pc # "full" /\ next < program.capacity /\ next' = next + 1
    \/ at[p].pc # "full" /\ at'[p].pc = "full" /\ next >= program.capacity /\ next' = next + 1
    \/ at[p].pc = "full" /\ at'[p].pc # "full" /\ next' = next - 1

\* Every journal stays, or is emptied.
JournalsStay ==
    \A q \in Procs : \/ journal'[q] = {}
                     \/ /\ journal'[q] = journal[q]
                        /\ q \in running' => q \in running /\ at'[q] = at[q]

\* p ends, nobody else moves, and what it heard is among its events or known to be lost.
HandsIn(p, events, lost) ==
    /\ running' = running \ {p}
    /\ \A q \in Procs : q # p => at'[q] = at[q] /\ journal'[q] = journal[q]
    /\ at'[p].pc = "idle"
    /\ p \in running => States(journal[p]) \subseteq lost
    /\ States(slot[active[p].slot]) \subseteq States(events) \cup missed

-----------------------------------------------------------------------------
(* Sums over finite sets.                                                  *)

\* The element the fold takes next.
Pick(s) == CHOOSE x \in s : TRUE

\* The function the fold of SumFunctionOnSet builds, on the sets of a family.
IsSum(g, f, family) ==
    g = [s \in family |-> IF s = {} THEN 0 ELSE f[Pick(s)] + g[s \ {Pick(s)}]]

\* The finite sets of at most n of the elements of S.
AtMost(n, S) == {s \in SUBSET S : IsFiniteSet(s) /\ Cardinality(s) <= n}

\* f and e have the same terms on S; the terms of f are numbers.
SameTerms(f, e, S) == \A x \in S : f[x] = e[x]
NatTerms(f, S) == \A x \in S : f[x] \in Nat

\* Any element of a subset of S may be taken first.
Exchanges(g, f, S) ==
    \A s \in SUBSET S : g[s] \in Nat /\ \A x \in s : g[s] = f[x] + g[s \ {x}]

=============================================================================
