--------------------------- MODULE ExplorerProofs ---------------------------
(***************************************************************************)
(* Proofs about the exploration controller, its workers and the assertion  *)
(* tables they share, for any number of processes and entries, any set of  *)
(* programs and any bounds: evaluations are counted once, runs end up in   *)
(* the controller's books once, and no discovery is lost on its way to it. *)
(***************************************************************************)
EXTENDS ExplorerTableProofs

----------------------------------------------------------------------------
(* The arithmetic of the runs' counters, and facts about the bounds.       *)

\* The controller's books: the root run is the first of them.
LEMMA FirstRun == 0 + 1 = (0 + 1) + 0 + 0
BY SMT

\* A run that the controller ends in its own process.
LEMMA RunEnds == \A t, c \in Nat : t + c + 1 = (t + 1) + c + 0
BY SMT

\* A run that is started.
LEMMA RunStarts == \A t, c \in Nat : (t + c) + 1 = t + (c + 1) + 0
BY SMT

\* A run that a worker finishes.
LEMMA RunFinished == \A t, c, k \in Nat : t + (c + 1) + k = (t + 1) + c + k
BY SMT

\* Fewer than the workers are not as many as the processes.
LEMMA Room == \A a, b, c \in Nat : a < b /\ b <= c => a # c
BY SMT

\* A count other than zero.
LEMMA Positive == \A n \in Nat : n # 0 => n > 0
BY SMT

\* One more run stays within the bound.
LEMMA OneMoreRun ==
    /\ \A n \in Nat : \A k \in 0 .. n : k \in Nat /\ (k < n => k + 1 \in 0 .. n)
    /\ \A n \in Nat : n >= 1 => 0 + 1 \in 0 .. n
BY SMT

\* One job less stays within the bound of the frontier.
LEMMA OneJobLess ==
    /\ \A a, b \in Nat : a <= b => a - 1 <= b
    /\ \A n \in Nat : \A k \in 1 .. n : k \in 0 .. n
BY SMT

\* What fits into the room that is left fits.
LEMMA Fits == \A m, a, b \in Nat : b <= m - a => a + b <= m
BY SMT

\* A count is not at most itself less one.
LEMMA Shrinks == \A a, b \in Nat : ~(a <= b /\ b <= a - 1)
BY SMT

\* The free list starts with all slots, the last one first.
LEMMA Mirrored ==
    \A w \in Nat : /\ \A m \in 1 .. w : w - m \in 0 .. w - 1
                   /\ \A m, n \in 1 .. w : w - m = w - n => m = n
BY SMT

\* The empty sequence.
LEMMA EmptySequence == Len(<<>>) = 0 /\ DOMAIN <<>> = {} /\ \A S : <<>> \in Seq(S)
BY SMT

\* The number of workers.
LEMMA WorkersNat == Workers \in Nat /\ Workers <= Cardinality(Procs) - 1
<1>1. Cardinality(Procs) \in Nat
  BY ExplorerAssumption, FS_CardinalityType, Zenon
<1>2. \A n \in Nat : \A w \in 0 .. n - 1 : w \in Nat /\ w <= n - 1
  BY SMT
<1> QED
  BY <1>1, <1>2, ExplorerAssumption, Zenon

----------------------------------------------------------------------------
(* The policy: what a finished run adds to the states table and frontier.  *)

\* The fields of a tracked state.
LEMMA TrackedFields ==
    ASSUME NEW s \in Tracked
    PROVE  TrackedTyped(s)
BY ZenonT(60) DEF Tracked, TrackedTyped

\* A visit is counted in the record of a state.
LEMMA TrackedVisit ==
    ASSUME NEW s \in Tracked
    PROVE  [s EXCEPT !.visits = @ + 1] \in Tracked /\ [s EXCEPT !.visits = @ + 1].state = s.state
BY SMTT(60) DEF Tracked

\* The bounds of the configuration.
LEMMA Limits ==
    /\ Branching \in Nat /\ Branching >= 1 /\ MaxFrontier \in Nat /\ MaxFrontier >= 1
    /\ MaxRecipe \in Nat /\ MaxRecipe >= 1 /\ MaxStates \in Nat /\ MaxStates >= 1
    /\ MaxExemplars \in Nat /\ MaxExemplars >= 1
BY ExplorerAssumption, SMTT(60)

\* A sequence is a function on its positions.
LEMMA SeqAsFunction ==
    ASSUME NEW S
    PROVE  SeqIsFunction(S)
BY DEF SeqIsFunction

\* Registering an exemplar keeps the entry of its state (register_state).
LEMMA WithExemplarKeeps ==
    ASSUME NEW s \in Tracked, NEW event \in Event, NEW recipe \in 0 .. MaxRecipe
    PROVE  WithExemplar(s, event, recipe) \in Tracked /\ WithExemplar(s, event, recipe).state = s.state
<1> USE ZenonT(60)
<1> DEFINE pr == s.progress \/ event.rank = 2
           ex == IF Len(s.exemplars) < MaxExemplars THEN Append(s.exemplars, recipe)
                 ELSE [s.exemplars EXCEPT ![(s.oldest % MaxExemplars) + 1] = recipe]
           ol == IF Len(s.exemplars) < MaxExemplars THEN s.oldest ELSE s.oldest + 1
<1>1. s.exemplars \in Seq(0 .. MaxRecipe) /\ s.oldest \in Nat
  BY TrackedFields DEF TrackedTyped
<1>2. ol \in Nat
  BY <1>1, SMTT(60)
<1>3. ex \in Seq(0 .. MaxRecipe)
  <2>1. Append(s.exemplars, recipe) \in Seq(0 .. MaxRecipe)
    BY <1>1, SMTT(60)
  <2>2. ASSUME NEW i PROVE [s.exemplars EXCEPT ![i] = recipe] \in Seq(0 .. MaxRecipe)
    <3>1. s.exemplars \in [1 .. Len(s.exemplars) -> 0 .. MaxRecipe] /\ Len(s.exemplars) \in Nat
      BY <1>1, SeqAsFunction DEF SeqIsFunction
    <3>2. \A f, S : f \in [S -> 0 .. MaxRecipe] => [f EXCEPT ![i] = recipe] \in [S -> 0 .. MaxRecipe]
      OBVIOUS
    <3>3. \A n \in Nat : \A f \in [1 .. n -> 0 .. MaxRecipe] : f \in Seq(0 .. MaxRecipe)
      BY SeqAsFunction DEF SeqIsFunction
    <3> QED
      BY <3>1, <3>2, <3>3
  <2> QED
    BY <2>1, <2>2
<1>4. pr \in BOOLEAN
  BY ZenonT(60)
<1>5. WithExemplar(s, event, recipe) = [s EXCEPT !.progress = pr, !.exemplars = ex, !.oldest = ol]
  BY ZenonT(60) DEF WithExemplar, Tracked
<1> HIDE DEF pr, ex, ol
<1>6. [s EXCEPT !.progress = pr, !.exemplars = ex, !.oldest = ol] \in Tracked
  BY <1>2, <1>3, <1>4 DEF Tracked
<1>7. [s EXCEPT !.progress = pr, !.exemplars = ex, !.oldest = ol].state = s.state
  BY ZenonT(60) DEF Tracked
<1> QED
  BY <1>5, <1>6, <1>7

\* register_state keeps every state that is tracked.
LEMMA RegisterGrows ==
    ASSUME NEW states \in Seq(Tracked), Len(states) <= MaxStates, NEW event \in Event,
           NEW recipe \in 0 .. MaxRecipe
    PROVE  Grown(Register(states, event, recipe), states)
<1> USE ZenonT(60)
<1> DEFINE new == [state |-> event.state, progress |-> FALSE, visits |-> 0,
                   exemplars |-> <<>>, oldest |-> 0]
           all == IF Position(states, event.state) = {} /\ Len(states) < MaxStates
                  THEN Append(states, new) ELSE states
           r == [n \in DOMAIN all |-> IF all[n].state = event.state
                                      THEN WithExemplar(all[n], event, recipe) ELSE all[n]]
<1>1. Register(states, event, recipe) = r
  BY ZenonT(60) DEF Register, WithExemplar
<1>2. new \in Tracked
  BY EventFields, SMTT(60) DEF Tracked, EventTyped
<1> HIDE DEF new
<1>3. /\ all \in Seq(Tracked) /\ Len(all) <= MaxStates
      /\ \A n \in DOMAIN states : n \in DOMAIN all /\ all[n] = states[n]
  <2>1. CASE Position(states, event.state) = {} /\ Len(states) < MaxStates
    <3>1. all = Append(states, new)
      BY <2>1
    <3> QED
      BY <1>2, <2>1, <3>1, Limits, SMTT(60)
  <2>2. CASE ~(Position(states, event.state) = {} /\ Len(states) < MaxStates)
    BY <2>2
  <2> QED
    BY <2>1, <2>2
<1> HIDE DEF all
<1>4. DOMAIN all = 1 .. Len(all) /\ Len(all) \in Nat /\ \A n \in DOMAIN all : all[n] \in Tracked
  BY <1>3, SMTT(60)
<1>5. ASSUME NEW n \in DOMAIN all PROVE r[n] \in Tracked /\ r[n].state = all[n].state
  BY <1>4, WithExemplarKeeps
<1>6. r \in Seq(Tracked) /\ Len(r) = Len(all) /\ DOMAIN r = DOMAIN all
  <2>1. r \in [1 .. Len(all) -> Tracked]
    BY <1>4, <1>5, ZenonT(60)
  <2> HIDE DEF r
  <2> QED
    BY <1>4, <2>1, SMTT(60)
<1> HIDE DEF r
<1>7. Grown(r, states)
  BY <1>3, <1>5, <1>6 DEF Grown
<1> QED
  BY <1>1, <1>7

\* A journal that is not empty has a latest event.
LEMMA LatestIn ==
    ASSUME NEW events \in SUBSET Event, IsFiniteSet(events), events # {}
    PROVE  Latest(events) \in events
<1> USE ZenonT(60)
<1> DEFINE After(e) == {other \in events : other.place > e.place}
           sizes == {Cardinality(After(e)) : e \in events}
<1>1. \A e \in events : e.place \in Nat
  BY EventFields DEF EventTyped
<1>2. \A e \in events : IsFiniteSet(After(e)) /\ Cardinality(After(e)) \in Nat
  <2>1. \A e \in events : After(e) \in SUBSET events
    BY ZenonT(60)
  <2>2. \A T \in SUBSET events : IsFiniteSet(T) /\ Cardinality(T) \in Nat
    BY FS_Subset, FS_CardinalityType
  <2> QED
    BY <2>1, <2>2
<1>3. sizes \in SUBSET Nat /\ sizes # {}
  BY <1>2
<1>4. PICK m \in sizes : \A k \in sizes : m <= k
  BY <1>3, Smallest
<1>5. PICK e \in events : m = Cardinality(After(e))
  BY <1>4, ZenonT(60)
<1>6. ASSUME NEW other \in events, ~(other.place <= e.place) PROVE FALSE
  <2>1. After(other) \in SUBSET (After(e) \ {other}) /\ other \in After(e)
    BY <1>1, <1>6, SMTT(60)
  <2>2. Cardinality(After(e)) <= Cardinality(After(other))
    BY <1>4, <1>5
  <2> HIDE DEF After
  <2>3. IsFiniteSet(After(e) \ {other}) /\ Cardinality(After(e) \ {other}) = Cardinality(After(e)) - 1
    BY <1>2, <2>1, FS_RemoveElement, ZenonT(60)
  <2>4. Cardinality(After(other)) <= Cardinality(After(e) \ {other})
    BY <2>1, <2>3, FS_Subset
  <2>5. Cardinality(After(other)) <= Cardinality(After(e)) - 1
    BY <2>3, <2>4
  <2> QED
    BY <1>2, <2>2, <2>5, Shrinks
<1> QED
  BY <1>6 DEF Latest

\* It has a solution, for every bound on the number of events.
LEMMA RegistersExists ==
    ASSUME NEW events \in SUBSET Event, NEW states, NEW recipe, NEW m \in Nat
    PROVE  \E g : Registers(g, AtMost(m, events), states, recipe)
<1> USE ZenonT(60)
<1> DEFINE N == {k \in Nat : \E g : Registers(g, AtMost(k, events), states, recipe)}
<1>1. 0 \in N
  <2> DEFINE g == [some \in AtMost(0, events) |-> states]
  <2>1. \A some \in AtMost(0, events) : some = {}
    BY AtMostFacts
  <2>2. Registers(g, AtMost(0, events), states, recipe)
    BY <2>1, ZenonT(60) DEF Registers
  <2> HIDE DEF g
  <2> QED
    BY <2>2, ZenonT(60)
<1>2. ASSUME NEW k \in Nat, k \in N
      PROVE  k + 1 \in N
  <2>1. PICK g : Registers(g, AtMost(k, events), states, recipe)
    BY <1>2, ZenonT(60)
  <2> DEFINE h == [some \in AtMost(k + 1, events) |->
                    IF some = {} THEN states
                    ELSE Register(g[some \ {Latest(some)}], Latest(some), recipe)]
  <2>2. \A some \in AtMost(k, events) : h[some] = g[some]
    <3>1. AtMost(k, events) \subseteq AtMost(k + 1, events)
      BY AtMostFacts
    <3>2. \A some \in AtMost(k, events) :
            g[some] = IF some = {} THEN states
                      ELSE Register(g[some \ {Latest(some)}], Latest(some), recipe)
      BY <2>1 DEF Registers
    <3> QED
      BY <3>1, <3>2
  <2>3. ASSUME NEW some \in AtMost(k + 1, events), some # {}
        PROVE  h[some \ {Latest(some)}] = g[some \ {Latest(some)}]
    <3>1. some \in SUBSET Event /\ IsFiniteSet(some)
      BY ZenonT(60) DEF AtMost
    <3>2. Latest(some) \in some
      BY <2>3, <3>1, LatestIn
    <3>3. some \ {Latest(some)} \in AtMost(k, events)
      BY <3>2, AtMostFacts
    <3> QED
      BY <2>2, <3>3
  <2>4. h = [some \in AtMost(k + 1, events) |->
                IF some = {} THEN states
                ELSE Register(h[some \ {Latest(some)}], Latest(some), recipe)]
    BY <2>3
  <2>5. Registers(h, AtMost(k + 1, events), states, recipe)
    BY <2>4 DEF Registers
  <2> HIDE DEF h
  <2> QED
    BY <2>5, SMTT(60)
<1> HIDE DEF N
<1>3. Nat \subseteq N
  BY <1>1, <1>2, SetInduction
<1> QED
  BY <1>3, ZenonT(60) DEF N

\* What it registers only grows the states table.
LEMMA RegistersGrows ==
    ASSUME NEW events \in SUBSET Event, NEW states \in Seq(Tracked), Len(states) <= MaxStates,
           NEW recipe \in 0 .. MaxRecipe, NEW m \in Nat, NEW g,
           Registers(g, AtMost(m, events), states, recipe)
    PROVE  \A some \in AtMost(m, events) : Grown(g[some], states)
<1> USE ZenonT(60)
<1> DEFINE N == {k \in Nat : \A some \in AtMost(m, events) :
                                Cardinality(some) <= k => Grown(g[some], states)}
<1>0. \A some \in AtMost(m, events) :
        g[some] = IF some = {} THEN states
                  ELSE Register(g[some \ {Latest(some)}], Latest(some), recipe)
  BY DEF Registers
<1>1. Grown(states, states)
  BY DEF Grown
<1>2. ASSUME NEW some \in AtMost(m, events)
      PROVE  some \in SUBSET Event /\ IsFiniteSet(some) /\ Cardinality(some) \in Nat /\ Cardinality(some) <= m
  <2>1. some \in SUBSET Event /\ IsFiniteSet(some) /\ Cardinality(some) <= m
    BY ZenonT(60) DEF AtMost
  <2> QED
    BY <2>1, FS_CardinalityType
<1>3. 0 \in N
  <2>1. ASSUME NEW some \in AtMost(m, events), Cardinality(some) <= 0 PROVE Grown(g[some], states)
    <3>1. Cardinality(some) = 0
      BY <1>2, <2>1, SMTT(60)
    <3>2. some = {}
      BY <1>2, <3>1, FS_EmptySet
    <3> QED
      BY <1>0, <1>1, <3>2
  <2> QED
    BY <2>1, ZenonT(60)
<1>4. ASSUME NEW k \in Nat, k \in N PROVE k + 1 \in N
  <2>1. ASSUME NEW some \in AtMost(m, events), Cardinality(some) <= k + 1
        PROVE  Grown(g[some], states)
    <3>1. CASE some = {}
      BY <1>0, <1>1, <3>1
    <3>2. CASE some # {}
      <4> DEFINE last == Latest(some)
                 rest == some \ {last}
      <4>1. last \in some /\ last \in Event
        BY <1>2, <3>2, LatestIn, ZenonT(60)
      <4>2. IsFiniteSet(rest) /\ Cardinality(rest) = Cardinality(some) - 1
        BY <1>2, <4>1, FS_RemoveElement, ZenonT(60)
      <4>3. Cardinality(rest) <= k /\ Cardinality(rest) <= m
        BY <1>2, <2>1, <4>2, SMTT(60)
      <4>4. rest \in AtMost(m, events)
        BY <4>2, <4>3, ZenonT(60) DEF AtMost
      <4>5. Grown(g[rest], states)
        BY <1>4, <4>3, <4>4, ZenonT(60)
      <4>6. g[some] = Register(g[rest], last, recipe)
        BY <1>0, <3>2
      <4> HIDE DEF rest, last
      <4>7. Grown(g[some], g[rest])
        <5>1. g[rest] \in Seq(Tracked) /\ Len(g[rest]) <= MaxStates
          BY <4>5 DEF Grown
        <5>2. Grown(Register(g[rest], last, recipe), g[rest])
          BY <4>1, <5>1, RegisterGrows
        <5> QED
          BY <4>6, <5>2
      <4> QED
        BY <4>5, <4>7 DEF Grown
    <3> QED
      BY <3>1, <3>2
  <2> QED
    BY <2>1, SMTT(60)
<1> HIDE DEF N
<1>5. Nat \subseteq N
  BY <1>3, <1>4, SetInduction
<1>6. m \in N
  BY <1>5
<1> QED
  BY <1>2, <1>6, ZenonT(60) DEF N

\* A finished run's discoveries leave every tracked state where it is.
LEMMA RegisterAllGrows ==
    ASSUME NEW events \in SUBSET Event, IsFiniteSet(events), NEW states \in Seq(Tracked),
           Len(states) <= MaxStates, NEW recipe \in 0 .. MaxRecipe
    PROVE  Grown(RegisterAll(states, events, recipe), states)
<1> USE ZenonT(60)
<1> DEFINE m == Cardinality(events)
<1>1. m \in Nat /\ m <= m
  BY FS_CardinalityType, SMTT(60)
<1>2. AtMost(m, events) = SUBSET events
  <2>1. ASSUME NEW some \in SUBSET events PROVE some \in AtMost(m, events)
    BY FS_Subset DEF AtMost
  <2> QED
    BY <2>1, ZenonT(60) DEF AtMost
<1>3. events \in AtMost(m, events)
  BY <1>2, ZenonT(60)
<1> HIDE DEF m
<1> DEFINE g == CHOOSE f : Registers(f, SUBSET events, states, recipe)
<1>4. Registers(g, SUBSET events, states, recipe)
  <2>1. \E f : Registers(f, SUBSET events, states, recipe)
    <3>1. \E f : Registers(f, AtMost(m, events), states, recipe)
      BY <1>1, RegistersExists
    <3> QED
      BY <1>2, <3>1
  <2> QED
    BY <2>1
<1>5. RegisterAll(states, events, recipe) = g[events]
  BY DEF RegisterAll, Registers
<1> HIDE DEF g
<1>6. Grown(g[events], states)
  <2>1. Registers(g, AtMost(m, events), states, recipe)
    BY <1>2, <1>4
  <2>2. \A some \in AtMost(m, events) : Grown(g[some], states)
    BY <1>1, <2>1, RegistersGrows
  <2> QED
    BY <1>3, <2>2
<1> QED
  BY <1>5, <1>6

\* expand_from respects the bounds on the frontier and on a recipe.
LEMMA ExpandKeeps ==
    ASSUME NEW queue \in Seq(1 .. MaxRecipe), Len(queue) <= MaxFrontier,
           NEW recipe \in 0 .. MaxRecipe, recipe < MaxRecipe
    PROVE  Expand(queue, recipe) \in Seq(1 .. MaxRecipe) /\ Len(Expand(queue, recipe)) <= MaxFrontier
<1> USE ZenonT(60)
<1> DEFINE room == MaxFrontier - Len(queue)
           b == Min({Branching, room})
           more == [n \in 1 .. b |-> recipe + 1]
<1>1. Len(queue) \in Nat /\ room \in Nat
  BY Limits, SMTT(60)
<1>2. b \in {Branching, room} /\ b <= room
  <2>1. Branching \in Int /\ room \in Int
    BY <1>1, Limits, SMTT(60)
  <2> HIDE DEF room
  <2> QED
    BY <2>1, MinOfTwo
<1>3. b \in Nat
  BY <1>1, <1>2, Limits, ZenonT(60)
<1> HIDE DEF b
<1>4. recipe + 1 \in 1 .. MaxRecipe
  BY Limits, SMTT(60)
<1>5. more \in [1 .. b -> 1 .. MaxRecipe]
  BY <1>4, ZenonT(60)
<1>6. more \in Seq(1 .. MaxRecipe) /\ Len(more) = b
  BY <1>3, <1>5, SeqAsFunction DEF SeqIsFunction
<1>7. Expand(queue, recipe) = queue \o more
  BY ZenonT(60) DEF Expand, b
<1> HIDE DEF more
<1>8. \A S : \A q, r \in Seq(S) : q \o r \in Seq(S) /\ Len(q \o r) = Len(q) + Len(r)
  BY SMTT(60)
<1>9. queue \o more \in Seq(1 .. MaxRecipe) /\ Len(queue \o more) = Len(queue) + b
  BY <1>6, <1>8
<1>10. Len(queue) + b <= MaxFrontier
  BY <1>1, <1>2, <1>3, Limits, Fits DEF room
<1> QED
  BY <1>7, <1>9, <1>10

\* A run that is processed adds to the books and loses nothing of its journal
\* that the states table has room for (process_result).
LEMMA ProcessKeeps ==
    ASSUME ControllerTyped, NEW recipe \in 0 .. MaxRecipe, NEW events \in SUBSET Event,
           IsFiniteSet(events), NEW lost, ProcessResult(recipe, events, lost)
    PROVE  Processed(events, lost)
<1> USE ZenonT(60)
<1> DEFINE all == RegisterAll(known, events, recipe)
           expands == events # {} /\ recipe < MaxRecipe
           visited == IF expands THEN Position(all, Anchor(events).state) ELSE {}
           grown == [n \in DOMAIN all |->
                        IF n \in visited THEN [all[n] EXCEPT !.visits = @ + 1] ELSE all[n]]
<1>1. /\ timelines' = timelines + 1
      /\ known' = grown
      /\ frontier' = IF expands THEN Expand(frontier, recipe) ELSE frontier
      /\ missed' = missed \cup lost \cup {id \in States(events) : Position(all, id) = {}}
  BY DEF ProcessResult
<1>2. Grown(all, known)
  BY RegisterAllGrows DEF ControllerTyped
<1> HIDE DEF all, visited, expands
<1>3. all \in Seq(Tracked) /\ Len(all) <= MaxStates
  BY <1>2 DEF Grown
<1>4. DOMAIN all = 1 .. Len(all) /\ Len(all) \in Nat /\ \A n \in DOMAIN all : all[n] \in Tracked
  BY <1>3, SMT
<1>5. ASSUME NEW n \in DOMAIN all PROVE grown[n] \in Tracked /\ grown[n].state = all[n].state
  <2>1. all[n] \in Tracked
    BY <1>4
  <2> QED
    BY <2>1, TrackedVisit
<1>6. grown \in [1 .. Len(all) -> Tracked]
  BY <1>4, <1>5, ZenonT(60)
<1> HIDE DEF grown
<1>7. grown \in Seq(Tracked) /\ Len(grown) = Len(all) /\ DOMAIN grown = DOMAIN all
  BY <1>4, <1>6, SeqAsFunction DEF SeqIsFunction
<1>8. Grown(known', known)
  BY <1>1, <1>2, <1>3, <1>5, <1>7 DEF Grown
<1>9. frontier' \in Seq(1 .. MaxRecipe) /\ Len(frontier') <= MaxFrontier
  BY <1>1, ExpandKeeps DEF ControllerTyped, expands
<1>10. ASSUME NEW id \in States(events), id \notin missed'
       PROVE  \E n \in DOMAIN known' : known'[n].state = id
  <2>1. Position(all, id) # {}
    BY <1>1, <1>10, ZenonT(60)
  <2>2. PICK n \in DOMAIN all : all[n].state = id
    BY <2>1, ZenonT(60) DEF Position
  <2> QED
    BY <1>1, <1>5, <1>7, <2>2
<1>11. missed \subseteq missed' /\ lost \subseteq missed'
  BY <1>1, ZenonT(60)
<1> QED
  BY <1>1, <1>8, <1>9, <1>10, <1>11 DEF Processed

\* schedule_continuations touches visits and the frontier only.
LEMMA ScheduleKeeps ==
    ASSUME ControllerTyped, ScheduleContinuations
    PROVE  SchedulesWell
<1> USE ZenonT(60) DEF SchedulesWell
<1>1. PICK n \in Candidates :
        /\ round' = round + 1
        /\ known' = [known EXCEPT ![n].visits = @ + 1]
        /\ \E k \in Eligible(n) : frontier' = Expand(frontier, known[n].exemplars[k])
  BY DEF ScheduleContinuations
<1>2. PICK k \in Eligible(n) : frontier' = Expand(frontier, known[n].exemplars[k])
  BY <1>1
<1>3. round' \in Nat
  BY <1>1, SMTT(60) DEF ControllerTyped
<1>4. /\ n \in DOMAIN known /\ known \in Seq(Tracked) /\ Len(known) <= MaxStates
      /\ frontier \in Seq(1 .. MaxRecipe) /\ Len(frontier) <= MaxFrontier
  BY DEF Candidates, ControllerTyped
<1>5. /\ DOMAIN known = 1 .. Len(known) /\ Len(known) \in Nat /\ known \in [1 .. Len(known) -> Tracked]
      /\ known[n] \in Tracked
  <2>1. DOMAIN known = 1 .. Len(known) /\ Len(known) \in Nat /\ known \in [1 .. Len(known) -> Tracked]
    BY <1>4, SeqAsFunction DEF SeqIsFunction
  <2> QED
    BY <1>4, <2>1, ZenonT(60)
<1>6. known[n].exemplars[k] \in 0 .. MaxRecipe /\ known[n].exemplars[k] < MaxRecipe
  <2>1. known[n].exemplars \in Seq(0 .. MaxRecipe)
    BY <1>5, TrackedFields DEF TrackedTyped
  <2>2. k \in DOMAIN known[n].exemplars /\ known[n].exemplars[k] < MaxRecipe
    BY DEF Eligible
  <2>3. \A S : \A q \in Seq(S) : \A i \in DOMAIN q : q[i] \in S
    BY SMT
  <2> QED
    BY <2>1, <2>2, <2>3
<1>7. frontier' \in Seq(1 .. MaxRecipe) /\ Len(frontier') <= MaxFrontier
  BY <1>2, <1>4, <1>6, ExpandKeeps
<1> DEFINE s == [known[n] EXCEPT !.visits = @ + 1]
<1>8. s \in Tracked /\ s.state = known[n].state
  BY <1>5, TrackedVisit
<1>9. known' = [known EXCEPT ![n] = s]
  BY <1>1, <1>4, <1>5, ZenonT(60)
<1> HIDE DEF s
<1>10. known' \in [1 .. Len(known) -> Tracked]
       /\ \A i \in 1 .. Len(known) : known'[i].state = known[i].state
  BY <1>4, <1>5, <1>8, <1>9, ZenonT(60)
<1>11. known' \in Seq(Tracked) /\ Len(known') = Len(known) /\ DOMAIN known' = 1 .. Len(known)
  BY <1>5, <1>10, SeqAsFunction DEF SeqIsFunction
<1>12. Grown(known', known)
  BY <1>4, <1>5, <1>10, <1>11 DEF Grown
<1> QED
  BY <1>3, <1>7, <1>12

----------------------------------------------------------------------------
(* The steps of the controller and of its workers, one lemma each.         *)

\* A step that leaves the tables alone.
LEMMA TableSame ==
    ASSUME TableInv, UNCHANGED tableVars
    PROVE  TableInv' /\ NoneFires /\ program' = program
<1>1. /\ UNCHANGED <<program, next, dropped, table, at, owed>>
      /\ running' = running /\ journal' = journal /\ missed' = missed
  BY ZenonT(60) DEF tableVars
<1>2. Leaves({})
  BY <1>1, NobodyLeaves, ZenonT(60)
<1>3. at' = at
  BY <1>1, ZenonT(60)
<1>4. Journals' /\ running' \in SUBSET Procs
  BY <1>1, <1>3, ZenonT(60) DEF TableInv, TableTyped, Journals, JournalOf
<1> QED
  BY <1>2, <1>4, LeavesTable, ZenonT(60)

\* The workers that are alive, and their slots.
LEMMA PoolFacts ==
    ASSUME IInv
    PROVE  PoolSound
<1> USE ZenonT(60) DEF PoolSound
<1>1. PoolTyped /\ Runners /\ TableTyped
  BY DEF IInv, TableInv, PoolInv
<1>2. DOMAIN active \in SUBSET Procs /\ DOMAIN active \subseteq Pids
  BY <1>1, ZenonT(60) DEF PoolTyped, Pids
<1>3. IsFiniteSet(DOMAIN active)
  BY <1>2, ExplorerAssumption, FS_Subset
<1>4. Cardinality(DOMAIN active) \in Nat
  BY <1>3, FS_CardinalityType
<1>5. \A p \in Pids : p \in Procs /\ p # Controller
  BY ZenonT(60) DEF Pids
<1>6. ASSUME NEW p \in DOMAIN active
      PROVE  /\ active[p].slot \in Slots /\ active[p].job \in 0 .. MaxRecipe
             /\ slot[active[p].slot] \in SUBSET Event /\ IsFiniteSet(slot[active[p].slot])
  <2>1. active[p].slot \in Slots /\ active[p].job \in 0 .. MaxRecipe
    BY <1>1 DEF PoolTyped
  <2>2. slot \in [Slots -> SUBSET Event] /\ \A s \in Slots : IsFiniteSet(slot[s])
    BY <1>1 DEF PoolTyped
  <2>3. \A s \in Slots : slot[s] \in SUBSET Event
    BY <2>2, ZenonT(60)
  <2> QED
    BY <2>1, <2>2, <2>3
<1>7. \A p \in running : p \in Procs
  BY <1>1, ZenonT(60) DEF TableTyped
<1> QED
  BY <1>1, <1>2, <1>3, <1>4, <1>5, <1>6, <1>7, ExplorerAssumption, ProgramFacts DEF Runners, ProgramSound

\* A step of a timeline.
LEMMA TimelineKeeps ==
    ASSUME IInv, NEW p \in Procs, TimelineStep(p)
    PROVE  IInv'
<1> USE ZenonT(60)
<1>1. TableInv /\ PoolInv /\ NoveltyReachesController /\ p \in running /\ Step(p) /\ UNCHANGED explorerVars
  BY DEF IInv, TimelineStep
<1>2. TableInv' /\ StepKeeps(p)
  BY <1>1, TimelineTable
<1>3. NoveltyReachesController'
  BY <1>1, TimelineNovelty
<1>4. /\ ctl' = ctl /\ job' = job /\ started' = started /\ frontier' = frontier /\ known' = known
      /\ round' = round /\ timelines' = timelines /\ active' = active /\ free' = free
      /\ slot' = slot /\ status' = status
  BY <1>1, ZenonT(60) DEF explorerVars
<1>5. program' = program /\ running' = running /\ OthersStay(p) /\ Reports(p)
  BY <1>2 DEF StepKeeps, StepSound
<1>6. missed \subseteq missed' /\ \A q \in Procs : q # p => journal'[q] = journal[q]
  <2>1. CASE UNCHANGED <<journal, missed>>
    BY <2>1, ZenonT(60)
  <2>2. ASSUME at'[p].done = at[p].done + 1, NEW k \in Discoveries, NEW s \in Ids \X (0 .. 3),
               Tells(p, k, s)
        PROVE  missed \subseteq missed' /\ \A q \in Procs : q # p => journal'[q] = journal[q]
    <3>1. OnDiscovery(p, k, s)
      BY <2>2 DEF Tells
    <3> QED
      BY <1>1, <1>5, <2>2, <3>1, ReportKeeps DEF Reported
  <2> QED
    BY <1>5, <2>1, <2>2 DEF Reports
<1>7. ControllerTyped' /\ PoolTyped' /\ SlotsApart' /\ RootFirst' /\ EveryRunProcessed'
  BY <1>1, <1>4, <1>5 DEF PoolInv, ControllerTyped, PoolTyped, SlotsApart, RootFirst, EveryRunProcessed
<1>8. Runners'
  BY <1>1, <1>4, <1>5 DEF PoolInv, Runners, OthersStay
<1>9. SlotIsOwn'
  <2>1. ASSUME NEW q \in DOMAIN active, slot[active[q].slot] # {}
        PROVE  status[q] # "running" /\ slot[active[q].slot] = journal'[q]
    <3>1. status[q] # "running" /\ slot[active[q].slot] = journal[q]
      BY <1>1, <2>1 DEF PoolInv, SlotIsOwn
    <3>2. q # p /\ q \in Procs
      BY <1>1, <3>1, PoolFacts DEF PoolSound
    <3> QED
      BY <1>6, <3>1, <3>2
  <2> QED
    BY <1>4, <2>1 DEF SlotIsOwn
<1>10. GoneMissed'
  <2>1. GoneMissed
    BY <1>1 DEF PoolInv
  <2> QED
    BY <1>4, <1>6, <2>1 DEF GoneMissed
<1> QED
  BY <1>2, <1>3, <1>7, <1>8, <1>9, <1>10 DEF IInv, PoolInv

\* The controller continues a state, or finds nothing left to do.
LEMMA ContinueKeeps ==
    ASSUME IInv, Continue
    PROVE  IInv'
<1> USE ZenonT(60)
<1>1. TableInv /\ PoolInv /\ NoveltyReachesController
  BY DEF IInv
<1>2. ControllerTyped /\ PoolTyped /\ SlotsApart /\ Runners /\ RootFirst /\ SlotIsOwn /\ EveryRunProcessed
      /\ GoneMissed
  BY <1>1 DEF PoolInv
<1>3. /\ UNCHANGED tableVars /\ ctl = "loop"
      /\ job' = job /\ started' = started /\ timelines' = timelines /\ active' = active /\ free' = free
      /\ slot' = slot /\ status' = status
  BY ZenonT(60) DEF Continue, Looping
<1>4. /\ program' = program /\ running' = running /\ at' = at /\ journal' = journal /\ missed' = missed
  BY <1>3, ZenonT(60) DEF tableVars
<1>5. ctl' = "loop" \/ ctl' = "drain"
  BY <1>3 DEF Continue
<1>6. /\ round' \in Nat /\ Grown(known', known)
      /\ frontier' \in Seq(1 .. MaxRecipe) /\ Len(frontier') <= MaxFrontier
  <2>1. CASE ScheduleContinuations
    BY <1>2, <2>1, ScheduleKeeps DEF SchedulesWell
  <2>2. CASE round' = round /\ known' = known /\ frontier' = frontier
    BY <1>2, <2>2 DEF ControllerTyped, Grown
  <2> QED
    BY <2>1, <2>2, ZenonT(60) DEF Continue
<1>7. TableInv' /\ NoneFires
  BY <1>1, <1>3, TableSame
<1>8. ControllerTyped'
  BY <1>2, <1>3, <1>4, <1>5, <1>6, ZenonT(60) DEF ControllerTyped, Grown
<1>9. PoolTyped' /\ SlotIsOwn' /\ GoneMissed'
  BY <1>2, <1>3, <1>4 DEF PoolTyped, SlotIsOwn, GoneMissed
<1>10. SlotsApart' /\ Runners' /\ RootFirst' /\ EveryRunProcessed'
  BY <1>2, <1>3, <1>4, <1>5, ZenonT(60) DEF SlotsApart, Runners, RootFirst, EveryRunProcessed
<1>11. ASSUME NEW s, Heard(s) PROVE Heard(s)'
  BY <1>3, <1>4, <1>6, <1>11 DEF Heard, Grown
<1>12. NoveltyReachesController'
  BY <1>1, <1>3, <1>4, <1>7, <1>11, NoveltyKept
<1> QED
  BY <1>7, <1>8, <1>9, <1>10, <1>12 DEF IInv, PoolInv

\* The budget is spent, or the pool drained.
LEMMA DrainKeeps ==
    ASSUME IInv, BudgetSpent \/ Drained
    PROVE  IInv'
<1>1. TableInv /\ PoolInv /\ NoveltyReachesController
  BY Zenon DEF IInv
<1>2. ControllerTyped /\ PoolTyped /\ SlotsApart /\ Runners /\ RootFirst /\ SlotIsOwn /\ EveryRunProcessed
      /\ GoneMissed
  BY <1>1, Zenon DEF PoolInv
<1>3. /\ UNCHANGED tableVars /\ ctl \in {"loop", "drain"} /\ ctl' \in {"drain", "done"}
      /\ job' = job /\ started' = started /\ timelines' = timelines /\ active' = active /\ free' = free
      /\ slot' = slot /\ status' = status /\ known' = known /\ frontier' = frontier /\ round' = round
  BY DEF BudgetSpent, Drained
<1>4. /\ program' = program /\ running' = running /\ at' = at /\ journal' = journal /\ missed' = missed
  BY <1>3 DEF tableVars
<1>5. ctl' # "root" /\ ctl' # "inProcess" /\ ctl' # "dropped" /\ ctl # "dropped" /\ ctl # "root" /\ ctl # "inProcess"
  BY <1>3
<1>6. TableInv' /\ NoneFires
  BY <1>1, <1>3, TableSame, Zenon
<1>7. ControllerTyped' /\ PoolTyped' /\ SlotIsOwn' /\ GoneMissed'
  BY <1>2, <1>3, <1>4, ZenonT(60) DEF ControllerTyped, PoolTyped, SlotIsOwn, GoneMissed
<1>8. SlotsApart' /\ Runners' /\ RootFirst' /\ EveryRunProcessed'
  BY <1>2, <1>3, <1>4, <1>5, ZenonT(60) DEF SlotsApart, Runners, RootFirst, EveryRunProcessed
<1>9. ASSUME NEW s, Heard(s) PROVE Heard(s)'
  BY <1>3, <1>4, <1>9, Zenon DEF Heard
<1>10. NoveltyReachesController'
  BY <1>1, <1>3, <1>4, <1>5, <1>6, <1>9, NoveltyKept, ZenonT(60)
<1> QED
  BY <1>6, <1>7, <1>8, <1>10, Zenon DEF IInv, PoolInv

\* What an action on the pool starts from.
LEMMA Unpacked ==
    ASSUME IInv
    PROVE  Parts
BY Zenon DEF IInv, PoolInv, TableInv, Parts

\* The controller's books and the slots do not change with a worker's status.
LEMMA BooksSame ==
    ASSUME IInv, program' = program, ctl' = ctl, job' = job, started' = started, frontier' = frontier,
           known' = known, round' = round, timelines' = timelines, active' = active, free' = free
    PROVE  ControllerTyped' /\ SlotsApart' /\ RootFirst' /\ EveryRunProcessed'
BY Zenon DEF IInv, PoolInv, ControllerTyped, SlotsApart, RootFirst, EveryRunProcessed

\* A worker's status changes; it no longer runs a timeline.
LEMMA StatusMoves ==
    ASSUME IInv, NEW p \in DOMAIN active, NEW st \in {"written", "ended", "gone"},
           status' = [status EXCEPT ![p] = st], active' = active, ctl' = ctl,
           running' = running \ {p}, \A q \in Procs : at'[q] = at[q] \/ at'[q].pc = "idle",
           at'[p].pc = "idle"
    PROVE  StatusMoved(p, st)
<1> USE ZenonT(60) DEF StatusMoved
<1>1. PoolTyped /\ Runners
  BY Unpacked DEF Parts
<1>2. p \in Pids /\ p \in Procs /\ p # Controller /\ status[p] # "none" /\ \A q \in Pids : q \in Procs
  BY PoolFacts DEF PoolSound
<1>3. /\ status' \in [Procs -> {"none", "running", "written", "ended", "gone"}]
      /\ status'[p] = st /\ \A q \in Procs : q # p => status'[q] = status[q]
  BY <1>1, <1>2, ZenonT(60) DEF PoolTyped
<1>4. st # "none" /\ st # "running"
  BY ZenonT(60)
<1>5. \A q \in Procs : status'[q] = "none" <=> q \notin DOMAIN active'
  BY <1>1, <1>2, <1>3, <1>4 DEF Runners
<1>6. \A q \in Pids : q \in running' <=> status'[q] = "running"
  BY <1>1, <1>2, <1>3, <1>4, ZenonT(60) DEF Runners
<1>7. Controller \in running' <=> ctl' \in {"root", "inProcess"}
  BY <1>1, <1>2, ZenonT(60) DEF Runners
<1>8. ASSUME NEW q \in Procs \ running' PROVE at'[q].pc = "idle"
  <2>1. CASE q = p
    BY <2>1
  <2>2. CASE q # p
    <3>1. q \in Procs \ running
      BY <2>2, ZenonT(60)
    <3>2. at[q].pc = "idle"
      BY <1>1, <3>1 DEF Runners
    <3> QED
      BY <3>1, <3>2
  <2> QED
    BY <2>1, <2>2
<1> QED
  BY <1>3, <1>5, <1>6, <1>7, <1>8 DEF Runners

\* A worker exits after it wrote its result, or is reaped by somebody else.
LEMMA ExitKeeps ==
    ASSUME IInv, NEW p \in Pids, Exit(p) \/ ReapedElsewhere(p)
    PROVE  IInv'
<1> USE ZenonT(60)
<1>1. /\ TableInv /\ NoveltyReachesController /\ PoolTyped /\ Runners /\ SlotIsOwn /\ GoneMissed /\ Journals
      /\ TableTyped
  BY Unpacked DEF Parts
<1>2. /\ program' = program /\ ctl' = ctl /\ job' = job /\ started' = started /\ frontier' = frontier
      /\ known' = known /\ round' = round /\ timelines' = timelines /\ active' = active /\ free' = free
      /\ slot' = slot /\ running' = running /\ at' = at /\ journal' = journal
      /\ UNCHANGED <<program, next, dropped, table, at, owed>>
      /\ \/ status[p] = "written" /\ status' = [status EXCEPT ![p] = "ended"] /\ missed' = missed
         \/ /\ status[p] = "ended" /\ status' = [status EXCEPT ![p] = "gone"]
            /\ missed' = missed \cup States(slot[active[p].slot])
  BY ZenonT(60) DEF Exit, ReapedElsewhere, tableVars
<1>3. PICK st \in {"ended", "gone"} : status' = [status EXCEPT ![p] = st]
        /\ (st = "gone" => States(slot[active[p].slot]) \subseteq missed')
  <2>1. CASE status[p] = "written" /\ status' = [status EXCEPT ![p] = "ended"] /\ missed' = missed
    BY <2>1, ZenonT(60)
  <2>2. CASE /\ status[p] = "ended" /\ status' = [status EXCEPT ![p] = "gone"]
             /\ missed' = missed \cup States(slot[active[p].slot])
    BY <2>2, ZenonT(60)
  <2> QED
    BY <1>2, <2>1, <2>2
<1>4. missed \subseteq missed'
  BY <1>2, ZenonT(60)
<1>5. p \in DOMAIN active /\ p \notin running /\ p \in Procs
  <2>1. status[p] # "none" /\ status[p] # "running"
    BY <1>2, ZenonT(60)
  <2> QED
    BY <1>1, <2>1, PoolFacts DEF Runners, PoolSound
<1>6. running' = running \ {p} /\ at'[p].pc = "idle" /\ \A q \in Procs : at'[q] = at[q]
  <2>1. at[p].pc = "idle"
    BY <1>1, <1>5, ZenonT(60) DEF Runners
  <2> QED
    BY <1>2, <1>5, <2>1, ZenonT(60)
<1>7. /\ Runners' /\ status' \in [Procs -> {"none", "running", "written", "ended", "gone"}]
      /\ status'[p] = st /\ \A q \in Procs : q # p => status'[q] = status[q]
  <2>1. st \in {"written", "ended", "gone"}
    BY ZenonT(60)
  <2> QED
    BY <1>2, <1>3, <1>5, <1>6, <2>1, StatusMoves DEF StatusMoved
<1>8. ControllerTyped' /\ SlotsApart' /\ RootFirst' /\ EveryRunProcessed'
  BY <1>2, BooksSame
<1>9. PoolTyped'
  BY <1>1, <1>2, <1>7 DEF PoolTyped
<1>10. st # "running"
  BY ZenonT(60)
<1>11. SlotIsOwn'
  <2>1. \A q \in DOMAIN active : q \in Procs
    BY PoolFacts DEF PoolSound
  <2> QED
    BY <1>1, <1>2, <1>7, <1>10, <2>1 DEF SlotIsOwn
<1>12. GoneMissed'
  <2>1. ASSUME NEW q \in DOMAIN active, status'[q] = "gone"
        PROVE  States(slot[active[q].slot]) \subseteq missed'
    <3>1. q \in Procs
      BY PoolFacts DEF PoolSound
    <3>2. CASE q = p
      BY <1>3, <1>7, <2>1, <3>2
    <3>3. CASE q # p
      BY <1>1, <1>4, <1>7, <2>1, <3>1, <3>3 DEF GoneMissed
    <3> QED
      BY <3>2, <3>3
  <2> QED
    BY <1>2, <2>1 DEF GoneMissed
<1>13. Journals' /\ running' \in SUBSET Procs
  BY <1>1, <1>2 DEF TableTyped, Journals, JournalOf
<1>14. Leaves({})
  BY <1>1, <1>2, NobodyLeaves
<1>15. TableInv' /\ NoneFires
  BY <1>1, <1>13, <1>14, LeavesTable
<1>16. ASSUME NEW s, Heard(s) PROVE Heard(s)'
  BY <1>2, <1>4, <1>16 DEF Heard
<1>17. NoveltyReachesController'
  BY <1>1, <1>2, <1>15, <1>16, NoveltyKept
<1> QED
  BY <1>7, <1>8, <1>9, <1>11, <1>12, <1>15, <1>17 DEF IInv, PoolInv

\* A worker crashes, wherever it is.
LEMMA CrashKeeps ==
    ASSUME IInv, NEW p \in Pids, Crash(p)
    PROVE  IInv'
<1> USE ZenonT(60)
<1>1. /\ TableInv /\ NoveltyReachesController /\ PoolTyped /\ Runners /\ SlotIsOwn /\ GoneMissed /\ Journals
      /\ TableTyped
  BY Unpacked DEF Parts
<1>2. /\ program' = program /\ ctl' = ctl /\ job' = job /\ started' = started /\ frontier' = frontier
      /\ known' = known /\ round' = round /\ timelines' = timelines /\ active' = active /\ free' = free
      /\ slot' = slot /\ journal' = journal /\ UNCHANGED <<program, next, dropped, table>>
      /\ Vanishes({p}) /\ missed' = missed \cup Unwritten(p) /\ status' = [status EXCEPT ![p] = "ended"]
      /\ status[p] \in {"running", "written"}
  BY ZenonT(60) DEF Crash
<1>3. missed \subseteq missed' /\ (status[p] = "running" => States(journal[p]) \subseteq missed')
  BY <1>2, ZenonT(60) DEF Unwritten
<1>4. p \in DOMAIN active /\ p \in Procs /\ (p \in running <=> status[p] = "running")
  <2>1. status[p] # "none"
    BY <1>2, ZenonT(60)
  <2> QED
    BY <1>1, <2>1, PoolFacts DEF PoolSound
<1>5. Leaves({p}) /\ running' = running \ {p}
  BY <1>2 DEF Vanishes, Leaves
<1>6. Idle(0).pc = "idle"
  BY ZenonT(60) DEF Idle
<1>7. at'[p].pc = "idle" /\ \A q \in Procs : at'[q] = at[q] \/ at'[q].pc = "idle"
  BY <1>4, <1>5, <1>6, ZenonT(60) DEF Leaves
<1>8. /\ Runners' /\ status' \in [Procs -> {"none", "running", "written", "ended", "gone"}]
      /\ status'[p] = "ended" /\ \A q \in Procs : q # p => status'[q] = status[q]
  <2>1. "ended" \in {"written", "ended", "gone"}
    BY ZenonT(60)
  <2> QED
    BY <1>2, <1>4, <1>5, <1>7, <2>1, StatusMoves DEF StatusMoved
<1>9. ControllerTyped' /\ SlotsApart' /\ RootFirst' /\ EveryRunProcessed'
  BY <1>2, BooksSame
<1>10. PoolTyped'
  BY <1>1, <1>2, <1>8 DEF PoolTyped
<1>11. \A q \in DOMAIN active : q \in Procs
  BY PoolFacts DEF PoolSound
<1>12. SlotIsOwn'
  BY <1>1, <1>2, <1>8, <1>11 DEF SlotIsOwn
<1>13. GoneMissed'
  BY <1>1, <1>2, <1>3, <1>8, <1>11 DEF GoneMissed
<1>14. Journals' /\ running' \in SUBSET Procs
  <2>1. running' \in SUBSET Procs
    BY <1>1, <1>5, ZenonT(60) DEF TableTyped
  <2>2. \A q \in Procs : q \in running' => q \in running /\ at'[q] = at[q]
    BY <1>5, ZenonT(60) DEF Leaves
  <2>3. journal' \in [Procs -> SUBSET Event] /\ MaxJournal \in Nat
    BY <1>1, <1>2, ProgramFacts DEF Journals, ProgramSound
  <2>4. Journals'
    BY <1>1, <1>2, <2>2, <2>3, JournalsKept DEF JournalsStay
  <2> QED
    BY <2>1, <2>4
<1>15. TableInv' /\ NoneFires
  <2>1. {p} \in SUBSET Procs
    BY <1>4, ZenonT(60)
  <2> QED
    BY <1>1, <1>5, <1>14, <2>1, LeavesTable
<1>16. ASSUME NEW s, Heard(s) PROVE Heard(s)'
  <2>1. CASE \E q \in running : s \in States(journal[q])
    <3>1. PICK q \in running : s \in States(journal[q])
      BY <2>1
    <3>2. CASE q = p
      BY <1>3, <1>4, <3>1, <3>2 DEF Heard
    <3>3. CASE q # p
      <4>1. q \in running'
        BY <1>5, <3>3, ZenonT(60)
      <4> QED
        BY <1>2, <3>1, <4>1 DEF Heard
    <3> QED
      BY <3>2, <3>3
  <2> QED
    BY <1>2, <1>3, <1>16, <2>1 DEF Heard
<1>17. NoveltyReachesController'
  BY <1>1, <1>2, <1>15, <1>16, NoveltyKept
<1> QED
  BY <1>8, <1>9, <1>10, <1>12, <1>13, <1>15, <1>17 DEF IInv, PoolInv

\* A worker writes its journal to its slot.
LEMMA WriteSlotKeeps ==
    ASSUME IInv, NEW p \in Pids, WriteSlot(p)
    PROVE  IInv'
<1> USE ZenonT(60)
<1>1. /\ TableInv /\ NoveltyReachesController /\ PoolTyped /\ Runners /\ SlotIsOwn /\ GoneMissed /\ Journals
      /\ TableTyped /\ SlotsApart
  BY Unpacked DEF Parts
<1>2. /\ program' = program /\ ctl' = ctl /\ job' = job /\ started' = started /\ frontier' = frontier
      /\ known' = known /\ round' = round /\ timelines' = timelines /\ active' = active /\ free' = free
      /\ journal' = journal /\ missed' = missed /\ UNCHANGED <<program, next, dropped, table>> /\ owed' = owed
      /\ slot' = [slot EXCEPT ![active[p].slot] = journal[p]]
      /\ status[p] = "running" /\ status' = [status EXCEPT ![p] = "written"]
      /\ at[p].pc = "idle" /\ at' = [at EXCEPT ![p] = Idle(0)] /\ running' = running \ {p}
  BY ZenonT(60) DEF WriteSlot, novelty
<1>3. p \in DOMAIN active /\ p \in Procs /\ p \in running /\ active[p].slot \in Slots
  <2>1. status[p] # "none"
    BY <1>2, ZenonT(60)
  <2>2. p \in Procs
    BY PoolFacts DEF PoolSound
  <2>3. p \in DOMAIN active
    BY <2>1, <2>2, PoolFacts DEF PoolSound
  <2> QED
    BY <1>2, <2>3, PoolFacts DEF PoolSound
<1>4. Leaves({p})
  BY <1>1, <1>2, <1>3, IdleLeaves
<1>5. Idle(0).pc = "idle"
  BY ZenonT(60) DEF Idle
<1>6. at'[p].pc = "idle" /\ \A q \in Procs : at'[q] = at[q] \/ at'[q].pc = "idle"
  BY <1>3, <1>4, <1>5, ZenonT(60) DEF Leaves
<1>7. /\ Runners' /\ status' \in [Procs -> {"none", "running", "written", "ended", "gone"}]
      /\ status'[p] = "written" /\ \A q \in Procs : q # p => status'[q] = status[q]
  <2>1. "written" \in {"written", "ended", "gone"}
    BY ZenonT(60)
  <2> QED
    BY <1>2, <1>3, <1>6, <2>1, StatusMoves DEF StatusMoved
<1>8. ControllerTyped' /\ SlotsApart' /\ RootFirst' /\ EveryRunProcessed'
  BY <1>2, BooksSame
<1>9. journal[p] \in SUBSET Event /\ IsFiniteSet(journal[p])
  BY <1>1, <1>3 DEF Journals, JournalOf
<1>10. /\ slot' \in [Slots -> SUBSET Event] /\ slot'[active[p].slot] = journal[p]
       /\ \A s \in Slots : s # active[p].slot => slot'[s] = slot[s]
  BY <1>1, <1>2, <1>3, <1>9, ZenonT(60) DEF PoolTyped
<1>11. PoolTyped'
  BY <1>1, <1>2, <1>7, <1>9, <1>10 DEF PoolTyped
<1>12. ASSUME NEW q \in DOMAIN active, q # p
       PROVE  slot'[active[q].slot] = slot[active[q].slot] /\ q \in Procs
  <2>1. active[q].slot # active[p].slot
    BY <1>1, <1>3, <1>12 DEF SlotsApart
  <2> QED
    BY <1>10, <2>1, PoolFacts DEF PoolSound
<1>13. SlotIsOwn'
  BY <1>1, <1>2, <1>7, <1>10, <1>12 DEF SlotIsOwn
<1>14. GoneMissed'
  BY <1>1, <1>2, <1>7, <1>12 DEF GoneMissed
<1>15. Journals' /\ running' \in SUBSET Procs
  <2>1. running' \in SUBSET Procs
    BY <1>1, <1>2, ZenonT(60) DEF TableTyped
  <2>2. \A q \in Procs : q \in running' => q \in running /\ at'[q] = at[q]
    BY <1>2, <1>4, ZenonT(60) DEF Leaves
  <2>3. journal' \in [Procs -> SUBSET Event] /\ MaxJournal \in Nat
    BY <1>1, <1>2, ProgramFacts DEF Journals, ProgramSound
  <2>4. Journals'
    BY <1>1, <1>2, <2>2, <2>3, JournalsKept DEF JournalsStay
  <2> QED
    BY <2>1, <2>4
<1>16. TableInv' /\ NoneFires
  <2>1. {p} \in SUBSET Procs
    BY <1>3, ZenonT(60)
  <2> QED
    BY <1>1, <1>4, <1>15, <2>1, LeavesTable
<1>17. ASSUME NEW s, Heard(s) PROVE Heard(s)'
  <2>1. CASE \E q \in running : s \in States(journal[q])
    <3>1. PICK q \in running : s \in States(journal[q])
      BY <2>1
    <3>2. CASE q = p
      BY <1>2, <1>3, <1>10, <3>1, <3>2 DEF Heard
    <3>3. CASE q # p
      <4>1. q \in running'
        BY <1>2, <3>3, ZenonT(60)
      <4> QED
        BY <1>2, <3>1, <4>1 DEF Heard
    <3> QED
      BY <3>2, <3>3
  <2>2. CASE \E q \in DOMAIN active : s \in States(slot[active[q].slot])
    <3>1. PICK q \in DOMAIN active : s \in States(slot[active[q].slot])
      BY <2>2
    <3>2. q # p
      <4>1. slot[active[q].slot] # {}
        BY <3>1, ZenonT(60) DEF States
      <4> QED
        BY <1>1, <1>2, <4>1 DEF SlotIsOwn
    <3> QED
      BY <1>2, <1>12, <3>1, <3>2 DEF Heard
  <2> QED
    BY <1>2, <1>17, <2>1, <2>2 DEF Heard
<1>18. NoveltyReachesController'
  BY <1>1, <1>2, <1>16, <1>17, NoveltyKept
<1> QED
  BY <1>7, <1>8, <1>11, <1>13, <1>14, <1>16, <1>18 DEF IInv, PoolInv

\* A run in the controller's own process ends.
LEMMA EndInProcessKeeps ==
    ASSUME IInv, EndInProcess
    PROVE  IInv'
<1> USE ZenonT(60)
<1>1. /\ TableInv /\ NoveltyReachesController /\ PoolTyped /\ Runners /\ SlotIsOwn /\ GoneMissed /\ Journals
      /\ TableTyped /\ SlotsApart /\ ControllerTyped /\ RootFirst /\ EveryRunProcessed
  BY Unpacked DEF Parts
<1>2. /\ ctl \in {"root", "inProcess"} /\ at[Controller].pc = "idle" /\ ctl' = "loop"
      /\ started' = (IF ctl = "root" THEN started + 1 ELSE started) /\ job' = 0
      /\ ProcessResult(job, journal[Controller], {})
      /\ journal' = [journal EXCEPT ![Controller] = {}] /\ running' = running \ {Controller}
      /\ at' = [at EXCEPT ![Controller] = Idle(0)]
      /\ program' = program /\ round' = round /\ active' = active /\ free' = free
      /\ slot' = slot /\ status' = status /\ owed' = owed /\ UNCHANGED <<program, next, dropped, table>>
  BY ZenonT(60) DEF EndInProcess
<1>3. Controller \in Procs /\ Controller \in running /\ Controller \notin DOMAIN active
      /\ \A q \in DOMAIN active : q \in Procs /\ q # Controller
  BY <1>1, <1>2, PoolFacts DEF Runners, PoolSound
<1>4. job \in 0 .. MaxRecipe /\ journal[Controller] \in SUBSET Event /\ IsFiniteSet(journal[Controller])
  BY <1>1, <1>3 DEF ControllerTyped, Journals, JournalOf
<1>5. Processed(journal[Controller], {})
  BY <1>1, <1>2, <1>4, ProcessKeeps
<1>6. Leaves({Controller})
  BY <1>1, <1>2, <1>3, IdleLeaves
<1>7. /\ journal' \in [Procs -> SUBSET Event] /\ journal'[Controller] = {}
      /\ \A q \in Procs : q # Controller => journal'[q] = journal[q]
  BY <1>1, <1>2, <1>3, ZenonT(60) DEF Journals
<1>8. \A q \in Procs : q # Controller => at'[q] = at[q] /\ (q \in running' <=> q \in running)
  BY <1>2, <1>6, ZenonT(60) DEF Leaves
<1>9. Journals' /\ running' \in SUBSET Procs
  <2>1. running' \in SUBSET Procs
    BY <1>1, <1>2, ZenonT(60) DEF TableTyped
  <2>2. \A q \in Procs : \/ journal'[q] = {}
                         \/ journal'[q] = journal[q] /\ (q \in running' => q \in running /\ at'[q] = at[q])
    BY <1>7, <1>8
  <2>3. MaxJournal \in Nat
    BY <1>1, ProgramFacts DEF ProgramSound
  <2>4. Journals'
    BY <1>1, <1>7, <2>2, <2>3, JournalsKept DEF JournalsStay
  <2> QED
    BY <2>1, <2>4
<1>10. TableInv' /\ NoneFires
  <2>1. {Controller} \in SUBSET Procs
    BY <1>3, ZenonT(60)
  <2> QED
    BY <1>1, <1>6, <1>9, <2>1, LeavesTable
<1>11. started \in Nat /\ timelines \in Nat /\ program.runs \in Nat /\ program.runs >= 1
       /\ started <= program.runs /\ Cardinality(DOMAIN active) \in Nat
  BY <1>1, PoolFacts, SMTT(60) DEF ControllerTyped, PoolSound
<1>12. timelines' = timelines + 1 /\ timelines' \in Nat
  BY <1>5, <1>11, Pair DEF Processed
<1>13. ControllerTyped'
  <2>1. started' \in 0 .. program.runs
    <3>1. CASE ctl = "root"
      BY <1>1, <1>2, <1>11, <3>1, OneMoreRun DEF RootFirst
    <3>2. CASE ctl # "root"
      BY <1>1, <1>2, <3>2 DEF ControllerTyped
    <3> QED
      BY <3>1, <3>2
  <2>2. 0 \in 0 .. MaxRecipe
    BY Limits, SMT
  <2>3. known' \in Seq(Tracked) /\ Len(known') <= MaxStates /\ round' \in Nat
    BY <1>1, <1>2, <1>5 DEF Processed, Grown, ControllerTyped
  <2>4. ctl' \in {"root", "loop", "inProcess", "drain", "done", "dropped"}
    BY <1>2, ZenonT(60)
  <2>5. frontier' \in Seq(1 .. MaxRecipe) /\ Len(frontier') <= MaxFrontier
    BY <1>5 DEF Processed
  <2> QED
    BY <1>2, <1>12, <2>1, <2>2, <2>3, <2>4, <2>5 DEF ControllerTyped
<1>14. PoolTyped'
  BY <1>1, <1>2 DEF PoolTyped
<1>15. SlotsApart' /\ RootFirst'
  BY <1>1, <1>2, ZenonT(60) DEF SlotsApart, RootFirst
<1>16. Runners'
  <2>1. ASSUME NEW q \in Procs \ running' PROVE at'[q].pc = "idle"
    <3>1. Idle(0).pc = "idle"
      BY ZenonT(60) DEF Idle
    <3> QED
      BY <1>1, <1>3, <1>6, <1>8, <3>1, ZenonT(60) DEF Runners, Leaves
  <2>2. \A q \in Pids : q \in running' <=> status'[q] = "running"
    BY <1>1, <1>2, <1>8, PoolFacts DEF Runners, PoolSound
  <2>3. Controller \in running' <=> ctl' \in {"root", "inProcess"}
    BY <1>2, ZenonT(60)
  <2> QED
    BY <1>1, <1>2, <2>1, <2>2, <2>3 DEF Runners
<1>17. EveryRunProcessed'
  <2>1. CASE ctl = "root"
    <3>1. started = 0 /\ timelines = 0 /\ DOMAIN active = {}
      BY <1>1, <2>1 DEF RootFirst
    <3>2. Cardinality(DOMAIN active) = 0
      BY <3>1, FS_EmptySet
    <3> QED
      <4>1. ctl' = "loop" /\ started' = 0 + 1 /\ active' = active /\ timelines' = 0 + 1
        BY <1>2, <1>12, <2>1, <3>1
      <4>2. started' = timelines' + Cardinality(DOMAIN active') + 0
        BY <3>2, <4>1, FirstRun
      <4> QED
        BY <4>1, <4>2 DEF EveryRunProcessed
  <2>2. CASE ctl = "inProcess"
    <3>1. started = timelines + Cardinality(DOMAIN active) + 1
      BY <1>1, <2>2, ZenonT(60) DEF EveryRunProcessed
    <3>2. started' = started /\ started = timelines' + Cardinality(DOMAIN active) + 0
      <4>1. PICK t \in Nat, c \in Nat : t = timelines /\ c = Cardinality(DOMAIN active)
        BY <1>11
      <4>2. t + c + 1 = (t + 1) + c + 0
        BY RunEnds
      <4> QED
        BY <1>2, <1>12, <2>2, <3>1, <4>1, <4>2
    <3> QED
      BY <1>2, <3>2, ZenonT(60) DEF EveryRunProcessed
  <2> QED
    BY <1>2, <2>1, <2>2, ZenonT(60)
<1>18. SlotIsOwn' /\ GoneMissed'
  <2>1. missed \subseteq missed'
    BY <1>5 DEF Processed
  <2> QED
    BY <1>1, <1>2, <1>3, <1>7, <2>1 DEF SlotIsOwn, GoneMissed
<1>19. ASSUME NEW s, Heard(s) PROVE Heard(s)'
  <2>1. CASE \E q \in running : s \in States(journal[q])
    <3>1. PICK q \in running : s \in States(journal[q])
      BY <2>1
    <3>2. CASE q = Controller
      BY <1>5, <3>1, <3>2 DEF Heard, Processed
    <3>3. CASE q # Controller
      <4>1. q \in Procs
        BY PoolFacts DEF PoolSound
      <4> QED
        BY <1>7, <1>8, <3>1, <3>3, <4>1 DEF Heard
    <3> QED
      BY <3>2, <3>3
  <2>2. CASE \E n \in DOMAIN known : known[n].state = s
    BY <1>5, <2>2 DEF Heard, Processed, Grown
  <2>3. CASE s \in missed
    BY <1>5, <2>3 DEF Heard, Processed
  <2> QED
    BY <1>2, <1>19, <2>1, <2>2, <2>3 DEF Heard
<1>20. NoveltyReachesController'
  <2>1. ctl # "dropped"
    BY <1>2, ZenonT(60)
  <2> QED
    BY <1>1, <1>2, <1>10, <1>19, <2>1, NoveltyKept
<1> QED
  BY <1>10, <1>13, <1>14, <1>15, <1>16, <1>17, <1>18, <1>20 DEF IInv, PoolInv

\* The free list holds what its top and the others make up.
LEMMA FreeTop ==
    ASSUME IInv, free # <<>>
    PROVE  TopIsFree
<1> USE DEF TopIsFree
<1>1. free \in Seq(Slots) /\ SlotsApart
  BY Unpacked, Zenon DEF PoolTyped, Parts
<1>2. Len(free) \in Nat /\ Len(free) >= 1 /\ Len(free) \in DOMAIN free /\ DOMAIN free = 1 .. Len(free)
  BY <1>1
<1>3. TopSlot \in Slots
  BY <1>1, <1>2, SMTT(60) DEF TopSlot
<1>4. /\ OtherSlots \in Seq(Slots) /\ Len(OtherSlots) = Len(free) - 1
      /\ DOMAIN OtherSlots = 1 .. Len(free) - 1
      /\ \A n \in DOMAIN OtherSlots : OtherSlots[n] = free[n]
  BY <1>1, <1>2, SMTT(60) DEF OtherSlots
<1>5. ASSUME NEW n \in DOMAIN OtherSlots PROVE n \in DOMAIN free /\ n # Len(free)
  BY <1>2, <1>4, SMTT(60)
<1>6. \A n \in DOMAIN OtherSlots : free[n] # TopSlot
  BY <1>1, <1>2, <1>5, ZenonT(60) DEF SlotsApart, TopSlot
<1>7. \A p \in DOMAIN active : active[p].slot # TopSlot
  BY <1>1, <1>2, Zenon DEF SlotsApart, TopSlot
<1> QED
  BY <1>2, <1>3, <1>4, <1>5, <1>6, <1>7, ZenonT(60)

\* There is a process for every free slot.
LEMMA NewPidExists ==
    ASSUME IInv, free # <<>>, ctl # "dropped"
    PROVE  NewPidIsFresh
<1> USE Zenon DEF NewPidIsFresh
<1>1. /\ Len(free) \in Nat /\ Len(free) >= 1 /\ Cardinality(DOMAIN active) \in Nat
      /\ Cardinality(DOMAIN active) + Len(free) = Workers
  BY FreeTop, PoolFacts, Unpacked DEF SlotsApart, TopIsFree, PoolSound, Parts
<1>2. IsFiniteSet(Pids) /\ Cardinality(Pids) = Cardinality(Procs) - 1 /\ Cardinality(Procs) \in Nat
  <2>1. IsFiniteSet(Procs) /\ Controller \in Procs
    BY ExplorerAssumption
  <2>2. Cardinality(Procs) \in Nat
    BY <2>1, FS_CardinalityType
  <2>3. IsFiniteSet(Procs \ {Controller}) /\ Cardinality(Procs \ {Controller}) = Cardinality(Procs) - 1
    BY <2>1, FS_RemoveElement, ZenonT(60)
  <2> QED
    BY <2>2, <2>3 DEF Pids
<1>3. Workers <= Cardinality(Pids)
  BY <1>2, WorkersNat
<1>4. DOMAIN active # Pids
  <2>1. Cardinality(DOMAIN active) < Workers
    BY <1>1, SMT
  <2>2. Cardinality(Pids) \in Nat /\ Workers \in Nat
    BY <1>2, FS_CardinalityType, WorkersNat
  <2>3. Cardinality(DOMAIN active) # Cardinality(Pids)
    BY <1>1, <1>3, <2>1, <2>2, Room
  <2> QED
    BY <2>3
<1>5. \E p \in Pids : p \notin DOMAIN active
  BY <1>4, PoolFacts DEF PoolSound
<1>6. NewPid \in Pids /\ NewPid \notin DOMAIN active
  BY <1>5 DEF NewPid
<1>7. NewPid \in Procs /\ NewPid # Controller
  BY <1>6, PoolFacts DEF PoolSound
<1>8. Runners
  BY Unpacked DEF Parts
<1>9. status[NewPid] = "none"
  BY <1>6, <1>7, <1>8 DEF Runners
<1>10. NewPid \notin running
  BY <1>6, <1>8, <1>9, ZenonT(60) DEF Runners
<1>11. at[NewPid].pc = "idle"
  BY <1>7, <1>8, <1>10, ZenonT(60) DEF Runners
<1> QED
  BY <1>6, <1>7, <1>10, <1>11

\* begin_run in a process that was idle.
LEMMA BeginRunKeeps ==
    ASSUME IInv, NEW p \in Procs, p \notin running, at[p].pc = "idle", BeginRun(p)
    PROVE  RunBegins(p)
<1> USE ZenonT(60) DEF RunBegins
<1>1. TableInv /\ TableTyped /\ Journals
  BY Unpacked DEF Parts
<1>2. /\ running' = running \cup {p} /\ at' = [at EXCEPT ![p] = Idle(0)]
      /\ journal' = [journal EXCEPT ![p] = {}] /\ missed' = missed /\ owed' = owed
      /\ program' = program /\ UNCHANGED <<program, next, dropped, table>>
  BY ZenonT(60) DEF BeginRun, novelty
<1>3. Leaves({p})
  BY <1>1, <1>2, IdleLeaves
<1>4. Idle(0).pc = "idle"
  BY ZenonT(60) DEF Idle
<1>5. at'[p].pc = "idle" /\ \A q \in Procs : q # p => at'[q] = at[q]
  BY <1>3, <1>4, ZenonT(60) DEF Leaves
<1>6. /\ journal' \in [Procs -> SUBSET Event] /\ journal'[p] = {}
      /\ \A q \in Procs : q # p => journal'[q] = journal[q]
  BY <1>1, <1>2, ZenonT(60) DEF Journals
<1>7. running' \in SUBSET Procs /\ \A q \in Procs : q # p /\ q \in running' => q \in running
  BY <1>1, <1>2, ZenonT(60) DEF TableTyped
<1>8. Journals'
  <2>1. MaxJournal \in Nat
    BY <1>1, ProgramFacts DEF ProgramSound
  <2>2. \A q \in Procs : \/ journal'[q] = {}
                         \/ journal'[q] = journal[q] /\ (q \in running' => q \in running /\ at'[q] = at[q])
    BY <1>5, <1>6, <1>7
  <2> QED
    BY <1>1, <1>6, <2>1, <2>2, JournalsKept DEF JournalsStay
<1>9. TableInv' /\ NoneFires
  <2>1. {p} \in SUBSET Procs
    BY ZenonT(60)
  <2> QED
    BY <1>1, <1>3, <1>7, <1>8, <2>1, LeavesTable
<1> QED
  BY <1>2, <1>5, <1>6, <1>9

\* A job popped off the frontier.
LEMMA PopKeeps ==
    ASSUME IInv, Looping, frontier # <<>>, frontier' = Tail(frontier), started' = started + 1
    PROVE  PopsWell
<1> USE DEF PopsWell
<1>1. ControllerTyped /\ EveryRunProcessed /\ Runners /\ ctl = "loop" /\ started < program.runs
  BY Unpacked, Zenon DEF Looping, Parts
<1>2. /\ frontier \in Seq(1 .. MaxRecipe) /\ Len(frontier) <= MaxFrontier /\ started \in 0 .. program.runs
      /\ timelines \in Nat /\ program.runs \in Nat /\ Cardinality(DOMAIN active) \in Nat /\ MaxFrontier \in Nat
  BY <1>1, PoolFacts, Limits, Zenon DEF ControllerTyped, PoolSound
<1>3. frontier' \in Seq(1 .. MaxRecipe) /\ Len(frontier') = Len(frontier) - 1 /\ Len(frontier) \in Nat
      /\ Head(frontier) \in 1 .. MaxRecipe
  <2>1. \A S : \A q \in Seq(S) : q # <<>> =>
            Tail(q) \in Seq(S) /\ Len(Tail(q)) = Len(q) - 1 /\ Len(q) \in Nat /\ Head(q) \in S
    OBVIOUS
  <2> QED
    BY <1>2, <2>1, Zenon
<1>4. Len(frontier') <= MaxFrontier /\ Head(frontier) \in 0 .. MaxRecipe
  BY <1>2, <1>3, Limits, OneJobLess, ZenonT(60)
<1>5. started' \in 0 .. program.runs /\ started \in Nat
  BY <1>1, <1>2, OneMoreRun, ZenonT(60)
<1>6. started = timelines + Cardinality(DOMAIN active)
  BY <1>1, <1>2, Pair, ZenonT(60) DEF EveryRunProcessed
<1>7. Controller \notin running
  BY <1>1, ZenonT(60) DEF Runners
<1>8. at[Controller].pc = "idle"
  BY <1>1, <1>7, PoolFacts, ZenonT(60) DEF Runners, PoolSound
<1> QED
  BY <1>2, <1>3, <1>4, <1>5, <1>6, <1>7, <1>8, ZenonT(60)

\* spawn_worker: the new worker starts with a slot of its own, cleared.
LEMMA ForkKeeps ==
    ASSUME IInv, Fork
    PROVE  IInv'
<1> USE ZenonT(60)
<1> DEFINE p == NewPid
           w == [slot |-> TopSlot, job |-> Head(frontier)]
<1>1. /\ TableInv /\ NoveltyReachesController /\ PoolTyped /\ Runners /\ SlotIsOwn /\ GoneMissed
      /\ SlotsApart /\ ControllerTyped
  BY Unpacked DEF Parts
<1>2. /\ Looping /\ frontier # <<>> /\ free # <<>> /\ ctl = "loop"
      /\ frontier' = Tail(frontier) /\ started' = started + 1
      /\ active' = [q \in DOMAIN active \cup {p} |-> IF q = p THEN w ELSE active[q]]
      /\ free' = OtherSlots /\ slot' = [slot EXCEPT ![TopSlot] = {}]
      /\ status' = [status EXCEPT ![p] = "running"] /\ BeginRun(p)
      /\ ctl' = ctl /\ job' = job /\ known' = known /\ round' = round /\ timelines' = timelines
  BY ZenonT(60) DEF Fork, Looping
<1>3. /\ p \in Pids /\ p \in Procs /\ p \notin DOMAIN active /\ p # Controller
      /\ p \notin running /\ at[p].pc = "idle"
  BY <1>2, NewPidExists, ZenonT(60) DEF NewPidIsFresh
<1> HIDE DEF p
<1>4. /\ frontier' \in Seq(1 .. MaxRecipe) /\ Len(frontier') <= MaxFrontier
      /\ Head(frontier) \in 0 .. MaxRecipe /\ started' \in 0 .. program.runs
      /\ started = timelines + Cardinality(DOMAIN active) /\ started \in Nat /\ timelines \in Nat
  BY <1>2, PopKeeps DEF PopsWell
<1>5. /\ TableInv' /\ NoneFires /\ program' = program /\ missed' = missed
      /\ running' = running \cup {p} /\ at'[p].pc = "idle"
      /\ \A q \in Procs : q # p => at'[q] = at[q] /\ journal'[q] = journal[q]
  BY <1>2, <1>3, BeginRunKeeps DEF RunBegins
<1>6. /\ Len(free) \in Nat /\ Len(free) >= 1 /\ TopSlot \in Slots
      /\ OtherSlots \in Seq(Slots) /\ Len(OtherSlots) = Len(free) - 1
      /\ \A n \in DOMAIN OtherSlots : n \in DOMAIN free /\ OtherSlots[n] = free[n] /\ free[n] # TopSlot
      /\ \A q \in DOMAIN active : active[q].slot # TopSlot
  BY <1>2, FreeTop DEF TopIsFree
<1>7. w.slot = TopSlot /\ w.job = Head(frontier)
  BY ZenonT(60)
<1> HIDE DEF w
<1>8. /\ DOMAIN active' = DOMAIN active \cup {p} /\ active'[p] = w
      /\ \A q \in DOMAIN active : q # p /\ active'[q] = active[q]
  BY <1>2, <1>3, ZenonT(60)
<1>9. /\ slot' \in [Slots -> SUBSET Event] /\ slot'[TopSlot] = {}
      /\ \A s \in Slots : s # TopSlot => slot'[s] = slot[s]
  BY <1>1, <1>2, <1>6, ZenonT(60) DEF PoolTyped
<1>10. \A q \in DOMAIN active : /\ slot'[active[q].slot] = slot[active[q].slot]
                                /\ q \in Procs /\ q \in Pids
  BY <1>6, <1>9, PoolFacts DEF PoolSound
<1>11. /\ status' \in [Procs -> {"none", "running", "written", "ended", "gone"}] /\ status'[p] = "running"
       /\ \A q \in Procs : q # p => status'[q] = status[q]
  BY <1>1, <1>2, <1>3, ZenonT(60) DEF PoolTyped
<1>12. ControllerTyped'
  BY <1>1, <1>2, <1>4, <1>5 DEF ControllerTyped
<1>13. PoolTyped'
  <2>1. DOMAIN active' \subseteq Pids
    BY <1>3, <1>8, <1>10, ZenonT(60)
  <2>2. \A q \in DOMAIN active' : active'[q].slot \in Slots /\ active'[q].job \in 0 .. MaxRecipe
    BY <1>4, <1>6, <1>7, <1>8, PoolFacts, ZenonT(60) DEF PoolSound
  <2>3. \A s \in Slots : IsFiniteSet(slot'[s])
    BY <1>1, <1>9, FS_EmptySet DEF PoolTyped
  <2> QED
    BY <1>2, <1>6, <1>9, <1>11, <2>1, <2>2, <2>3 DEF PoolTyped
<1>14. Cardinality(DOMAIN active') = Cardinality(DOMAIN active) + 1 /\ Cardinality(DOMAIN active) \in Nat
  <2>1. IsFiniteSet(DOMAIN active) /\ Cardinality(DOMAIN active) \in Nat
    BY PoolFacts DEF PoolSound
  <2> QED
    BY <1>3, <1>8, <2>1, FS_AddElement, ZenonT(60)
<1>15. SlotsApart'
  <2>1. \A m, n \in DOMAIN free' : free'[m] = free'[n] => m = n
    <3>1. \A m, n \in DOMAIN free : free[m] = free[n] => m = n
      BY <1>1 DEF SlotsApart
    <3>2. \A n \in DOMAIN free' : n \in DOMAIN free /\ free'[n] = free[n]
      BY <1>2, <1>6
    <3> QED
      BY <3>1, <3>2, ZenonT(60)
  <2>2. \A q, r \in DOMAIN active' : active'[q].slot = active'[r].slot => q = r
    BY <1>1, <1>6, <1>7, <1>8, ZenonT(60) DEF SlotsApart
  <2>3. \A q \in DOMAIN active' : \A n \in DOMAIN free' : free'[n] # active'[q].slot
    <3>1. ASSUME NEW q \in DOMAIN active', NEW n \in DOMAIN free' PROVE free'[n] # active'[q].slot
      <4>1. n \in DOMAIN free /\ free'[n] = free[n] /\ free[n] # TopSlot
        BY <1>2, <1>6
      <4>2. CASE q = p
        BY <1>7, <1>8, <4>1, <4>2
      <4>3. CASE q # p
        <5>1. q \in DOMAIN active /\ active'[q] = active[q]
          BY <1>8, <4>3
        <5> QED
          BY <1>1, <4>1, <5>1 DEF SlotsApart
      <4> QED
        BY <4>2, <4>3
    <3> QED
      BY <3>1
  <2>4. Cardinality(DOMAIN active) + Len(free) = Workers
    BY <1>1, <1>2, ZenonT(60) DEF SlotsApart
  <2>5. Cardinality(DOMAIN active') + Len(free') = Workers
    <3>1. PICK c \in Nat, n \in Nat : c = Cardinality(DOMAIN active) /\ n = Len(free)
      BY <1>6, <1>14
    <3>2. (c + 1) + (n - 1) = c + n
      BY Pair
    <3> QED
      BY <1>2, <1>6, <1>14, <2>4, <3>1, <3>2
  <2> QED
    BY <2>1, <2>2, <2>3, <2>5 DEF SlotsApart
<1>16. Runners'
  <2>1. \A q \in Procs : status'[q] = "none" <=> q \notin DOMAIN active'
    BY <1>1, <1>3, <1>8, <1>11, ZenonT(60) DEF Runners
  <2>2. \A q \in Pids : q \in running' <=> status'[q] = "running"
    BY <1>1, <1>5, <1>11, PoolFacts, ZenonT(60) DEF Runners, PoolSound
  <2>3. Controller \in running' <=> ctl' \in {"root", "inProcess"}
    BY <1>1, <1>2, <1>3, <1>5, ZenonT(60) DEF Runners
  <2>4. \A q \in Procs \ running' : at'[q].pc = "idle"
    BY <1>1, <1>5, ZenonT(60) DEF Runners
  <2> QED
    BY <2>1, <2>2, <2>3, <2>4 DEF Runners
<1>17. RootFirst'
  BY <1>2, ZenonT(60) DEF RootFirst
<1>18. EveryRunProcessed'
  <2>1. started' = timelines' + Cardinality(DOMAIN active') + 0
    <3>1. PICK t \in Nat, c \in Nat : t = timelines /\ c = Cardinality(DOMAIN active)
      BY <1>4, <1>14
    <3>2. (t + c) + 1 = t + (c + 1) + 0
      BY RunStarts
    <3> QED
      BY <1>2, <1>4, <1>14, <3>1, <3>2
  <2> QED
    BY <1>2, <2>1, ZenonT(60) DEF EveryRunProcessed
<1>19. SlotIsOwn'
  <2>1. ASSUME NEW q \in DOMAIN active', slot'[active'[q].slot] # {}
        PROVE  status'[q] # "running" /\ slot'[active'[q].slot] = journal'[q]
    <3>1. q \in DOMAIN active
      BY <1>7, <1>8, <1>9, <2>1, ZenonT(60)
    <3>2. /\ slot'[active'[q].slot] = slot[active[q].slot] /\ status'[q] = status[q]
          /\ journal'[q] = journal[q]
      BY <1>5, <1>8, <1>10, <1>11, <3>1
    <3>3. slot[active[q].slot] # {}
      BY <2>1, <3>2
    <3>4. status[q] # "running" /\ slot[active[q].slot] = journal[q]
      BY <1>1, <3>1, <3>3 DEF SlotIsOwn
    <3> QED
      BY <3>2, <3>4
  <2> QED
    BY <2>1 DEF SlotIsOwn
<1>20. GoneMissed'
  <2>1. ASSUME NEW q \in DOMAIN active', status'[q] = "gone"
        PROVE  States(slot'[active'[q].slot]) \subseteq missed'
    <3>1. q \in DOMAIN active
      BY <1>8, <1>11, <2>1, ZenonT(60)
    <3> QED
      BY <1>1, <1>5, <1>8, <1>10, <1>11, <2>1, <3>1 DEF GoneMissed
  <2> QED
    BY <2>1 DEF GoneMissed
<1>21. ASSUME NEW s, Heard(s) PROVE Heard(s)'
  <2>1. CASE \E q \in running : s \in States(journal[q])
    <3>1. PICK q \in running : s \in States(journal[q])
      BY <2>1
    <3>2. q \in Procs /\ q # p /\ q \in running'
      BY <1>3, <1>5, PoolFacts, ZenonT(60) DEF PoolSound
    <3> QED
      BY <1>5, <3>1, <3>2 DEF Heard
  <2>2. CASE \E q \in DOMAIN active : s \in States(slot[active[q].slot])
    <3>1. PICK q \in DOMAIN active : s \in States(slot[active[q].slot])
      BY <2>2
    <3>2. q \in DOMAIN active' /\ active'[q] = active[q]
      BY <1>8, ZenonT(60)
    <3> QED
      BY <1>10, <3>1, <3>2 DEF Heard
  <2> QED
    BY <1>2, <1>5, <1>21, <2>1, <2>2 DEF Heard
<1>22. NoveltyReachesController'
  BY <1>1, <1>2, <1>5, <1>21, NoveltyKept
<1> QED
  BY <1>5, <1>12, <1>13, <1>15, <1>16, <1>17, <1>18, <1>19, <1>20, <1>22 DEF IInv, PoolInv

\* There are no workers, or fork failed: the job runs in the controller.
LEMMA RunInProcessKeeps ==
    ASSUME IInv, RunInProcess
    PROVE  IInv'
<1> USE ZenonT(60)
<1>1. /\ TableInv /\ NoveltyReachesController /\ PoolTyped /\ Runners /\ SlotIsOwn /\ GoneMissed
      /\ SlotsApart /\ ControllerTyped
  BY Unpacked DEF Parts
<1>2. /\ Looping /\ frontier # <<>> /\ ~PoolFull /\ ctl = "loop"
      /\ frontier' = Tail(frontier) /\ started' = started + 1 /\ ctl' = "inProcess" /\ job' = Head(frontier)
      /\ slot' = (IF Workers = 0 THEN slot ELSE [slot EXCEPT ![TopSlot] = {}])
      /\ BeginRun(Controller) /\ known' = known /\ round' = round /\ timelines' = timelines
      /\ active' = active /\ free' = free /\ status' = status
  BY ZenonT(60) DEF RunInProcess, Looping
<1>3. /\ frontier' \in Seq(1 .. MaxRecipe) /\ Len(frontier') <= MaxFrontier
      /\ Head(frontier) \in 0 .. MaxRecipe /\ started' \in 0 .. program.runs
      /\ started = timelines + Cardinality(DOMAIN active) /\ started \in Nat /\ timelines \in Nat
      /\ Controller \notin running /\ at[Controller].pc = "idle"
  BY <1>2, PopKeeps DEF PopsWell
<1>4. Controller \in Procs /\ \A q \in DOMAIN active : q \in Procs /\ q # Controller /\ active[q].slot \in Slots
  BY PoolFacts DEF PoolSound
<1>5. /\ TableInv' /\ NoneFires /\ program' = program /\ missed' = missed
      /\ running' = running \cup {Controller} /\ at'[Controller].pc = "idle"
      /\ \A q \in Procs : q # Controller => at'[q] = at[q] /\ journal'[q] = journal[q]
  BY <1>2, <1>3, <1>4, BeginRunKeeps DEF RunBegins
<1>6. /\ slot' \in [Slots -> SUBSET Event] /\ \A s \in Slots : IsFiniteSet(slot'[s])
      /\ \A q \in DOMAIN active : slot'[active[q].slot] = slot[active[q].slot]
  <2>1. CASE slot' = slot
    BY <1>1, <2>1 DEF PoolTyped
  <2>2. CASE slot' = [slot EXCEPT ![TopSlot] = {}] /\ Workers # 0
    <3>1. free # <<>>
      <4>1. Workers > 0
        BY <2>2, WorkersNat, Positive
      <4> QED
        BY <1>2, <4>1 DEF PoolFull
    <3>2. TopSlot \in Slots /\ \A q \in DOMAIN active : active[q].slot # TopSlot
      BY <3>1, FreeTop DEF TopIsFree
    <3>3. /\ slot' \in [Slots -> SUBSET Event] /\ slot'[TopSlot] = {}
          /\ \A s \in Slots : s # TopSlot => slot'[s] = slot[s]
      BY <1>1, <2>2, <3>2, ZenonT(60) DEF PoolTyped
    <3>4. \A s \in Slots : IsFiniteSet(slot'[s])
      BY <1>1, <3>3, FS_EmptySet DEF PoolTyped
    <3> QED
      BY <1>4, <3>2, <3>3, <3>4
  <2> QED
    BY <1>2, <2>1, <2>2
<1>7. ControllerTyped'
  <2>1. ctl' \in {"root", "loop", "inProcess", "drain", "done", "dropped"}
    BY <1>2, ZenonT(60)
  <2> QED
    BY <1>1, <1>2, <1>3, <1>5, <2>1 DEF ControllerTyped
<1>8. PoolTyped'
  BY <1>1, <1>2, <1>6 DEF PoolTyped
<1>9. SlotsApart' /\ RootFirst'
  BY <1>1, <1>2, ZenonT(60) DEF SlotsApart, RootFirst
<1>10. Runners'
  <2>1. \A q \in Pids : q \in running' <=> status'[q] = "running"
    BY <1>1, <1>2, <1>5, PoolFacts, ZenonT(60) DEF Runners, PoolSound
  <2>2. Controller \in running' <=> ctl' \in {"root", "inProcess"}
    BY <1>2, <1>5, ZenonT(60)
  <2>3. \A q \in Procs \ running' : at'[q].pc = "idle"
    BY <1>1, <1>5, ZenonT(60) DEF Runners
  <2> QED
    BY <1>1, <1>2, <2>1, <2>2, <2>3 DEF Runners
<1>11. EveryRunProcessed'
  <2>1. Cardinality(DOMAIN active) \in Nat
    BY PoolFacts DEF PoolSound
  <2>2. started' = timelines' + Cardinality(DOMAIN active') + 1
    BY <1>2, <1>3, <2>1, ZenonT(60)
  <2> QED
    BY <1>2, <2>2, ZenonT(60) DEF EveryRunProcessed
<1>12. SlotIsOwn' /\ GoneMissed'
  BY <1>1, <1>2, <1>4, <1>5, <1>6 DEF SlotIsOwn, GoneMissed
<1>13. ASSUME NEW s, Heard(s) PROVE Heard(s)'
  <2>1. CASE \E q \in running : s \in States(journal[q])
    <3>1. PICK q \in running : s \in States(journal[q])
      BY <2>1
    <3>2. q \in Procs /\ q # Controller /\ q \in running'
      BY <1>3, <1>5, PoolFacts, ZenonT(60) DEF PoolSound
    <3> QED
      BY <1>5, <3>1, <3>2 DEF Heard
  <2>2. CASE \E q \in DOMAIN active : s \in States(slot[active[q].slot])
    BY <1>2, <1>6, <2>2 DEF Heard
  <2> QED
    BY <1>2, <1>5, <1>13, <2>1, <2>2 DEF Heard
<1>14. NoveltyReachesController'
  BY <1>1, <1>2, <1>5, <1>13, NoveltyKept, ZenonT(60)
<1> QED
  BY <1>5, <1>7, <1>8, <1>9, <1>10, <1>11, <1>12, <1>14 DEF IInv, PoolInv

\* The controller unwinds, and its workers with it.
LEMMA DropKeeps ==
    ASSUME IInv, Drop
    PROVE  IInv'
<1> USE ZenonT(60)
<1> DEFINE dead == DOMAIN active \cup {Controller}
<1>1. /\ TableInv /\ PoolTyped /\ Runners /\ SlotsApart /\ ControllerTyped /\ Journals /\ TableTyped
  BY Unpacked DEF Parts
<1>2. /\ ctl' = "dropped" /\ Vanishes(dead) /\ active' = <<>> /\ status' = [p \in Procs |-> "none"]
      /\ UNCHANGED <<program, next, dropped, table>> /\ journal' = journal /\ missed' = missed
      /\ job' = job /\ started' = started /\ frontier' = frontier /\ known' = known /\ round' = round
      /\ timelines' = timelines /\ free' = free /\ slot' = slot /\ program' = program
  BY ZenonT(60) DEF Drop, novelty
<1>3. dead \in SUBSET Procs
  BY PoolFacts, ZenonT(60) DEF PoolSound
<1> HIDE DEF dead
<1>4. Leaves(dead) /\ running' = running \ dead
  BY <1>2 DEF Vanishes, Leaves
<1>5. running' = {}
  <2>1. ASSUME NEW q \in running PROVE q \in dead
    <3>1. CASE q = Controller
      BY <3>1, ZenonT(60) DEF dead
    <3>2. CASE q # Controller
      <4>1. q \in Pids /\ q \in Procs
        BY <3>2, PoolFacts, ZenonT(60) DEF Pids, PoolSound
      <4>2. status[q] # "none"
        BY <1>1, <4>1, ZenonT(60) DEF Runners
      <4> QED
        BY <4>1, <4>2, PoolFacts, ZenonT(60) DEF dead, PoolSound
    <3> QED
      BY <3>1, <3>2
  <2> QED
    BY <1>4, <2>1, ZenonT(60)
<1>6. DOMAIN active' = {}
  BY <1>2, EmptySequence
<1>7. Journals'
  <2>1. MaxJournal \in Nat /\ journal' \in [Procs -> SUBSET Event]
    BY <1>1, <1>2, ProgramFacts DEF Journals, ProgramSound
  <2>2. \A q \in Procs : journal'[q] = journal[q] /\ (q \in running' => q \in running /\ at'[q] = at[q])
    BY <1>2, <1>5, ZenonT(60)
  <2> QED
    BY <1>1, <2>1, <2>2, JournalsKept DEF JournalsStay
<1>8. TableInv'
  <2>1. running' \in SUBSET Procs
    BY <1>5, ZenonT(60)
  <2> QED
    BY <1>1, <1>3, <1>4, <1>7, <2>1, LeavesTable
<1>9. ControllerTyped'
  BY <1>1, <1>2, ZenonT(60) DEF ControllerTyped
<1>10. PoolTyped'
  <2>1. status' \in [Procs -> {"none", "running", "written", "ended", "gone"}]
    BY <1>2, ZenonT(60)
  <2> QED
    BY <1>1, <1>2, <1>6, <2>1, ZenonT(60) DEF PoolTyped
<1>11. SlotsApart' /\ RootFirst' /\ EveryRunProcessed' /\ SlotIsOwn' /\ GoneMissed'
  BY <1>1, <1>2, <1>6, ZenonT(60) DEF SlotsApart, RootFirst, EveryRunProcessed, SlotIsOwn, GoneMissed
<1>12. Runners'
  <2>1. ASSUME NEW q \in Procs PROVE at'[q].pc = "idle"
    <3>1. CASE q \in dead
      BY <1>4, <3>1, ZenonT(60) DEF Leaves, Idle
    <3>2. CASE q \notin dead
      <4>1. q \notin running
        BY <1>4, <1>5, <3>2, ZenonT(60)
      <4>2. at[q].pc = "idle"
        BY <1>1, <4>1, ZenonT(60) DEF Runners
      <4> QED
        BY <1>4, <3>2, <4>2, ZenonT(60) DEF Leaves
    <3> QED
      BY <3>1, <3>2
  <2>2. \A q \in Procs : status'[q] = "none"
    BY <1>2, ZenonT(60)
  <2>3. \A q \in Pids : q \in Procs
    BY PoolFacts DEF PoolSound
  <2> QED
    BY <1>2, <1>5, <1>6, <2>1, <2>2, <2>3, ZenonT(60) DEF Runners
<1>13. NoveltyReachesController'
  BY <1>2 DEF NoveltyReachesController
<1> QED
  BY <1>8, <1>9, <1>10, <1>11, <1>12, <1>13 DEF IInv, PoolInv

\* A slot that is pushed on the free list (finish_worker).
LEMMA AppendFacts ==
    ASSUME NEW S, NEW s \in Seq(S), NEW x \in S
    PROVE  Pushed(Append(s, x), s, x, S)
BY DEF Pushed

\* finish_worker: the run is processed, and the slot is free again.
LEMMA FinishKeeps ==
    ASSUME IInv, NEW p \in DOMAIN active, NEW events \in SUBSET Event, IsFiniteSet(events), NEW lost,
           FinishWorker(p, events, lost), TableInv', NoneFires, program' = program, ctl # "dropped",
           HandsIn(p, events, lost)
    PROVE  IInv'
<1> USE ZenonT(60) DEF HandsIn
<1>1. /\ TableInv /\ NoveltyReachesController /\ PoolTyped /\ Runners /\ SlotIsOwn /\ GoneMissed
      /\ SlotsApart /\ ControllerTyped /\ RootFirst /\ EveryRunProcessed
  BY Unpacked DEF Parts
<1>2. /\ ProcessResult(active[p].job, events, lost)
      /\ active' = [q \in DOMAIN active \ {p} |-> active[q]]
      /\ free' = Append(free, active[p].slot) /\ status' = [status EXCEPT ![p] = "none"]
      /\ ctl' = ctl /\ job' = job /\ started' = started /\ round' = round /\ slot' = slot
  BY ZenonT(20) DEF FinishWorker
<1>3. /\ p \in Pids /\ p \in Procs /\ p # Controller /\ active[p].slot \in Slots
      /\ active[p].job \in 0 .. MaxRecipe /\ \A q \in DOMAIN active : q \in Procs /\ q \in Pids
  BY PoolFacts DEF PoolSound
<1>4. Processed(events, lost)
  BY <1>1, <1>2, <1>3, ProcessKeeps
<1>5. /\ DOMAIN active' = DOMAIN active \ {p}
      /\ \A q \in DOMAIN active' : q \in DOMAIN active /\ q # p /\ active'[q] = active[q]
  BY <1>2, ZenonT(20)
<1>6. /\ status' \in [Procs -> {"none", "running", "written", "ended", "gone"}] /\ status'[p] = "none"
      /\ \A q \in Procs : q # p => status'[q] = status[q]
  BY <1>1, <1>2, <1>3, ZenonT(20) DEF PoolTyped
<1>7. /\ free' \in Seq(Slots) /\ Len(free') = Len(free) + 1 /\ Len(free) \in Nat
      /\ DOMAIN free' = DOMAIN free \cup {Len(free) + 1} /\ Len(free) + 1 \notin DOMAIN free
      /\ free'[Len(free) + 1] = active[p].slot /\ \A n \in DOMAIN free : free'[n] = free[n]
  <2>1. free \in Seq(Slots)
    BY <1>1 DEF PoolTyped
  <2>2. free' = Append(free, active[p].slot) /\ active[p].slot \in Slots
    BY <1>2, <1>3
  <2>3. Pushed(Append(free, active[p].slot), free, active[p].slot, Slots)
    BY <2>1, <2>2, AppendFacts
  <2> QED
    BY <2>2, <2>3 DEF Pushed
<1>8. /\ Cardinality(DOMAIN active) = Cardinality(DOMAIN active') + 1
      /\ Cardinality(DOMAIN active) \in Nat /\ Cardinality(DOMAIN active') \in Nat
  <2>1. IsFiniteSet(DOMAIN active) /\ Cardinality(DOMAIN active) \in Nat
    BY PoolFacts DEF PoolSound
  <2>2. IsFiniteSet(DOMAIN active') /\ Cardinality(DOMAIN active') = Cardinality(DOMAIN active) - 1
    <3>1. \A S : IsFiniteSet(S) =>
            \A x \in S : IsFiniteSet(S \ {x}) /\ Cardinality(S \ {x}) = Cardinality(S) - 1
      BY FS_RemoveElement
    <3>2. IsFiniteSet(DOMAIN active \ {p}) /\ Cardinality(DOMAIN active \ {p}) = Cardinality(DOMAIN active) - 1
      BY <2>1, <3>1
    <3> QED
      BY <1>5, <3>2
  <2>3. Cardinality(DOMAIN active') \in Nat
    BY <2>2, FS_CardinalityType
  <2> DEFINE a == Cardinality(DOMAIN active)
             b == Cardinality(DOMAIN active')
  <2>4. a \in Nat /\ b = a - 1 /\ b \in Nat
    BY <2>1, <2>2, <2>3
  <2> HIDE DEF a, b
  <2>5. a = b + 1
    BY <2>4, Pair
  <2> QED
    BY <2>4, <2>5 DEF a, b
<1>9. ctl # "root"
  BY <1>1, ZenonT(60) DEF RootFirst
<1>10. ControllerTyped'
  <2>1. timelines' \in Nat
    <3>1. timelines \in Nat /\ timelines' = timelines + 1
      BY <1>1, <1>4 DEF ControllerTyped, Processed
    <3> QED
      BY <3>1, Pair
  <2> QED
    BY <1>1, <1>2, <1>4, <2>1 DEF ControllerTyped, Processed, Grown
<1>11. PoolTyped'
  BY <1>1, <1>2, <1>5, <1>6, <1>7, PoolFacts, ZenonT(20) DEF PoolTyped, PoolSound
<1>12. SlotsApart'
  <2>1. ASSUME NEW m \in DOMAIN free', NEW n \in DOMAIN free', free'[m] = free'[n] PROVE m = n
    <3>1. CASE m \in DOMAIN free /\ n \in DOMAIN free
      BY <1>1, <1>7, <2>1, <3>1 DEF SlotsApart
    <3>2. \A k \in DOMAIN free : free'[k] # active[p].slot
      <4>1. \A k \in DOMAIN free : free[k] # active[p].slot
        BY <1>1 DEF SlotsApart
      <4> QED
        BY <1>7, <4>1
    <3> QED
      BY <1>7, <2>1, <3>1, <3>2, ZenonT(20)
  <2>2. \A q, r \in DOMAIN active' : active'[q].slot = active'[r].slot => q = r
    BY <1>1, <1>5 DEF SlotsApart
  <2>3. ASSUME NEW q \in DOMAIN active', NEW n \in DOMAIN free' PROVE free'[n] # active'[q].slot
    <3>1. q \in DOMAIN active /\ q # p /\ active'[q] = active[q]
      BY <1>5
    <3>2. active[q].slot # active[p].slot /\ \A k \in DOMAIN free : free[k] # active[q].slot
      BY <1>1, <3>1 DEF SlotsApart
    <3> QED
      BY <1>7, <3>1, <3>2, ZenonT(60)
  <2>4. Cardinality(DOMAIN active) + Len(free) = Workers
    BY <1>1 DEF SlotsApart
  <2>5. Cardinality(DOMAIN active') + Len(free') = Workers
    <3>1. PICK c \in Nat, n \in Nat : c = Cardinality(DOMAIN active') /\ n = Len(free)
      BY <1>7, <1>8
    <3>2. (c + 1) + n = c + (n + 1)
      BY Pair
    <3> QED
      BY <1>7, <1>8, <2>4, <3>1, <3>2
  <2> QED
    BY <2>1, <2>2, <2>3, <2>5 DEF SlotsApart
<1>13. Runners'
  <2>1. \A q \in Procs : status'[q] = "none" <=> q \notin DOMAIN active'
    BY <1>1, <1>5, <1>6, ZenonT(60) DEF Runners
  <2>2. \A q \in Pids : q \in running' <=> status'[q] = "running"
    BY <1>1, <1>6, PoolFacts, ZenonT(20) DEF Runners, PoolSound
  <2>3. Controller \in running' <=> ctl' \in {"root", "inProcess"}
    BY <1>1, <1>2, <1>3, ZenonT(60) DEF Runners
  <2>4. \A q \in Procs \ running' : at'[q].pc = "idle"
    BY <1>1, ZenonT(20) DEF Runners
  <2> QED
    BY <2>1, <2>2, <2>3, <2>4 DEF Runners
<1>14. RootFirst'
  BY <1>2, <1>9 DEF RootFirst
<1>15. EveryRunProcessed'
  <2>1. PICK k \in Nat : k = IF ctl = "inProcess" THEN 1 ELSE 0
    BY ZenonT(60)
  <2>2. started = timelines + Cardinality(DOMAIN active) + k /\ timelines \in Nat
    BY <1>1, <1>9, <2>1 DEF EveryRunProcessed, ControllerTyped
  <2>3. timelines' = timelines + 1
    BY <1>4 DEF Processed
  <2>4. started = timelines' + Cardinality(DOMAIN active') + k
    <3>1. PICK t \in Nat, c \in Nat : t = timelines /\ c = Cardinality(DOMAIN active')
      BY <1>8, <2>2
    <3>2. t + (c + 1) + k = (t + 1) + c + k
      BY RunFinished
    <3> QED
      BY <1>8, <2>2, <2>3, <3>1, <3>2
  <2> QED
    BY <1>2, <2>1, <2>4 DEF EveryRunProcessed
<1>16. SlotIsOwn'
  <2>1. ASSUME NEW q \in DOMAIN active', slot'[active'[q].slot] # {}
        PROVE  status'[q] # "running" /\ slot'[active'[q].slot] = journal'[q]
    <3>1. /\ q \in DOMAIN active /\ q # p /\ active'[q] = active[q] /\ q \in Procs
          /\ slot'[active'[q].slot] = slot[active[q].slot]
      BY <1>2, <1>3, <1>5
    <3>2. status[q] # "running" /\ slot[active[q].slot] = journal[q]
      BY <1>1, <2>1, <3>1 DEF SlotIsOwn
    <3> QED
      BY <1>6, <3>1, <3>2, ZenonT(20)
  <2> QED
    BY <2>1 DEF SlotIsOwn
<1>17. GoneMissed'
  <2>1. missed \subseteq missed'
    BY <1>4 DEF Processed
  <2> QED
    BY <1>1, <1>2, <1>3, <1>5, <1>6, <2>1 DEF GoneMissed
<1>18. ASSUME NEW s, Heard(s) PROVE Heard(s)'
  <2>1. /\ missed \subseteq missed' /\ lost \subseteq missed' /\ Grown(known', known)
        /\ \A id \in States(events) : (\E n \in DOMAIN known' : known'[n].state = id) \/ id \in missed'
    BY <1>4 DEF Processed
  <2>2. CASE \E q \in running : s \in States(journal[q])
    <3>1. PICK q \in running : s \in States(journal[q])
      BY <2>2
    <3>2. CASE q = p
      BY <2>1, <3>1, <3>2 DEF Heard
    <3>3. CASE q # p
      <4>1. q \in running' /\ q \in Procs
        BY <3>3, PoolFacts, ZenonT(20) DEF PoolSound
      <4> QED
        BY <3>1, <3>3, <4>1 DEF Heard
    <3> QED
      BY <3>2, <3>3
  <2>3. CASE \E q \in DOMAIN active : s \in States(slot[active[q].slot])
    <3>1. PICK q \in DOMAIN active : s \in States(slot[active[q].slot])
      BY <2>3
    <3>2. CASE q = p
      <4>1. s \in States(events) \/ s \in missed
        BY <3>1, <3>2, ZenonT(60)
      <4> QED
        BY <2>1, <4>1 DEF Heard
    <3>3. CASE q # p
      <4>1. q \in DOMAIN active' /\ active'[q] = active[q]
        BY <1>5, <3>3, ZenonT(20)
      <4> QED
        BY <1>2, <3>1, <4>1 DEF Heard
    <3> QED
      BY <3>2, <3>3
  <2>4. CASE \E n \in DOMAIN known : known[n].state = s
    BY <2>1, <2>4 DEF Heard, Grown
  <2>5. CASE s \in missed
    BY <2>1, <2>5 DEF Heard
  <2> QED
    BY <1>18, <2>2, <2>3, <2>4, <2>5 DEF Heard
<1>19. NoveltyReachesController'
  BY <1>1, <1>18, NoveltyKept
<1> QED
  BY <1>10, <1>11, <1>12, <1>13, <1>14, <1>15, <1>16, <1>17, <1>19 DEF IInv, PoolInv

\* A worker is killed where it is, or reaped after it ended.
LEMMA ReapKeeps ==
    ASSUME IInv, NEW p \in Pids, Reap(p) \/ KillSlow(p)
    PROVE  IInv'
<1> USE ZenonT(60)
<1>1. /\ TableInv /\ PoolTyped /\ Runners /\ GoneMissed /\ Journals /\ TableTyped
  BY Unpacked DEF Parts
<1>2. p \in DOMAIN active /\ ctl # "dropped"
  BY ZenonT(20) DEF Reap, KillSlow, Waits, Looping
<1>3. /\ p \in Procs /\ slot[active[p].slot] \in SUBSET Event /\ IsFiniteSet(slot[active[p].slot])
      /\ p \in running <=> status[p] = "running"
  BY <1>2, PoolFacts DEF PoolSound
<1>4. journal' = [journal EXCEPT ![p] = {}]
  BY ZenonT(20) DEF Reap, KillSlow, FinishWorker
<1>5. /\ journal' \in [Procs -> SUBSET Event] /\ journal'[p] = {}
      /\ \A q \in Procs : q # p => journal'[q] = journal[q]
  BY <1>1, <1>3, <1>4, ZenonT(20) DEF Journals
<1>6. PICK dead \in SUBSET Procs : Leaves(dead) /\ (p \in running => p \in dead) /\ dead \subseteq {p}
                                   /\ running' = running \ {p}
  <2>1. CASE Reap(p)
    <3>1. /\ UNCHANGED <<program, next, dropped, table, at, owed>> /\ running' = running
          /\ status[p] \in {"ended", "gone"}
      BY <2>1, ZenonT(60) DEF Reap
    <3>2. p \notin running
      BY <1>3, <3>1, ZenonT(60)
    <3>3. Leaves({})
      BY <1>1, <3>1, NobodyLeaves
    <3> QED
      BY <3>1, <3>2, <3>3, ZenonT(60)
  <2>2. CASE KillSlow(p)
    <3>1. Leaves({p}) /\ running' = running \ {p}
      BY <2>2, ZenonT(20) DEF KillSlow, Vanishes, Leaves
    <3> QED
      BY <1>3, <3>1, ZenonT(60)
  <2> QED
    BY <2>1, <2>2
<1>7. \A q \in Procs : q # p => at'[q] = at[q]
  BY <1>6, ZenonT(60) DEF Leaves
<1>8. at'[p].pc = "idle"
  <2>1. CASE p \in dead
    BY <1>3, <1>6, <2>1, ZenonT(60) DEF Leaves, Idle
  <2>2. CASE p \notin dead
    BY <1>1, <1>3, <1>6, <2>2, ZenonT(20) DEF Leaves, Runners
  <2> QED
    BY <2>1, <2>2
<1>9. running' \in SUBSET Procs /\ \A q \in Procs : q \in running' => q \in running /\ q # p
  BY <1>1, <1>6, ZenonT(60) DEF TableTyped
<1>10. Journals'
  <2>1. MaxJournal \in Nat
    BY <1>1, ProgramFacts DEF ProgramSound
  <2>2. \A q \in Procs : \/ journal'[q] = {}
                         \/ journal'[q] = journal[q] /\ (q \in running' => q \in running /\ at'[q] = at[q])
    BY <1>5, <1>7, <1>9
  <2> QED
    BY <1>1, <1>5, <2>1, <2>2, JournalsKept DEF JournalsStay
<1>11. TableInv' /\ NoneFires /\ program' = program
  BY <1>1, <1>6, <1>9, <1>10, LeavesTable
<1>12. \A q \in Procs : q # p => at'[q] = at[q] /\ journal'[q] = journal[q]
  BY <1>5, <1>7
<1>13. CASE Reap(p)
  <2>1. p \notin running
    BY <1>3, <1>13, ZenonT(20) DEF Reap
  <2>2. CASE status[p] = "gone"
    <3>1. FinishWorker(p, {}, {}) /\ {} \in SUBSET Event /\ IsFiniteSet({})
      BY <1>13, <2>2, FS_EmptySet, ZenonT(20) DEF Reap
    <3>2. States(slot[active[p].slot]) \subseteq States({}) \cup missed
      BY <1>1, <1>2, <2>2, ZenonT(60) DEF GoneMissed
    <3> QED
      BY <1>2, <1>6, <1>8, <1>11, <1>12, <2>1, <3>1, <3>2, FinishKeeps DEF HandsIn
  <2>3. CASE status[p] # "gone"
    <3>1. FinishWorker(p, slot[active[p].slot], {})
      BY <1>13, <2>3 DEF Reap
    <3>2. States(slot[active[p].slot]) \subseteq States(slot[active[p].slot]) \cup missed
      BY ZenonT(60)
    <3> QED
      BY <1>2, <1>3, <1>6, <1>8, <1>11, <1>12, <2>1, <3>1, <3>2, FinishKeeps DEF HandsIn
  <2> QED
    BY <2>2, <2>3
<1>14. CASE KillSlow(p)
  <2>1. FinishWorker(p, slot[active[p].slot], Unwritten(p))
    BY <1>14 DEF KillSlow
  <2>2. States(slot[active[p].slot]) \subseteq States(slot[active[p].slot]) \cup missed
    BY ZenonT(60)
  <2>3. p \in running => States(journal[p]) \subseteq Unwritten(p)
    BY <1>3, ZenonT(20) DEF Unwritten
  <2> QED
    BY <1>2, <1>3, <1>6, <1>8, <1>11, <1>12, <2>1, <2>2, <2>3, FinishKeeps DEF HandsIn
<1> QED
  BY <1>13, <1>14

----------------------------------------------------------------------------
(* The invariant holds.                                                    *)

\* The controller starts with the root run, a free list of all slots and no
\* worker.
LEMMA InitKeeps ==
    ASSUME Init
    PROVE  IInv
<1> USE ZenonT(60)
<1>1. TableInv
  BY InitTable
<1>2. /\ running = {Controller} /\ ctl = "root" /\ job = 0 /\ started = 0 /\ frontier = <<>>
      /\ known = <<>> /\ round = 0 /\ timelines = 0 /\ active = <<>>
      /\ free = [n \in 1 .. Workers |-> Workers - n]
      /\ slot = [s \in Slots |-> {}] /\ status = [p \in Procs |-> "none"]
      /\ at = [p \in Procs |-> Idle(0)] /\ table = [e \in Index |-> Zeroed]
  BY DEF Init, TableInit, Index
<1>3. DOMAIN active = {}
  BY <1>2, EmptySequence
<1>4. Cardinality(DOMAIN active) = 0 /\ IsFiniteSet({})
  BY <1>3, FS_EmptySet
<1>5. Workers \in Nat
  BY WorkersNat
<1>6. program.runs \in Nat
  BY <1>1, ProgramFacts DEF TableInv, ProgramSound
<1>7. ControllerTyped
  <2>1. \A S : <<>> \in Seq(S)
    BY EmptySequence
  <2>2. Len(<<>>) <= MaxFrontier /\ Len(<<>>) <= MaxStates /\ 0 \in 0 .. MaxRecipe
        /\ 0 \in 0 .. program.runs /\ 0 \in Nat
    BY <1>6, Limits, FromZero, Ordered, EmptySequence
  <2> QED
    BY <1>2, <2>1, <2>2 DEF ControllerTyped
<1>8. free \in Seq(Slots) /\ Len(free) = Workers /\ DOMAIN free = 1 .. Workers
      /\ \A n \in 1 .. Workers : free[n] = Workers - n
  <2>1. \A n \in 1 .. Workers : Workers - n \in Slots
    BY <1>5, Mirrored DEF Slots
  <2>2. \A S : \A w \in Nat : \A f \in [1 .. w -> S] : f \in Seq(S) /\ Len(f) = w /\ DOMAIN f = 1 .. w
    BY SMT
  <2>3. free \in [1 .. Workers -> Slots]
    BY <1>2, <2>1, ZenonT(60)
  <2>4. \A n \in 1 .. Workers : free[n] = Workers - n
    BY <1>2, ZenonT(60)
  <2> QED
    BY <1>5, <2>2, <2>3, <2>4
<1>9. PoolTyped
  BY <1>2, <1>3, <1>4, <1>8, ZenonT(60) DEF PoolTyped
<1>10. SlotsApart
  <2>1. \A m, n \in DOMAIN free : free[m] = free[n] => m = n
    <3>1. ASSUME NEW m \in 1 .. Workers, NEW n \in 1 .. Workers, free[m] = free[n] PROVE m = n
      <4>1. Workers - m = Workers - n
        BY <1>8, <3>1
      <4> QED
        BY <1>5, <4>1, Mirrored
    <3> QED
      BY <1>8, <3>1
  <2>2. Cardinality(DOMAIN active) + Len(free) = Workers
    BY <1>4, <1>5, <1>8, Pair
  <2> QED
    BY <1>3, <2>1, <2>2, ZenonT(60) DEF SlotsApart
<1>11. Runners
  BY <1>2, <1>3, ExplorerAssumption, ZenonT(60) DEF Runners, Pids, Idle
<1>12. RootFirst /\ EveryRunProcessed
  BY <1>2, <1>3, ZenonT(60) DEF RootFirst, EveryRunProcessed
<1>13. SlotIsOwn /\ GoneMissed
  BY <1>3, ZenonT(60) DEF SlotIsOwn, GoneMissed
<1>14. NoveltyReachesController
  <2>1. \A e \in Index : table[e].state = "unused"
    BY <1>2, ZenonT(60) DEF Zeroed
  <2>2. \A e \in Index : ~Latched(e)
    BY <2>1, ZenonT(60) DEF Latched
  <2> QED
    BY <2>2, ZenonT(60) DEF NoveltyReachesController
<1> QED
  BY <1>1, <1>7, <1>9, <1>10, <1>11, <1>12, <1>13, <1>14 DEF IInv, PoolInv

\* A step that leaves everything alone.
LEMMA StutterKeeps ==
    ASSUME IInv, UNCHANGED vars
    PROVE  IInv'
<1>1. /\ program' = program /\ next' = next /\ dropped' = dropped /\ table' = table /\ at' = at
      /\ journal' = journal /\ running' = running /\ owed' = owed /\ firsts' = firsts
      /\ missed' = missed
  BY DEF vars, tableVars
<1>2. /\ ctl' = ctl /\ job' = job /\ started' = started /\ frontier' = frontier /\ known' = known
      /\ round' = round /\ timelines' = timelines /\ active' = active /\ free' = free
      /\ slot' = slot /\ status' = status
  BY DEF vars, explorerVars
<1>3. TableInv'
  <2>1. TableInv /\ UNCHANGED tableVars
    BY Zenon DEF IInv, vars
  <2> QED
    BY <2>1, TableSame, ZenonT(60)
<1>4. PoolInv'
  BY <1>1, <1>2, ZenonT(60) DEF IInv, PoolInv, ControllerTyped, PoolTyped, SlotsApart, Runners, RootFirst,
     SlotIsOwn, EveryRunProcessed, GoneMissed
<1>5. NoveltyReachesController'
  BY <1>1, <1>2, ZenonT(60) DEF IInv, NoveltyReachesController, Latched, Index
<1> QED
  BY <1>3, <1>4, <1>5, ZenonT(60) DEF IInv

\* Every step of the controller and of its workers keeps the invariant.
LEMMA NextKeeps ==
    ASSUME IInv, [Next]_vars
    PROVE  IInv'
<1> USE ZenonT(60)
<1>1. CASE ControllerStep
  <2>1. CASE TimelineStep(Controller)
    BY <2>1, ExplorerAssumption, TimelineKeeps
  <2>2. CASE EndInProcess
    BY <2>2, EndInProcessKeeps
  <2>3. CASE Fork
    BY <2>3, ForkKeeps
  <2>4. CASE RunInProcess
    BY <2>4, RunInProcessKeeps
  <2>5. CASE Continue
    BY <2>5, ContinueKeeps
  <2>6. CASE BudgetSpent \/ Drained
    BY <2>6, DrainKeeps
  <2>7. CASE \E p \in Pids : Reap(p) \/ KillSlow(p)
    BY <2>7, ReapKeeps
  <2> QED
    BY <1>1, <2>1, <2>2, <2>3, <2>4, <2>5, <2>6, <2>7 DEF ControllerStep
<1>2. CASE Drop
  BY <1>2, DropKeeps
<1>3. ASSUME NEW p \in Pids, WorkerStep(p) PROVE IInv'
  <2>1. p \in Procs
    BY DEF Pids
  <2>2. CASE TimelineStep(p)
    BY <2>1, <2>2, TimelineKeeps
  <2>3. CASE WriteSlot(p)
    BY <2>3, WriteSlotKeeps
  <2>4. CASE Exit(p) \/ ReapedElsewhere(p)
    BY <2>4, ExitKeeps
  <2>5. CASE Crash(p)
    BY <2>5, CrashKeeps
  <2> QED
    BY <1>3, <2>2, <2>3, <2>4, <2>5 DEF WorkerStep
<1>4. CASE UNCHANGED vars
  BY <1>4, StutterKeeps
<1> QED
  BY <1>1, <1>2, <1>3, <1>4 DEF Next

\* The invariant holds of every state the exploration reaches.
LEMMA Invariant == Spec => []IInv
<1>1. Init => IInv
  BY InitKeeps, Zenon
<1>2. IInv /\ [Next]_vars => IInv'
  BY NextKeeps, Zenon
<1> QED
  BY <1>1, <1>2, PTL DEF Spec

----------------------------------------------------------------------------
(* What it promises.                                                       *)

\* Whatever the number of processes and wherever they die, an evaluation is
\* counted once, in the entry of its site, as dropped or as a conflict, and an
\* identity that is published gets no second entry (claim, assertion_bool).
THEOREM CountedOnceHolds == Spec => []CountedOnce
<1>1. IInv => CountedOnce
  <2>1. ASSUME IInv PROVE NoLateDuplicate
    <3>1. \A p \in Procs : OwnedBy(p)
      BY <2>1, Zenon DEF IInv, TableInv, Owned
    <3> QED
      BY <3>1, Zenon DEF NoLateDuplicate, OwnedBy
  <2> QED
    BY <2>1, Zenon DEF CountedOnce, IInv, TableInv
<1> QED
  BY <1>1, Invariant, PTL

\* The entries, places and books keep their types and their bounds.
LEMMA TypesFollow ==
    ASSUME IInv
    PROVE  ExplorerTypeOK
<1> USE ZenonT(60)
<1>1. TableTyped /\ Journals /\ ControllerTyped /\ PoolTyped
  BY Unpacked DEF Parts
<1>2. {next, dropped, owed} \subseteq Nat
  BY <1>1, ZenonT(60) DEF TableTyped
<1>3. \A e \in Index : /\ table[e].state \in {"unused", "initializing", "ready"}
                       /\ table[e].id \in Ids \cup {NoId}
  BY <1>1, EntryFields DEF EntryTyped
<1>4. \A p \in Procs :
        /\ at[p].pc \in {"idle", "find", "await", "full", "mark", "marked", "check",
                         "release", "awaitWinner", "publish", "record", "measure", "latch"}
        /\ at[p].mine \in Index
        /\ at[p].i \in 0 .. program.capacity
        /\ Cardinality(journal[p]) <= MaxJournal
  BY <1>1, PlaceFields DEF Pcs, Journals, JournalOf, PlaceTyped
<1>5. TypeOK
  BY <1>1, <1>2, <1>3, <1>4 DEF TypeOK, TableTyped
<1>6. Range(frontier) \subseteq 1 .. MaxRecipe
  <2>1. \A S : \A q \in Seq(S) : \A n \in DOMAIN q : q[n] \in S
    BY SMT
  <2>2. \A n \in DOMAIN frontier : frontier[n] \in 1 .. MaxRecipe
    BY <1>1, <2>1 DEF ControllerTyped
  <2> QED
    BY <2>2 DEF Range
<1> QED
  BY <1>1, <1>5, <1>6 DEF ExplorerTypeOK, ControllerTyped, PoolTyped

\* Every run that started is in the controller's books once, with its own
\* result, for any pool and whatever becomes of the workers (clear_slot,
\* write_slot, poll_active, finish_worker).
THEOREM RunsAccountedHolds == Spec => []RunsAccounted
<1>1. IInv => RunsAccounted
  BY TypesFollow, Unpacked, ZenonT(60) DEF RunsAccounted, Parts
<1> QED
  BY <1>1, Invariant, PTL

\* A discovery whose latch fired reaches the controller, is on its way to it,
\* or was lost with a process or to a full table (on_discovery, write_slot,
\* process_result).
THEOREM NoveltyHolds == Spec => []NoveltyReachesController
<1>1. IInv => NoveltyReachesController
  BY Zenon DEF IInv
<1> QED
  BY <1>1, Invariant, PTL

=============================================================================
