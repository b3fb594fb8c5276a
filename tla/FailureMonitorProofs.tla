------------------------ MODULE FailureMonitorProofs ------------------------
(***************************************************************************)
(* Type correctness of the failure monitor, that its bounded table of      *)
(* addresses forgets nothing that matters, and that on_failed_for reports  *)
(* only what it was asked for.                                             *)
(***************************************************************************)
EXTENDS FailureMonitor, WellFoundedInduction, FiniteSetTheorems, TLAPS

Record == [failed : BOOLEAN, last : SUBSET Waiters, failing : Ages, references : Nat]

\* A table of records of addresses.
Table(known) ==
    /\ known = [a \in DOMAIN known |-> known[a]]
    /\ DOMAIN known \subseteq Addresses
    /\ \A a \in DOMAIN known : known[a] \in Record

\* What the table says of an address: an address without a record is a fresh one.
Of(known, a) == IF a \in DOMAIN known THEN known[a] ELSE Fresh

\* Two tables say the same of an address, but for when it last disconnected.
Agree(known, other, a) ==
    /\ Of(known, a).failed = Of(other, a).failed
    /\ Of(known, a).failing = Of(other, a).failing
    /\ Of(known, a).references = Of(other, a).references

Future ==
    [kind : {"none", "once", "failedFor"},
     goal : {"none", "change", "disconnect", "failed", "available", "either"},
     on : Endpoints \cup {Idle.on},
     pc : {"idle", "new", "version", "check", "judge", "changed", "parked"},
     elapsed : Ages, left : Int, sustain : Sustains \cup {Idle.sustain}]

\* The keys of permanent failures.
Keys == {Key(e, reason) : e \in Endpoints, reason \in {"NotFound", "StaleIncarnation"}}

\* The types the proofs need; TypeOK leaves out the history and bounds the counts.
Typed ==
    /\ Table(records)
    /\ failed \in Seq(Keys)
    /\ session \in [Addresses -> {"none", "dialing", "up"}]
    /\ telling \in [Addresses -> {"nothing", "change", "recovery", "probe"}]
    /\ registered \subseteq Waiters /\ stale \subseteq Waiters /\ woken \subseteq Waiters
    /\ runtime \in {"running", "dropped", "closed"}
    /\ wait \in [Waiters -> Future]
    /\ run \in [Addresses -> Ages]
    /\ down \in [Addresses -> Ages]

\* The table of failed endpoints is bounded and names a key once.
Bounded == Len(failed) <= MaxFailed /\ IsInjective(failed)

\* How the step, the goal and the times of a future go together.
Sane(f) ==
    /\ f.kind = "failedFor" =>
        /\ f.on \in Endpoints
        /\ f.sustain \in Sustains
        /\ f.pc # "idle"
        /\ f.goal \in {"failed", "available"}
        /\ f.pc # "new" => f.elapsed # None
        /\ f.goal = "available" => f.left \in Nat /\ f.pc \notin {"new", "judge"}
    /\ f.kind # "failedFor" => f.left = None /\ f.pc # "judge"

Futures == \A w \in Waiters : Sane(wait[w])

\* A dropped runtime has no sessions and no tables.
Gone ==
    runtime # "running" =>
        /\ DOMAIN records = {}
        /\ \A a \in Addresses : session[a] = "none" /\ telling[a] = "nothing"

\* The futures of on_failed_for that watch address a.
Watching(futures, a) ==
    {w \in Waiters : futures[w].kind = "failedFor" /\ futures[w].on.address = a}

\* RecordsKept, in terms of what the table says.
Kept ==
    runtime = "running" => \A a \in Addresses :
        /\ Of(records, a).failing = run[a]
        /\ Of(records, a).failed => run[a] >= Delay
        /\ Of(records, a).references = Cardinality(Watching(wait, a))

\* A parked future is registered with the latch or was woken, and one that the
\* latch moved past was woken.
Latched ==
    \A w \in Waiters :
        wait[w].pc = "parked" => w \in registered \cup woken /\ (w \in stale => w \in woken)

\* While the runtime lives, the waiters have an address for failed from the
\* failure on until its recovery is published.
Downs ==
    runtime = "running" => \A a \in Addresses :
        /\ down[a] # None <=> Of(records, a).failed \/ telling[a] = "recovery"
        /\ telling[a] = "recovery" => ~Of(records, a).failed /\ run[a] = None

\* The future looks at the monitor again before it sleeps on.
MustLook(w) == wait[w].pc \in {"version", "check"} \/ w \in stale

\* A future that gives its address time to recover: the address has been failed
\* for the time that is not left, or the future is about to find it recovered.
TimedFor(w) ==
    wait[w].kind = "failedFor" /\ wait[w].goal = "available" =>
        \/ /\ down[wait[w].on.address] # None
           /\ down[wait[w].on.address] + wait[w].left >= wait[w].sustain.sustained
        \/ /\ MustLook(w)
           /\ ~Of(records, wait[w].on.address).failed
           /\ \/ run[wait[w].on.address] \in {None, 0}
              \/ wait[w].left >= wait[w].sustain.sustained

Timed == \A w \in Waiters : TimedFor(w)

-----------------------------------------------------------------------------
(* Numbers and tables.                                                     *)

\* No sequence of natural numbers goes down for ever.
LEMMA Descent == IsWellFoundedOn({ss \in Nat \X Nat : ss[1] < ss[2]}, Nat)
BY NatLessThanWellFounded DEF OpToRel

\* A nonempty set of natural numbers has a least element.
LEMMA Smallest ==
    ASSUME NEW S \in SUBSET Nat, S # {}
    PROVE  \E m \in S : \A k \in S : m <= k
<1> DEFINE R == {ss \in Nat \X Nat : ss[1] < ss[2]}
<1>1. PICK m \in S : \A k \in S : ~(<<k, m>> \in R)
  BY Descent, WFMin, Zenon
<1>2. \A j, k \in Nat : <<j, k>> \in R <=> j < k
  OBVIOUS
<1>3. \A j, k \in Nat : ~(j < k) => k <= j
  OBVIOUS
<1> QED
  BY <1>1, <1>2, <1>3, Zenon

\* The record a full table forgets is one that may be forgotten.
LEMMA VictimForgettable ==
    ASSUME Table(records), Forgettable # {}
    PROVE  Min(Forgettable) \in Forgettable
<1>1. Forgettable \in SUBSET Nat
  BY MonitorAssumption, Zenon DEF Forgettable, Table
<1>2. \E m \in Forgettable : \A k \in Forgettable : m <= k
  BY <1>1, Smallest, Zenon
<1> QED
  BY <1>2, Zenon DEF Min

\* Making room for an address changes nothing the table says of any address, but
\* for when it last disconnected (MonitorState::record).
LEMMA RecordedAgrees ==
    ASSUME Typed, NEW a \in Addresses
    PROVE  /\ Table(Recorded(a))
           /\ a \in DOMAIN Recorded(a)
           /\ \A b \in Addresses : Agree(Recorded(a), records, b)
<1> DEFINE victims == IF Cardinality(DOMAIN records) >= MaxAddresses /\ Forgettable # {}
                      THEN {Min(Forgettable)} ELSE {}
<1>1. Table(records)
  BY Zenon DEF Typed
<1>2. victims \subseteq Forgettable
  BY <1>1, VictimForgettable, Zenon
<1>3. Fresh \in Record
  BY DEF Fresh, Record, Ages
<1>4. CASE a \in DOMAIN records
  BY <1>1, <1>4, Zenon DEF Recorded, Agree
<1>5. CASE a \notin DOMAIN records
  <2>1. Recorded(a) = [b \in (DOMAIN records \ victims) \cup {a} |->
                          IF b = a THEN Fresh ELSE records[b]]
    BY <1>5, Zenon DEF Recorded
  <2> HIDE DEF victims
  <2>2. DOMAIN Recorded(a) = (DOMAIN records \ victims) \cup {a}
    BY <2>1, Zenon
  <2>3. \A b \in DOMAIN Recorded(a) : Recorded(a)[b] = IF b = a THEN Fresh ELSE records[b]
    BY <2>1, <2>2, Zenon
  <2>4. Table(Recorded(a))
    <3>1. Recorded(a) = [b \in DOMAIN Recorded(a) |-> Recorded(a)[b]]
      BY <2>1
    <3> QED
      BY <1>1, <1>3, <2>2, <2>3, <3>1, Zenon DEF Table
  <2>5. ASSUME NEW b \in Addresses PROVE Agree(Recorded(a), records, b)
    <3>1. CASE b = a
      BY <3>1, <1>5, <2>2, <2>3, Zenon DEF Agree, Of
    <3>2. CASE b # a /\ b \in victims
      <4>1. b \in Forgettable /\ b \notin DOMAIN Recorded(a)
        BY <3>2, <1>2, <2>2, Zenon
      <4>2. /\ b \in DOMAIN records /\ ~records[b].failed
            /\ records[b].references = 0 /\ records[b].failing = None
        BY <4>1, Zenon DEF Forgettable
      <4>3. records[b] \in Record
        BY <4>2, <1>1, Zenon DEF Table
      <4>4. records[b].failed = FALSE
        BY <4>2, <4>3, Zenon DEF Record
      <4> QED
        BY <4>1, <4>2, <4>4, Zenon DEF Agree, Of, Fresh
    <3>3. CASE b # a /\ b \notin victims
      BY <3>3, <2>2, <2>3, Zenon DEF Agree, Of
    <3> QED
      BY <3>1, <3>2, <3>3, Zenon
  <2> QED
    BY <2>2, <2>4, <2>5, Zenon
<1> QED
  BY <1>4, <1>5, Zenon

\* Writing the record of an address leaves the other addresses as they were.
LEMMA Written ==
    ASSUME Typed, NEW a \in Addresses, NEW r \in Record,
           records' = [Recorded(a) EXCEPT ![a] = r]
    PROVE  /\ Table(records')
           /\ Of(records', a) = r
           /\ \A b \in Addresses \ {a} : Agree(records', records, b)
<1>1. /\ Table(Recorded(a))
      /\ a \in DOMAIN Recorded(a)
      /\ \A b \in Addresses : Agree(Recorded(a), records, b)
  BY RecordedAgrees, Zenon
<1>2. /\ DOMAIN records' = DOMAIN Recorded(a)
      /\ records'[a] = r
      /\ \A b \in DOMAIN Recorded(a) : b # a => records'[b] = Recorded(a)[b]
      /\ records' = [b \in DOMAIN records' |-> records'[b]]
  BY <1>1, Zenon DEF Table
<1>3. Table(records')
  <2>1. \A b \in DOMAIN records' : records'[b] \in Record
    BY <1>1, <1>2, Zenon DEF Table
  <2> QED
    BY <1>1, <1>2, <2>1, Zenon DEF Table
<1>4. Of(records', a) = r
  BY <1>1, <1>2, Zenon DEF Of
<1>5. \A b \in Addresses \ {a} : Of(records', b) = Of(Recorded(a), b)
  BY <1>2, Zenon DEF Of
<1> QED
  BY <1>1, <1>3, <1>4, <1>5, Zenon DEF Agree

\* A session that establishes ends the failure run of its address.
LEMMA EstablishedWrites ==
    ASSUME Typed, NEW a \in Addresses, Established(a)
    PROVE  /\ Table(records')
           /\ Of(records', a).failed = FALSE
           /\ Of(records', a).failing = None
           /\ Of(records', a).references = Of(records, a).references
           /\ \A b \in Addresses \ {a} : Agree(records', records, b)
<1> DEFINE was == Recorded(a)[a]
           r == [was EXCEPT !.failing = None, !.failed = FALSE]
<1>1. /\ Table(Recorded(a))
      /\ a \in DOMAIN Recorded(a)
      /\ Agree(Recorded(a), records, a)
  BY RecordedAgrees, Zenon
<1>2. was \in Record
  BY <1>1, Zenon DEF Table
<1>3. /\ r \in Record /\ r.failed = FALSE /\ r.failing = None /\ r.references = was.references
  BY <1>2, Zenon DEF Record, Ages
<1>4. records' = [Recorded(a) EXCEPT ![a] = r]
  BY <1>1, Zenon DEF Established, Table
<1>5. was.references = Of(records, a).references
  BY <1>1, Zenon DEF Agree, Of
<1> HIDE DEF r, was
<1> QED
  BY <1>3, <1>4, <1>5, Written, Zenon

\* A session that ends keeps the first failure of the run it belongs to, and fails
\* the address when the run is as old as the detection delay.
LEMMA EndsWrites ==
    ASSUME Typed, NEW a \in Addresses, NEW failure \in BOOLEAN, Ends(a, failure)
    PROVE  LET was == Of(records, a)
               age == IF was.failing = None THEN 0 ELSE was.failing
           IN  /\ Table(records')
               /\ Of(records', a).failing = (IF failure THEN age ELSE was.failing)
               /\ Of(records', a).failed = (was.failed \/ (failure /\ age >= Delay))
               /\ Of(records', a).references = was.references
               /\ \A b \in Addresses \ {a} : Agree(records', records, b)
               /\ down' = [down EXCEPT ![a] = IF failure /\ age >= Delay /\ @ = None THEN 0 ELSE @]
<1> DEFINE was == Recorded(a)[a]
           age == IF was.failing = None THEN 0 ELSE was.failing
           waiting == {w \in Waiters : wait[w].goal \in {"disconnect", "either"}}
           r == [was EXCEPT !.last = waiting,
                            !.failing = IF failure THEN age ELSE @,
                            !.failed = @ \/ (failure /\ age >= Delay)]
<1>1. /\ Table(Recorded(a))
      /\ a \in DOMAIN Recorded(a)
      /\ Agree(Recorded(a), records, a)
  BY RecordedAgrees, Zenon
<1>2. was \in Record
  BY <1>1, Zenon DEF Table
<1>3. /\ r \in Record
      /\ r.failed = (was.failed \/ (failure /\ age >= Delay))
      /\ r.failing = (IF failure THEN age ELSE was.failing)
      /\ r.references = was.references
  <2>1. /\ (was.failed \/ (failure /\ age >= Delay)) \in BOOLEAN
        /\ waiting \in SUBSET Waiters
        /\ was.references \in Nat
        /\ DOMAIN was = {"failed", "last", "failing", "references"}
    BY <1>2, Zenon DEF Record
  <2>2. (IF failure THEN age ELSE was.failing) \in Ages
    BY <1>2, MonitorAssumption, SMTT(60) DEF Record, Ages, None
  <2> HIDE DEF was, age, waiting
  <2> QED
    BY <1>2, <2>1, <2>2, Zenon DEF Record
<1>4. records' = [Recorded(a) EXCEPT ![a] = r]
  BY <1>1, Zenon DEF Ends, Table
<1>5. /\ was.references = Of(records, a).references
      /\ was.failed = Of(records, a).failed
      /\ was.failing = Of(records, a).failing
  BY <1>1, Zenon DEF Agree, Of
<1>6. down' = [down EXCEPT ![a] = IF failure /\ age >= Delay /\ @ = None THEN 0 ELSE @]
  BY Zenon DEF Ends
<1> HIDE DEF r, was
<1> QED
  BY <1>3, <1>4, <1>5, <1>6, Written, Zenon

\* A reference to an address is one more or one less, and changes nothing else.
LEMMA ReferencedWrites ==
    ASSUME Typed, NEW a \in Addresses, NEW n \in Int, Referenced(a, n),
           Of(records, a).references + n \in Nat
    PROVE  /\ Table(records')
           /\ Of(records', a).failed = Of(records, a).failed
           /\ Of(records', a).failing = Of(records, a).failing
           /\ Of(records', a).references = Of(records, a).references + n
           /\ \A b \in Addresses \ {a} : Agree(records', records, b)
<1> DEFINE was == Recorded(a)[a]
           r == [was EXCEPT !.references = @ + n]
<1>1. /\ Table(Recorded(a))
      /\ a \in DOMAIN Recorded(a)
      /\ Agree(Recorded(a), records, a)
  BY RecordedAgrees, Zenon
<1>2. was \in Record
  BY <1>1, Zenon DEF Table
<1>3. /\ was.references = Of(records, a).references
      /\ was.failed = Of(records, a).failed
      /\ was.failing = Of(records, a).failing
  BY <1>1, Zenon DEF Agree, Of
<1>4. /\ r \in Record
      /\ r.failed = was.failed
      /\ r.failing = was.failing
      /\ r.references = was.references + n
  BY <1>2, <1>3 DEF Record
<1>5. records' = [Recorded(a) EXCEPT ![a] = r]
  BY <1>1 DEF Referenced, Table
<1> HIDE DEF r, was
<1> QED
  BY <1>3, <1>4, <1>5, Written, Zenon

\* A new future takes the last disconnection of each record as known, and leaves
\* the rest of it alone (the sequence on_disconnect captures).
LEMMA BeforeAgrees ==
    ASSUME Typed, NEW w \in Waiters, records' = Before(w, records)
    PROVE  Table(records') /\ \A b \in Addresses : Agree(records', records, b)
<1>1. Table(records)
  BY Zenon DEF Typed
<1>2. /\ DOMAIN records' = DOMAIN records
      /\ records' = [b \in DOMAIN records' |-> records'[b]]
      /\ \A b \in DOMAIN records : records'[b] = [records[b] EXCEPT !.last = @ \ {w}]
  BY Zenon DEF Before
<1>3. ASSUME NEW b \in DOMAIN records
      PROVE  /\ records'[b] \in Record
             /\ records'[b].failed = records[b].failed
             /\ records'[b].failing = records[b].failing
             /\ records'[b].references = records[b].references
  <2>1. records[b] \in Record
    BY <1>1, <1>3, Zenon DEF Table
  <2> QED
    BY <1>2, <2>1 DEF Record
<1>4. Table(records')
  BY <1>1, <1>2, <1>3, Zenon DEF Table
<1> QED
  BY <1>2, <1>3, <1>4, Zenon DEF Agree, Of

\* Ages stay ages as time goes by, and no age of a failure falls below the delay.
LEMMA OlderAge ==
    ASSUME NEW age \in Ages
    PROVE  /\ Older(age) \in Ages
           /\ Older(age) = None <=> age = None
           /\ age >= Delay => Older(age) >= Delay
           /\ Older(age) >= age
BY MonitorAssumption DEF Older, Ages, None

\* Time passes for every record.
LEMMA TickWrites ==
    ASSUME Typed, Tick
    PROVE  /\ Table(records')
           /\ DOMAIN records' = DOMAIN records
           /\ \A b \in Addresses :
                /\ Of(records', b).failed = Of(records, b).failed
                /\ Of(records', b).failing = Older(Of(records, b).failing)
                /\ Of(records', b).references = Of(records, b).references
<1>1. Table(records)
  BY Zenon DEF Typed
<1>2. /\ DOMAIN records' = DOMAIN records
      /\ records' = [b \in DOMAIN records' |-> records'[b]]
      /\ \A b \in DOMAIN records : records'[b] = [records[b] EXCEPT !.failing = Older(@)]
  BY Zenon DEF Tick
<1>3. ASSUME NEW b \in DOMAIN records
      PROVE  /\ records'[b] \in Record
             /\ records'[b].failed = records[b].failed
             /\ records'[b].failing = Older(records[b].failing)
             /\ records'[b].references = records[b].references
  <2>1. records[b] \in Record
    BY <1>1, <1>3, Zenon DEF Table
  <2>2. Older(records[b].failing) \in Ages
    BY <2>1, OlderAge, Zenon DEF Record
  <2> QED
    BY <1>2, <2>1, <2>2 DEF Record
<1>4. Table(records')
  BY <1>1, <1>2, <1>3, Zenon DEF Table
<1>5. Older(Fresh.failing) = Fresh.failing
  BY DEF Fresh, Older, None
<1> QED
  BY <1>2, <1>3, <1>4, <1>5, Zenon DEF Of

\* The watchers of an address are finitely many, at most all waiters.
LEMMA WatchingFinite ==
    ASSUME NEW futures, NEW a
    PROVE  /\ IsFiniteSet(Watching(futures, a))
           /\ Cardinality(Watching(futures, a)) \in 0 .. Cardinality(Waiters)
<1>1. IsFiniteSet(Waiters) /\ Watching(futures, a) \in SUBSET Waiters
  BY MonitorAssumption, Zenon DEF Watching
<1>2. /\ IsFiniteSet(Watching(futures, a))
      /\ Cardinality(Watching(futures, a)) <= Cardinality(Waiters)
  BY <1>1, FS_Subset, Zenon
<1>3. Cardinality(Watching(futures, a)) \in Nat /\ Cardinality(Waiters) \in Nat
  BY <1>1, <1>2, FS_CardinalityType, Zenon
<1> QED
  BY <1>2, <1>3

\* A change of one future changes the watchers of its addresses by that one.
LEMMA WatchingChanged ==
    ASSUME NEW w \in Waiters, \A v \in Waiters \ {w} : wait'[v] = wait[v], NEW a
    PROVE  Cardinality(Watching(wait', a)) =
             Cardinality(Watching(wait, a))
               + (IF w \in Watching(wait', a) THEN 1 ELSE 0)
               - (IF w \in Watching(wait, a) THEN 1 ELSE 0)
<1> DEFINE rest == Watching(wait, a) \ {w}
<1>1. /\ Watching(wait, a) \ {w} = rest
      /\ Watching(wait', a) \ {w} = rest
  BY Zenon DEF Watching
<1>2. IsFiniteSet(Watching(wait, a)) /\ IsFiniteSet(Watching(wait', a))
  BY WatchingFinite, Zenon
<1>3. /\ Cardinality(rest) = IF w \in Watching(wait, a) THEN Cardinality(Watching(wait, a)) - 1
                             ELSE Cardinality(Watching(wait, a))
      /\ Cardinality(rest) = IF w \in Watching(wait', a) THEN Cardinality(Watching(wait', a)) - 1
                             ELSE Cardinality(Watching(wait', a))
  BY <1>1, <1>2, FS_RemoveElement, Zenon
<1>4. Cardinality(Watching(wait, a)) \in Nat /\ Cardinality(Watching(wait', a)) \in Nat
  BY <1>2, FS_CardinalityType, Zenon
<1> HIDE DEF rest
<1> QED
  BY <1>3, <1>4

-----------------------------------------------------------------------------
(* Types, futures and what the table keeps: these three need one another.  *)

Core == Typed /\ Futures /\ Kept

\* A waiter that holds no future.
LEMMA IdleFuture == Idle \in Future /\ Idle.kind = "none" /\ Idle.left = None /\ Idle.pc = "idle"
<1>1. None \in Ages /\ None \in Int
  BY DEF Ages, None
<1> QED
  BY <1>1, Zenon DEF Idle, Future

\* A future that ends takes its reference with it, and nothing else (PeerReference,
\* drop).
LEMMA FinishedKeeps ==
    ASSUME Core, NEW w \in Waiters, Finished(w)
    PROVE  /\ Table(records')
           /\ wait' \in [Waiters -> Future]
           /\ wait'[w] = Idle
           /\ \A v \in Waiters \ {w} : wait'[v] = wait[v]
           /\ \A b \in Addresses :
                /\ Of(records', b).failed = Of(records, b).failed
                /\ Of(records', b).failing = Of(records, b).failing
           /\ Core'
<1> USE DEF Core
<1>1. /\ wait' \in [Waiters -> Future]
      /\ wait'[w] = Idle
      /\ \A v \in Waiters \ {w} : wait'[v] = wait[v]
  BY IdleFuture, Zenon DEF Finished, Typed
<1>2. Futures'
  BY <1>1, IdleFuture, ZenonT(60) DEF Futures, Sane
<1>3. UNCHANGED <<failed, session, telling, runtime, run, down>>
  BY Zenon DEF Finished, sessions
<1>4. CASE wait[w].kind = "failedFor" /\ runtime = "running"
  <2> DEFINE a == wait[w].on.address
  <2>1. a \in Addresses
    BY <1>4, MonitorAssumption, Zenon DEF Futures, Sane
  <2>2. Referenced(a, -1)
    BY <1>4, Zenon DEF Finished
  <2>3. \A b \in Addresses : w \in Watching(wait, b) <=> b = a
    BY <1>4, Zenon DEF Watching
  <2>4. \A b \in Addresses : w \notin Watching(wait', b)
    BY <1>1, IdleFuture, Zenon DEF Watching
  <2> HIDE DEF a
  <2>5. \A b \in Addresses :
          Cardinality(Watching(wait', b)) = Cardinality(Watching(wait, b)) - (IF b = a THEN 1 ELSE 0)
    <3>1. ASSUME NEW b \in Addresses
          PROVE  Cardinality(Watching(wait', b)) = Cardinality(Watching(wait, b)) - (IF b = a THEN 1 ELSE 0)
      <4>1. Cardinality(Watching(wait', b)) = Cardinality(Watching(wait, b)) + 0 - (IF b = a THEN 1 ELSE 0)
        BY <2>3, <2>4, <1>1, WatchingChanged, Zenon
      <4>2. Cardinality(Watching(wait, b)) \in Nat
        BY WatchingFinite, FS_CardinalityType, Zenon
      <4> QED
        BY <4>1, <4>2
    <3> QED
      BY <3>1, Zenon
  <2>6. Of(records, a).references = Cardinality(Watching(wait, a))
    BY <2>1, <1>4, Zenon DEF Kept
  <2>7. Of(records, a).references + -1 \in Nat
    <3>1. Cardinality(Watching(wait', a)) \in Nat /\ Cardinality(Watching(wait, a)) \in Nat
      BY WatchingFinite, FS_CardinalityType, Zenon
    <3> QED
      BY <3>1, <2>1, <2>5, <2>6
  <2>8. /\ Table(records')
        /\ Of(records', a).failed = Of(records, a).failed
        /\ Of(records', a).failing = Of(records, a).failing
        /\ Of(records', a).references = Of(records, a).references + -1
        /\ \A b \in Addresses \ {a} : Agree(records', records, b)
    BY <2>1, <2>2, <2>7, ReferencedWrites
  <2>9. Kept'
    <3>1. ASSUME NEW b \in Addresses
          PROVE  Of(records', b).references = Cardinality(Watching(wait', b))
      <4>1. CASE b = a
        <5>1. Cardinality(Watching(wait', a)) = Cardinality(Watching(wait, a)) - 1
          BY <2>1, <2>5
        <5>2. Cardinality(Watching(wait, a)) \in Nat
          BY WatchingFinite, FS_CardinalityType, Zenon
        <5> QED
          BY <4>1, <2>6, <2>8, <5>1, <5>2
      <4>2. CASE b # a
        <5>1. Cardinality(Watching(wait', b)) = Cardinality(Watching(wait, b))
          <6>1. Cardinality(Watching(wait, b)) \in Nat
            BY WatchingFinite, FS_CardinalityType, Zenon
          <6> QED
            BY <4>2, <2>5, <6>1
        <5> QED
          BY <4>2, <2>8, <5>1, <1>4, Zenon DEF Agree, Kept
      <4> QED
        BY <4>1, <4>2, Zenon
    <3> QED
      BY <3>1, <2>8, <1>3, <1>4, Zenon DEF Kept, Agree
  <2> QED
    BY <1>1, <1>2, <1>3, <2>8, <2>9, Zenon DEF Typed, Agree, Finished
<1>5. CASE ~(wait[w].kind = "failedFor" /\ runtime = "running")
  <2>1. records' = records
    BY <1>5, Zenon DEF Finished
  <2>2. ASSUME runtime = "running"
        PROVE  \A b \in Addresses : Watching(wait', b) = Watching(wait, b)
    BY <2>2, <1>5, <1>1, IdleFuture, Zenon DEF Watching
  <2>3. Kept'
    BY <2>1, <2>2, <1>3, Zenon DEF Kept
  <2> QED
    BY <1>1, <1>2, <1>3, <2>1, <2>3, Zenon DEF Typed, Finished
<1> QED
  BY <1>4, <1>5, Zenon

\* A future that goes on for the same endpoint and kind keeps the core.
LEMMA MovedKeeps ==
    ASSUME Core, NEW w \in Waiters, NEW f \in Future, Sane(f),
           wait' = [wait EXCEPT ![w] = f], f.kind = wait[w].kind, f.on = wait[w].on,
           UNCHANGED <<records, failed, session, telling, runtime, run, down>>,
           registered' \subseteq Waiters, stale' \subseteq Waiters, woken' \subseteq Waiters
    PROVE  Core' /\ wait'[w] = f /\ \A v \in Waiters \ {w} : wait'[v] = wait[v]
<1> USE DEF Core
<1>1. /\ wait' \in [Waiters -> Future]
      /\ wait'[w] = f
      /\ \A v \in Waiters \ {w} : wait'[v] = wait[v]
  BY Zenon DEF Typed
<1>2. Futures'
  BY <1>1, Zenon DEF Futures
<1>3. \A b \in Addresses : Watching(wait', b) = Watching(wait, b)
  BY <1>1, Zenon DEF Watching
<1>4. Kept'
  BY <1>3, Zenon DEF Kept
<1> QED
  BY <1>1, <1>2, <1>4, Zenon DEF Typed

\* A step that changes no record, no future and no runtime keeps the core.
LEMMA ApartKeeps ==
    ASSUME Core, UNCHANGED <<records, runtime, wait, run>>,
           failed' \in Seq(Keys),
           session' \in [Addresses -> {"none", "dialing", "up"}],
           telling' \in [Addresses -> {"nothing", "change", "recovery", "probe"}],
           registered' \subseteq Waiters, stale' \subseteq Waiters, woken' \subseteq Waiters,
           down' \in [Addresses -> Ages]
    PROVE  Core'
BY Zenon DEF Core, Typed, Futures, Kept

\* A future that goes on to another step leaves the others alone
\* (wait_until, on_failed_for).
LEMMA GoingKeeps ==
    ASSUME Core, NEW w \in Waiters,
           NEW pc \in {"version", "check", "judge", "changed", "parked"},
           NEW goal \in {"none", "change", "disconnect", "failed", "available", "either"},
           NEW left \in Int, Going(w, pc, goal, left), stale' \subseteq Waiters,
           wait[w].pc # "new",
           wait[w].kind = "failedFor" =>
             /\ wait[w].pc # "new"
             /\ goal = "failed" \/ (goal = "available" /\ left \in Nat /\ pc # "judge"),
           wait[w].kind # "failedFor" => left = wait[w].left /\ pc # "judge"
    PROVE  /\ Core'
           /\ wait'[w] = [wait[w] EXCEPT !.pc = pc, !.goal = goal, !.left = left]
           /\ \A v \in Waiters \ {w} : wait'[v] = wait[v]
<1> DEFINE f == [wait[w] EXCEPT !.pc = pc, !.goal = goal, !.left = left]
<1>1. wait[w] \in Future /\ Sane(wait[w])
  BY Zenon DEF Core, Typed, Futures
<1>2. /\ f \in Future
      /\ f.kind = wait[w].kind /\ f.on = wait[w].on /\ f.sustain = wait[w].sustain
      /\ f.elapsed = wait[w].elapsed /\ f.pc = pc /\ f.goal = goal /\ f.left = left
  BY <1>1, ZenonT(60) DEF Future
<1>3. wait' = [wait EXCEPT ![w] = f]
  BY Zenon DEF Going, Core, Typed
<1> HIDE DEF f
<1>4. Sane(f)
  BY <1>1, <1>2, Zenon DEF Sane
<1>5. /\ UNCHANGED <<records, failed, session, telling, runtime, run, down>>
      /\ registered' \subseteq Waiters /\ woken' \subseteq Waiters
  BY Zenon DEF Going, monitor, sessions, history, Core, Typed
<1>6. Core' /\ wait'[w] = f /\ \A v \in Waiters \ {w} : wait'[v] = wait[v]
  BY <1>2, <1>3, <1>4, <1>5, MovedKeeps, Zenon
<1> QED
  BY <1>6, Zenon DEF f

\* The sessions' steps keep the core (MonitorState::connected, disconnected).
LEMMA CoreSession ==
    ASSUME Core, NEW a \in Addresses, SessionStep(a)
    PROVE  Core'
<1> USE DEF Core
<1>1. CASE Dial(a)
  BY <1>1, ApartKeeps, Zenon DEF Dial, monitor, watch, history, Typed
<1>2. CASE Notify(a)
  <2>1. None \in Ages
    BY DEF Ages
  <2> QED
    BY <1>2, <2>1, ApartKeeps, Zenon DEF Notify, Notified, Owing, monitor, Typed
<1>3. CASE Established(a)
  <2>1. /\ UNCHANGED <<failed, registered, stale, woken, runtime, wait, down>>
        /\ run' = [run EXCEPT ![a] = None]
        /\ session' = [session EXCEPT ![a] = "up"]
        /\ telling' = [telling EXCEPT ![a] = IF AddressFailed(a) THEN "recovery" ELSE "nothing"]
    BY <1>3, Zenon DEF Established, Owing, watch
  <2>2. None \in Ages
    BY DEF Ages
  <2>3. Typed'
    BY <1>3, <2>1, <2>2, EstablishedWrites, Zenon DEF Typed
  <2>4. Kept'
    <3>1. run'[a] = None /\ \A b \in Addresses \ {a} : run'[b] = run[b]
      BY <2>1, Zenon DEF Typed
    <3>2. /\ Of(records', a).failed = FALSE
          /\ Of(records', a).failing = None
          /\ Of(records', a).references = Of(records, a).references
          /\ \A b \in Addresses \ {a} : Agree(records', records, b)
      BY <1>3, EstablishedWrites, Zenon
    <3> QED
      BY <2>1, <3>1, <3>2, Zenon DEF Kept, Agree
  <2> QED
    BY <2>1, <2>3, <2>4, Zenon DEF Futures
<1>4. ASSUME NEW failure \in BOOLEAN, Ends(a, failure)
      PROVE  Core'
  <2>1. /\ UNCHANGED <<failed, registered, stale, woken, runtime, wait>>
        /\ run' = [run EXCEPT ![a] = IF failure /\ @ = None THEN 0 ELSE @]
        /\ session' = [session EXCEPT ![a] = "none"]
        /\ telling' \in [Addresses -> {"nothing", "change", "recovery", "probe"}]
    BY <1>4, Zenon DEF Ends, Owing, watch, Typed
  <2>2. 0 \in Ages
    BY MonitorAssumption DEF Ages
  <2>3. Table(records') /\ down' \in [Addresses -> Ages]
    BY <1>4, <2>2, EndsWrites, ZenonT(60) DEF Typed
  <2>4. Typed'
    BY <2>1, <2>2, <2>3, Zenon DEF Typed
  <2>5. Kept'
    <3>1. SUFFICES ASSUME runtime = "running", NEW b \in Addresses
                   PROVE  /\ Of(records', b).failing = run'[b]
                          /\ Of(records', b).failed => run'[b] >= Delay
                          /\ Of(records', b).references = Cardinality(Watching(wait, b))
      BY <2>1, Zenon DEF Kept
    <3>2. CASE b = a
      <4> DEFINE was == Of(records, a)
                 age == IF was.failing = None THEN 0 ELSE was.failing
      <4>1. /\ was.failing = run[a]
            /\ was.failed => run[a] >= Delay
            /\ was.references = Cardinality(Watching(wait, a))
        BY <3>1, Zenon DEF Kept
      <4>2. /\ Of(records', a).failing = (IF failure THEN age ELSE was.failing)
            /\ Of(records', a).failed = (was.failed \/ (failure /\ age >= Delay))
            /\ Of(records', a).references = was.references
        BY <1>4, EndsWrites, Zenon
      <4>3. run'[a] = IF failure /\ run[a] = None THEN 0 ELSE run[a]
        BY <2>1, Zenon DEF Typed
      <4> HIDE DEF was
      <4>4. ~(None >= Delay)
        BY MonitorAssumption DEF None
      <4> QED
        BY <3>2, <4>1, <4>2, <4>3, <4>4, Zenon
    <3>3. CASE b # a
      <4>1. Agree(records', records, b)
        BY <3>3, <1>4, EndsWrites, Zenon
      <4>2. run'[b] = run[b]
        BY <3>3, <2>1, Zenon DEF Typed
      <4> QED
        BY <3>1, <4>1, <4>2, Zenon DEF Kept, Agree
    <3> QED
      BY <3>2, <3>3, Zenon
  <2> QED
    BY <2>1, <2>4, <2>5, Zenon DEF Futures
<1> QED
  BY <1>1, <1>2, <1>3, <1>4, Zenon DEF SessionStep

\* The creation of a future keeps the core (on_failed_for and the other waits).
LEMMA CoreCreate ==
    ASSUME Core, NEW w \in Waiters, NEW e \in Endpoints,
           \/ \E goal \in {"change", "disconnect", "failed", "available", "either"} : Create(w, goal, e)
           \/ \E s \in Sustains : CreateFailedFor(w, e, s)
    PROVE  Core'
<1> USE DEF Core
<1>1. ASSUME NEW goal \in {"change", "disconnect", "failed", "available", "either"}, Create(w, goal, e)
      PROVE  Core'
  <2> DEFINE f == [Idle EXCEPT !.kind = "once", !.goal = goal, !.on = e, !.pc = "new"]
  <2>1. /\ wait' = [wait EXCEPT ![w] = f]
        /\ records' = Before(w, records)
        /\ UNCHANGED <<failed, session, telling, registered, stale, woken, runtime, run, down>>
        /\ wait[w].pc = "idle"
    BY <1>1, Zenon DEF Create, sessions, watch, history
  <2>2. f \in Future /\ f.kind = "once" /\ f.left = None /\ f.pc = "new"
    BY <1>1, IdleFuture, Zenon DEF Future
  <2> HIDE DEF f
  <2>3. /\ wait' \in [Waiters -> Future]
        /\ wait'[w] = f
        /\ \A v \in Waiters \ {w} : wait'[v] = wait[v]
    BY <2>1, <2>2, Zenon DEF Typed
  <2>4. Futures'
    BY <2>2, <2>3, ZenonT(60) DEF Futures, Sane
  <2>5. \A b \in Addresses : Watching(wait', b) = Watching(wait, b)
    BY <2>1, <2>2, <2>3, Zenon DEF Watching, Futures, Sane
  <2>6. Table(records') /\ \A b \in Addresses : Agree(records', records, b)
    BY <2>1, BeforeAgrees, Zenon
  <2> QED
    BY <2>1, <2>3, <2>4, <2>5, <2>6, Zenon DEF Typed, Kept, Agree
<1>2. ASSUME NEW s \in Sustains, CreateFailedFor(w, e, s)
      PROVE  Core'
  <2> DEFINE f == [Idle EXCEPT !.kind = "failedFor", !.goal = "failed", !.on = e, !.pc = "new", !.sustain = s]
             a == e.address
  <2>1. /\ wait' = [wait EXCEPT ![w] = f]
        /\ Referenced(a, 1)
        /\ UNCHANGED <<failed, session, telling, registered, stale, woken, runtime, run, down>>
        /\ wait[w].pc = "idle"
        /\ runtime = "running"
    BY <1>2, Zenon DEF CreateFailedFor, sessions, watch, history
  <2>2. /\ f \in Future /\ f.kind = "failedFor" /\ f.goal = "failed" /\ f.pc = "new"
        /\ f.on = e /\ f.sustain = s
    BY <1>2, IdleFuture, Zenon DEF Future
  <2> HIDE DEF f
  <2>3. /\ wait' \in [Waiters -> Future]
        /\ wait'[w] = f
        /\ \A v \in Waiters \ {w} : wait'[v] = wait[v]
    BY <2>1, <2>2, Zenon DEF Typed
  <2>4. Futures'
    BY <2>2, <2>3, <1>2, Zenon DEF Futures, Sane
  <2>5. a \in Addresses
    BY MonitorAssumption, Zenon
  <2>6. \A b \in Addresses :
          w \notin Watching(wait, b) /\ (w \in Watching(wait', b) <=> b = a)
    BY <2>1, <2>2, <2>3, Zenon DEF Watching, Futures, Sane
  <2> HIDE DEF a
  <2>7. ASSUME NEW b \in Addresses
        PROVE  Cardinality(Watching(wait', b)) = Cardinality(Watching(wait, b)) + (IF b = a THEN 1 ELSE 0)
    <3>1. Cardinality(Watching(wait', b)) = Cardinality(Watching(wait, b)) + (IF b = a THEN 1 ELSE 0) - 0
      BY <2>3, <2>6, WatchingChanged, Zenon
    <3>2. Cardinality(Watching(wait, b)) \in Nat
      BY WatchingFinite, FS_CardinalityType, Zenon
    <3> QED
      BY <3>1, <3>2
  <2>8. /\ Of(records, a).references = Cardinality(Watching(wait, a))
        /\ Of(records, a).references + 1 \in Nat
    <3>1. Cardinality(Watching(wait, a)) \in Nat
      BY WatchingFinite, FS_CardinalityType, Zenon
    <3>2. Of(records, a).references = Cardinality(Watching(wait, a))
      BY <2>1, <2>5, Zenon DEF Kept
    <3> QED
      BY <3>1, <3>2
  <2>9. /\ Table(records')
        /\ Of(records', a).failed = Of(records, a).failed
        /\ Of(records', a).failing = Of(records, a).failing
        /\ Of(records', a).references = Of(records, a).references + 1
        /\ \A b \in Addresses \ {a} : Agree(records', records, b)
    BY <2>1, <2>5, <2>8, ReferencedWrites
  <2>10. ASSUME NEW b \in Addresses
         PROVE  Of(records', b).references = Cardinality(Watching(wait', b))
    <3>1. CASE b = a
      BY <3>1, <2>7, <2>8, <2>9, Zenon
    <3>2. CASE b # a
      <4>1. Cardinality(Watching(wait, b)) \in Nat
        BY WatchingFinite, FS_CardinalityType, Zenon
      <4>2. Cardinality(Watching(wait', b)) = Cardinality(Watching(wait, b))
        BY <3>2, <2>7, <4>1
      <4> QED
        BY <3>2, <4>2, <2>1, <2>9, Zenon DEF Kept, Agree
    <3> QED
      BY <3>1, <3>2, Zenon
  <2>11. Kept'
    BY <2>1, <2>9, <2>10, Zenon DEF Kept, Agree
  <2> QED
    BY <2>1, <2>3, <2>4, <2>9, <2>11, Zenon DEF Typed
<1> QED
  BY <1>1, <1>2, Zenon

\* What on_failed_for gives an address to recover is at least what it was asked for.
LEMMA PatienceEnough ==
    ASSUME NEW s \in Sustains, NEW elapsed \in 0 .. MaxAge
    PROVE  Patience(s, elapsed) \in Nat /\ Patience(s, elapsed) >= s.sustained
<1>1. s.sustained \in 0 .. MaxAge
  BY MonitorAssumption
<1> QED
  BY <1>1, MonitorAssumption DEF Patience

\* The polls of a future keep the core (wait_until, Changed::poll).
LEMMA CorePoll ==
    ASSUME Core, NEW w \in Waiters, Poll(w)
    PROVE  Core'
<1> USE DEF Core
<1>0. wait[w] \in Future /\ Sane(wait[w])
  BY Zenon DEF Typed, Futures
<1>1. CASE Version(w)
  <2> DEFINE f == [wait[w] EXCEPT !.pc = "check",
                     !.elapsed = IF wait[w].kind = "failedFor" /\ @ = None THEN 0 ELSE @]
  <2>1. wait' = [wait EXCEPT ![w] = f]
    BY <1>1, Zenon DEF Version, Typed
  <2>2. /\ UNCHANGED <<records, failed, session, telling, registered, woken, runtime, run, down>>
        /\ stale' = stale \ {w}
    BY <1>1, Zenon DEF Version, monitor, sessions, history
  <2>3. 0 \in Ages /\ None # 0
    BY MonitorAssumption DEF Ages, None
  <2>4. /\ f \in Future /\ f.kind = wait[w].kind /\ f.on = wait[w].on /\ f.sustain = wait[w].sustain
        /\ f.goal = wait[w].goal /\ f.left = wait[w].left /\ f.pc = "check"
        /\ f.kind = "failedFor" => f.elapsed # None
    BY <1>0, <2>3, Zenon DEF Future
  <2> HIDE DEF f
  <2>5. Sane(f)
    BY <1>0, <2>4, Zenon DEF Sane
  <2> QED
    BY <2>1, <2>2, <2>4, <2>5, MovedKeeps, Zenon DEF Typed
<1>2. CASE Check(w)
  <2>1. CASE Finished(w)
    BY <2>1, FinishedKeeps, Zenon
  <2>2. CASE wait[w].kind = "failedFor" /\ Going(w, "judge", "failed", None) /\ UNCHANGED stale
    <3>1. None \in Int
      BY DEF None
    <3> QED
      BY <1>2, <2>2, <3>1, GoingKeeps, Zenon DEF Check, Typed
  <2>3. CASE wait[w].kind = "failedFor" /\ Going(w, "version", "failed", None) /\ UNCHANGED stale
    <3>1. None \in Int
      BY DEF None
    <3> QED
      BY <1>2, <2>3, <3>1, GoingKeeps, Zenon DEF Check, Typed
  <2>4. CASE Going(w, "changed", wait[w].goal, wait[w].left) /\ UNCHANGED stale
    <3>1. /\ wait[w].goal \in {"none", "change", "disconnect", "failed", "available", "either"}
          /\ wait[w].left \in Int
      BY <1>0, Zenon DEF Future
    <3> QED
      BY <1>0, <1>2, <2>4, <3>1, GoingKeeps, ZenonT(60) DEF Check, Typed, Sane
  <2> QED
    BY <1>2, <2>1, <2>2, <2>3, <2>4, Zenon DEF Check
<1>3. CASE Judge(w)
  <2>1. CASE Finished(w)
    BY <2>1, FinishedKeeps, Zenon
  <2>2. CASE Going(w, "version", "available", Patience(wait[w].sustain, wait[w].elapsed)) /\ UNCHANGED stale
    <3>1. wait[w].kind = "failedFor" /\ wait[w].sustain \in Sustains
      BY <1>0, <1>3, Zenon DEF Sane, Judge
    <3>2. wait[w].elapsed \in 0 .. MaxAge
      BY <1>0, <1>3, <3>1, Zenon DEF Sane, Judge, Future, Ages
    <3>3. Patience(wait[w].sustain, wait[w].elapsed) \in Nat
      BY <3>1, <3>2, PatienceEnough, Zenon
    <3>4. Patience(wait[w].sustain, wait[w].elapsed) \in Int
      BY <3>3
    <3> QED
      BY <1>3, <2>2, <3>1, <3>3, <3>4, GoingKeeps, ZenonT(60) DEF Judge, Typed
  <2> QED
    BY <1>3, <2>1, <2>2, Zenon DEF Judge
<1>4. CASE Changed(w)
  <2>1. CASE Finished(w)
    BY <2>1, FinishedKeeps, Zenon
  <2>2. ASSUME NEW pc \in {"version", "parked"}, wait' = [wait EXCEPT ![w].pc = pc],
               UNCHANGED <<monitor, sessions, stale, runtime, history>>,
               registered' \subseteq registered \cup {w}, woken' = woken \ {w},
               wait[w].pc # "new" \/ wait[w].kind # "failedFor"
        PROVE  Core'
    <3> DEFINE f == [wait[w] EXCEPT !.pc = pc]
    <3>1. wait' = [wait EXCEPT ![w] = f]
      BY <2>2 DEF Typed
    <3>2. /\ f \in Future /\ f.kind = wait[w].kind /\ f.on = wait[w].on /\ f.sustain = wait[w].sustain
          /\ f.goal = wait[w].goal /\ f.left = wait[w].left /\ f.elapsed = wait[w].elapsed /\ f.pc = pc
      BY <1>0, <2>2 DEF Future
    <3> HIDE DEF f
    <3>3. Sane(f)
      BY <1>0, <2>2, <3>2, Zenon DEF Sane
    <3> QED
      BY <2>2, <3>1, <3>2, <3>3, MovedKeeps, ZenonT(60) DEF Typed, monitor, sessions, history
  <2>3. wait[w].pc # "new" \/ wait[w].kind # "failedFor"
    BY <1>0, <1>4, Zenon DEF Changed, Polling, Sane
  <2> QED
    BY <1>4, <2>1, <2>2, <2>3, Zenon DEF Changed
<1> QED
  BY <1>1, <1>2, <1>3, <1>4, Zenon DEF Poll

\* A future with other clocks.
Aged(f, a, l) == [f EXCEPT !.elapsed = a, !.left = l]

\* What a future keeps when its clocks change.
SameButClocks(f, g, a, l) ==
    /\ g \in Future /\ g.kind = f.kind /\ g.on = f.on /\ g.goal = f.goal
    /\ g.pc = f.pc /\ g.sustain = f.sustain /\ g.elapsed = a /\ g.left = l

\* A future that grows older keeps what it waits for (Tick: the clocks of the futures).
LEMMA FutureAged ==
    ASSUME NEW f \in Future, NEW a \in Ages, NEW l \in Int
    PROVE  SameButClocks(f, Aged(f, a, l), a, l)
<1> DEFINE h == [f EXCEPT !.elapsed = a]
           g == Aged(f, a, l)
<1>1. /\ h \in Future /\ h.kind = f.kind /\ h.on = f.on /\ h.goal = f.goal /\ h.pc = f.pc
      /\ h.sustain = f.sustain /\ h.elapsed = a
  BY SMTT(60) DEF Future
<1>2. g = [h EXCEPT !.left = l]
  BY Zenon DEF Aged
<1> HIDE DEF h, g
<1>3. /\ g \in Future /\ g.kind = h.kind /\ g.on = h.on /\ g.goal = h.goal /\ g.pc = h.pc
      /\ g.sustain = h.sustain /\ g.elapsed = h.elapsed /\ g.left = l
  BY <1>1, <1>2, SMTT(60) DEF Future
<1> QED
  BY <1>1, <1>3, Zenon DEF SameButClocks, g

\* Time that passes keeps the core: it passes for records and history alike.
LEMMA CoreTick ==
    ASSUME Core, Tick
    PROVE  /\ Core'
           /\ \A w \in Waiters :
                /\ wait'[w].kind = wait[w].kind /\ wait'[w].on = wait[w].on
                /\ wait'[w].goal = wait[w].goal /\ wait'[w].pc = wait[w].pc
                /\ wait'[w].sustain = wait[w].sustain
                /\ wait'[w].left = Less(wait[w].left)
<1> USE DEF Core
<1>1. /\ \A w \in Waiters :
           wait'[w] = [wait[w] EXCEPT !.elapsed = Older(@), !.left = Less(@)]
      /\ wait' = [w \in Waiters |-> wait'[w]]
      /\ run' = [a \in Addresses |-> Older(run[a])]
      /\ down' = [a \in Addresses |-> Older(down[a])]
      /\ UNCHANGED <<failed, session, telling, registered, stale, woken, runtime>>
  BY Zenon DEF Tick, sessions, watch
<1>2. ASSUME NEW w \in Waiters
      PROVE  /\ wait'[w] \in Future /\ Sane(wait'[w])
             /\ wait'[w].kind = wait[w].kind /\ wait'[w].on = wait[w].on
             /\ wait'[w].goal = wait[w].goal /\ wait'[w].pc = wait[w].pc
             /\ wait'[w].sustain = wait[w].sustain
             /\ wait'[w].left = Less(wait[w].left)
  <2>1. wait[w] \in Future /\ Sane(wait[w])
    BY Zenon DEF Typed, Futures
  <2>2. /\ Older(wait[w].elapsed) \in Ages
        /\ Older(wait[w].elapsed) = None <=> wait[w].elapsed = None
    BY <2>1, OlderAge, Zenon DEF Future
  <2>3. /\ Less(wait[w].left) \in Int
        /\ wait[w].left \in Nat => Less(wait[w].left) \in Nat
        /\ wait[w].left = None => Less(wait[w].left) = None
    BY <2>1, SMTT(60) DEF Less, None, Future
  <2>4. /\ wait'[w] \in Future /\ wait'[w].kind = wait[w].kind /\ wait'[w].on = wait[w].on
        /\ wait'[w].goal = wait[w].goal /\ wait'[w].pc = wait[w].pc
        /\ wait'[w].sustain = wait[w].sustain
        /\ wait'[w].elapsed = Older(wait[w].elapsed) /\ wait'[w].left = Less(wait[w].left)
    <3>1. wait'[w] = Aged(wait[w], Older(wait[w].elapsed), Less(wait[w].left))
      BY <1>1, Zenon DEF Aged
    <3>2. SameButClocks(wait[w], Aged(wait[w], Older(wait[w].elapsed), Less(wait[w].left)),
                        Older(wait[w].elapsed), Less(wait[w].left))
      BY <2>1, <2>2, <2>3, FutureAged, Zenon
    <3> QED
      BY <3>1, <3>2, Zenon DEF SameButClocks
  <2> QED
    BY <2>1, <2>2, <2>3, <2>4, Zenon DEF Sane
<1>3. wait' \in [Waiters -> Future] /\ Futures'
  BY <1>1, <1>2, Zenon DEF Futures
<1>4. run' \in [Addresses -> Ages] /\ down' \in [Addresses -> Ages]
  BY <1>1, OlderAge, Zenon DEF Typed
<1>5. Typed'
  BY <1>1, <1>3, <1>4, TickWrites, Zenon DEF Typed
<1>6. \A b \in Addresses : Watching(wait', b) = Watching(wait, b)
  BY <1>2, Zenon DEF Watching
<1>7. \A b \in Addresses : run'[b] = Older(run[b]) /\ (run[b] >= Delay => run'[b] >= Delay)
  BY <1>1, OlderAge, Zenon DEF Typed
<1>8. \A b \in Addresses :
        /\ Of(records', b).failed = Of(records, b).failed
        /\ Of(records', b).failing = Older(Of(records, b).failing)
        /\ Of(records', b).references = Of(records, b).references
  BY TickWrites, Zenon
<1>9. Kept'
  BY <1>1, <1>6, <1>7, <1>8, Zenon DEF Kept
<1> QED
  BY <1>2, <1>3, <1>5, <1>9, Zenon

\* A remembered key takes the place of the oldest one in a full table.
LEMMA RememberedFits ==
    ASSUME failed \in Seq(Keys), Bounded, NEW key \in Keys, key \notin Range(failed)
    PROVE  /\ Remembered(failed, key) \in Seq(Keys)
           /\ Len(Remembered(failed, key)) <= MaxFailed
           /\ IsInjective(Remembered(failed, key))
<1> DEFINE kept == IF Len(failed) >= MaxFailed THEN Tail(failed) ELSE failed
<1>1. MaxFailed \in Nat \ {0} /\ Len(failed) \in Nat /\ Len(failed) <= MaxFailed
  BY MonitorAssumption DEF Bounded
<1>2. \A i, j \in 1 .. Len(failed) : failed[i] = failed[j] => i = j
  BY DEF Bounded, IsInjective
<1>3. \A i \in 1 .. Len(failed) : failed[i] # key
  BY DEF Range
<1>4. /\ kept \in Seq(Keys) /\ Len(kept) < MaxFailed
      /\ \A i \in 1 .. Len(kept) : kept[i] # key
      /\ \A i, j \in 1 .. Len(kept) : kept[i] = kept[j] => i = j
  <2>1. CASE Len(failed) >= MaxFailed
    <3>1. kept = Tail(failed) /\ failed # << >>
      BY <2>1, <1>1
    <3>2. Len(kept) = Len(failed) - 1 /\ \A i \in 1 .. Len(kept) : kept[i] = failed[i + 1]
      BY <3>1
    <3> QED
      BY <2>1, <1>1, <1>2, <1>3, <3>1, <3>2
  <2>2. CASE ~(Len(failed) >= MaxFailed)
    BY <2>2, <1>1, <1>2, <1>3
  <2> QED
    BY <2>1, <2>2, Zenon
<1>5. Remembered(failed, key) = Append(kept, key)
  BY Zenon DEF Remembered
<1> HIDE DEF kept
<1>6. /\ Append(kept, key) \in Seq(Keys) /\ Len(Append(kept, key)) <= MaxFailed
      /\ \A i, j \in 1 .. Len(Append(kept, key)) : Append(kept, key)[i] = Append(kept, key)[j] => i = j
  BY <1>1, <1>4
<1> QED
  BY <1>5, <1>6 DEF IsInjective

\* Every step keeps the core.
LEMMA CoreStep ==
    ASSUME Core, Bounded, [Next]_vars
    PROVE  Core'
<1> USE DEF Core
<1>1. ASSUME NEW a \in Addresses, SessionStep(a)
      PROVE  Core'
  BY <1>1, CoreSession, Zenon
<1>2. ASSUME NEW e \in Endpoints, NEW reason \in {"NotFound", "StaleIncarnation"}, EndpointFails(e, reason)
      PROVE  Core'
  <2>1. Key(e, reason) \in Keys /\ Key(e, reason) \notin Range(failed)
    BY <1>2 DEF Keys, EndpointFails
  <2>2. failed' \in Seq(Keys)
    BY <1>2, <2>1, RememberedFits, Zenon DEF EndpointFails, Typed
  <2> QED
    BY <1>2, <2>2, ApartKeeps, Zenon DEF EndpointFails, Owing, watch, history, Typed
<1>3. ASSUME NEW w \in Waiters, WaiterStep(w)
      PROVE  Core'
  BY <1>3, CoreCreate, CorePoll, FinishedKeeps, Zenon DEF WaiterStep, TimesOut, Abandon
<1>4. CASE Spurious
  BY <1>4, ApartKeeps, Zenon DEF Spurious, Notified, monitor, sessions, history, Typed
<1>5. CASE DropRuntime
  <2>1. DOMAIN records' = {} /\ Table(records')
    BY <1>5 DEF DropRuntime, Table
  <2>2. failed' \in Seq(Keys) /\ None \in Ages
    BY <1>5 DEF DropRuntime, Ages
  <2>3. /\ UNCHANGED <<session, telling, registered, stale, woken, wait, down>>
        /\ runtime' = "dropped" /\ run' = [a \in Addresses |-> None]
    BY <1>5, Zenon DEF DropRuntime, sessions, watch
  <2> QED
    BY <2>1, <2>2, <2>3, Zenon DEF Typed, Futures, Kept
<1>6. CASE CloseWatch
  BY <1>6, Zenon DEF CloseWatch, monitor, sessions, history, Typed, Futures, Kept
<1>7. CASE Tick
  BY <1>7, CoreTick, Zenon
<1>8. CASE UNCHANGED vars
  BY <1>8, ApartKeeps, Zenon DEF vars, monitor, sessions, watch, history, Typed
<1> QED
  BY <1>1, <1>2, <1>3, <1>4, <1>5, <1>6, <1>7, <1>8, Zenon DEF Next

-----------------------------------------------------------------------------
(* The table of failed endpoints, the end of the runtime, and the latch.   *)

\* The table of failed endpoints stays bounded (MonitorState::endpoint_failed).
LEMMA BoundedStep ==
    ASSUME Core, Bounded, [Next]_vars
    PROVE  Bounded'
<1>1. CASE failed' = failed
  BY <1>1, Zenon DEF Bounded
<1>2. ASSUME NEW e \in Endpoints, NEW reason \in {"NotFound", "StaleIncarnation"}, EndpointFails(e, reason)
      PROVE  Bounded'
  <2>1. Key(e, reason) \in Keys /\ Key(e, reason) \notin Range(failed)
    BY <1>2 DEF Keys, EndpointFails
  <2> QED
    BY <1>2, <2>1, RememberedFits, Zenon DEF EndpointFails, Core, Typed, Bounded
<1>3. CASE DropRuntime
  BY <1>3, MonitorAssumption DEF DropRuntime, Bounded, IsInjective
<1>4. ASSUME NEW a \in Addresses, SessionStep(a)
      PROVE  failed' = failed
  BY <1>4, Zenon DEF SessionStep, Dial, Established, Ends, Notify, monitor
<1>5. ASSUME NEW w \in Waiters, WaiterStep(w)
      PROVE  failed' = failed
  BY <1>5, Zenon DEF WaiterStep, Create, CreateFailedFor, Poll, Version, Check, Judge, Changed,
                     TimesOut, Abandon, Finished, Going, monitor
<1>6. CASE Spurious \/ CloseWatch \/ Tick \/ UNCHANGED vars
  BY <1>6, <1>1, Zenon DEF Spurious, CloseWatch, Tick, monitor, vars
<1> QED
  BY <1>1, <1>2, <1>3, <1>4, <1>5, <1>6, Zenon DEF Next

\* A runtime that is gone stays without sessions and tables.
LEMMA GoneStep ==
    ASSUME Core, Gone, [Next]_vars
    PROVE  Gone'
<1> USE DEF Core, Typed, Gone
<1>1. ASSUME NEW a \in Addresses, SessionStep(a)
      PROVE  Gone'
  <2>1. runtime = "running" /\ runtime' = runtime
    BY <1>1, Zenon DEF SessionStep, Dial, Established, Ends, Notify
  <2> QED
    BY <2>1, Zenon
<1>2. ASSUME NEW e \in Endpoints, NEW reason \in {"NotFound", "StaleIncarnation"}, EndpointFails(e, reason)
      PROVE  Gone'
  <2>1. e.address \in Addresses
    BY <1>2, MonitorAssumption, Zenon
  <2>2. runtime = "running" /\ runtime' = runtime
    BY <1>2, <2>1, Zenon DEF EndpointFails
  <2> QED
    BY <2>2, Zenon
<1>3. ASSUME NEW w \in Waiters, Finished(w)
      PROVE  Gone'
  BY <1>3, Zenon DEF Finished, sessions
<1>4. ASSUME NEW w \in Waiters, WaiterStep(w), ~Finished(w)
      PROVE  Gone'
  BY <1>4, Zenon DEF WaiterStep, Create, CreateFailedFor, Poll, Version, Check, Judge, Changed,
                     TimesOut, Abandon, Going, monitor, sessions
<1>5. CASE DropRuntime
  <2>1. DOMAIN records' = {}
    BY <1>5 DEF DropRuntime
  <2> QED
    BY <1>5, <2>1, Zenon DEF DropRuntime, sessions
<1>6. CASE Spurious \/ CloseWatch \/ UNCHANGED vars
  BY <1>6, Zenon DEF Spurious, CloseWatch, vars, monitor, sessions
<1>7. CASE Tick
  BY <1>7, Zenon DEF Tick
<1> QED
  BY <1>1, <1>2, <1>3, <1>4, <1>5, <1>6, <1>7, Zenon DEF Next

\* No wakeup is lost on the way to a parked future (Watch::notify, Changed::poll,
\* Watch::close).
LEMMA LatchedStep ==
    ASSUME Core, Latched, [Next]_vars
    PROVE  Latched'
<1> USE DEF Core, Typed, Latched
<1>1. CASE Notified /\ wait' = wait
  BY <1>1, Zenon DEF Notified
<1>2. CASE UNCHANGED <<wait, registered, stale, woken>>
  BY <1>2, Zenon
<1>3. ASSUME NEW w \in Waiters, Finished(w)
      PROVE  Latched'
  <2>1. wait'[w] = Idle /\ \A v \in Waiters \ {w} : wait'[v] = wait[v]
    BY <1>3, FinishedKeeps, Zenon
  <2> QED
    BY <1>3, <2>1, IdleFuture, Zenon DEF Finished
<1>4. ASSUME NEW w \in Waiters, \A v \in Waiters \ {w} : wait'[v].pc = wait[v].pc,
             wait'[w].pc # "parked", registered' = registered,
             woken' \in {woken, woken \ {w}}, stale' \subseteq stale
      PROVE  Latched'
  BY <1>4, Zenon
<1>5. ASSUME NEW w \in Waiters, WaiterStep(w), ~Finished(w)
      PROVE  Latched'
  <2>1. ASSUME NEW e \in Endpoints, NEW goal, Create(w, goal, e)
        PROVE  Latched'
    <3>1. wait'[w].pc = "new"
      BY <2>1, IdleFuture DEF Create, Future
    <3> QED
      BY <2>1, <3>1, <1>4, Zenon DEF Create, watch
  <2>2. ASSUME NEW e \in Endpoints, NEW s, CreateFailedFor(w, e, s)
        PROVE  Latched'
    <3>1. wait'[w].pc = "new"
      BY <2>2, IdleFuture DEF CreateFailedFor, Future
    <3> QED
      BY <2>2, <3>1, <1>4, Zenon DEF CreateFailedFor, watch
  <2>3. CASE Version(w)
    <3>1. wait'[w].pc = "check" /\ \A v \in Waiters \ {w} : wait'[v].pc = wait[v].pc
      BY <2>3 DEF Version, Future
    <3> QED
      BY <2>3, <3>1, <1>4, Zenon DEF Version
  <2>4. ASSUME NEW pc \in {"version", "judge", "changed"}, NEW goal, NEW left, Going(w, pc, goal, left), stale' = stale
        PROVE  Latched'
    <3>1. wait'[w].pc = pc /\ \A v \in Waiters \ {w} : wait'[v].pc = wait[v].pc
      BY <2>4 DEF Going, Future
    <3> QED
      BY <2>4, <3>1, <1>4, Zenon DEF Going
  <2>5. CASE Changed(w)
    <3>1. ASSUME NEW pc, wait' = [wait EXCEPT ![w].pc = pc]
          PROVE  wait'[w].pc = pc /\ \A v \in Waiters \ {w} : wait'[v].pc = wait[v].pc
      BY <3>1 DEF Future
    <3>2. CASE wait' = [wait EXCEPT ![w].pc = "version"] /\ woken' = woken \ {w}
               /\ UNCHANGED <<registered, stale>>
      <4>1. wait'[w].pc = "version" /\ \A v \in Waiters \ {w} : wait'[v].pc = wait[v].pc
        BY <3>1, <3>2, Zenon
      <4> QED
        BY <4>1, <3>2, <1>4, Zenon
    <3>3. CASE wait' = [wait EXCEPT ![w].pc = "parked"] /\ woken' = woken \ {w} /\ w \notin stale
               /\ registered' = registered \cup {w} /\ stale' = stale
      BY <3>1, <3>3, Zenon
    <3> QED
      BY <2>5, <3>2, <3>3, <1>5, Zenon DEF Changed
  <2> QED
    BY <1>5, <2>1, <2>2, <2>3, <2>4, <2>5, Zenon DEF WaiterStep, Poll, Check, Judge, TimesOut, Abandon
<1>6. ASSUME NEW a \in Addresses, SessionStep(a)
      PROVE  Latched'
  BY <1>6, <1>1, <1>2, Zenon DEF SessionStep, Dial, Established, Ends, Notify, watch
<1>7. CASE Tick
  <2>1. \A w \in Waiters : wait'[w].pc = wait[w].pc
    BY <1>7, CoreTick, Zenon
  <2> QED
    BY <1>7, <2>1, Zenon DEF Tick, watch
<1>8. CASE CloseWatch
  BY <1>8, Zenon DEF CloseWatch
<1>9. ASSUME NEW e \in Endpoints, NEW reason \in {"NotFound", "StaleIncarnation"}, EndpointFails(e, reason)
      PROVE  Latched'
  BY <1>9, <1>2, Zenon DEF EndpointFails, watch
<1>10. CASE Spurious \/ DropRuntime \/ UNCHANGED vars
  BY <1>10, <1>1, <1>2, Zenon DEF Spurious, DropRuntime, vars, watch
<1> QED
  BY <1>3, <1>5, <1>6, <1>7, <1>8, <1>9, <1>10, Zenon DEF Next

-----------------------------------------------------------------------------
(* How long an address has been failed.                                    *)

\* A future that ends or is created changes nothing the table says of a failure.
LEMMA FailuresKept ==
    ASSUME Core, NEW w \in Waiters, WaiterStep(w)
    PROVE  /\ \A b \in Addresses : Of(records', b).failed = Of(records, b).failed
           /\ UNCHANGED <<telling, run, down, runtime>>
<1>1. CASE Finished(w)
  BY <1>1, FinishedKeeps, Zenon DEF Finished, sessions
<1>2. ASSUME NEW e \in Endpoints, NEW goal, Create(w, goal, e)
      PROVE  /\ \A b \in Addresses : Of(records', b).failed = Of(records, b).failed
             /\ UNCHANGED <<telling, run, down, runtime>>
  BY <1>2, BeforeAgrees, Zenon DEF Create, Core, Agree, sessions, history
<1>3. ASSUME NEW e \in Endpoints, NEW s, CreateFailedFor(w, e, s)
      PROVE  /\ \A b \in Addresses : Of(records', b).failed = Of(records, b).failed
             /\ UNCHANGED <<telling, run, down, runtime>>
  <2> DEFINE a == e.address
  <2>1. a \in Addresses
    BY MonitorAssumption, Zenon
  <2>2. Of(records, a).references + 1 \in Nat
    <3>1. Cardinality(Watching(wait, a)) \in Nat
      BY WatchingFinite, FS_CardinalityType, Zenon
    <3>2. Of(records, a).references = Cardinality(Watching(wait, a))
      BY <1>3, <2>1, Zenon DEF CreateFailedFor, Core, Kept
    <3> QED
      BY <3>1, <3>2
  <2>3. \A b \in Addresses : Of(records', b).failed = Of(records, b).failed
    <3>1. Referenced(a, 1) /\ Typed
      BY <1>3, Zenon DEF CreateFailedFor, Core
    <3>2. /\ Of(records', a).failed = Of(records, a).failed
          /\ \A b \in Addresses \ {a} : Agree(records', records, b)
      BY <3>1, <2>1, <2>2, ReferencedWrites
    <3> QED
      BY <3>2, Zenon DEF Agree
  <2> QED
    BY <2>3, <1>3, Zenon DEF CreateFailedFor, sessions, history
<1>4. CASE UNCHANGED <<monitor, sessions, runtime, history>>
  BY <1>4, Zenon DEF monitor, sessions, history
<1> QED
  BY <1>1, <1>2, <1>3, <1>4, Zenon
     DEF WaiterStep, Poll, Version, Check, Judge, Changed, Going, TimesOut, Abandon

\* What the waiters have for failed is what the table has, or is about to be told
\* recovered (MonitorState::connected, disconnected, and the notifies after them).
LEMMA DownsStep ==
    ASSUME Core, Gone, Downs, [Next]_vars
    PROVE  Downs'
<1> USE DEF Downs
<1>1. CASE UNCHANGED <<telling, run, down>> /\ runtime' \in {runtime, "dropped", "closed"}
           /\ \A b \in Addresses : Of(records', b).failed = Of(records, b).failed
  BY <1>1, Zenon
<1>2. ASSUME NEW a \in Addresses, SessionStep(a)
      PROVE  Downs'
  <2>1. SUFFICES ASSUME runtime = "running", NEW b \in Addresses
                 PROVE  /\ down'[b] # None <=> Of(records', b).failed \/ telling'[b] = "recovery"
                        /\ telling'[b] = "recovery" => ~Of(records', b).failed /\ run'[b] = None
    BY <1>2, Zenon DEF SessionStep, Dial, Established, Ends, Notify
  <2>2. CASE Dial(a)
    BY <2>1, <2>2, Zenon DEF Dial, monitor, history
  <2>3. CASE Notify(a)
    <3>1. /\ telling' = [telling EXCEPT ![a] = "nothing"]
          /\ down' = IF telling[a] = "recovery" THEN [down EXCEPT ![a] = None] ELSE down
          /\ UNCHANGED <<records, run>>
      BY <2>3, Zenon DEF Notify, Owing, monitor
    <3> QED
      BY <3>1, <2>1, Zenon DEF Core, Typed
  <2>4. CASE Established(a)
    <3>1. /\ telling' = [telling EXCEPT ![a] = IF AddressFailed(a) THEN "recovery" ELSE "nothing"]
          /\ run' = [run EXCEPT ![a] = None]
          /\ telling[a] = "nothing"
          /\ down' = down
      BY <2>4, Zenon DEF Established, Owing
    <3>2. AddressFailed(a) <=> Of(records, a).failed
      BY Zenon DEF AddressFailed, Of, Fresh
    <3>3. /\ Of(records', a).failed = FALSE
          /\ \A c \in Addresses \ {a} : Of(records', c).failed = Of(records, c).failed
      BY <2>4, EstablishedWrites, Zenon DEF Core, Agree
    <3>4. CASE b = a
      <4>1. /\ telling'[a] = IF Of(records, a).failed THEN "recovery" ELSE "nothing"
            /\ run'[a] = None
        BY <3>1, <3>2, Zenon DEF Core, Typed
      <4> QED
        BY <2>1, <3>1, <3>3, <3>4, <4>1, Zenon
    <3>5. CASE b # a
      <4>1. telling'[b] = telling[b] /\ run'[b] = run[b]
        BY <3>1, <3>5, Zenon DEF Core, Typed
      <4> QED
        BY <2>1, <3>1, <3>3, <3>5, <4>1, Zenon
    <3> QED
      BY <3>4, <3>5, Zenon
  <2>5. ASSUME NEW failure \in BOOLEAN, Ends(a, failure)
        PROVE  /\ down'[b] # None <=> Of(records', b).failed \/ telling'[b] = "recovery"
               /\ telling'[b] = "recovery" => ~Of(records', b).failed /\ run'[b] = None
    <3>1. /\ telling[a] = "nothing"
          /\ \E what \in {"probe", "change"} : telling' = [telling EXCEPT ![a] = what]
          /\ run' = [run EXCEPT ![a] = IF failure /\ @ = None THEN 0 ELSE @]
      BY <2>5, Zenon DEF Ends, Owing
    <3> DEFINE was == Of(records, a)
               age == IF was.failing = None THEN 0 ELSE was.failing
    <3>2. /\ Of(records', a).failed = (was.failed \/ (failure /\ age >= Delay))
          /\ down' = [down EXCEPT ![a] = IF failure /\ age >= Delay /\ @ = None THEN 0 ELSE @]
      BY <2>5, EndsWrites, Zenon DEF Core
    <3>3. \A c \in Addresses \ {a} : Of(records', c).failed = Of(records, c).failed
      BY <2>5, EndsWrites, Zenon DEF Core, Agree
    <3>4. 0 # None
      BY DEF None
    <3> HIDE DEF was
    <3>5. CASE b = a
      <4>1. /\ telling'[a] # "recovery"
            /\ down'[a] = IF failure /\ age >= Delay /\ down[a] = None THEN 0 ELSE down[a]
        BY <3>1, <3>2, Zenon DEF Core, Typed
      <4>2. down[a] # None <=> was.failed
        BY <2>1, <3>1, Zenon DEF was
      <4> QED
        BY <3>2, <3>4, <3>5, <4>1, <4>2, Zenon
    <3>6. CASE b # a
      <4>1. telling'[b] = telling[b] /\ run'[b] = run[b] /\ down'[b] = down[b]
        BY <3>1, <3>2, <3>6, Zenon DEF Core, Typed
      <4> QED
        BY <2>1, <3>3, <3>6, <4>1, Zenon
    <3> QED
      BY <3>5, <3>6, Zenon
  <2> QED
    BY <1>2, <2>2, <2>3, <2>4, <2>5, Zenon DEF SessionStep
<1>3. ASSUME NEW e \in Endpoints, NEW reason \in {"NotFound", "StaleIncarnation"}, EndpointFails(e, reason)
      PROVE  Downs'
  <2>1. /\ telling' = [telling EXCEPT ![e.address] = "change"]
        /\ telling[e.address] = "nothing"
        /\ UNCHANGED <<records, runtime, run, down>>
    BY <1>3, Zenon DEF EndpointFails, Owing, history
  <2> QED
    BY <2>1, Zenon DEF Core, Typed
<1>4. ASSUME NEW w \in Waiters, WaiterStep(w)
      PROVE  Downs'
  BY <1>1, <1>4, FailuresKept, Zenon
<1>5. CASE Tick
  <2>1. /\ UNCHANGED <<telling, runtime>>
        /\ \A b \in Addresses : Of(records', b).failed = Of(records, b).failed
    BY <1>5, TickWrites, Zenon DEF Tick, Core, sessions
  <2>2. \A b \in Addresses :
          /\ down'[b] = None <=> down[b] = None
          /\ run'[b] = None <=> run[b] = None
    BY <1>5, OlderAge, Zenon DEF Tick, Core, Typed
  <2> QED
    BY <2>1, <2>2, Zenon
<1>6. CASE DropRuntime \/ CloseWatch
  BY <1>6, Zenon DEF DropRuntime, CloseWatch
<1>7. CASE Spurious \/ UNCHANGED vars
  BY <1>7, <1>1, Zenon DEF Spurious, vars, monitor, sessions, history
<1> QED
  BY <1>2, <1>3, <1>4, <1>5, <1>6, <1>7, Zenon DEF Next

\* A future that did not move is still well timed, if it must look as it had to and
\* nothing was told of its address.
LEMMA StillTimed ==
    ASSUME Core, Timed, NEW v \in Waiters, wait'[v] = wait[v],
           v \in stale => v \in stale',
           \A b \in Addresses :
               /\ down'[b] = down[b]
               /\ Of(records', b).failed => Of(records, b).failed
               /\ run'[b] = run[b] \/ run'[b] = None
    PROVE  TimedFor(v)'
<1>1. wait[v].kind = "failedFor" => wait[v].on.address \in Addresses
  BY MonitorAssumption, Zenon DEF Core, Futures, Sane
<1>2. MustLook(v) => MustLook(v)'
  BY Zenon DEF MustLook
<1>3. SUFFICES ASSUME wait[v].kind = "failedFor", wait[v].goal = "available"
               PROVE  TimedFor(v)'
  BY Zenon DEF TimedFor
<1> DEFINE a == wait[v].on.address
<1>4. CASE down[a] # None /\ down[a] + wait[v].left >= wait[v].sustain.sustained
  BY <1>1, <1>3, <1>4, Zenon DEF TimedFor
<1>5. CASE /\ MustLook(v)
           /\ ~Of(records, a).failed
           /\ run[a] \in {None, 0} \/ wait[v].left >= wait[v].sustain.sustained
  <2>1. /\ ~Of(records', a).failed
        /\ run'[a] \in {None, 0} \/ wait[v].left >= wait[v].sustain.sustained
    BY <1>1, <1>3, <1>5, Zenon
  <2> QED
    BY <1>2, <1>5, <2>1, Zenon DEF TimedFor
<1> QED
  BY <1>3, <1>4, <1>5, Zenon DEF Timed, TimedFor

\* The steps of a session keep every future well timed: an address that recovered
\* cannot be failed again before a future that waits for it looks (connected,
\* disconnected).
LEMMA TimedSession ==
    ASSUME Core, Gone, Downs, Latched, Timed, NEW a \in Addresses, SessionStep(a)
    PROVE  Timed'
<1> SUFFICES ASSUME NEW w \in Waiters PROVE TimedFor(w)'
  BY Zenon DEF Timed
<1>0. wait' = wait
  BY Zenon DEF SessionStep, Dial, Established, Ends, Notify
<1>1. CASE Dial(a)
  BY <1>1, StillTimed, Zenon DEF Dial, monitor, watch, history
<1>2. CASE Established(a)
  <2>1. \A b \in Addresses :
          /\ Of(records', b).failed => Of(records, b).failed
          /\ run'[b] = run[b] \/ run'[b] = None
    BY <1>2, EstablishedWrites, Zenon DEF Established, Core, Typed, Agree
  <2> QED
    BY <1>2, <2>1, StillTimed, Zenon DEF Established, watch
<1>3. CASE Notify(a)
  <2>1. /\ UNCHANGED <<records, run>>
        /\ stale' = {v \in Waiters : wait[v].pc # "idle"}
        /\ down' = IF telling[a] = "recovery" THEN [down EXCEPT ![a] = None] ELSE down
        /\ telling[a] # "nothing"
    BY <1>3, Zenon DEF Notify, Notified, monitor
  <2>2. runtime = "running"
    BY <2>1, Zenon DEF Gone
  <2>3. SUFFICES ASSUME wait[w].kind = "failedFor", wait[w].goal = "available"
                 PROVE  TimedFor(w)'
    BY <1>0, Zenon DEF TimedFor
  <2>4. w \in stale'
    BY <2>1, <2>3, Zenon DEF Core, Futures, Sane
  <2>5. wait[w].on.address \in Addresses
    BY <2>3, MonitorAssumption, Zenon DEF Core, Futures, Sane
  <2>6. CASE wait[w].on.address = a /\ telling[a] = "recovery"
    <3>1. ~Of(records, a).failed /\ run[a] = None
      BY <2>2, <2>6, Zenon DEF Downs
    <3> QED
      BY <1>0, <2>1, <2>4, <2>6, <3>1, Zenon DEF TimedFor, MustLook
  <2>7. CASE ~(wait[w].on.address = a /\ telling[a] = "recovery")
    <3>1. down'[wait[w].on.address] = down[wait[w].on.address]
      BY <2>1, <2>5, <2>7, Zenon DEF Core, Typed
    <3> QED
      BY <1>0, <2>1, <2>4, <3>1, Zenon DEF Timed, TimedFor, MustLook
  <2> QED
    BY <2>6, <2>7, Zenon
<1>4. ASSUME NEW failure \in BOOLEAN, Ends(a, failure)
      PROVE  TimedFor(w)'
  <2>1. SUFFICES ASSUME wait[w].kind = "failedFor", wait[w].goal = "available"
                 PROVE  TimedFor(w)'
    BY <1>0, Zenon DEF TimedFor
  <2> DEFINE was == Of(records, a)
             age == IF was.failing = None THEN 0 ELSE was.failing
             asked == wait[w].sustain.sustained
  <2>2. /\ Of(records', a).failed = (was.failed \/ (failure /\ age >= Delay))
        /\ down' = [down EXCEPT ![a] = IF failure /\ age >= Delay /\ @ = None THEN 0 ELSE @]
    BY <1>4, EndsWrites, Zenon DEF Core
  <2>3. \A b \in Addresses \ {a} : Of(records', b).failed = Of(records, b).failed
    BY <1>4, EndsWrites, Zenon DEF Core, Agree
  <2>4. /\ telling[a] = "nothing" /\ stale' = stale
        /\ run' = [run EXCEPT ![a] = IF failure /\ @ = None THEN 0 ELSE @]
        /\ runtime = "running"
    BY <1>4, Zenon DEF Ends, watch, Gone
  <2>5. wait[w].on.address \in Addresses
    BY <2>1, MonitorAssumption, Zenon DEF Core, Futures, Sane
  <2>6. /\ down[a] # None <=> was.failed
        /\ was.failing = run[a]
        /\ run[a] \in Ages /\ down[a] \in Ages
    BY <2>4, Zenon DEF Downs, Core, Kept, Typed
  <2>7. MustLook(w)' <=> MustLook(w)
    BY <1>0, <2>4, Zenon DEF MustLook
  <2> HIDE DEF was
  <2>8. CASE wait[w].on.address = a
    <3>1. /\ down'[a] = IF failure /\ age >= Delay /\ down[a] = None THEN 0 ELSE down[a]
          /\ run'[a] = IF failure /\ run[a] = None THEN 0 ELSE run[a]
      BY <2>2, <2>4, Zenon DEF Core, Typed
    <3>2. CASE down[a] # None
      BY <2>1, <2>6, <2>8, <3>1, <3>2, <1>0, Zenon DEF Timed, TimedFor, was
    <3>3. CASE down[a] = None
      <4>1. /\ MustLook(w)
            /\ run[a] \in {None, 0} \/ wait[w].left >= asked
        BY <2>1, <2>8, <3>3, Zenon DEF Timed, TimedFor
      <4>2. CASE failure /\ age >= Delay
        <5>1. run[a] \notin {None, 0} /\ 0 # None
          BY <4>2, <2>6, MonitorAssumption DEF None
        <5>2. down'[a] = 0 /\ wait[w].left >= asked
          BY <3>1, <3>3, <4>1, <4>2, <5>1, Zenon
        <5>3. wait[w].left \in Nat
          BY <2>1, Zenon DEF Core, Futures, Sane
        <5>4. down'[a] + wait[w].left >= asked
          BY <5>2, <5>3
        <5> QED
          BY <1>0, <2>8, <5>1, <5>2, <5>4, Zenon DEF TimedFor
      <4>3. CASE ~(failure /\ age >= Delay)
        <5>1. ~Of(records', a).failed
          BY <2>2, <2>6, <3>3, <4>3, Zenon
        <5>2. run'[a] \in {None, 0} \/ wait[w].left >= asked
          BY <3>1, <4>1, Zenon
        <5> QED
          BY <1>0, <2>7, <2>8, <4>1, <5>1, <5>2, Zenon DEF TimedFor
      <4> QED
        BY <4>2, <4>3, Zenon
    <3> QED
      BY <3>2, <3>3, Zenon
  <2>9. CASE wait[w].on.address # a
    <3> DEFINE b == wait[w].on.address
    <3>1. down'[b] = down[b] /\ run'[b] = run[b] /\ Of(records', b).failed = Of(records, b).failed
      BY <2>2, <2>3, <2>4, <2>5, <2>9, Zenon DEF Core, Typed
    <3> QED
      BY <1>0, <2>7, <3>1, Zenon DEF Timed, TimedFor
  <2> QED
    BY <2>8, <2>9, Zenon
<1> QED
  BY <1>1, <1>2, <1>3, <1>4, Zenon DEF SessionStep

\* The polls of a future keep it well timed: one that sleeps on saw its address
\* failed (on_failed_for, wait_until).
LEMMA TimedWaiter ==
    ASSUME Core, Gone, Downs, Timed, NEW w \in Waiters, WaiterStep(w)
    PROVE  Timed'
<1>1. /\ \A b \in Addresses : Of(records', b).failed = Of(records, b).failed
      /\ UNCHANGED <<telling, run, down, runtime>>
  BY FailuresKept, Zenon
<1> DEFINE Well == /\ TimedFor(w)'
                   /\ \A v \in Waiters \ {w} : wait'[v] = wait[v]
                   /\ stale \ {w} \subseteq stale'
<1>2. SUFFICES Well
  BY <1>1, StillTimed, Zenon DEF Timed
<1>3. wait[w] \in Future /\ Sane(wait[w])
  BY Zenon DEF Core, Typed, Futures
<1>4. CASE Finished(w)
  <2>1. wait'[w] = Idle /\ \A v \in Waiters \ {w} : wait'[v] = wait[v]
    BY <1>4, FinishedKeeps, Zenon
  <2>2. TimedFor(w)'
    BY <2>1, IdleFuture, Zenon DEF TimedFor
  <2> QED
    BY <1>4, <2>1, <2>2, Zenon DEF Finished
<1>5. ASSUME NEW e \in Endpoints, NEW goal, Create(w, goal, e)
      PROVE  Well
  <2>1. wait'[w].kind = "once"
    BY <1>5, IdleFuture DEF Create, Future, Core, Typed
  <2> QED
    BY <1>5, <2>1, Zenon DEF Create, watch, TimedFor, Core, Typed
<1>6. ASSUME NEW e \in Endpoints, NEW s, CreateFailedFor(w, e, s)
      PROVE  Well
  <2>1. wait'[w].goal = "failed"
    BY <1>6, IdleFuture DEF CreateFailedFor, Future, Core, Typed
  <2> QED
    BY <1>6, <2>1, Zenon DEF CreateFailedFor, watch, TimedFor, Core, Typed
<1>7. CASE Version(w)
  <2>1. /\ wait'[w].pc = "check" /\ wait'[w].kind = wait[w].kind /\ wait'[w].goal = wait[w].goal
        /\ wait'[w].on = wait[w].on /\ wait'[w].left = wait[w].left
        /\ wait'[w].sustain = wait[w].sustain
        /\ \A v \in Waiters \ {w} : wait'[v] = wait[v]
    BY <1>3, <1>7 DEF Version, Future, Core, Typed
  <2>2. /\ UNCHANGED <<records, run, down>>
        /\ stale' = stale \ {w}
    BY <1>7, Zenon DEF Version, monitor, history
  <2>3. TimedFor(w)'
    BY <2>1, <2>2, Zenon DEF Timed, TimedFor, MustLook
  <2> QED
    BY <2>1, <2>2, <2>3, Zenon
<1>8. ASSUME NEW pc, NEW goal, NEW left, Going(w, pc, goal, left)
      PROVE  /\ wait'[w].pc = pc /\ wait'[w].goal = goal /\ wait'[w].left = left
             /\ wait'[w].kind = wait[w].kind /\ wait'[w].on = wait[w].on
             /\ wait'[w].sustain = wait[w].sustain
             /\ \A v \in Waiters \ {w} : wait'[v] = wait[v]
             /\ UNCHANGED <<records, run, down>>
  BY <1>3, <1>8 DEF Going, Future, Core, Typed, monitor, history
<1>9. CASE Check(w) /\ ~Finished(w)
  <2>1. ASSUME NEW pc, Going(w, pc, "failed", None), stale' = stale
        PROVE  Well
    <3>1. wait'[w].goal = "failed" /\ \A v \in Waiters \ {w} : wait'[v] = wait[v]
      BY <1>8, <2>1, Zenon
    <3>2. TimedFor(w)'
      BY <3>1, Zenon DEF TimedFor
    <3> QED
      BY <2>1, <3>1, <3>2, Zenon
  <2>2. CASE ~Ready(w) /\ Going(w, "changed", wait[w].goal, wait[w].left) /\ UNCHANGED stale
    <3>1. ASSUME wait[w].kind = "failedFor", wait[w].goal = "available"
          PROVE  Of(records, wait[w].on.address).failed
      BY <2>2, <3>1 DEF Ready, AddressFailed, Of
    <3>2. /\ wait'[w].goal = wait[w].goal /\ wait'[w].left = wait[w].left
          /\ wait'[w].kind = wait[w].kind /\ wait'[w].on = wait[w].on
          /\ wait'[w].sustain = wait[w].sustain
          /\ \A v \in Waiters \ {w} : wait'[v] = wait[v]
          /\ UNCHANGED <<records, run, down>>
      BY <1>8, <2>2, Zenon
    <3>3. TimedFor(w)'
      BY <3>1, <3>2, Zenon DEF Timed, TimedFor
    <3> QED
      BY <2>2, <3>2, <3>3, Zenon
  <2> QED
    BY <1>9, <2>1, <2>2, Zenon DEF Check
<1>10. CASE Judge(w) /\ ~Finished(w)
  <2> DEFINE patience == Patience(wait[w].sustain, wait[w].elapsed)
             a == wait[w].on.address
  <2>1. Going(w, "version", "available", patience) /\ UNCHANGED stale
    BY <1>10, Zenon DEF Judge
  <2>2. wait[w].kind = "failedFor" /\ wait[w].sustain \in Sustains /\ a \in Addresses
    BY <1>3, <1>10, MonitorAssumption, Zenon DEF Sane, Judge
  <2>3. wait[w].elapsed \in 0 .. MaxAge
    BY <1>3, <1>10, <2>2, Zenon DEF Sane, Judge, Future, Ages
  <2>4. patience \in Nat /\ patience >= wait[w].sustain.sustained
    BY <2>2, <2>3, PatienceEnough, Zenon
  <2> HIDE DEF patience
  <2>5. /\ wait'[w].pc = "version" /\ wait'[w].goal = "available" /\ wait'[w].left = patience
        /\ wait'[w].kind = wait[w].kind /\ wait'[w].on = wait[w].on
        /\ wait'[w].sustain = wait[w].sustain
        /\ \A v \in Waiters \ {w} : wait'[v] = wait[v]
        /\ UNCHANGED <<records, run, down>>
    BY <1>8, <2>1, Zenon
  <2>6. CASE Of(records, a).failed
    <3>1. runtime = "running"
      BY <2>6, Zenon DEF Gone, Of, Fresh
    <3>2. down[a] # None /\ down[a] \in Ages
      BY <2>2, <2>6, <3>1, Zenon DEF Downs, Core, Typed
    <3>3. wait[w].sustain.sustained \in Nat
      BY <2>2, MonitorAssumption
    <3>4. down[a] + patience >= wait[w].sustain.sustained
      BY <2>4, <3>2, <3>3 DEF Ages, None
    <3>5. TimedFor(w)'
      BY <2>5, <3>2, <3>4, Zenon DEF TimedFor
    <3> QED
      BY <2>1, <2>5, <3>5, Zenon
  <2>7. CASE ~Of(records, a).failed
    <3>1. TimedFor(w)'
      BY <2>4, <2>5, <2>7, Zenon DEF TimedFor, MustLook
    <3> QED
      BY <2>1, <2>5, <3>1, Zenon
  <2> QED
    BY <2>6, <2>7, Zenon
<1>11. CASE Changed(w) /\ ~Finished(w)
  <2>1. PICK pc \in {"version", "parked"} :
          /\ wait' = [wait EXCEPT ![w].pc = pc]
          /\ pc = "parked" => ~MustLook(w)
    BY <1>11, Zenon DEF Changed, Polling, MustLook
  <2>2. UNCHANGED <<records, run, down, stale>>
    BY <1>11, Zenon DEF Changed, monitor, history
  <2>3. /\ wait'[w].pc = pc /\ wait'[w].kind = wait[w].kind /\ wait'[w].goal = wait[w].goal
        /\ wait'[w].on = wait[w].on /\ wait'[w].left = wait[w].left
        /\ wait'[w].sustain = wait[w].sustain
        /\ \A v \in Waiters \ {w} : wait'[v] = wait[v]
    BY <1>3, <2>1 DEF Future, Core, Typed
  <2>4. MustLook(w) => MustLook(w)'
    BY <2>1, <2>3, Zenon DEF MustLook
  <2>5. TimedFor(w)'
    BY <2>2, <2>3, <2>4, Zenon DEF Timed, TimedFor
  <2> QED
    BY <2>2, <2>3, <2>5, Zenon
<1> QED
  BY <1>4, <1>5, <1>6, <1>7, <1>9, <1>10, <1>11, Zenon DEF WaiterStep, Poll, TimesOut, Abandon

\* Time that passes for a sleeping future passes for its address: the clock moves
\* only while no future has to look (the simulation's clock, Busy).
LEMMA TimedTick ==
    ASSUME Core, Latched, Timed, Tick
    PROVE  Timed'
<1> SUFFICES ASSUME NEW w \in Waiters, wait'[w].kind = "failedFor", wait'[w].goal = "available"
             PROVE  TimedFor(w)'
  BY Zenon DEF Timed, TimedFor
<1> DEFINE a == wait[w].on.address
           asked == wait[w].sustain.sustained
<1>1. /\ wait'[w].kind = wait[w].kind /\ wait'[w].on = wait[w].on
      /\ wait'[w].goal = wait[w].goal /\ wait'[w].pc = wait[w].pc
      /\ wait'[w].sustain = wait[w].sustain
      /\ wait'[w].left = Less(wait[w].left)
  BY CoreTick, Zenon
<1>2. /\ a \in Addresses /\ wait[w].sustain \in Sustains /\ wait[w].left \in Nat
      /\ wait[w].pc \notin {"idle", "new", "judge"}
  BY <1>1, MonitorAssumption, Zenon DEF Core, Futures, Sane
<1>3. wait[w].pc = "parked" /\ w \notin woken /\ w \notin stale
  BY <1>2, Zenon DEF Tick, Busy, Latched
<1>4. down[a] # None /\ down[a] + wait[w].left >= asked
  BY <1>1, <1>3, Zenon DEF Timed, TimedFor, MustLook
<1>5. down'[a] = Older(down[a]) /\ down[a] \in Ages
  BY <1>2, Zenon DEF Tick, Core, Typed
<1>6. asked \in 0 .. MaxAge
  BY <1>2, MonitorAssumption, SMTT(60)
<1>7. down'[a] # None /\ down'[a] + Less(wait[w].left) >= asked
  BY <1>2, <1>4, <1>5, <1>6, MonitorAssumption, SMTT(60) DEF Ages, None, Older, Less
<1> QED
  BY <1>1, <1>7, Zenon DEF TimedFor

\* Every step keeps every future of on_failed_for well timed.
LEMMA TimedStep ==
    ASSUME Core, Gone, Latched, Downs, Timed, [Next]_vars
    PROVE  Timed'
<1>1. ASSUME NEW a \in Addresses, SessionStep(a)
      PROVE  Timed'
  BY <1>1, TimedSession, Zenon
<1>2. ASSUME NEW w \in Waiters, WaiterStep(w)
      PROVE  Timed'
  BY <1>2, TimedWaiter, Zenon
<1>3. CASE Tick
  BY <1>3, TimedTick, Zenon
<1>4. ASSUME NEW e \in Endpoints, NEW reason \in {"NotFound", "StaleIncarnation"}, EndpointFails(e, reason)
      PROVE  Timed'
  BY <1>4, StillTimed, Zenon DEF EndpointFails, history, watch, Timed
<1>5. CASE Spurious
  <2>1. \A w \in Waiters : w \in stale /\ wait[w].kind = "failedFor" => w \in stale'
    BY <1>5, Zenon DEF Spurious, Notified, Core, Futures, Sane
  <2> QED
    BY <1>5, <2>1, Zenon DEF Spurious, monitor, history, Timed, TimedFor, MustLook
<1>6. CASE DropRuntime
  <2>1. \A b \in Addresses : ~Of(records', b).failed
    BY <1>6 DEF DropRuntime, Of, Fresh
  <2>2. \A b \in Addresses : run'[b] = None /\ down'[b] = down[b]
    BY <1>6, Zenon DEF DropRuntime
  <2> QED
    BY <1>6, <2>1, <2>2, StillTimed, Zenon DEF DropRuntime, watch, Timed
<1>7. CASE CloseWatch \/ UNCHANGED vars
  BY <1>7, StillTimed, Zenon DEF CloseWatch, vars, monitor, watch, history, Timed
<1> QED
  BY <1>1, <1>2, <1>3, <1>4, <1>5, <1>6, <1>7, Zenon DEF Next

-----------------------------------------------------------------------------
(* The theorems.                                                           *)

\* The inductive invariant.
IInv == Core /\ Bounded /\ Gone /\ Latched /\ Downs /\ Timed

\* A monitor just created satisfies the invariant.
LEMMA InvInit == Init => IInv
<1> SUFFICES ASSUME Init PROVE IInv
  OBVIOUS
<1>1. DOMAIN records = {} /\ Table(records)
  BY DEF Init, Table
<1>2. failed \in Seq(Keys) /\ Bounded
  BY MonitorAssumption DEF Init, Bounded, IsInjective
<1>3. None \in Ages
  BY DEF Ages
<1>4. wait \in [Waiters -> Future] /\ \A w \in Waiters : wait[w] = Idle
  BY IdleFuture, Zenon DEF Init
<1>5. Typed
  BY <1>1, <1>2, <1>3, <1>4, Zenon DEF Init, Typed
<1>6. Futures /\ Latched /\ Timed
  BY <1>4, IdleFuture, Zenon DEF Futures, Sane, Latched, Timed, TimedFor
<1>7. \A a \in Addresses : Of(records, a) = Fresh
  BY <1>1, Zenon DEF Of
<1>8. Fresh.failed = FALSE /\ Fresh.failing = None /\ Fresh.references = 0
  BY DEF Fresh
<1>9. \A a \in Addresses : Cardinality(Watching(wait, a)) = 0
  <2>1. \A a \in Addresses : Watching(wait, a) = {}
    BY <1>4, IdleFuture, Zenon DEF Watching
  <2> QED
    BY <2>1, FS_EmptySet, Zenon
<1>10. Kept /\ Downs
  BY <1>7, <1>8, <1>9, Zenon DEF Init, Kept, Downs
<1>11. Gone
  BY Zenon DEF Init, Gone
<1> QED
  BY <1>2, <1>5, <1>6, <1>10, <1>11, Zenon DEF IInv, Core

\* Every call on the monitor, poll of a future and tick of the clock keeps it.
LEMMA InvStep == IInv /\ [Next]_vars => IInv'
<1> SUFFICES ASSUME IInv, [Next]_vars PROVE IInv'
  OBVIOUS
<1>1. Core' /\ Bounded' /\ Gone' /\ Latched' /\ Downs' /\ Timed'
  BY CoreStep, BoundedStep, GoneStep, LatchedStep, DownsStep, TimedStep, Zenon DEF IInv
<1> QED
  BY <1>1, Zenon DEF IInv

\* So it holds of every state.
LEMMA Invariance == Spec => []IInv
BY InvInit, InvStep, PTL DEF Spec

\* The tables, the latch and the futures stay well typed, the counts of watchers
\* never exceed the waiters, and the table of failed endpoints is bounded and names
\* a key once, for any addresses, endpoints, waiters and limits.
THEOREM MonitorTypeCorrect == Spec => []TypeOK
<1>1. IInv => TypeOK
  <2> SUFFICES ASSUME IInv PROVE TypeOK
    OBVIOUS
  <2>1. Core /\ Typed /\ Bounded /\ Gone
    BY Zenon DEF IInv, Core
  <2>2. ASSUME NEW a \in DOMAIN records
        PROVE  records[a] \in [failed : BOOLEAN, last : SUBSET Waiters, failing : Ages,
                               references : 0 .. Cardinality(Waiters)]
    <3>1. a \in Addresses /\ records[a] \in Record /\ runtime = "running"
      BY <2>1, <2>2, Zenon DEF Typed, Table, Gone
    <3>2. records[a].references = Cardinality(Watching(wait, a))
      BY <2>1, <2>2, <3>1, Zenon DEF Core, Kept, Of
    <3>3. records[a].references \in 0 .. Cardinality(Waiters)
      BY <3>2, WatchingFinite, Zenon
    <3> QED
      BY <3>1, <3>3 DEF Record
  <2>3. DOMAIN records \subseteq Addresses
    BY <2>1, Zenon DEF Typed, Table
  <2>4. \A w \in Waiters :
          /\ wait[w].goal \in {"none", "change", "disconnect", "failed", "available", "either"}
          /\ wait[w].pc \in {"idle", "new", "version", "check", "judge", "changed", "parked"}
    BY <2>1, Zenon DEF Typed, Future
  <2> QED
    BY <2>1, <2>2, <2>3, <2>4, Zenon DEF TypeOK, Typed, Bounded
<1> QED
  BY <1>1, Invariance, PTL

\* However many addresses come and go through the bounded table, an address is
\* failed only after a run of failures as long as the detection delay, the start of
\* its run is never forgotten, and every live watcher of on_failed_for is counted
\* (MonitorState::record and the handlers that call it).
THEOREM RecordsKeptHolds == Spec => []RecordsKept
<1>1. IInv => RecordsKept
  <2> SUFFICES ASSUME IInv, runtime = "running", NEW a \in Addresses
               PROVE  /\ (IF a \in DOMAIN records THEN records[a].failing ELSE None) = run[a]
                      /\ AddressFailed(a) => run[a] >= Delay
                      /\ References(a) = Cardinality(Watching(wait, a))
    BY Zenon DEF RecordsKept, Watching
  <2>1. /\ Of(records, a).failing = run[a]
        /\ Of(records, a).failed => run[a] >= Delay
        /\ Of(records, a).references = Cardinality(Watching(wait, a))
    BY Zenon DEF IInv, Core, Kept
  <2>2. Fresh.failed = FALSE /\ Fresh.failing = None /\ Fresh.references = 0
    BY DEF Fresh
  <2> QED
    BY <2>1, <2>2, Zenon DEF Of, AddressFailed, References
<1> QED
  BY <1>1, Invariance, PTL

\* on_failed_for times out only on an address its waiters had for failed, without a
\* break, for as long as it was asked to wait: no recovery that was published in
\* between is overlooked.
THEOREM FailedForHolds == Spec => FailedForMeansIt
<1>1. ASSUME IInv, NEW w \in Waiters, TimesOut(w)
      PROVE  down[wait[w].on.address] >= wait[w].sustain.sustained
  <2> DEFINE a == wait[w].on.address
  <2>1. /\ wait[w].pc = "parked" /\ wait[w].goal = "available" /\ wait[w].left = 0 /\ w \notin stale
    BY <1>1, Zenon DEF TimesOut
  <2>2. wait[w].kind = "failedFor"
    <3>1. 0 # None
      BY DEF None
    <3> QED
      BY <1>1, <2>1, <3>1, Zenon DEF IInv, Core, Futures, Sane
  <2>3. a \in Addresses
    BY <1>1, <2>2, MonitorAssumption, Zenon DEF IInv, Core, Futures, Sane
  <2>4. down[a] + 0 >= wait[w].sustain.sustained
    BY <1>1, <2>1, <2>2, Zenon DEF IInv, Timed, TimedFor, MustLook
  <2>5. down[a] \in Int
    BY <1>1, <2>3 DEF IInv, Core, Typed, Ages, None
  <2> QED
    BY <2>4, <2>5
<1>2. IInv /\ [Next]_vars =>
        [\A w \in Waiters : TimesOut(w) =>
            LET since == down[wait[w].on.address] IN since >= wait[w].sustain.sustained]_vars
  BY <1>1, Zenon
<1> QED
  BY <1>2, Invariance, PTL DEF Spec, FailedForMeansIt

=============================================================================
