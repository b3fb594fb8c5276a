# A verification of moonpool in TLA+

moonpool is a toolbox for deterministic simulation testing in Rust, with the
libraries that are tested under it. This directory models the parts of it that
run a protocol against crashes, failing disks, lost sessions and each other;
TLC checks the models on small instances and TLAPS proves what it can for every
instance. Paths below are relative to `src/crates/`.

`PROJECT.json` lists the components, the runs, the source lines every
definition stands for, the hazards of the code with the properties that would
catch them, the findings and the theorems.

## The system and what is modelled

| part | code | module | state |
|---|---|---|---|
| journal metainfo | `moonpool-journal/src/meta.rs` | `MetaFile`, `MetaFileProofs` | checked, proved |
| journal log | `moonpool-journal/src/{journal,recover,format,io}.rs` | `JournalLog` | checked |
| journal segments | `moonpool-journal/src/{journal,segment,spare,recover}.rs` | `Segments`, `DurableIndex` | checked, refinement |
| file contents | `moonpool-sim/src/storage/image.rs` | `Blocks` | used by the three above |
| RPC reply streams | `moonpool-rpc/src/stream`, `transport/{streams,connection}.rs` | `ReplyStream`, `ReplyStreamProofs` | checked, liveness, safety proved |
| RPC calls and sessions | `moonpool-rpc/src/transport`, `call` | `Calls`, `CallsProofs` | checked, liveness, safety proved |
| RPC failure monitor | `moonpool-rpc/src/failure`, `transport/calls.rs` | `FailureMonitor`, `FailureMonitorProofs` | checked, liveness, safety proved |
| RPC endpoints, load balancing | `moonpool-rpc/src/{endpoint,balance}` | | not modelled |
| simulated network | `moonpool-sim/src/network/sim` | `Flight`, `FlightInvariant`, `FlightProofs` | one connection: checked, liveness, window and stream proved |
| simulated executor, world, processes | `moonpool-sim/src/{executor,sim,runner}` | | not modelled |
| assertion tables | `moonpool-assertions/src/{table,slots,buckets}.rs` | `AssertionTable`, `ExplorerTableProofs` | checked, proved with the explorer |
| explorer | `moonpool-explorer/src/{controller,worker,journal}.rs` | `Explorer`, `ExplorerInvariant`, `ExplorerProofs` | checked with the tables, liveness, safety proved |
| reconnecting HTTP/2 channel | `moonpool-hyper/src/client` | `Reconnect`, `ReconnectProofs` | checked, liveness, safety proved |
| codecs, security, configuration, statistics, derive macro, calibration, exporters, examples | | | not modelled |

How the parts meet: a journal owns one meta file and a chain of segments, all
of them files of a storage provider. In a simulation that provider is the
simulated disk, whose rules for writes, syncs and crashes `Blocks` states. An
RPC runtime keeps sessions with its peers, a table of pending calls, and per
streaming call a producer and a consumer that exchange credit. The executor
polls all of these as tasks, the world supplies time and events, the runner
injects faults, and the explorer repeats the whole under different seeds while
assertion tables count what was reached.

## Modules

**Blocks.** One checksummed block, or a part of one that tears on its own: the
bytes the last sync kept (`disk`), the bytes reads observe (`cache`), and
whether it is clean, dirty, or stranded by a failed writeback. `Write`, `Sync`,
`Strand`, `Revert`, `KeepCache` and the crash outcomes are the operations of
`FileImage`. Content is what a block decodes to; torn, lost and rotted bytes
decode to `Damaged`.

**MetaFile.** `pc` is the await the journal stands at: creation, the directory
sync, the open and its first sync, the choice of a copy, a repair, an update of
copy A and then B. Each durable write is a write step and a sync step, so that
a crash, a restart or a failure falls between them. `acked` remembers the last
value an open or a commit returned with.

**JournalLog.** One segment: a batch's entries, its records and the metainfo,
in the ordered (two barriers) and the batched (one barrier) protocol with
retries; then the scan, the judgement of the last batch, the records an open
rebuilds or voids, and the new generation. Every record and every entry is a
unit that lands, tears or rots on its own. The metainfo is atomic here, which
`MetaFile` justifies as long as no writeback fails and nothing rots. A failed
sync keeps, strands or reverts each of the two logs as a whole. `misled` is
history: an open synced a log that held a stranded unit of its batches, which
the sync does not write, and took it for durable.

**Segments.** The chain: rolling onto a new file or onto the spare, retiring
dead segments, opening. The directory has the names processes see and the names
a power loss keeps. A batch lands whole here, which `JournalLog` justifies.

**DurableIndex.** The abstract promise: the index recovery finds moves only when
the batch in flight lands and when its floor does, and a commit returns after
both. `Segments` instantiates it with what the directory holds (`Recovered`) and
the stage of the commit.

**ReplyStream.** Both ends of one stream. The producer side has the credit, the
line of waiting senders and the reserved window; the two connections carry items
one way and one coalesced signal the other; the consumer has its intake and
buffer. Tasks that wait are asleep until woken, so that a lost wakeup would
show. Counters stop at `MaxCounter` as `u64` does.

**Calls.** One runtime, one peer. Each handler under the state lock is one
action. The four places that leave the lock are two actions each: the writer
takes a frame and then asks whether it may leave; a session ends and then sends
its reliable calls again; shutdown empties the table, collecting the sessions,
and then closes those; accepting a session asks whether the runtime is closing
and then registers it. `failed` says who told the monitor that the endpoint is
gone, a call or a stream.
`runs` counts how often a handler was handed a call. Queues are sets: the order
of frames does not matter to any property here.

**AssertionTable.** The region several processes share: the count, the dropped
counter and the entries, each with its publication state and its latches. Each
access to shared memory in `claim` and in the accounting functions is a step,
sequentially consistent; `at` is where a process is in its evaluation. State and
identity of an entry are read, and written, in one step. That loses nothing: an
index is handed out once, and between the two stores of a mark or a release a
reader skips the entry, as it does just before the one or just after the other.

**Explorer.** Extends the tables with the controller, its frontier and known
states, and the pool: a worker is forked into a cleared slot, evaluates, writes
its journal, exits; it may crash at any step, hang and be killed, or be reaped
by somebody else. A recipe is its length, and how a run ended adds to statistics
only, so it is left out.

**Reconnect.** The clones of one channel, its attempts and `close`. What a lock
protects is one action; where the code gives the lock back, another step may
come between: a failure is recorded before the guard of the attempt drops, a
published connection is retired by the task that drove it, `close` sets its
flag, then clears the state, then wakes. A world says whether polls run alone,
as on the simulation's executor, or beside each other, as on tokio's
(`MayRun`). The executor may drop a task it has polled (`Drops`).

**FailureMonitor.** The table of addresses, bounded by `MaxAddresses`, with what
an eviction forgets; the set of endpoints that failed for good; the sessions
that report to both; the latch and the futures registered with it. A waiter
looks, reads the version, looks again and registers in separate steps, since
each takes its own lock. `on_failed_for` has its reference to the peer, its
timer, and the race of the timer with the wakeup. Time is counted in units,
relative to now.

**Flight.** The two ends of one simulated connection. What an end writes is
queued, flies and is buffered at the peer, all under the writer's window. The
events of the scheduler and the tasks that wait are state, so that an event
nobody schedules, or a wakeup nobody gives, shows. `cuts` and `clogs` are the
partitions and clogs with the time they have left. `owed`, the time an item has
still to fly, is history, and counts down only while the direction is not cut.
`Tick` moves the clock when no event is due. The bytes are numbered.

The `*Proofs` modules hold the theorems and their lemmas; `ExplorerInvariant` and
`FlightInvariant` hold the inductive invariants of the two longest ones. The
`MC*` modules hold the instances. A behaviour picks one of `Worlds` (in
`Explorer`, `Programs`), a set of settings, so that one run covers several
configurations.

## Runs

All counts are of distinct states. With `tlc -workers 2 -config X.cfg M`.

| run | config | states | result |
|---|---|---|---|
| `meta_faults` | `MetaFile_faults.cfg` | 35 750 | holds |
| `log` | `JournalLog.cfg` | 251 242 | holds |
| `log_fsyncgate` | `JournalLog_fsyncgate.cfg` | | violated: finding 1 |
| `segments` | `Segments.cfg` | 695 917 | holds |
| `stream` | `ReplyStream.cfg` | 177 076 | holds |
| `calls` | `Calls.cfg` | 602 469 | holds |
| `explorer` | `Explorer.cfg` | 556 603 | holds |
| `table_discovered` | `AssertionTable_discovered.cfg` | | violated: finding 2 |
| `reconnect` | `Reconnect.cfg` | 113 098 | holds |
| `monitor` | `FailureMonitor.cfg` | 413 467 | holds |
| `monitor_missed` | `FailureMonitor_missed.cfg` | | violated: finding 3 |
| `flight` | `Flight.cfg` | 346 193 | holds |

Some properties a config names are conjunctions of parts with a name and a
comment of their own; the part is given in brackets below.

- `meta_faults`: no open or commit returns an older metainfo than an earlier one
  did (`NeverRollsBack`). Crashes and failed writes alone never lose it, and
  until harm is done at most one copy is in flight (`MetaSurvives`:
  `NeverLost`, `AtMostOneInFlight`).
- `log`: what a commit acknowledged and what an open reported reads back, no
  open is refused and nothing overwrites what is acknowledged (`StaysReadable`:
  `AckedReadable`, `ReportedReadable`, `AckedUntouched`). Failed writes, syncs
  and writebacks are among the causes; what is exempt is rot, and what follows
  an open that was misled by a stranded unit (`Sound`). Even then an
  acknowledged write reads back whenever the journal serves: it may be refused,
  not lost in silence. A crash is not taken for corruption
  (`CrashIsNotCorruption`), one rotted unit is no silent loss (`NoSilentLoss`),
  and a batch an open did not find never returns (`GoneStaysGone`).
- `log_fsyncgate`: what the documentation of `Journal::open` says without the
  exemption, that whatever an open reports is durable (`ReportedDurable`).
- `segments`: no crash makes an open refuse the chain, and a spare about to be
  written is no segment's file even after a power loss (`ChainSound`:
  `ChainHolds`, `SpareIsNoSegment`). The index in memory is the one recovery
  finds and live counts are exact (`MemoryTrue`: `MemoryFollows`,
  `LiveCovers`). The chain implements `DurableIndex` (`KeepsPromise`).
- `stream`: the two sides never refuse each other (`NeverRefused`). Queued bytes
  stay within the reservation and it is released (`WindowHeld`:
  `QueuedIsReserved`, `EndReleases`). Items arrive in order (`InOrder`), nobody
  sleeps through what it waits for (`NobodyOversleeps`), every send resolves and
  an outcome arrives (`EverybodyServed`: `SendsResolve`, `OutcomeArrives`).
- `calls`: NotAdmitted means never executed, now or later (`NotAdmittedIsTrue`).
  An at-most-once call runs at most once (`AtMostOnce`). No pending call is
  forgotten (`NoOrphan`). A call's reply that the endpoint is gone ends every
  reliable call to it, and whoever said it, none is queued for it again
  (`GoneReleases`). A call is settled once (`SettledOnce`). Every call the
  handler does not decline settles, and a shutdown ends every session but one at
  most that was being accepted meanwhile (`NobodyWaits`: `CallsSettle`,
  `ShutdownEnds`).
- `explorer`: every evaluation is counted once, and a second entry for an
  identity comes only from claims made at the same time (`CountedOnce`:
  `NothingLost`, `NoLateDuplicate`). A result slot never holds an earlier
  worker's journal and every started run is processed once (`RunsAccounted`:
  `SlotIsOwn`, `EveryRunProcessed`). The discovery behind a fired latch reaches
  the controller unless a process died with it (`NoveltyReachesController`), and
  exploration ends although workers hang or die in the middle of a claim
  (`ExplorationEnds`).
- `reconnect`: no caller is parked behind an attempt nobody makes
  (`NobodyForgotten`). Where polls run alone there is one attempt at a time and
  no open connection is lost to the channel (`OneConnection`). Giving up is
  final (`GivesUpForGood`). A parked caller is woken, and closing ends every
  task and every request (`EverybodyAnswered`: `ParkedWoken`, `CloseEnds`).
- `monitor`: an eviction forgets no failure run, no failed address and no
  watched one (`RecordsKept`). `on_failed_for` reports only an address that was
  failed without a break for the time asked for, when tasks are polled before
  time goes on (`FailedForMeansIt`). A waiter whose
  condition came true, or whose runtime ended, returns (`WaitsEnd`).
- `flight`: the window holds exactly the bytes written and not read, wherever
  they are (`WindowAccounts`). The stream keeps its order and has no holes, and
  an end of file stands behind everything written (`StreamKept`). Nothing lands
  over a cut or before the latency it drew, and no event lands an item queued
  after the one it names (`LandsInTime`, the assertion at `delivery.rs:72`).
  Whatever has bytes to move has the event that moves it, and whoever waits has
  something to wait for (`NothingStuck`: `SendDriven`, `NobodyOversleeps`).
  Queue and wire drain again and again (`Drains`). `SendDriven` includes what
  `delivery.rs:55-57` only believes: no partition reaches a direction without
  freezing its flight.

Every property of a passing run has a mutant in `PROJECT.json`: a plausible bug
in one definition under which TLC finds the property violated.

### Bounds

- Meta file: two contents and four sequence numbers, enough for a lost update,
  its repeated number, a repair and one more update.
- Log: two record slots, four entries, batches of one or two writes and two or
  three opens: a batch before the last one, a torn last one, a crash during the
  repair, and the open after that. Media faults and failed writebacks have
  worlds of their own, with at most one rotted unit.
- Segments: two positions, three batches in a generation, two or three opens,
  one or two batches to a segment: enough to roll, retire, recycle and roll onto
  the recycled file.
- Stream: two senders, items of one or two bytes, windows below, at and above
  the limit, counters to four so that they overflow. Cutting sessions has a
  world with one sender.
- Calls: two calls at once and two disturbances, or one reliable call and three.
  A disturbance is an inbound session, a cut, a close, a raced dial, an
  abandonment, a destroyed endpoint or a shutdown. `MaxSessions` exceeds the
  disturbances, so that identifiers never run out before they do.

- Explorer: a controller and two workers, three or four runs, six programs of one
  or two sites, one or two evaluations to a timeline, a region of one to three
  entries. Two claims of one identity race, the region fills up, two sites share
  a message, a slot is used again and a state's exemplar is replaced.

- Reconnect: two callers on the simulation's executor, one on tokio's, two
  attempts alive at once, without and with a limit of two failures,
  and for the simulation's executor with a limit of none. Two attempts
  are what a stale guard or a late retirement needs.
- Monitor: two addresses and room for one, so that every record competes; one
  endpoint, one waiter of any kind, times of at most one unit. Waiters share
  nothing but the latch, which wakes all of them.
- Flight: a window of two bytes, up to three bytes each way, latencies of one or
  two units, partitions and clogs of one or three: shorter than a flight, and
  longer. Eight settings bring one or two faults of the kinds that meet in the
  code together; three kinds at once were not tried. Either end, both or none
  closes.

`stream`, `calls`, `explorer`, `table_discovered`, `monitor`, `monitor_missed`
and `flight` switch deadlock checking off: a stream that ended, a runtime that
terminated, an exploration that is done, and a connection with nothing scheduled
stop.

### Fairness

`ReplyStream` assumes weak fairness of each task that is awake: senders, the two
connections' writers and readers, and a consumer that keeps reading. It also
assumes that when one side's session ended the other side learns of it, which
read errors and the pings of the driver (`driver.rs:451`) see to. `Calls`
assumes weak fairness of `Progress` as a whole: while some task of the driver,
the server or the shutdown can step, one does. New calls and disturbances are
bounded and no sequence of progress steps is endless, so every such task gets
its turn. Loss of frames, cuts, abandonments and shutdowns are never assumed to
happen. In `Calls` a handler always answers or declines for good; calls it
declines are exempt. `Explorer` assumes fairness of the controller alone, which
is one thread; workers may hang, since the controller kills them at the ceiling,
and wait for an entry only so many spins. `Reconnect` assumes that a woken task
is polled, that a backoff ends, that an attempt succeeds, fails or times out,
and that the driver of a closed connection ends; nothing says that a live
connection ends or a response comes. `FailureMonitor` assumes that a session
tells the latch what it owes it, and that a waiter that was woken is polled;
sessions need not come or go. `Flight` assumes that the scheduler goes on
handling events and moving the clock; the applications may do nothing. The
journal modules have no liveness.

## Proofs

`MetaFileProofs` proves for every set of contents and every bound, assuming only
`MetaFileAssumption` (the mark of damage is no metainfo value, the bound is a
natural number):

- `TypeCorrect`: `Spec => []TypeOK`.
- `MetaNeverRollsBack`: `NeverRollsBack`. The property says nothing of values
  nobody acknowledged, so it is not inductive. `Fresh` adds that whatever any
  crash may leave in either copy is damaged or at least as new as `acked`, that
  the name is durable once something was acknowledged, and what each `pc` knows
  of the copy it writes.
- `MetaNeverLost` and `MetaOneInFlight`: `NeverLost` and `AtMostOneInFlight`.
  `Sound`, which holds until a writeback fails or a block rots, adds that one
  clean copy is usable, that any two versions of one sequence number agree (a
  repeated number after a lost update is where this could fail), and which
  copy each `pc` leaves alone. `MetaSurvivesHolds` puts the two together.

`CallsProofs` (the invariant, its typing, one lemma per group of actions, and the
theorems) proves every safety property of the `calls` run for every set of calls, every number of sessions, every bound and every set of
worlds, assuming only `CallsAssumption` (bounds are natural numbers, and the
three kinds of calls are disjoint):

- `NotAdmittedHolds`: `NotAdmittedIsTrue`. A caller is told NotAdmitted while
  the model still holds queues, wires and handlers, and the property says
  nothing of them. `IInv` follows the frame of each call instead
  (`Whereabouts`): a call told NotAdmitted has no frame anywhere (`NeverLeft`);
  a pending call nobody transmitted has none beyond its queue and ran nowhere
  (`NotSent`, `Placed`); a transmitted one is on one wire, and a refusal of it
  means no handler had it (`SentOnce`). Reliable calls transmitted on an earlier
  session are left out (`Fresh`): they may have many copies, and the code never
  tells them NotAdmitted.
- `AtMostOnceHolds`: `AtMostOnce`, from `OneCopy` and from `ToldStep`.
- `CallsSettledOnce`: `SettledOnce`, from `Untold`: a pending call was told
  nothing.
- `GoneReleasesHolds`: `GoneReleases`, from `Released`, its half about the table,
  which is inductive, and `RequeueStep`: adoption moves only frames that were
  queued, and a start or a retransmission adds none for an endpoint known gone.
- `CallsTypeCorrect`: `TypeOK`, which is not inductive without `Kept`: only
  because an ended session is no longer registered does a retransmission drop no
  transmitted call.
- `NoOrphanHolds`: `NoOrphan`, given `IInv` and that a writer holds one frame at
  a time (`OneFrame`). The argument is one lemma per way frames move: adoption
  takes a call along with its frame (`RequeueWaits`), and the end of a session
  settles what it carried or marks it to be sent again (`OrphanEnd`).

`ReconnectProofs` proves for every set of callers, attempts and worlds, assuming
only `ReconnectAssumption`:

- `ReconnectTypeCorrect`: `TypeOK`.
- `NobodyForgottenHolds`: `NobodyForgotten`, on both executors, under the further
  hypothesis `PolledDrops` that an executor drops only tasks it has polled. A
  task dropped before its first poll has no guard yet, and its callers would wait
  for ever. `Kept` says where parked callers are, `Moving` that a channel that
  connects has a task to end it.
- `OneConnectionHolds`: `OneConnection`. `Alone` makes it inductive: where polls
  run alone, the guard of a settled attempt finds no other attempt to release,
  and an open connection is the one the channel owns.
- `GivesUpHolds`: `GivesUpForGood`.

`ReplyStreamProofs` proves every safety property of the `stream` run, for any
number of senders, sizes of items, windows and counters, on the local and the
remote route, assuming only `StreamAssumption`:

- `NeverRefusedHolds`: `NeverRefused`. What the two ends check of each other are
  equations between counters kept on two sides of a wire that delays, merges and
  drops. None of them is inductive alone. `IInv` says that there is a ledger:
  a function `total` of natural numbers, which no variable holds, with `total[j]`
  what the first `j` items account for. What the credit has sent, its item
  boundaries, the sizes of all frames wherever they are, what the consumer
  received and consumed, and every acknowledgement under way are values of that
  one function (`Books`, `Entries`, `Counted`, `Acks`), and the frames between
  the two ends have consecutive numbers (`Chained`). A send extends the ledger
  by one entry; every other step keeps it, and each check of the protocol
  follows from it.
- `WindowHeldHolds`: `WindowHeld`. The bytes queued are a sum over a sequence
  that telescopes into a difference of two values of the ledger, which the
  credit bounds; `Holding` says who has the reservation.
- `InOrderHolds`: `InOrder`, from `Reading`: the application has read a prefix of
  the ledger.
- `NobodyOversleepsHolds`: `NobodyOversleeps`, which is inductive with `Lined`
  (the line holds each sender once).

`FailureMonitorProofs` proves for any addresses, endpoints, waiters, table sizes
and delays, assuming only `MonitorAssumption`:

- `MonitorTypeCorrect`: `TypeOK`, the bounds of both tables included.
- `RecordsKeptHolds`: `RecordsKept`. The lemma that carries it is
  `RecordedAgrees`: whichever record a full table forgets, it says the same of
  every address afterwards, but for the last disconnection (which is what
  finding 3 is about). The counts of watchers are cardinalities of sets of
  futures that a step changes by one at most.
- `FailedForHolds`: the action property `FailedForMeansIt`. `Timed` makes it
  inductive: while a future of `on_failed_for` gives its address time, the time
  the address has been failed and the time the future has left add up to what it
  was asked for, or the future is about to look again and find the address
  recovered. `Downs` ties what the waiters see to the record and to what a
  session has yet to tell, `Latched` says that no change passes a parked future.

`ExplorerProofs` proves the safety properties of the `explorer` run for any
number of processes and workers, any programs, tables and bounds, assuming only
`TableAssumption` and `ExplorerAssumption` (finitely many processes, fewer
workers than processes, positive bounds). `ExplorerInvariant` states the
invariant, and `ExplorerTableProofs` has the steps of an evaluation and what they
do to the shared tables:

- `CountedOnceHolds`: `CountedOnce`. `NothingLost` is an equation between a
  history counter, the sum of all counts in the table and the number of processes
  in the middle of a claim; what makes each step keep it is that an entry is
  owned by one process until it is published (`Owned`, `Apart`), is of the
  site of whoever records in it (`Used`), and that an entry given up is empty
  (`Unpublished`). `NoLateDuplicate` rests on `Ahead`: a published entry of the
  identity is still ahead of the second search, or the search would have met it.
- `RunsAccountedHolds`: `RunsAccounted`. `SlotsApart` says that a slot is free or
  one worker's and that none is lost, `Runners` ties what waitpid says of a
  process to whether it runs a timeline.
- `NoveltyHolds`: `NoveltyReachesController`. `Journals` (the events of a journal
  are of different evaluations, so a full one has one weakest event) and
  `GoneMissed` make it inductive: a latch fires only in the step that puts its
  state in a journal, and every way a journal ends hands the state on or
  records it as missed.

`FlightProofs` proves for every capacity, every set of latencies and durations and
every set of worlds, with any number of bytes and faults in any order, assuming
only `FlightAssumption`:

- `WindowHolds`: `WindowAccounts`, the types included.
- `StreamHolds`: `StreamKept`.

Both rest on one invariant, `IInv` of `FlightInvariant`, which says three things of
each direction (`Direction`). `Accounts` is the sum behind the window. `Stream`
says that the unread bytes continue what was read, that the bytes in flight and
then the queued ones continue those, and that they end with the last byte
written. It says so only as far as it is true: a black hole takes bytes out of
the middle, a random close or a reset takes the last ones, and a peer that
stopped reading takes none (`Starts`). `Finished` makes the end of file come
last: a FIN is an item without bytes and can only be the last in flight
(`FinLast`); once it is on the wire nothing is queued and nothing will be, and
once it arrived nothing is in flight. `StreamKept` is not inductive without it:
only because nothing follows a FIN does its arrival mean that everything did. The
proof has one lemma for each way the two ends change (a write, a read, the head
of the queue put in flight, a landing, a discard, a reset) and one for each
action. Partitions, heals, clogs and the clock move no bytes (`Quiet`), so the
argument does not depend on when anything arrives.

The library states induction with an operator parameter, which the provers cannot
instantiate. Where a proof needs it, for the sums of `ReplyStreamProofs` and
`ExplorerTableProofs` and for the flattened queues of `FlightProofs`, induction is
stated about sets instead, derived from the well-foundedness of a relation on
numbers or on finite sets.

### Only checked by TLC

- Every liveness property: `EverybodyServed`, `NobodyWaits`, `ExplorationEnds`,
  `EverybodyAnswered`, `WaitsEnd` and `Drains`. Liveness under fairness and
  ENABLED are beyond the prover used.
- `NothingStuck` and `LandsInTime` of `Flight`. They are about times: which event
  is scheduled for when, and how far each partition has run. Their invariant has
  to relate the clocks of four kinds of partitions to the events that clear them
  and to every frozen item, which `IInv` leaves out.
- `JournalLog` (`StaysReadable`, `CrashIsNotCorruption`, `NoSilentLoss`,
  `GoneStaysGone`) and `Segments` (`ChainSound`, `MemoryTrue`, and the refinement
  `KeepsPromise` of `DurableIndex`). What recovery finds is a fold over the
  records or over the segments. The invariant would have to say what that fold
  returns for every content a crash may leave, which is induction over data for
  each write, tear and repair.

## Findings

1. `journal.rs:419-421` says: "Everything opening reports is durable before it
   returns". After a failed writeback a sector is clean in the page cache and not
   on the device. A restarted process reads it back, the syncs at
   `journal.rs:496-502` succeed without writing it, and the open reports it. A
   power loss then takes it: the next open finds the record of an entry that is
   gone, and serves it as corrupt (`log_fsyncgate`). Where a record was stranded
   instead, the metainfo names a batch the log no longer has, and every later
   open is refused, acknowledged batches included. It takes a failed sync, a
   reopen in the same uptime and a power loss. `MetaFile::open` rests on the same
   sync (`meta.rs:95-99`), so that both copies of the metainfo may be in flight
   at once and one power loss may take both.
2. `hooks.rs:9` says that across any number of processes "the hook fires exactly
   once per distinct discovery", and `table.rs:206` that "among simultaneous
   initializers, the lower index wins deterministically". The higher index may
   look at the lower one before that is marked, and the lower one skips the higher
   because it still initializes (`table.rs:213`): both publish an entry for one
   identity, and both latches fire (`table_discovered`). The accounting is split
   over two entries; none of it is lost.
3. `failure/state.rs:140` says of an eviction that waiters "compare the
   runtime-wide sequence, which never goes back, so none of them misses a
   disconnect". `disconnected_since` looks only at the record of the address,
   which the eviction took along: a waiter that has not looked since the
   disconnection sleeps on (`monitor_missed`).

Seen while modelling, without a run of their own:

- `error.rs:68` says of `Durable::No`: "Nothing was written: the batch is known
  absent." An ordered commit whose entries write fails returns it although the
  entries may have landed, and the next open rebuilds their records
  (`journal.rs:1376`).
- `call/client.rs:361` says that when its caller leaves "a request still queued
  behind the handshake is withdrawn". A reliable call that was sent once and
  queued again is not; it is sent and run for nobody. Its caller was told "maybe
  executed", which stays true.
- `client/reconnect.rs:292` promises single flight. On a multi-threaded executor
  `record_failure` wakes the callers before the task drops its guard; another
  thread may start the next attempt in between, which the guard takes for its
  own (`reconnect.rs:579`), and a third starts beside it. `SingleFlight` is then
  violated for two callers on threads; where polls run alone it is proved.
- `failure/mod.rs:280-281` says that while the future of `on_failed_for` is alive
  the runtime keeps probing a failing address. A probe starts only when a failing
  session closes while the reference is held (`calls.rs:627`).
- A random close in the network shuts the send side without a FIN, and
  `close_graceful` takes a shut send side for a FIN sent or pending
  (`engine.rs:1294-1297`): after a random close and a drop the peer waits for an
  end that never comes, although the book
  (`book/src/part3-building/10-network-faults.md:91`) says "A silent close ends
  in EOF" and (`:105`) that dropping a drained stream sends the FIN.
- A random close after `shutdown_send` drops what is queued, and the pending FIN
  goes out all the same: the peer reads a clean end of a shortened stream.
  `StreamKept` exempts directions a random close has cut.
- The other half of a random close shuts the receiving side of the peer, not
  the peer's sends as `faults.rs:19-20` has it.
- A FIN put on the wire in the middle of a cut is delayed by the whole cut
  (`delivery.rs:237`), not by "exactly its own length" (`state.rs`), which only
  makes it later.
- With three claimants of one identity, the one that gave way may wait for a
  winner that gives way itself (`table.rs:219`); its evaluation is then counted
  as dropped, which fails the simulation, although `table.rs:130` puts that down
  to an initializer that died.
- The comment at `credit.rs:134` that bytes in flight never exceed the window
  does not hold after the window is lowered; nothing relies on it.
- A caller in `ready()` can be overtaken for ever by sends that are started and
  abandoned, which `SendsResolve` exempts.
- `transport/shutdown.rs:1-3` says a shutdown ends by closing "every connection".
  `accept` tests the closing flag before it takes the lock
  (`transport/mod.rs:759`): a session that passes the test and is registered
  after `terminate` collected the connections (`shutdown.rs:100`) is closed by
  nobody, and lives until its peer or an idle timeout ends it. It takes a
  multi-threaded runtime. `ShutdownEnds` exempts that one session.
- `transport/calls.rs:518-520` says that once the endpoint of a retained call is
  known to have failed for good "retention ends promptly, never waits". The end
  of a stream (`streams.rs:323-328`) tells the monitor and releases nothing, and
  a later reply of a call is then no news: reliable calls already sent wait for
  their own reply or the end of their session. `GoneReleases` promises the
  release for the news of a call only.
- A void record that rots is met by a later open (`recover.rs:341`); rot is
  limited to one unit in `log`.

## Not modelled

The models cover the protocols of the crates; most of the repository's code is
something else: byte formats and codecs, security, statistics, tracing and
formatting, floating-point latency models, real I/O, builders and
configuration, test harnesses and examples.

- Journal: the sizes of files, disk-full errors, and a commit future dropped
  between two awaits. The last would need an identity for each write still under
  way after its future is gone; the module takes the caller at its word that a
  commit is polled to its end.
- Journal, too: the ends of the counters. The models bound sequence numbers and
  generations; the code refuses a generation beyond the last (`journal.rs:344`)
  and does not check the sequence number of the metainfo (`journal.rs:349`, 906).
- Streams: several streams at once, and a window lowered to zero, after which no
  send resolves until the consumer leaves. Calls: several peers, so that the
  limit on connections is met only by one peer's sessions. Monitor: the end of a
  session that was replaced, which is noted as a disconnection as well.
- Endpoints and load balancing: registration is a lookup; the balancer's choice
  rests on floating-point estimates.
- Explorer: several seeds, coverage counters, memory weaker than sequential
  consistency.
- Network: listeners, backlogs and connection setup, when random faults arrive,
  which group a partition takes, corruption of bytes, gray failures other than
  as a longer latency, and the CPU model.
- Simulation: the executor, the world's event queue and CPU model, and the life
  cycle of processes.

## What would come next

1. The listener's backlog, with its waiting connects, reservations and
   cancellations, beside `Flight`.
2. The executor with the CPU model, then reboots and wipes of processes.
3. Proofs of `NothingStuck` for `Flight`, for `JournalLog`, and of the refinement
   of `DurableIndex` by `Segments`.
