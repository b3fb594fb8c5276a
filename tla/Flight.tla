------------------------------- MODULE Flight -------------------------------
(***************************************************************************)
(* One connection of the simulated network: what its two ends write goes   *)
(* through a send queue, the flight and the peer's receive buffer, under   *)
(* one window; the scheduler's events move it on; and partitions, clogs,   *)
(* half-closes, black holes and resets come between.                       *)
(*                                                                         *)
(* The simulation runs on one thread, so a poll of a stream is one step,   *)
(* and so is an event or a fault.  The faults a poll may roll before it    *)
(* goes on are steps of their own: a simulation may also script them.      *)
(* Every time is kept relative to now, and the clock moves only when no    *)
(* event is due.                                                           *)
(***************************************************************************)
EXTENDS Integers, FiniteSets, FiniteSetsExt, Sequences

CONSTANTS
    Capacity,   \* tcp_send_window_bytes
    Latencies,  \* how long a chunk may fly
    Durations,  \* how long a partition or a clog may last
    Worlds      \* settings: what each end writes, which ends close, which faults there are

ASSUME FlightAssumption ==
    /\ Capacity \in Nat \ {0}
    /\ Latencies \subseteq Nat \ {0} /\ Durations \subseteq Nat \ {0}
    /\ \A w \in Worlds :
        /\ w.bytes \in [1 .. 2 -> Nat]
        /\ w.kinds \subseteq {"pair", "both", "send", "recv", "heal", "write", "read",
                              "close", "hole", "abort"}
        /\ w.closing \subseteq 1 .. 2 /\ w.faults \in Nat

\* The setting, and how many of its faults are to come.
VARIABLES world, faults

\* ConnectionState of each end, whose sending half is the direction it writes.
VARIABLE conn

\* The partitions and clogs in force, with the time they have left, and the
\* events of the scheduler.
VARIABLES cuts, clogs, events

\* The tasks that read and write.
VARIABLES reader, writer

\* History: how many bytes were written and read in a direction, how many a
\* black hole swallowed, and the directions a random close cut short.
VARIABLES written, got, vanished, broken

environment == <<cuts, clogs>>
history == <<written, got, vanished, broken>>
vars == <<world, faults, conn, environment, events, reader, writer, history>>

Ends == 1 .. 2
Peer(e) == 3 - e

None == -1

Event(what, e, seq, in) == [what |-> what, end |-> e, seq |-> seq, in |-> in]

NewConnection ==
    [queue |-> <<>>, flight |-> <<>>, held |-> None, next |-> 0, last |-> None,
     inbox |-> <<>>, window |-> 0, closed |-> "no", sendClosed |-> FALSE,
     recvClosed |-> FALSE, finPending |-> FALSE, finReceived |-> FALSE,
     sending |-> FALSE, stalled |-> FALSE, holed |-> FALSE]

Init ==
    /\ world \in Worlds
    /\ faults = world.faults
    /\ conn = [e \in Ends |-> NewConnection]
    /\ cuts = [kind \in {"pair", "send", "recv"} |-> [e \in Ends |-> None]]
    /\ clogs = [kind \in {"write", "read"} |-> [e \in Ends |-> None]]
    /\ events = {}
    /\ reader = [e \in Ends |-> "running"]
    /\ writer = [e \in Ends |-> "running"]
    /\ written = [e \in Ends |-> 0] /\ got = [e \in Ends |-> 0]
    /\ vanished = [e \in Ends |-> 0]
    /\ broken = {}

-----------------------------------------------------------------------------
(* Helpers of the engine.                                                  *)

\* The partitions, in force or expiring now, that block what end e sends.
Blocks(c, e) == {c["pair"][e], c["send"][e], c["recv"][Peer(e)]}

\* partition_clear_at.
Cut(c, e) == \E left \in Blocks(c, e) : left > 0

\* Two operators of SequencesExt.  A proof about this module would carry that
\* whole module along, and with it take several times as long.
Last(s) == s[Len(s)]
FlattenSeq(chunks) ==
    LET upto[i \in 1 .. Len(chunks)] == IF i = 1 THEN chunks[i] ELSE upto[i - 1] \o chunks[i]
    IN  IF chunks = <<>> THEN <<>> ELSE upto[Len(chunks)]

Queued(c) == Len(FlattenSeq(c.queue))
Flying(c) == Len(FlattenSeq([i \in DOMAIN c.flight |-> c.flight[i].data]))

\* A task that waits in a registry is woken.
Woken(tasks, e, registry) == IF tasks[e] = registry THEN [tasks EXCEPT ![e] = "running"] ELSE tasks

\* Mutant: the writer is not woken.
CreditedSilently(e, n) == writer

\* release_window wakes the writer if it returns anything.
Credited(e, n) == IF n > 0 THEN Woken(writer, e, "parked") ELSE writer

\* Mutant: the order of the flight does not bound the time of an item.
PutUnordered(c, e, data, delay) ==
    [c EXCEPT !.flight = Append(@, [seq |-> c.next, at |-> delay, data |-> data, owed |-> delay]),
              !.next = @ + 1,
              !.last = delay,
              !.held = IF Cut(cuts, e) /\ @ = None THEN 0 ELSE @]

\* put_in_flight: behind everything in flight, and frozen under a cut.  What
\* the item still has to fly, owed, is history.
Put(c, e, data, delay) ==
    LET at == Max({delay, c.last + 1}) IN
    [c EXCEPT !.flight = Append(@, [seq |-> c.next, at |-> at, data |-> data, owed |-> delay]),
              !.next = @ + 1,
              !.last = at,
              !.held = IF Cut(cuts, e) /\ @ = None THEN 0 ELSE @]

\* The event that will land the item put last.
Landing(c, e) == Event("Delivery", e, Last(c.flight).seq, Last(c.flight).at)

\* The FIN carries no bytes.
PutFin(c, e) == Put(c, e, <<>>, 1)

-----------------------------------------------------------------------------
(* The streams.                                                            *)

\* buffer_send.
BufferSend(e, n) ==
    /\ conn' = [conn EXCEPT ![e].queue = Append(@, [i \in 1 .. n |-> written[e] + i]),
                            ![e].window = @ + n,
                            ![e].sending = TRUE]
    /\ written' = [written EXCEPT ![e] = @ + n]
    /\ events' = events \cup (IF conn[e].sending THEN {} ELSE {Event("Process", e, 0, 0)})

\* write_guard_pre_backpressure.
SendShut(c) == c.sendClosed \/ c.closed # "no"

\* poll_write: an end shut for sending fails it, a full window parks it, a clog
\* holds it, and as many bytes as fit are accepted.
PollWrite(e) ==
    /\ writer[e] = "running"
    /\ written[e] < world.bytes[e]
    /\ LET room == Capacity - conn[e].window
           shut == SendShut(conn[e])
           full == ~shut /\ room = 0
           clogged == ~shut /\ ~full /\ clogs["write"][e] > 0
       IN  \/ /\ shut \/ full \/ clogged
              /\ writer' = [writer EXCEPT ![e] = IF shut THEN "ended"
                                                 ELSE IF full THEN "parked" ELSE "clogged"]
              /\ UNCHANGED <<conn, events, written>>
           \/ /\ ~shut /\ ~full /\ ~clogged
              /\ \E n \in 1 .. Min({room, world.bytes[e] - written[e]}) : BufferSend(e, n)
              /\ UNCHANGED writer
    /\ UNCHANGED <<world, faults, environment, reader, got, vanished, broken>>

\* NetworkEngine::read: any part of what is there, returned to the peer's window.
Read(e) ==
    \E n \in 1 .. Len(conn[e].inbox) :
        /\ conn' = [conn EXCEPT ![e].inbox = SubSeq(@, n + 1, Len(@)),
                                ![Peer(e)].window = @ - n]
        /\ got' = [got EXCEPT ![Peer(e)] = @ + n]
        /\ writer' = Credited(Peer(e), n)
        /\ UNCHANGED reader

\* poll_read: a reset, a shut receive side, a clog, the bytes that are there, a
\* FIN, and otherwise it waits.
PollRead(e) ==
    /\ reader[e] = "running"
    /\ LET c == conn[e]
           shut == c.closed # "no" \/ c.recvClosed
           clogged == ~shut /\ clogs["read"][e] > 0
           becomes == IF c.closed = "aborted" THEN "reset"
                      ELSE IF shut THEN "eof"
                      ELSE IF clogged THEN "clogged"
                      ELSE IF c.finReceived THEN "eof" ELSE "parked"
       IN  \/ /\ ~shut /\ ~clogged /\ c.inbox # <<>>
              /\ Read(e)
           \/ /\ shut \/ clogged \/ c.inbox = <<>>
              /\ reader' = [reader EXCEPT ![e] = becomes]
              /\ UNCHANGED <<conn, got, writer>>
    /\ UNCHANGED <<world, faults, environment, events, written, vanished, broken>>

\* The FIN of an end that shuts its send side: behind what it is sending, or
\* on the wire at once.
FinAfter(c, e) ==
    IF c.sending \/ c.queue # <<>> THEN [c EXCEPT !.finPending = TRUE] ELSE PutFin(c, e)

FinEvents(c, e) ==
    IF c.sending \/ c.queue # <<>> THEN {} ELSE {Landing(PutFin(c, e), e)}

\* The stream of end e exists, and its application may close it.
Alive(e) == e \in world.closing /\ writer[e] # "gone"

\* poll_close, shutdown_send.
ShutdownSend(e) ==
    /\ Alive(e)
    /\ ~conn[e].sendClosed /\ conn[e].closed = "no"
    /\ conn' = [conn EXCEPT ![e] = [FinAfter(@, e) EXCEPT !.sendClosed = TRUE]]
    /\ events' = events \cup FinEvents(conn[e], e)
    /\ writer' = Woken(writer, e, "parked")
    /\ UNCHANGED <<world, faults, environment, reader, history>>

\* close_aborted: a reset of both directions.
Reset ==
    [e \in Ends |->
        [conn[e] EXCEPT !.closed = "aborted", !.sendClosed = TRUE, !.recvClosed = TRUE,
                        !.sending = FALSE, !.stalled = FALSE, !.finPending = FALSE,
                        !.queue = <<>>, !.flight = <<>>, !.held = None, !.inbox = <<>>,
                        !.window = @ - Queued(conn[e]) - Flying(conn[e]) - Len(conn[Peer(e)].inbox)]]

\* close_graceful of an end that has nothing unread: its FIN goes out unless
\* its send side was shut before.
Graceful(e) ==
    LET c == conn[e] IN
    [conn EXCEPT ![e] = [(IF c.sendClosed THEN c ELSE FinAfter(c, e))
                            EXCEPT !.closed = "graceful", !.sendClosed = TRUE]]

\* Every task that waits, in whichever registry, is woken.
WokenAll(tasks) == [e \in Ends |-> IF tasks[e] \in {"parked", "clogged"} THEN "running" ELSE tasks[e]]

\* Drop for SimTcpStream: a reset when bytes are left unread.
DropStream(e) ==
    /\ Alive(e)
    /\ \/ /\ conn[e].inbox # <<>>
          /\ conn' = Reset
          /\ reader' = [WokenAll(reader) EXCEPT ![e] = "gone"]
          /\ writer' = [WokenAll(writer) EXCEPT ![e] = "gone"]
          /\ UNCHANGED events
       \/ /\ conn[e].inbox = <<>>
          /\ conn' = IF conn[e].closed = "no" THEN Graceful(e) ELSE conn
          /\ events' = events \cup (IF conn[e].closed # "no" \/ conn[e].sendClosed THEN {}
                                    ELSE FinEvents(conn[e], e))
          /\ reader' = [reader EXCEPT ![e] = "gone"]
          /\ writer' = [writer EXCEPT ![e] = "gone"]
    /\ UNCHANGED <<world, faults, environment, history>>

-----------------------------------------------------------------------------
(* The events.                                                             *)

\* An event of the given kind is due and is taken off the queue.
Due(what) == {ev \in events : ev.what = what /\ ev.in = 0}

\* The items at the head of a flight whose time has come.
Landed(c) ==
    SubSeq(c.flight, 1, Max({0} \cup {k \in DOMAIN c.flight : \A i \in 1 .. k : c.flight[i].at <= 0}))

\* What land does with them: a black hole swallows them, a peer that reads
\* gets them, another discards them and returns the window.
Land(e, items) ==
    LET p == Peer(e)
        bytes == FlattenSeq([i \in DOMAIN items |-> items[i].data])
        fin == \E i \in DOMAIN items : items[i].data = <<>>
        open == conn[p].closed = "no"
        reading == open /\ ~conn[p].recvClosed
        flown == [conn EXCEPT ![e].flight = SubSeq(@, Len(items) + 1, Len(@))]
    IN  \/ /\ conn[e].holed
           /\ conn' = flown
           /\ vanished' = [vanished EXCEPT ![e] = @ + Len(bytes)]
           /\ UNCHANGED <<reader, writer>>
        \/ /\ ~conn[e].holed
           /\ conn' = [flown EXCEPT ![p].inbox = IF reading THEN @ \o bytes ELSE @,
                                    ![p].finReceived = @ \/ (fin /\ open),
                                    ![e].window = IF reading THEN @ ELSE @ - Len(bytes)]
           /\ reader' = IF (reading /\ bytes # <<>>) \/ (fin /\ open)
                        THEN Woken(reader, p, "parked") ELSE reader
           /\ writer' = IF reading THEN writer ELSE Credited(e, Len(bytes))
           /\ UNCHANGED vanished

\* handle_delivery: nothing from a held flight or before its time; under a cut
\* that did not freeze the flight, it is frozen now.
Delivery ==
    \E ev \in Due("Delivery") :
        LET e == ev.end
            c == conn[e]
            idle == c.held # None \/ Landed(c) = <<>>
        IN  /\ events' = events \ {ev}
            /\ IF idle \/ Cut(cuts, e)
               THEN /\ conn' = IF idle THEN conn ELSE [conn EXCEPT ![e].held = 0]
                    /\ UNCHANGED <<reader, writer, vanished>>
               ELSE Land(e, Landed(c))
            /\ UNCHANGED <<world, faults, environment, written, got, broken>>

\* Mutant: the window of what is dropped is not returned.
DiscardedUncredited(c) == [c EXCEPT !.queue = <<>>]

\* discard_send_queue.
Discarded(c) == [c EXCEPT !.queue = <<>>, !.window = @ - Queued(c)]

\* The queue has nothing more: a FIN that waited for it goes out.
Drained(c, e) ==
    LET idle == [c EXCEPT !.sending = FALSE, !.finPending = FALSE]
    IN  IF c.finPending THEN PutFin(idle, e) ELSE idle

DrainedEvents(c, e) == IF c.finPending THEN {Landing(Drained(c, e), e)} ELSE {}

\* Mutant: what a partial write leaves of a chunk is lost.
RestForgotten(queue, n) == Tail(queue)

\* What is left of a queue after n bytes of its first chunk.
Rest(queue, n) ==
    (IF n = Len(Head(queue)) THEN <<>> ELSE <<SubSeq(Head(queue), n + 1, Len(Head(queue)))>>)
        \o Tail(queue)

\* handle_normal_send: the first chunk, or the part of it a partial write
\* takes, goes on the wire; the rest of the queue follows in the same instant.
Send(e) ==
    LET c == conn[e] IN
    \/ /\ c.queue = <<>>
       /\ conn' = [conn EXCEPT ![e] = Drained(@, e)]
       /\ events' = (events \ {Event("Process", e, 0, 0)}) \cup DrainedEvents(c, e)
    \/ /\ c.queue # <<>>
       /\ \E n \in 1 .. Len(Head(c.queue)), delay \in Latencies :
            LET data == SubSeq(Head(c.queue), 1, n)
                rest == Rest(c.queue, n)
                sent == Put([c EXCEPT !.queue = rest], e, data, delay)
            IN  IF rest = <<>>
                THEN /\ conn' = [conn EXCEPT ![e] = Drained(sent, e)]
                     /\ events' = (events \ {Event("Process", e, 0, 0)})
                                    \cup {Landing(sent, e)} \cup DrainedEvents(sent, e)
                ELSE /\ conn' = [conn EXCEPT ![e] = sent]
                     /\ events' = events \cup {Landing(sent, e)}

\* handle_process_send_buffer: a side shut without a FIN to send drops its
\* queue, queued bytes stall under a cut, and otherwise they go.
ProcessSendBuffer ==
    \E ev \in Due("Process") :
        LET e == ev.end
            c == conn[e]
            shut == (c.closed # "no" \/ c.sendClosed) /\ ~c.finPending
            stalls == ~shut /\ c.queue # <<>> /\ Cut(cuts, e)
        IN  /\ \/ /\ shut
                  /\ conn' = [conn EXCEPT ![e] = [Discarded(@) EXCEPT !.sending = FALSE,
                                                                      !.stalled = FALSE]]
                  /\ writer' = Woken(writer, e, "parked")
                  /\ events' = events \ {ev}
               \/ /\ stalls
                  /\ conn' = [conn EXCEPT ![e].stalled = TRUE]
                  /\ events' = events \ {ev}
                  /\ UNCHANGED writer
               \/ /\ ~shut /\ ~stalls
                  /\ Send(e)
                  /\ UNCHANGED writer
            /\ UNCHANGED <<world, faults, environment, reader, history>>

\* release_held_in_flight: a flight no longer cut is re-timed by the time it
\* was held.
Thawed(c) ==
    [c EXCEPT !.flight = [i \in DOMAIN c.flight |-> [c.flight[i] EXCEPT !.at = @ + c.held]],
              !.last = @ + c.held,
              !.held = None]

\* resume_after_heal, under the partitions that are left.
Resumed(left) ==
    [e \in Ends |->
        LET c == IF conn[e].held # None /\ ~Cut(left, e) THEN Thawed(conn[e]) ELSE conn[e]
        IN  [c EXCEPT !.stalled = @ /\ Cut(left, e)]]

\* Mutant: a stalled queue is not driven again.
ResumedFlightOnly(left) ==
    UNION {{Event("Delivery", e, Thawed(conn[e]).flight[i].seq, Thawed(conn[e]).flight[i].at)
                : i \in DOMAIN conn[e].flight}
           : e \in {x \in Ends : conn[x].held # None /\ ~Cut(left, x)}}

\* The events of what moves again.
ResumedEvents(left) ==
    UNION {LET thawed == Thawed(conn[e]).flight IN
           (IF conn[e].held # None /\ ~Cut(left, e)
            THEN {Event("Delivery", e, thawed[i].seq, thawed[i].at) : i \in DOMAIN thawed}
            ELSE {})
           \cup (IF conn[e].stalled /\ ~Cut(left, e) THEN {Event("Process", e, 0, 0)} ELSE {})
           : e \in Ends}

\* PartitionRestore, SendPartitionClear, RecvPartitionClear: the partitions
\* that expire now go, and what they held moves again.
PartitionClear ==
    \E kind \in {"pair", "send", "recv"}, ev \in events :
        /\ ev.what = kind /\ ev.in = 0
        /\ cuts' = [cuts EXCEPT ![kind] = [e \in Ends |-> IF @[e] = 0 THEN None ELSE @[e]]]
        /\ conn' = Resumed(cuts')
        /\ events' = (events \ {ev}) \cup ResumedEvents(cuts')
        /\ UNCHANGED <<world, faults, clogs, reader, writer, history>>

\* ClogClear, ReadClogClear: unless a later clog took over.
ClogClear ==
    \E kind \in {"write", "read"}, ev \in events :
        /\ ev.what = kind /\ ev.in = 0
        /\ events' = events \ {ev}
        /\ LET over == clogs[kind][ev.end] = 0 IN
            /\ clogs' = IF over THEN [clogs EXCEPT ![kind][ev.end] = None] ELSE clogs
            /\ writer' = IF over /\ kind = "write" THEN Woken(writer, ev.end, "clogged") ELSE writer
            /\ reader' = IF over /\ kind = "read" THEN Woken(reader, ev.end, "clogged") ELSE reader
        /\ UNCHANGED <<world, faults, conn, cuts, history>>

HandleEvent == Delivery \/ ProcessSendBuffer \/ PartitionClear \/ ClogClear

\* The clock moves on once nothing is due.
Tick ==
    /\ events # {}
    /\ \A ev \in events : ev.in > 0
    /\ events' = {[ev EXCEPT !.in = @ - 1] : ev \in events}
    /\ conn' = [e \in Ends |->
        [conn[e] EXCEPT
            !.flight = [i \in DOMAIN conn[e].flight |-> [conn[e].flight[i] EXCEPT
                            !.at = @ - 1,
                            !.owed = IF Cut(cuts, e) THEN @ ELSE Max({@ - 1, 0})]],
            !.last = IF conn[e].held = None THEN Max({@ - 1, None}) ELSE @ - 1,
            !.held = IF @ = None THEN None ELSE @ + 1]]
    /\ cuts' = [kind \in DOMAIN cuts |-> [e \in Ends |-> Max({cuts[kind][e] - 1, None})]]
    /\ clogs' = [kind \in DOMAIN clogs |-> [e \in Ends |-> Max({clogs[kind][e] - 1, None})]]
    /\ UNCHANGED <<world, faults, reader, writer, history>>

-----------------------------------------------------------------------------
(* The faults.                                                             *)

Fault(kind) == kind \in world.kinds /\ faults > 0 /\ faults' = faults - 1

\* Mutant: a partition stops only what is still queued.
HeldLater(now) == conn

\* hold_partitioned_in_flight: what a new partition finds on the wire freezes.
HeldBy(now) ==
    [e \in Ends |-> IF conn[e].held = None /\ conn[e].flight # <<>> /\ Cut(now, e)
                    THEN [conn[e] EXCEPT !.held = 0] ELSE conn[e]]

\* A random partition cuts both ways, and skips a pair partitioned already.
RandomCuts(e, d) == IF Cut(cuts, e) THEN cuts ELSE [cuts EXCEPT !["pair"] = [x \in Ends |-> d]]

\* partition_pair, insert_send_partition and insert_recv_partition replace what
\* was in force.  Each partition has an event that clears it.
Partition ==
    \E kind \in {"pair", "both", "send", "recv"}, e \in Ends, d \in Durations :
        /\ Fault(kind)
        /\ cuts' = IF kind = "both" THEN RandomCuts(e, d) ELSE [cuts EXCEPT ![kind][e] = d]
        /\ conn' = HeldBy(cuts')
        /\ events' = events \cup {Event(IF kind = "both" THEN "pair" ELSE kind, 0, 0, d)}
        /\ UNCHANGED <<world, clogs, reader, writer, history>>

\* restore_partition heals the pair, heal_all_partitions everything.
Heal ==
    /\ "heal" \in world.kinds
    /\ \E kinds \in {{"pair"}, DOMAIN cuts} :
        cuts' = [kind \in DOMAIN cuts |->
                    IF kind \in kinds THEN [e \in Ends |-> None] ELSE cuts[kind]]
    /\ conn' = Resumed(cuts')
    /\ events' = events \cup ResumedEvents(cuts')
    /\ UNCHANGED <<world, faults, clogs, reader, writer, history>>

\* clog_write_until, clog_read_until: a later deadline in force is kept.
Clog ==
    \E kind \in {"write", "read"}, e \in Ends, d \in Durations :
        /\ Fault(kind)
        /\ clogs[kind][e] <= d
        /\ clogs' = [clogs EXCEPT ![kind][e] = d]
        /\ events' = events \cup {Event(kind, e, 0, d)}
        /\ UNCHANGED <<world, conn, cuts, reader, writer, history>>

\* close_asymmetric: what the end has queued, what its peer has unread, or both
\* are dropped, and those sides are shut.
RandomClose ==
    \E e \in Ends, sides \in (SUBSET {"send", "recv"}) \ {{}} :
        LET p == Peer(e)
            send == "send" \in sides
            recv == "recv" \in sides
            unread == IF recv THEN Len(conn[p].inbox) ELSE 0
            sender == IF send THEN [Discarded(conn[e]) EXCEPT !.sendClosed = TRUE] ELSE conn[e]
        IN  /\ Fault("close")
            /\ conn' = [conn EXCEPT ![e] = [sender EXCEPT !.window = @ - unread],
                                    ![p].recvClosed = @ \/ recv,
                                    ![p].inbox = IF recv THEN <<>> ELSE @]
            /\ reader' = LET own == IF send THEN Woken(reader, e, "parked") ELSE reader
                         IN  IF recv THEN Woken(own, p, "parked") ELSE own
            /\ writer' = IF send THEN Woken(writer, e, "parked") ELSE Credited(e, unread)
            /\ broken' = IF send THEN broken \cup {e} ELSE broken
            /\ UNCHANGED <<world, environment, events, written, got, vanished>>

\* black_hole, of one direction or both.
BlackHole ==
    \E holes \in (SUBSET Ends) \ {{}} :
        /\ Fault("hole")
        /\ conn' = [e \in Ends |-> [conn[e] EXCEPT !.holed = @ \/ e \in holes]]
        /\ UNCHANGED <<world, environment, events, reader, writer, history>>

\* close_aborted, when an end's process dies.
Abort ==
    /\ Fault("abort")
    /\ conn' = Reset
    /\ reader' = WokenAll(reader)
    /\ writer' = WokenAll(writer)
    /\ UNCHANGED <<world, environment, events, history>>

-----------------------------------------------------------------------------
Next ==
    \/ \E e \in Ends : PollWrite(e) \/ PollRead(e) \/ ShutdownSend(e) \/ DropStream(e)
    \/ HandleEvent
    \/ Tick
    \/ Partition \/ Heal \/ Clog \/ RandomClose \/ BlackHole \/ Abort

\* The executor goes on handling events and moving the clock as long as the
\* simulation runs; nothing is asked of the applications.
Spec == Init /\ [][Next]_vars /\ WF_vars(HandleEvent) /\ WF_vars(Tick)

-----------------------------------------------------------------------------
(* Properties.                                                             *)

\* The bytes end e writes, by number.
Bytes(e) == 1 .. world.bytes[e]

FlightTypeOK ==
    /\ world \in Worlds /\ faults \in 0 .. world.faults
    /\ \A e \in Ends :
        /\ conn[e].queue \in Seq(Seq(Bytes(e))) /\ conn[e].inbox \in Seq(Bytes(Peer(e)))
        /\ \A i \in DOMAIN conn[e].flight :
            conn[e].flight[i] \in [seq : Nat, at : Int, data : Seq(Bytes(e)), owed : Nat]
        /\ conn[e].closed \in {"no", "graceful", "aborted"}
        /\ reader[e] \in {"running", "parked", "clogged", "eof", "reset", "gone"}
        /\ writer[e] \in {"running", "parked", "clogged", "ended", "gone"}

\* The window holds exactly the bytes that were written and not yet read,
\* wherever they are -- queued, in flight, unread, or swallowed by a black hole
\* -- and never more than its capacity, whatever a close, a reset or a peer that
\* no longer reads has thrown away (the invariant SendWindow documents).
WindowAccounts ==
    /\ FlightTypeOK
    /\ \A e \in Ends :
        /\ conn[e].window = Queued(conn[e]) + Flying(conn[e]) + Len(conn[Peer(e)].inbox) + vanished[e]
        /\ conn[e].window <= Capacity

Pipe(e) ==
    conn[Peer(e)].inbox
        \o FlattenSeq([i \in DOMAIN conn[e].flight |-> conn[e].flight[i].data])
        \o FlattenSeq(conn[e].queue)

Contiguous(s) == \A i \in 1 .. Len(s) - 1 : s[i + 1] = s[i] + 1

\* No partition, partial write or close punches a hole in the stream or changes
\* its order: what is unread continues what was read, what is on its way
\* continues that, and an end of file stands behind everything written, unless
\* a random close threw away what was queued.
StreamKept ==
    \A e \in Ends :
        /\ Contiguous(conn[Peer(e)].inbox)
        /\ conn[Peer(e)].inbox # <<>> => conn[Peer(e)].inbox[1] = got[e] + 1
        /\ ~conn[e].holed => Contiguous(Pipe(e))
        /\ (/\ conn[Peer(e)].finReceived
            /\ e \notin broken
            /\ conn[Peer(e)].closed = "no"
            /\ ~conn[Peer(e)].recvClosed)
            => got[e] + Len(conn[Peer(e)].inbox) = written[e]

\* Bytes land only over a direction that is not cut, and only after flying for
\* the whole latency they drew, time spent frozen under a partition not
\* counted; and no delivery event lands an item queued after the one it names
\* (the assertion of handle_delivery).
LandsInTime ==
    [][\A e \in Ends : \A i \in DOMAIN conn[e].flight :
        (conn[e].flight[i].seq \notin {conn'[e].flight[j].seq : j \in DOMAIN conn'[e].flight}
            /\ conn'[e].closed # "aborted")
        => /\ ~Cut(cuts, e)
           /\ conn[e].flight[i].owed = 0
           /\ \E ev \in events \ events' :
                ev.what = "Delivery" /\ ev.end = e /\ ev.seq >= conn[e].flight[i].seq
      ]_vars

\* Some partition blocks the direction, or is about to be cleared.
Blocked(e) == \E left \in Blocks(cuts, e) : left >= 0

\* Whatever has bytes to move is driven: a send in progress has its event, or is
\* stalled behind a partition that still has its own; a frozen flight likewise;
\* no direction that is cut has a flight that is not frozen; any other item has
\* the event that lands it; and an idle end owes neither bytes nor a FIN.
SendDriven ==
    \A e \in Ends : conn[e].closed # "aborted" =>
        /\ conn[e].sending <=> (conn[e].stalled \/ Event("Process", e, 0, 0) \in events)
        /\ ~(conn[e].stalled /\ Event("Process", e, 0, 0) \in events)
        /\ ~conn[e].sending => conn[e].queue = <<>> /\ ~conn[e].finPending
        /\ conn[e].stalled \/ conn[e].held # None => Blocked(e)
        /\ Cut(cuts, e) /\ conn[e].flight # <<>> => conn[e].held # None
        /\ conn[e].held = None => \A i \in DOMAIN conn[e].flight :
            Event("Delivery", e, conn[e].flight[i].seq, conn[e].flight[i].at) \in events

\* A task that waits has something to wait for: a parked reader would find
\* neither bytes nor an end, a parked writer no room, and a clogged task is
\* under a clog that will be cleared.
NobodyOversleeps ==
    \A e \in Ends :
        /\ reader[e] = "parked" =>
            /\ conn[e].inbox = <<>> /\ ~conn[e].finReceived
            /\ ~conn[e].recvClosed /\ conn[e].closed = "no"
        /\ writer[e] = "parked" =>
            conn[e].window = Capacity /\ ~conn[e].sendClosed /\ conn[e].closed = "no"
        /\ reader[e] = "clogged" => Event("read", e, 0, clogs["read"][e]) \in events
        /\ writer[e] = "clogged" => Event("write", e, 0, clogs["write"][e]) \in events

\* Nothing is stuck: neither the bytes of a connection nor its tasks wait for an
\* event that is not going to come (buffer_send, resume_after_heal, take_waiter).
NothingStuck == SendDriven /\ NobodyOversleeps

\* Again and again, whatever was written has left the queue and the wire:
\* partitions end, a frozen flight thaws and a stalled queue is sent, however
\* the partitions, the heals and the closes overlapped (resume_after_heal).
Drains == []<>(\A e \in Ends : conn[e].queue = <<>> /\ conn[e].flight = <<>>)

=============================================================================
