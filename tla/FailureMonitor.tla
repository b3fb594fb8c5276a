--------------------------- MODULE FailureMonitor ---------------------------
(***************************************************************************)
(* The failure monitor of one RPC runtime: what it believes of addresses   *)
(* and endpoints, kept in two bounded tables under the runtime's lock, the *)
(* latch that publishes every change after the lock is released, and the   *)
(* futures that wait for the belief to change.                             *)
(*                                                                         *)
(* A step is what runs under one lock.  The session of an address writes   *)
(* the tables and then tells the latch; a waiting future reads the latch's *)
(* version, then the tables, then registers with the latch.                *)
(***************************************************************************)
EXTENDS Integers, FiniteSets, FiniteSetsExt, Sequences

CONSTANTS
    \* The addresses, in the order of the table.
    Addresses,
    \* The dynamic endpoints: [address, incarnation, index]; the index Whole
    \* stands for every endpoint of an incarnation.  An endpoint at a well-known
    \* token is never remembered as failed, and is available as its address is.
    Endpoints, Whole,
    \* The tasks that wait on the monitor.
    Waiters,
    \* PeerPolicy: max_tracked_addresses, max_failed_endpoints and
    \* failure_detection_delay.
    MaxAddresses, MaxFailed, Delay,
    \* The waits on_failed_for is asked for: sustained, and whether the slope
    \* is a half (it is zero otherwise).
    Sustains,
    \* Bound: the longest age told apart from a longer one.
    MaxAge

ASSUME MonitorAssumption ==
    /\ Addresses \subseteq Nat
    /\ \A e \in Endpoints : e.address \in Addresses /\ e.index # Whole
    /\ {MaxAddresses, MaxFailed, Delay} \subseteq Nat \ {0}
    /\ Sustains \subseteq [sustained : 0 .. MaxAge, half : BOOLEAN]
    /\ MaxAge \in Nat /\ Delay <= MaxAge
    /\ IsFiniteSet(Waiters)

\* MonitorState: the records of the addresses, and the keys known failed for
\* good, oldest first.  The runtime-wide sequence of disconnections matters
\* only in comparisons: a record keeps the futures that are older than its
\* last disconnection.  A time is kept as the age it has now.
VARIABLES records, failed

\* The selected session of each address, and what its driver still has to tell
\* the latch about a change it made.
VARIABLES session, telling

\* Watch: the futures registered with it, those whose version it moved past,
\* and the tasks it woke.  runtime says how far the runtime's end came.
VARIABLES registered, stale, woken, runtime

\* The waiting futures.
VARIABLE wait

\* History: since when the connections to an address keep failing, since when
\* the waiters have it for failed, and the futures whose address disconnected.
VARIABLES run, down, cut

monitor == <<records, failed>>
sessions == <<session, telling>>
watch == <<registered, stale, woken>>
history == <<run, down, cut>>
vars == <<monitor, sessions, watch, runtime, wait, history>>

None == -1
Ages == {None} \cup 0 .. MaxAge

\* An age one unit of time later, and a time that is left.
Older(age) == IF age \in {None, MaxAge} THEN age ELSE age + 1
Less(left) == IF left \in {None, 0} THEN left ELSE left - 1

\* AddressRecord::default.
Fresh == [failed |-> FALSE, last |-> {}, failing |-> None, references |-> 0]

\* No future.
Idle == [kind |-> "none", goal |-> "none", on |-> CHOOSE e \in Endpoints : TRUE,
         pc |-> "idle", elapsed |-> None, left |-> None,
         sustain |-> [sustained |-> 0, half |-> FALSE]]

Init ==
    /\ records = [a \in {} |-> Fresh]
    /\ failed = <<>>
    /\ session = [a \in Addresses |-> "none"]
    /\ telling = [a \in Addresses |-> "nothing"]
    /\ registered = {} /\ stale = {} /\ woken = {}
    /\ runtime = "running"
    /\ wait = [w \in Waiters |-> Idle]
    /\ run = [a \in Addresses |-> None]
    /\ down = [a \in Addresses |-> None]
    /\ cut = {}

-----------------------------------------------------------------------------
(* What the monitor believes.                                              *)

AddressFailed(a) == a \in DOMAIN records /\ records[a].failed

DisconnectedSince(a, w) == a \in DOMAIN records /\ w \in records[a].last

References(a) == IF a \in DOMAIN records THEN records[a].references ELSE 0

\* The key a permanent failure is remembered under: the endpoint, or its whole
\* incarnation.
Key(e, reason) == IF reason = "NotFound" THEN e ELSE [e EXCEPT !.index = Whole]

Permanent(e) == {Key(e, "NotFound"), Key(e, "StaleIncarnation")} \cap Range(failed) # {}

Available(e) == ~Permanent(e) /\ ~AddressFailed(e.address)

\* Mutant: an address in the middle of a failure run may be forgotten.
ForgettableUnfailed ==
    {a \in DOMAIN records : ~records[a].failed /\ records[a].references = 0}

\* The records that answer the same once they are gone.
Forgettable ==
    {a \in DOMAIN records :
        ~records[a].failed /\ records[a].references = 0 /\ records[a].failing = None}

\* The records once there is one of address a; a full table forgets the first
\* record it can, and grows when it can forget none.
Recorded(a) ==
    LET full == Cardinality(DOMAIN records) >= MaxAddresses
        victims == IF full /\ Forgettable # {} THEN {Min(Forgettable)} ELSE {}
    IN  IF a \in DOMAIN records THEN records
        ELSE [b \in (DOMAIN records \ victims) \cup {a} |->
                IF b = a THEN Fresh ELSE records[b]]

-----------------------------------------------------------------------------
(* The latch.                                                              *)

\* Watch::notify: the version moves, and every registered future is woken.
Notified ==
    /\ stale' = {w \in Waiters : wait[w].pc # "idle"}
    /\ woken' = woken \cup registered
    /\ registered' = {}

\* A driver releases the runtime's lock and has yet to notify.
Owing(a, what) == telling' = [telling EXCEPT ![a] = what]

\* The driver of address a publishes its change.  One that ended with a
\* failure opens the next connection if somebody watches the address.
Notify(a) ==
    /\ telling[a] # "nothing"
    /\ Owing(a, "nothing")
    /\ Notified
    /\ session' = IF telling[a] = "probe" /\ session[a] = "none"
                  THEN [session EXCEPT ![a] = "dialing"] ELSE session
    /\ down' = IF telling[a] = "recovery" THEN [down EXCEPT ![a] = None] ELSE down
    /\ UNCHANGED <<monitor, runtime, wait, run, cut>>

\* A wakeup with nothing changed: a ping in a simulation, and terminate.
Spurious ==
    /\ runtime = "running"
    /\ Notified
    /\ UNCHANGED <<monitor, sessions, runtime, wait, history>>

-----------------------------------------------------------------------------
(* The sessions.                                                           *)

\* Something opens a connection to the address.
Dial(a) ==
    /\ runtime = "running"
    /\ session[a] = "none"
    /\ session' = [session EXCEPT ![a] = "dialing"]
    /\ UNCHANGED <<monitor, telling, watch, runtime, wait, history>>

\* The session establishes: MonitorState::connected.
Established(a) ==
    /\ session[a] = "dialing"
    /\ telling[a] = "nothing"
    /\ session' = [session EXCEPT ![a] = "up"]
    /\ records' = [Recorded(a) EXCEPT ![a].failing = None, ![a].failed = FALSE]
    /\ Owing(a, IF AddressFailed(a) THEN "recovery" ELSE "nothing")
    /\ run' = [run EXCEPT ![a] = None]
    /\ UNCHANGED <<failed, watch, runtime, wait, down, cut>>

\* The session of address a ends, or never came up: close_connection and
\* MonitorState::disconnected.  An address has one session at a time: the end of
\* one that was replaced, which is noted as a disconnection too, is left out.
Ends(a, failure) ==
    LET known == Recorded(a)
        age == IF known[a].failing = None THEN 0 ELSE known[a].failing
        late == failure /\ age >= Delay
        waiting == {w \in Waiters : wait[w].goal \in {"disconnect", "either"}}
    IN  /\ session[a] \in {"dialing", "up"}
        /\ telling[a] = "nothing"
        /\ session' = [session EXCEPT ![a] = "none"]
        /\ records' = [known EXCEPT ![a].last = waiting,
                                    ![a].failing = IF failure THEN age ELSE @,
                                    ![a].failed = @ \/ late]
        /\ Owing(a, IF failure /\ known[a].references > 0 THEN "probe" ELSE "change")
        /\ run' = [run EXCEPT ![a] = IF failure /\ @ = None THEN 0 ELSE @]
        /\ down' = [down EXCEPT ![a] = IF late /\ @ = None THEN 0 ELSE @]
        /\ cut' = cut \cup {w \in waiting : wait[w].on.address = a}
        /\ UNCHANGED <<failed, watch, runtime, wait>>

\* Mutant: the table of failed endpoints has no bound.
RememberedAll(keys, key) == Append(keys, key)

\* A key is remembered; the oldest ones make room.
Remembered(keys, key) ==
    Append(IF Len(keys) >= MaxFailed THEN Tail(keys) ELSE keys, key)

\* The server at the address rejects endpoint e for good: complete, and
\* MonitorState::endpoint_failed.
EndpointFails(e, reason) ==
    /\ session[e.address] = "up"
    /\ telling[e.address] = "nothing"
    /\ Key(e, reason) \notin Range(failed)
    /\ failed' = Remembered(failed, Key(e, reason))
    /\ Owing(e.address, "change")
    /\ UNCHANGED <<records, session, watch, runtime, wait, history>>

-----------------------------------------------------------------------------
(* The waiting futures.                                                    *)

\* What the future waits for holds.
Ready(w) ==
    LET e == wait[w].on IN
    CASE wait[w].goal = "change" -> w \in stale
      [] wait[w].goal = "disconnect" -> DisconnectedSince(e.address, w)
      [] wait[w].goal = "failed" -> ~Available(e)
      [] wait[w].goal = "available" -> ~AddressFailed(e.address)
      [] wait[w].goal = "either" -> ~Available(e) \/ DisconnectedSince(e.address, w)
      [] OTHER -> FALSE

\* PeerReference: a future of on_failed_for keeps its address referenced.
Referenced(a, n) == records' = [Recorded(a) EXCEPT ![a].references = @ + n]

\* What a record keeps of a disconnection that is older than the future w.
Before(w, known) == [a \in DOMAIN known |-> [known[a] EXCEPT !.last = @ \ {w}]]

\* The future is created; it captures what it compares against.
Create(w, goal, e) ==
    /\ wait[w].pc = "idle"
    /\ runtime = "running"
    /\ wait' = [wait EXCEPT ![w] = [Idle EXCEPT !.kind = "once", !.goal = goal, !.on = e, !.pc = "new"]]
    /\ records' = Before(w, records)
    /\ UNCHANGED <<failed, sessions, watch, runtime, history>>

\* on_failed_for.
CreateFailedFor(w, e, sustain) ==
    /\ wait[w].pc = "idle"
    /\ runtime = "running"
    /\ wait' = [wait EXCEPT ![w] = [Idle EXCEPT !.kind = "failedFor", !.goal = "failed", !.on = e,
                                      !.pc = "new", !.sustain = sustain]]
    /\ Referenced(e.address, 1)
    /\ UNCHANGED <<failed, sessions, watch, runtime, history>>

\* The future resolves or is dropped: it leaves the latch, and its reference.
Finished(w) ==
    /\ wait' = [wait EXCEPT ![w] = Idle]
    /\ registered' = registered \ {w}
    /\ woken' = woken \ {w}
    /\ IF wait[w].kind = "failedFor" /\ runtime = "running"
       THEN Referenced(wait[w].on.address, -1)
       ELSE UNCHANGED records
    /\ stale' = stale \ {w}
    /\ cut' = cut \ {w}
    /\ UNCHANGED <<failed, sessions, runtime, run, down>>

\* The future goes on to another step, for the same goal or another.
Going(w, pc, goal, left) ==
    /\ wait' = [wait EXCEPT ![w].pc = pc, ![w].goal = goal, ![w].left = left]
    /\ UNCHANGED <<monitor, sessions, registered, woken, runtime, history>>

\* wait_until reads the version of the latch before it looks.
Version(w) ==
    /\ wait[w].pc = "version" \/ (wait[w].pc = "new" /\ wait[w].goal # "change")
    /\ wait' = [wait EXCEPT ![w].pc = "check",
                            ![w].elapsed = IF wait[w].kind = "failedFor" /\ @ = None THEN 0 ELSE @]
    /\ stale' = stale \ {w}
    /\ UNCHANGED <<monitor, sessions, registered, woken, runtime, history>>

\* It looks at the monitor under the runtime's lock.  on_failed_for goes on
\* from a failure to judge it, and from a recovery to the next failure.
Check(w) ==
    /\ wait[w].pc = "check"
    /\ \/ /\ runtime # "running"
          /\ Finished(w)
       \/ /\ runtime = "running" /\ Ready(w) /\ wait[w].kind = "once"
          /\ Finished(w)
       \/ /\ runtime = "running" /\ Ready(w) /\ wait[w].kind = "failedFor"
          /\ IF wait[w].goal = "failed"
             THEN Going(w, "judge", "failed", None)
             ELSE Going(w, "version", "failed", None)
          /\ UNCHANGED stale
       \/ /\ runtime = "running" /\ ~Ready(w)
          /\ Going(w, "changed", wait[w].goal, wait[w].left)
          /\ UNCHANGED stale

\* How long on_failed_for waits for a recovery, after elapsed.
Patience(sustain, elapsed) ==
    IF sustain.half THEN 2 * sustain.sustained + elapsed ELSE sustain.sustained

\* on_failed_for, the endpoint not being available: a permanent failure ends
\* it, any other one gets its time to recover.
Judge(w) ==
    /\ wait[w].pc = "judge"
    /\ \/ /\ runtime = "running" /\ Permanent(wait[w].on)
          /\ Finished(w)
       \/ /\ ~(runtime = "running" /\ Permanent(wait[w].on))
          /\ Going(w, "version", "available", Patience(wait[w].sustain, wait[w].elapsed))
          /\ UNCHANGED stale

\* Changed is polled: after the look, first thing by on_change, and again once
\* its task is woken.
Polling(w) ==
    \/ wait[w].pc = "changed"
    \/ wait[w].pc = "new" /\ wait[w].goal = "change"
    \/ wait[w].pc = "parked" /\ w \in woken

\* Mutant: the future registers without comparing the version.
ChangedBlindly(w) ==
    /\ Polling(w)
    /\ \/ /\ runtime = "closed"
          /\ Finished(w)
       \/ /\ runtime # "closed" /\ wait[w].pc = "parked"
          /\ IF wait[w].goal = "change"
             THEN Finished(w)
             ELSE /\ wait' = [wait EXCEPT ![w].pc = "version"]
                  /\ woken' = woken \ {w}
                  /\ UNCHANGED <<monitor, sessions, registered, stale, runtime, history>>
       \/ /\ runtime # "closed" /\ wait[w].pc # "parked"
          /\ wait' = [wait EXCEPT ![w].pc = "parked"]
          /\ registered' = registered \cup {w}
          /\ woken' = woken \ {w}
          /\ UNCHANGED <<monitor, sessions, stale, runtime, history>>

\* Changed::poll: the latch closed, its version moved, or the future registers.
Changed(w) ==
    /\ Polling(w)
    /\ \/ /\ runtime = "closed"
          /\ Finished(w)
       \/ /\ runtime # "closed" /\ w \in stale
          /\ IF wait[w].goal = "change"
             THEN Finished(w)
             ELSE /\ wait' = [wait EXCEPT ![w].pc = "version"]
                  /\ woken' = woken \ {w}
                  /\ UNCHANGED <<monitor, sessions, registered, stale, runtime, history>>
       \/ /\ runtime # "closed" /\ w \notin stale
          /\ wait' = [wait EXCEPT ![w].pc = "parked"]
          /\ registered' = registered \cup {w}
          /\ woken' = woken \ {w}
          /\ UNCHANGED <<monitor, sessions, stale, runtime, history>>

\* Mutant: the timer is looked at before the recovery.
TimesOutFirst(w) ==
    /\ wait[w].pc = "parked"
    /\ wait[w].goal = "available"
    /\ wait[w].left = 0
    /\ Finished(w)

\* The time on_failed_for gave the address is over, and it did not recover:
\* the recovery is looked at first.
TimesOut(w) ==
    /\ wait[w].pc = "parked"
    /\ wait[w].goal = "available"
    /\ wait[w].left = 0
    /\ w \notin stale
    /\ runtime # "closed"
    /\ Finished(w)

\* The task drops the future between two polls.
Abandon(w) ==
    /\ wait[w].pc \in {"new", "parked"}
    /\ Finished(w)

-----------------------------------------------------------------------------
(* The end of the runtime, and time.                                       *)

\* The last strong handle goes, and the tables with it, once no session holds
\* one.
DropRuntime ==
    /\ runtime = "running"
    /\ \A a \in Addresses : session[a] = "none" /\ telling[a] = "nothing"
    /\ runtime' = "dropped"
    /\ records' = [a \in {} |-> Fresh]
    /\ failed' = <<>>
    /\ run' = [a \in Addresses |-> None]
    /\ UNCHANGED <<sessions, watch, wait, down, cut>>

\* Shared::drop, Watch::close: every registered future is woken.
CloseWatch ==
    /\ runtime = "dropped"
    /\ runtime' = "closed"
    /\ woken' = woken \cup registered
    /\ registered' = {}
    /\ UNCHANGED <<monitor, sessions, stale, wait, history>>

\* Somebody is to run, or runs.
Busy ==
    \/ \E a \in Addresses : telling[a] # "nothing"
    \/ woken # {}
    \/ \E w \in Waiters : wait[w].pc \notin {"idle", "new", "parked"}

\* Time goes by while nobody has anything to do (the simulation's clock).
Tick ==
    /\ runtime = "running"
    /\ ~Busy
    /\ records' = [a \in DOMAIN records |-> [records[a] EXCEPT !.failing = Older(@)]]
    /\ wait' = [w \in Waiters |-> [wait[w] EXCEPT !.elapsed = Older(@), !.left = Less(@)]]
    /\ run' = [a \in Addresses |-> Older(run[a])]
    /\ down' = [a \in Addresses |-> Older(down[a])]
    /\ UNCHANGED <<failed, sessions, watch, runtime, cut>>

-----------------------------------------------------------------------------

SessionStep(a) ==
    Dial(a) \/ Established(a) \/ (\E failure \in BOOLEAN : Ends(a, failure)) \/ Notify(a)

Poll(w) == Version(w) \/ Check(w) \/ Judge(w) \/ Changed(w)

WaiterStep(w) ==
    \/ \E e \in Endpoints :
        \/ \E goal \in {"change", "disconnect", "failed", "available", "either"} : Create(w, goal, e)
        \/ \E s \in Sustains : CreateFailedFor(w, e, s)
    \/ Poll(w) \/ TimesOut(w) \/ Abandon(w)

Next ==
    \/ \E a \in Addresses : SessionStep(a)
    \/ \E e \in Endpoints, reason \in {"NotFound", "StaleIncarnation"} : EndpointFails(e, reason)
    \/ \E w \in Waiters : WaiterStep(w)
    \/ Spurious \/ DropRuntime \/ CloseWatch \/ Tick

\* A driver goes on from a lock to the next (the executor), a task that was
\* woken or is in the middle of a poll is polled, and the drop of the runtime
\* runs to its end.
Fairness ==
    /\ \A a \in Addresses : WF_vars(Notify(a))
    /\ \A w \in Waiters : WF_vars(Poll(w))
    /\ WF_vars(CloseWatch)

Spec == Init /\ [][Next]_vars /\ Fairness

-----------------------------------------------------------------------------
(* Properties.                                                             *)

TypeOK ==
    /\ DOMAIN records \subseteq Addresses
    /\ \A a \in DOMAIN records :
        records[a] \in [failed : BOOLEAN, last : SUBSET Waiters, failing : Ages,
                        references : 0 .. Cardinality(Waiters)]
    /\ Len(failed) <= MaxFailed /\ IsInjective(failed)
    /\ session \in [Addresses -> {"none", "dialing", "up"}]
    /\ telling \in [Addresses -> {"nothing", "change", "recovery", "probe"}]
    /\ registered \subseteq Waiters /\ stale \subseteq Waiters /\ woken \subseteq Waiters
    /\ runtime \in {"running", "dropped", "closed"}
    /\ \A w \in Waiters :
        /\ wait[w].goal \in {"none", "change", "disconnect", "failed", "available", "either"}
        /\ wait[w].pc \in {"idle", "new", "version", "check", "judge", "changed", "parked"}

\* Forgetting an address loses nothing that matters: an address is failed only
\* after its connections kept failing for the detection delay with no success
\* between, its failure run is known from its first failure whatever was
\* forgotten since, and every live watcher is counted (MonitorState::record,
\* connected, disconnected, reference).
RecordsKept ==
    runtime = "running" => \A a \in Addresses :
        /\ (IF a \in DOMAIN records THEN records[a].failing ELSE None) = run[a]
        /\ AddressFailed(a) => run[a] >= Delay
        /\ References(a) = Cardinality({w \in Waiters :
                wait[w].kind = "failedFor" /\ wait[w].on.address = a})

\* on_failed_for reports an address that was failed without a break for as long
\* as it was asked to wait, when tasks are polled before time goes on
\* (FailureMonitor::on_failed_for).
FailedForMeansIt ==
    [][\A w \in Waiters : TimesOut(w) =>
        LET since == down[wait[w].on.address] IN
            since >= wait[w].sustain.sustained]_vars

\* What ends a wait: its condition, a permanent failure for on_failed_for, and
\* the end of the runtime.
Due(w) ==
    \/ runtime = "closed"
    \/ IF wait[w].kind = "failedFor" THEN Permanent(wait[w].on) ELSE Ready(w)

\* No future waits for ever for what stays true, or on a runtime that is gone:
\* no change between its look and its registration is lost (wait_until,
\* Changed::poll, Watch::notify, Watch::close).
WaitsEnd == \A w \in Waiters : []<>~(wait[w].pc \notin {"idle", "new"} /\ Due(w))

\* No waiter misses a disconnect: the future of an address that disconnected
\* after it was created does not sleep on once that was published
\* (MonitorState::record, on_disconnect).
NoDisconnectMissed ==
    \A w \in cut :
        wait[w].goal \in {"disconnect", "either"} /\ wait[w].pc = "parked" /\ w \notin woken
            => \E a \in Addresses : telling[a] # "nothing"

=============================================================================
