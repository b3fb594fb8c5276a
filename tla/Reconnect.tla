----------------------------- MODULE Reconnect ------------------------------
(***************************************************************************)
(* The reconnecting HTTP/2 channel: clones of one channel share a          *)
(* connection state behind a mutex, the first caller that finds it         *)
(* disconnected spawns a task that backs off, connects, publishes the      *)
(* connection and drives it, and the others park until that task wakes     *)
(* them.  close() ends everything.                                         *)
(*                                                                         *)
(* A step is what runs between two acquisitions of a lock.  On the         *)
(* simulation's executor a task's poll runs alone; on tokio the polls of   *)
(* several tasks interleave.                                               *)
(***************************************************************************)
EXTENDS Naturals, FiniteSets

CONSTANTS
    \* The tasks that use clones of the channel.
    Callers,
    \* The connection tasks that may exist at one time; a task that ended
    \* leaves its name to another.
    Attempts,
    \* The worlds considered: the executor, "sim" or "threads"; the callers that
    \* use the channel; and max_connection_failures, {} for None.
    Worlds,
    \* Which tasks the executor may drop: "polled" ones only, or "any".
    Drops,
    \* No attempt, and an attempt or connection that is no more.
    Nobody, Dead

ASSUME ReconnectAssumption ==
    /\ Callers \cap Attempts = {}
    /\ {Nobody, Dead, "none", "failure"} \cap (Callers \cup Attempts) = {}
    /\ \A w \in Worlds : w.callers \subseteq Callers /\ w.limit \subseteq Nat

Tasks == Callers \cup Attempts

\* Which of the worlds this is.
VARIABLE world

\* Shared::inner: the state of the connection, the count of consecutive
\* failures, and the callers whose wakers are kept.  The generation matters
\* only in comparisons: owner is the task that published the current one (its
\* connection is the one Connected holds), since are those that began under it.
VARIABLES conn, failures, owner, since, parked

\* Shared::closed and close_waiters, and how far close() came.
VARIABLES closed, waiters, closer

\* Where each connection task is, and the tasks halfway through poll_closed.
\* gone are the connections whose sender already reports that it is closed.
VARIABLES phase, registering, gone

\* Each caller: what it is doing, its reservation, and what its request travels
\* on.
VARIABLES pc, ready, request

\* The tasks to be polled.
VARIABLE woken

inner == <<conn, failures, owner, since, parked>>
shutdown == <<closed, waiters, closer>>
tasks == <<phase, registering, gone>>
callers == <<pc, ready, request>>
vars == <<world, inner, shutdown, tasks, callers, woken>>

Phases == {"free", "spawned", "starting", "backoff", "connecting", "serving",
           "retiring", "guard"}

TypeOK ==
    /\ world \in Worlds
    /\ conn \in {"Disconnected", "Connecting", "Failed", "Connected", "Closed"}
    /\ failures \in Nat
    /\ owner \in Attempts \cup {Nobody, Dead}
    /\ since \subseteq Attempts
    /\ parked \subseteq Callers
    /\ closed \in {"yes", "no"}
    /\ waiters \subseteq Tasks
    /\ closer \in {"idle", "flagged", "taken", "finished"}
    /\ phase \in [Attempts -> Phases]
    /\ registering \subseteq Tasks
    /\ gone \subseteq Attempts
    /\ pc \in [Callers -> {"idle", "wanting", "spawning", "holding", "waiting"}]
    /\ ready \in [Callers -> Attempts \cup {"none", "failure", Dead}]
    /\ request \in [Callers -> Attempts \cup {"none", "failure", Dead}]
    /\ woken \subseteq Tasks

Init ==
    /\ world \in Worlds
    /\ conn = "Disconnected"
    /\ failures = 0
    /\ owner = Nobody
    /\ since = {}
    /\ parked = {}
    /\ closed = "no"
    /\ waiters = {}
    /\ closer = "idle"
    /\ phase = [a \in Attempts |-> "free"]
    /\ registering = {}
    /\ gone = {}
    /\ pc = [c \in Callers |-> "idle"]
    /\ ready = [c \in Callers |-> "none"]
    /\ request = [c \in Callers |-> "none"]
    /\ woken = {}

-----------------------------------------------------------------------------
(* Scheduling.                                                             *)

\* The tasks in the middle of a poll, and close() in the middle of its body.
MidPoll ==
    {c \in Callers : pc[c] = "spawning"}
    \cup {a \in Attempts : phase[a] \in {"starting", "retiring", "guard"}}
    \cup registering
    \cup (IF closer \in {"flagged", "taken"} THEN {Nobody} ELSE {})

\* t may run: on the simulation's executor nothing else is halfway.
MayRun(t) == world.executor = "sim" => MidPoll \subseteq {t}

\* The sender of attempt a's connection is open: its driver runs, and nothing
\* is known yet of the connection's end.
Open(a) == a \in Attempts /\ phase[a] = "serving" /\ a \notin gone

\* A connection is there for the next request.
Live == conn = "Connected" /\ Open(owner)

\* Reservations and requests of a connection that is no more.
Severed(f, a) == [c \in Callers |-> IF f[c] = a THEN Dead ELSE f[c]]

\* The count after one more failure, kept at what its readers tell apart: zero
\* or not (the backoff), and the limit reached or not.
FailedOnce ==
    IF world.limit = {} THEN 1
    ELSE IF \E max \in world.limit : failures >= max THEN failures ELSE failures + 1

-----------------------------------------------------------------------------
(* The callers.                                                            *)

\* A caller wants to send a request and polls for readiness.
Want(c) ==
    /\ c \in world.callers
    /\ pc[c] = "idle"
    /\ MayRun(c)
    /\ pc' = [pc EXCEPT ![c] = "wanting"]
    /\ woken' = woken \cup {c}
    /\ UNCHANGED <<world, inner, shutdown, tasks, ready, request>>

\* A poll or a call that ends the caller's request with an answer.
Answered(c) ==
    /\ pc' = [pc EXCEPT ![c] = "idle"]
    /\ ready' = [ready EXCEPT ![c] = "none"]
    /\ request' = [request EXCEPT ![c] = "none"]

\* poll_ready grants readiness and reserves what the next call is to use.
Granted(c, reservation) ==
    /\ pc' = [pc EXCEPT ![c] = "holding"]
    /\ ready' = [ready EXCEPT ![c] = reservation]
    /\ UNCHANGED request

\* Mutant: a connection that died is waited on, as if it were being made.
WaitedOn == IF conn = "Connected" /\ ~Live THEN "Connecting" ELSE conn

\* The shared state as poll_ready looks at it: a connection that died is
\* demoted first.
Demoted == IF conn = "Connected" /\ ~Live THEN "Disconnected" ELSE conn

\* Mutant: one attempt more than the limit.
ExhaustedLate == \E max \in world.limit : failures > max

\* The consecutive failures reached max_connection_failures.
Exhausted == \E max \in world.limit : failures >= max

\* Bound: there is a name left for one more connection task.
NameLeft ==
    Cardinality({c \in Callers : pc[c] = "spawning"})
        < Cardinality({a \in Attempts : phase[a] = "free"})

\* poll_connection of a clone without a reservation, up to the end of its
\* critical section: it reserves the live connection, or the failure of the
\* last attempt; gives up; starts an attempt; or parks behind one.
PollReady(c) ==
    /\ pc[c] = "wanting"
    /\ c \in woken
    /\ MayRun(c)
    /\ woken' = woken \ {c}
    /\ \/ /\ closed = "yes"
          /\ Answered(c)
          /\ UNCHANGED <<conn, parked>>
       \/ /\ closed = "no" /\ Live
          /\ Granted(c, owner)
          /\ UNCHANGED <<conn, parked>>
       \/ /\ closed = "no" /\ conn = "Failed"
          /\ conn' = "Disconnected"
          /\ Granted(c, "failure")
          /\ UNCHANGED parked
       \/ /\ closed = "no" /\ Demoted = "Disconnected"
          /\ Exhausted
          /\ conn' = Demoted
          /\ Answered(c)
          /\ UNCHANGED parked
       \/ /\ closed = "no" /\ Demoted = "Disconnected"
          /\ ~Exhausted
          /\ NameLeft
          /\ conn' = "Connecting"
          /\ parked' = parked \cup {c}
          /\ pc' = [pc EXCEPT ![c] = "spawning"]
          /\ UNCHANGED <<ready, request>>
       \/ /\ closed = "no" /\ Demoted = "Connecting"
          /\ parked' = parked \cup {c}
          /\ UNCHANGED <<conn, callers>>
    /\ UNCHANGED <<world, failures, owner, since, shutdown, tasks>>

\* The rest of poll_connection for the caller that starts an attempt: it
\* spawns the connection task, unless the channel was closed meanwhile.
Spawn(c) ==
    /\ pc[c] = "spawning"
    /\ MayRun(c)
    /\ \/ /\ closed = "yes"
          /\ Answered(c)
          /\ UNCHANGED <<phase, woken>>
       \/ /\ closed = "no"
          /\ \E a \in Attempts :
                /\ phase[a] = "free"
                /\ phase' = [phase EXCEPT ![a] = "spawned"]
                /\ woken' = woken \cup {a}
          /\ pc' = [pc EXCEPT ![c] = "wanting"]
          /\ UNCHANGED <<ready, request>>
    /\ UNCHANGED <<world, inner, shutdown, registering, gone>>

\* poll_connection of a clone that holds a reservation: it stays ready, and a
\* reserved connection is replaced by the live one.
PollAgain(c) ==
    /\ pc[c] = "holding"
    /\ MayRun(c)
    /\ \/ closed = "yes" /\ Answered(c)
       \/ /\ closed = "no" /\ ready[c] # "failure" /\ Live
          /\ Granted(c, owner)
    /\ UNCHANGED <<world, inner, shutdown, tasks, woken>>

\* call: consumes the reservation.  The response future is polled next.
Call(c) ==
    /\ pc[c] \in {"idle", "holding"}
    /\ MayRun(c)
    /\ \/ /\ closed = "yes"
          /\ Answered(c)
          /\ UNCHANGED woken
       \/ /\ closed = "no" /\ ready[c] = "none"
          /\ Answered(c)
          /\ UNCHANGED woken
       \/ /\ closed = "no" /\ ready[c] # "none"
          /\ pc' = [pc EXCEPT ![c] = "waiting"]
          /\ request' = [request EXCEPT ![c] = ready[c]]
          /\ ready' = [ready EXCEPT ![c] = "none"]
          /\ woken' = woken \cup {c}
    /\ UNCHANGED <<world, inner, shutdown, tasks>>

\* The response future completes: a response over a connection that is open,
\* or an error.  It looks at closed first, at every poll.
Respond(c) ==
    /\ pc[c] = "waiting"
    /\ c \in waiters
    /\ MayRun(c)
    /\ \/ closed = "yes" /\ Answered(c)
       \/ closed = "no" /\ Open(request[c]) /\ Answered(c)
       \/ closed = "no" /\ Answered(c)
    /\ waiters' = waiters \ {c}
    /\ woken' = woken \ {c}
    /\ UNCHANGED <<world, inner, closed, closer, tasks>>

\* A caller drops its clone, or the future it was polling, between two polls.
\* A waker it parked stays behind.
Leave(c) ==
    /\ pc[c] \in {"wanting", "holding", "waiting"}
    /\ c \notin registering
    /\ MayRun(c)
    /\ Answered(c)
    /\ waiters' = waiters \ {c}
    /\ woken' = woken \ {c}
    /\ UNCHANGED <<world, inner, closed, closer, tasks>>

-----------------------------------------------------------------------------
(* run_until_closed, around the connection task and around a response.     *)

Racing(t) ==
    \/ t \in Callers /\ pc[t] = "waiting"
    \/ t \in Attempts /\ phase[t] \in {"spawned", "backoff", "connecting", "serving"}

\* The driver of attempt a, if it ran, is dropped: its connection is over.
Disconnect(a) ==
    /\ ready' = Severed(ready, a)
    /\ request' = Severed(request, a)
    /\ gone' = gone \ {a}

\* The task of attempt a is over but for its guard, which is armed once the
\* task was polled.
Ended(a) ==
    /\ phase' = [phase EXCEPT ![a] = IF phase[a] = "spawned" THEN "free" ELSE "guard"]
    /\ waiters' = waiters \ {a}
    /\ woken' = woken \ {a}
    /\ registering' = registering \ {a}
    /\ Disconnect(a)
    /\ UNCHANGED pc

\* Closing wins the race: the other future is dropped.
CloseWins(t) ==
    \/ /\ t \in Attempts
       /\ Ended(t)
    \/ /\ t \in Callers
       /\ Answered(t)
       /\ waiters' = waiters \ {t}
       /\ woken' = woken \ {t}
       /\ registering' = registering \ {t}
       /\ UNCHANGED <<phase, gone>>

\* poll_closed, its first look at closed.
PollClosed(t) ==
    /\ Racing(t)
    /\ t \in woken \ registering
    /\ MayRun(t)
    /\ \/ closed = "yes" /\ CloseWins(t)
       \/ /\ closed = "no"
          /\ registering' = registering \cup {t}
          /\ woken' = woken \ {t}
          /\ UNCHANGED <<waiters, phase, gone, callers>>
    /\ UNCHANGED <<world, inner, closed, closer>>

\* Mutant: closed is not looked at again under the lock.
RegisterBlindly(t) ==
    /\ t \in registering
    /\ MayRun(t)
    /\ registering' = registering \ {t}
    /\ waiters' = waiters \cup {t}
    /\ phase' = IF t \in Attempts /\ phase[t] = "spawned"
                THEN [phase EXCEPT ![t] = "starting"]
                ELSE phase
    /\ UNCHANGED <<world, inner, closed, closer, gone, callers, woken>>

\* poll_closed, under the lock of close_waiters: the second look, and the
\* registration.  A connection task polled for the first time goes on.
RegisterWaiter(t) ==
    /\ t \in registering
    /\ MayRun(t)
    /\ \/ closed = "yes" /\ CloseWins(t)
       \/ /\ closed = "no"
          /\ registering' = registering \ {t}
          /\ waiters' = waiters \cup {t}
          /\ phase' = IF t \in Attempts /\ phase[t] = "spawned"
                      THEN [phase EXCEPT ![t] = "starting"]
                      ELSE phase
          /\ UNCHANGED <<gone, callers, woken>>
    /\ UNCHANGED <<world, inner, closed, closer>>

-----------------------------------------------------------------------------
(* connection_lifecycle.                                                   *)

\* Mutant: the guard is armed after the backoff, or not at all.
BeginUnguarded(a) ==
    /\ phase[a] = "starting"
    /\ MayRun(a)
    /\ since' = IF failures > 0 THEN since ELSE since \cup {a}
    /\ phase' = [phase EXCEPT ![a] = IF failures > 0 THEN "backoff" ELSE "connecting"]
    /\ UNCHANGED <<world, conn, failures, owner, parked, shutdown, registering, gone,
                   callers, woken>>

\* The task reads the failures and the generation, arms its guard, and backs
\* off if an attempt failed before.
Begin(a) ==
    /\ phase[a] = "starting"
    /\ MayRun(a)
    /\ since' = since \cup {a}
    /\ phase' = [phase EXCEPT ![a] = IF failures > 0 THEN "backoff" ELSE "connecting"]
    /\ UNCHANGED <<world, conn, failures, owner, parked, shutdown, registering, gone,
                   callers, woken>>

\* A task between two polls, which something it awaits lets go on.
Awaiting(a, what) ==
    /\ phase[a] = what
    /\ a \notin registering
    /\ a \in waiters
    /\ MayRun(a)

\* The backoff is over.
BackOff(a) ==
    /\ Awaiting(a, "backoff")
    /\ closed = "no"
    /\ phase' = [phase EXCEPT ![a] = "connecting"]
    /\ UNCHANGED <<world, inner, shutdown, registering, gone, callers, woken>>

\* Wake every parked caller (take_wakers, wake_all).
WakeParked ==
    /\ parked' = {}
    /\ woken' = woken \cup parked

\* The attempt fails or times out: record_failure.
ConnectFails(a) ==
    /\ Awaiting(a, "connecting")
    /\ phase' = [phase EXCEPT ![a] = "guard"]
    /\ waiters' = waiters \ {a}
    /\ \/ /\ closed = "no"
          /\ failures' = FailedOnce
          /\ conn' = "Failed"
          /\ WakeParked
       \/ /\ closed = "yes"
          /\ UNCHANGED <<failures, conn, parked, woken>>
    /\ UNCHANGED <<world, owner, since, closed, closer, registering, gone, callers>>

\* The handshake is done: the task publishes the connection under a new
\* generation, unless the channel moved on, and drives it.
Publish(a) ==
    /\ Awaiting(a, "connecting")
    /\ \/ /\ closed = "no" /\ conn = "Connecting"
          /\ conn' = "Connected"
          /\ owner' = a
          /\ since' = {}
          /\ phase' = [phase EXCEPT ![a] = "serving"]
          /\ WakeParked
          /\ UNCHANGED waiters
       \/ /\ ~(closed = "no" /\ conn = "Connecting")
          /\ phase' = [phase EXCEPT ![a] = "guard"]
          /\ waiters' = waiters \ {a}
          /\ UNCHANGED <<conn, owner, since, parked, woken>>
    /\ UNCHANGED <<world, failures, closed, closer, registering, gone, callers>>

\* The sender of a connection learns that it is closed before its driver is
\* polled again (hyper).
SenderCloses(a) ==
    /\ phase[a] = "serving"
    /\ a \notin gone
    /\ MayRun(a)
    /\ gone' = gone \cup {a}
    /\ UNCHANGED <<world, inner, shutdown, phase, registering, callers, woken>>

\* The connection ends, and its driver with it.
ConnectionEnds(a) ==
    /\ Awaiting(a, "serving")
    /\ phase' = [phase EXCEPT ![a] = IF closed = "yes" THEN "guard" ELSE "retiring"]
    /\ waiters' = waiters \ {a}
    /\ Disconnect(a)
    /\ UNCHANGED <<world, inner, closed, closer, registering, pc, woken>>

\* Mutant: a connection closed young takes a failure back.
NextFailuresDown == {0, FailedOnce, failures - 1}

\* next_failures: the count after a connection that lived long enough, died
\* young with an error, or was closed young.
NextFailures == {0, FailedOnce, failures}

\* Mutant: the generation is looked at, and not the state.
OwnsGeneration(a) == owner = a

\* The channel still holds the connection that task a published.
Owns(a) == owner = a /\ conn = "Connected"

\* The driver of a connection that ended retires it, if it is still the one
\* the channel holds.
Retire(a) ==
    /\ phase[a] = "retiring"
    /\ MayRun(a)
    /\ phase' = [phase EXCEPT ![a] = "guard"]
    /\ \/ /\ Owns(a)
          /\ conn' = "Disconnected"
          /\ failures' \in NextFailures
          /\ WakeParked
       \/ /\ ~Owns(a)
          /\ UNCHANGED <<conn, failures, parked, woken>>
    /\ UNCHANGED <<world, owner, since, shutdown, registering, gone, callers>>

\* The executor drops the task between two polls, or its provider shuts down
\* during the backoff.
DropTask(a) ==
    /\ \/ phase[a] \in {"backoff", "connecting", "serving"}
       \/ phase[a] = "spawned" /\ Drops = "any"
    /\ a \notin registering
    /\ MayRun(a)
    /\ Ended(a)
    /\ UNCHANGED <<world, inner, closed, closer>>

\* AttemptGuard::drop, the last thing a task does: a task that began under the
\* current generation releases the channel from Connecting.
ReleaseGuard(a) ==
    /\ phase[a] = "guard"
    /\ MayRun(a)
    /\ phase' = [phase EXCEPT ![a] = "free"]
    /\ since' = since \ {a}
    /\ owner' = IF owner = a THEN Dead ELSE owner
    /\ \/ /\ a \in since /\ conn = "Connecting"
          /\ conn' = "Disconnected"
          /\ WakeParked
       \/ /\ ~(a \in since /\ conn = "Connecting")
          /\ UNCHANGED <<conn, parked, woken>>
    /\ UNCHANGED <<world, failures, shutdown, registering, gone, callers>>

-----------------------------------------------------------------------------
(* close.                                                                  *)

\* The first caller of close() raises the flag; the others return.
Close ==
    /\ closed = "no"
    /\ MayRun(Nobody)
    /\ closed' = "yes"
    /\ closer' = "flagged"
    /\ UNCHANGED <<world, inner, waiters, tasks, callers, woken>>

\* It closes the shared state and takes the parked callers, to be woken.
CloseInner ==
    /\ closer = "flagged"
    /\ MayRun(Nobody)
    /\ conn' = "Closed"
    /\ WakeParked
    /\ closer' = "taken"
    /\ UNCHANGED <<world, failures, owner, since, closed, waiters, tasks, callers>>

\* It takes the registered futures and wakes their tasks.
CloseWaiters ==
    /\ closer = "taken"
    /\ MayRun(Nobody)
    /\ waiters' = {}
    /\ woken' = woken \cup waiters
    /\ closer' = "finished"
    /\ UNCHANGED <<world, inner, closed, tasks, callers>>

-----------------------------------------------------------------------------

CallerStep(c) ==
    Want(c) \/ PollReady(c) \/ Spawn(c) \/ PollAgain(c) \/ Call(c) \/ Respond(c) \/ Leave(c)

AttemptStep(a) ==
    \/ Begin(a) \/ BackOff(a) \/ ConnectFails(a) \/ Publish(a) \/ SenderCloses(a)
    \/ ConnectionEnds(a) \/ Retire(a) \/ DropTask(a) \/ ReleaseGuard(a)

Next ==
    \/ \E c \in Callers : CallerStep(c)
    \/ \E t \in Tasks : PollClosed(t) \/ RegisterWaiter(t)
    \/ \E a \in Attempts : AttemptStep(a)
    \/ Close \/ CloseInner \/ CloseWaiters

\* A woken task is polled and a poll runs to its end (the executor); a backoff
\* ends and an attempt succeeds, fails or times out (the time provider, the
\* timeouts of connect); the driver of a connection whose sender is closed
\* ends, and so does a request over such a connection (hyper).  Nothing says
\* that a live connection ends, that a response comes, or that anyone closes.
Fairness ==
    /\ \A c \in Callers :
        /\ WF_vars(PollReady(c) \/ Spawn(c))
        /\ WF_vars(~Open(request[c]) /\ Respond(c))
    /\ \A t \in Tasks : WF_vars(PollClosed(t) \/ RegisterWaiter(t))
    /\ \A a \in Attempts :
        WF_vars(\/ Begin(a) \/ BackOff(a) \/ ConnectFails(a) \/ Publish(a)
                \/ a \in gone /\ ConnectionEnds(a)
                \/ Retire(a) \/ ReleaseGuard(a))
    /\ WF_vars(CloseInner \/ CloseWaiters)

Spec == Init /\ [][Next]_vars /\ Fairness

-----------------------------------------------------------------------------
(* Properties.                                                             *)

\* An attempt that has yet to move the channel out of Connecting: about to be
\* spawned, or begun under the current generation and without a verdict.
Attended ==
    \/ \E c \in Callers : pc[c] = "spawning"
    \/ \E a \in Attempts :
        \/ phase[a] \in {"spawned", "starting"}
        \/ a \in since /\ phase[a] \in {"backoff", "connecting", "guard"}

\* Nobody waits for nothing: a caller whose poll returned Pending is to be
\* polled or is parked, callers are parked only while the channel connects, and
\* while it connects some task is there that will publish, fail or release it,
\* whatever tasks were dropped, raced or outlived their attempt
\* (poll_connection, record_failure, AttemptGuard::drop).
NobodyForgotten ==
    /\ \A c \in Callers : pc[c] = "wanting" => c \in woken \cup parked
    /\ parked # {} => conn = "Connecting"
    /\ conn = "Connecting" => closed = "yes" \/ Attended

\* The tasks and callers that are making a connection.
UnderWay ==
    {a \in Attempts : phase[a] \in {"spawned", "starting", "backoff", "connecting"}}
    \cup {c \in Callers : pc[c] = "spawning"}

\* Single flight: a caller that arrives while an attempt is under way parks
\* instead of starting a second one (poll_connection).
SingleFlight == \A x, y \in UnderWay : x = y

\* On the simulation's executor there is one attempt at a time, and every open
\* connection is the one the channel hands out: no attempt that outlived its
\* verdict starts another, or replaces a connection that works
\* (poll_connection, record_failure, connection_lifecycle).
OneConnection ==
    world.executor = "sim" =>
        /\ SingleFlight
        /\ \A a \in Attempts :
            Open(a) /\ closed = "no" => conn = "Connected" /\ owner = a

\* The count is at max_connection_failures.
Reached(n) == \E max \in world.limit : n >= max

\* Once max_connection_failures is reached the channel never connects again,
\* even if an attempt or a driver from before is still running
\* (poll_connection, record_failure).
GivesUpForGood ==
    [][Reached(failures) /\ conn \in {"Disconnected", "Failed"} =>
        conn' \in {"Disconnected", "Failed", "Closed"} /\ Reached(failures')]_vars

\* Every parked caller is woken: its attempt succeeds, fails, or is released
\* (wake_all).
ParkedWoken == \A c \in Callers : c \in parked ~> c \notin parked

\* Closing ends every connection task for good, whatever it waits for, and
\* every readiness check and request (close, poll_closed).
CloseEnds ==
    /\ <>(closed = "yes") => <>[](\A a \in Attempts : phase[a] = "free")
    /\ \A c \in Callers :
        closed = "yes" /\ pc[c] # "holding" ~> pc[c] \in {"idle", "holding"}

\* Nobody waits for ever: parked callers are woken, and closing ends every task,
\* readiness check and request (wake_all, close, poll_closed).
EverybodyAnswered == ParkedWoken /\ CloseEnds

=============================================================================
