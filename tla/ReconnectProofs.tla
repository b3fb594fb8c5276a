-------------------------- MODULE ReconnectProofs ---------------------------
(***************************************************************************)
(* Proofs about Reconnect, for any callers, connection tasks and limits:   *)
(* types, no caller is forgotten, one connection at a time on the          *)
(* simulation's executor, and giving up is for good.                       *)
(***************************************************************************)
EXTENDS Reconnect, TLAPS

\* Tasks are dropped only after their first poll.
PolledDrops == Drops = "polled"

\* What a caller that is starting or awaiting an attempt is kept by.
Kept ==
    /\ \A c \in Callers : pc[c] \in {"wanting", "spawning"} => c \in woken \cup parked
    /\ parked # {} => conn = "Connecting"

\* A channel that connects has a task that will move it on.
Moving == conn = "Connecting" => closed = "yes" \/ Attended

-----------------------------------------------------------------------------
(* Type correctness.                                                       *)

\* The type invariant holds at first.
LEMMA TypeInit == Init => TypeOK
BY DEF Init, TypeOK, Phases

\* One more failure, or the end of a connection, leaves a count.
LEMMA CountTypes ==
    ASSUME TypeOK
    PROVE  FailedOnce \in Nat /\ NextFailures \subseteq Nat
BY ReconnectAssumption DEF TypeOK, FailedOnce, NextFailures

\* Every step of a caller keeps the type invariant.
LEMMA TypeCaller ==
    ASSUME TypeOK, NEW c \in Callers, CallerStep(c)
    PROVE  TypeOK'
<1> USE DEF TypeOK, Tasks, Phases, inner, shutdown, tasks, callers, Answered
<1>1. CASE Want(c)
  BY <1>1, Zenon DEF Want
<1>2. CASE PollReady(c)
  BY <1>2 DEF PollReady, Granted, Live, Open, Demoted
<1>3. CASE Spawn(c)
  BY <1>3, Zenon DEF Spawn
<1>4. CASE PollAgain(c)
  BY <1>4 DEF PollAgain, Granted, Live, Open
<1>5. CASE Call(c)
  BY <1>5 DEF Call
<1>6. CASE Respond(c)
  BY <1>6, Zenon DEF Respond
<1>7. CASE Leave(c)
  BY <1>7, Zenon DEF Leave
<1> QED
  BY <1>1, <1>2, <1>3, <1>4, <1>5, <1>6, <1>7, Zenon DEF CallerStep

\* Every step of a connection task keeps the type invariant.
LEMMA TypeAttempt ==
    ASSUME TypeOK, NEW a \in Attempts, AttemptStep(a)
    PROVE  TypeOK'
<1> USE DEF TypeOK, Tasks, Phases, inner, shutdown, tasks, callers, Awaiting, WakeParked
<1>1. CASE Begin(a)
  BY <1>1, Zenon DEF Begin
<1>2. CASE BackOff(a)
  BY <1>2, Zenon DEF BackOff
<1>3. CASE ConnectFails(a)
  BY <1>3, CountTypes, Zenon DEF ConnectFails
<1>4. CASE Publish(a)
  BY <1>4, Zenon DEF Publish
<1>5. CASE SenderCloses(a)
  BY <1>5, Zenon DEF SenderCloses
<1>6. CASE ConnectionEnds(a)
  BY <1>6, Zenon DEF ConnectionEnds, Disconnect, Severed
<1>7. CASE Retire(a)
  BY <1>7, CountTypes, Zenon DEF Retire
<1>8. CASE DropTask(a)
  BY <1>8, Zenon DEF DropTask, Ended, Disconnect, Severed
<1>9. CASE ReleaseGuard(a)
  BY <1>9, Zenon DEF ReleaseGuard
<1> QED
  BY <1>1, <1>2, <1>3, <1>4, <1>5, <1>6, <1>7, <1>8, <1>9, Zenon DEF AttemptStep

\* Every step keeps the type invariant.
LEMMA TypeStep ==
    ASSUME TypeOK, [Next]_vars
    PROVE  TypeOK'
<1> USE DEF TypeOK, Tasks, Phases, inner, shutdown, tasks, callers
<1>1. ASSUME NEW t \in Tasks, PollClosed(t) \/ RegisterWaiter(t)
      PROVE  TypeOK'
  <2>1. CASE PollClosed(t)
    BY <2>1, ZenonT(60) DEF PollClosed, CloseWins, Ended, Disconnect, Severed, Answered
  <2>2. CASE RegisterWaiter(t)
    BY <2>2, ZenonT(60) DEF RegisterWaiter, CloseWins, Ended, Disconnect, Severed, Answered
  <2> QED
    BY <1>1, <2>1, <2>2, Zenon
<1>2. CASE Close \/ CloseInner \/ CloseWaiters
  BY <1>2, Zenon DEF Close, CloseInner, CloseWaiters, WakeParked
<1>3. CASE UNCHANGED vars
  BY <1>3, Zenon DEF vars
<1> QED
  BY <1>1, <1>2, <1>3, TypeCaller, TypeAttempt, Zenon DEF Next

-----------------------------------------------------------------------------
(* No caller is forgotten.                                                 *)

\* Every step keeps hold of the callers (poll_connection, take_wakers).
LEMMA KeptStep ==
    ASSUME TypeOK, Kept, [Next]_vars
    PROVE  Kept'
<1> USE DEF TypeOK, Kept, Tasks, inner, shutdown, tasks, callers
<1>1. ASSUME NEW c \in Callers, CallerStep(c)
      PROVE  Kept'
  <2>1. CASE PollReady(c)
    BY <2>1, Zenon DEF PollReady, Answered, Granted, Demoted
  <2>2. CASE Want(c) \/ Spawn(c)
    BY <2>2, Zenon DEF Want, Spawn, Answered
  <2>3. CASE PollAgain(c) \/ Call(c) \/ Respond(c) \/ Leave(c)
    BY <2>3, Zenon DEF PollAgain, Call, Respond, Leave, Answered, Granted
  <2> QED
    BY <1>1, <2>1, <2>2, <2>3, Zenon DEF CallerStep
<1>2. ASSUME NEW t \in Tasks, PollClosed(t) \/ RegisterWaiter(t)
      PROVE  Kept'
  <2>1. CASE t \in Attempts
    <3>1. UNCHANGED <<conn, parked, pc>> /\ woken \ {t} \subseteq woken' /\ t \notin Callers
      BY <1>2, <2>1, ReconnectAssumption, Zenon
      DEF PollClosed, RegisterWaiter, CloseWins, Ended
    <3> QED
      BY <3>1, Zenon
  <2>2. CASE t \in Callers
    <3>1. /\ UNCHANGED <<conn, parked>> /\ woken \ {t} \subseteq woken'
          /\ \A c \in Callers \ {t} : pc'[c] = pc[c]
          /\ pc'[t] \in {"wanting", "spawning"} => pc'[t] = pc[t] /\ woken' = woken
      BY <1>2, <2>2, ReconnectAssumption, ZenonT(60)
      DEF PollClosed, RegisterWaiter, Racing, CloseWins, Answered
    <3> QED
      BY <3>1, Zenon
  <2> QED
    BY <2>1, <2>2, Zenon
<1>3. ASSUME NEW a \in Attempts, AttemptStep(a)
      PROVE  Kept'
  <2>1. CASE Begin(a) \/ BackOff(a) \/ SenderCloses(a) \/ ConnectionEnds(a) \/ DropTask(a)
    <3>1. UNCHANGED <<conn, parked, pc>> /\ woken \ {a} \subseteq woken' /\ a \notin Callers
      BY <2>1, ReconnectAssumption, Zenon
      DEF Begin, BackOff, SenderCloses, ConnectionEnds, DropTask, Ended
    <3> QED
      BY <3>1, Zenon
  <2>2. CASE ConnectFails(a) \/ Publish(a) \/ Retire(a) \/ ReleaseGuard(a)
    <3>1. UNCHANGED pc /\ (WakeParked \/ UNCHANGED <<conn, parked, woken>>)
      BY <2>2, Zenon DEF ConnectFails, Publish, Retire, ReleaseGuard
    <3> QED
      BY <3>1, Zenon DEF WakeParked
  <2> QED
    BY <1>3, <2>1, <2>2, Zenon DEF AttemptStep
<1>4. CASE Close \/ CloseInner \/ CloseWaiters \/ UNCHANGED vars
  BY <1>4, Zenon DEF Close, CloseInner, CloseWaiters, WakeParked, vars
<1> QED
  BY <1>1, <1>2, <1>3, <1>4, Zenon DEF Next

\* Every step leaves a task that moves a connecting channel on: the guard is
\* armed before a task first waits (AttemptGuard), and a new generation comes
\* only with a connection.
LEMMA MovingStep ==
    ASSUME TypeOK, PolledDrops, Moving, [Next]_vars
    PROVE  Moving'
<1> USE DEF TypeOK, Moving, Attended, inner, shutdown, tasks, callers
<1>1. ASSUME NEW c \in Callers, CallerStep(c)
      PROVE  Moving'
  <2>1. CASE PollReady(c)
    <3>1. closed' = closed /\ phase' = phase /\ since' = since
      BY <2>1, Zenon DEF PollReady
    <3>2. CASE conn' = "Connecting" /\ pc'[c] = "spawning"
      BY <3>2, Zenon
    <3>3. CASE \A d \in Callers : pc[d] = "spawning" => pc'[d] = "spawning"
      BY <2>1, <3>1, <3>3, Zenon DEF PollReady, Demoted, Granted, Answered
    <3> QED
      BY <2>1, <3>2, <3>3, Zenon DEF PollReady, Answered, Granted
  <2>2. CASE Spawn(c)
    BY <2>2, Zenon DEF Spawn
  <2>3. CASE Want(c) \/ PollAgain(c) \/ Call(c) \/ Respond(c) \/ Leave(c)
    BY <2>3, Zenon DEF Want, PollAgain, Call, Respond, Leave, Answered, Granted
  <2> QED
    BY <1>1, <2>1, <2>2, <2>3, Zenon DEF CallerStep
<1>2. ASSUME NEW t \in Tasks, PollClosed(t) \/ RegisterWaiter(t)
      PROVE  Moving'
  BY <1>2, Zenon DEF PollClosed, RegisterWaiter, CloseWins
<1>3. ASSUME NEW a \in Attempts, AttemptStep(a)
      PROVE  Moving'
  <2>1. CASE Begin(a) \/ BackOff(a)
    BY <2>1, Zenon DEF Begin, BackOff, Awaiting
  <2>2. CASE ConnectFails(a) \/ Publish(a)
    BY <2>2, Zenon DEF ConnectFails, Publish
  <2>3. CASE SenderCloses(a) \/ ConnectionEnds(a)
    BY <2>3, Zenon DEF SenderCloses, ConnectionEnds, Awaiting
  <2>4. CASE Retire(a) \/ ReleaseGuard(a)
    BY <2>4, Zenon DEF Retire, ReleaseGuard
  <2>5. CASE DropTask(a)
    BY <2>5, Zenon DEF DropTask, Ended, PolledDrops
  <2> QED
    BY <1>3, <2>1, <2>2, <2>3, <2>4, <2>5, Zenon DEF AttemptStep
<1>4. CASE Close \/ CloseInner \/ CloseWaiters \/ UNCHANGED vars
  BY <1>4, Zenon DEF Close, CloseInner, CloseWaiters, vars
<1> QED
  BY <1>1, <1>2, <1>3, <1>4, Zenon DEF Next

\* The type invariant holds in every reachable state.
THEOREM ReconnectTypeCorrect == Spec => []TypeOK
<1>1. TypeOK /\ [Next]_vars => TypeOK'
  BY TypeStep, Zenon
<1> QED
  BY <1>1, TypeInit, PTL DEF Spec

\* If tasks are dropped only after their first poll, nobody waits for nothing,
\* however many callers, attempts and threads there are (poll_connection,
\* record_failure, AttemptGuard::drop).
THEOREM NobodyForgottenHolds ==
    ASSUME PolledDrops
    PROVE  Spec => []NobodyForgotten
<1>1. Init => Kept /\ Moving
  BY Zenon DEF Init, Kept, Moving
<1>2. TypeOK /\ Kept /\ [Next]_vars => Kept'
  BY KeptStep, Zenon
<1>3. TypeOK /\ Moving /\ [Next]_vars => Moving'
  BY MovingStep, Zenon
<1>4. Kept /\ Moving => NobodyForgotten
  BY Zenon DEF Kept, Moving, NobodyForgotten
<1> QED
  BY <1>1, <1>2, <1>3, <1>4, ReconnectTypeCorrect, PTL DEF Spec

-----------------------------------------------------------------------------
(* One connection at a time on the simulation's executor.                  *)

\* A task that began under the current generation has not published, and
\* close() raised the flag before anything else.
Unpublished ==
    /\ \A a \in since : phase[a] \in {"backoff", "connecting", "guard"}
    /\ closer # "idle" => closed = "yes"

\* What makes single flight inductive: the channel connects while an attempt is
\* under way, an open connection is the one it holds, and a guard about to be
\* dropped finds no other attempt to release.
Alone ==
    /\ SingleFlight
    /\ UnderWay # {} /\ closed = "no" => conn = "Connecting"
    /\ \A a \in since :
        phase[a] = "guard" /\ closed = "no" => conn # "Connecting" \/ UnderWay = {}
    /\ \A a \in Attempts : Open(a) /\ closed = "no" => conn = "Connected" /\ owner = a

SimInv == Unpublished /\ (world.executor = "sim" => Alone)

\* A step that leaves the channel and the generation alone, and only takes
\* tasks out of the race, keeps them so.
LEMMA AloneShrinks ==
    ASSUME Alone,
           UNCHANGED <<conn, owner, since>>,
           closed \in {"yes", "no"}, closed = "yes" => closed' = "yes",
           UnderWay' \subseteq UnderWay,
           \A a \in Attempts : Open(a)' => Open(a),
           \A a \in since : phase'[a] = "guard" => phase[a] = "guard" \/ UnderWay' = {}
    PROVE  Alone'
BY Zenon DEF Alone, SingleFlight

\* Every step of a caller keeps the attempts alone.
LEMMA AloneCaller ==
    ASSUME TypeOK, SimInv, world.executor = "sim", NEW c \in Callers, CallerStep(c)
    PROVE  Alone'
<1> USE DEF TypeOK, SimInv, inner, shutdown, tasks, callers
<1>1. CASE PollReady(c)
  <2>0. closed' = closed /\ UNCHANGED <<phase, gone, since, owner>>
    BY <1>1, Zenon DEF PollReady
  <2>1. \A a \in Attempts : Open(a)' <=> Open(a)
    BY <2>0, Zenon DEF Open
  <2>2. \A a \in Attempts : phase[a] # "guard"
    BY <1>1, ReconnectAssumption, ZenonT(60) DEF PollReady, MayRun, MidPoll
  <2>3. CASE conn' = "Connecting" /\ pc' = [pc EXCEPT ![c] = "spawning"]
             /\ Demoted = "Disconnected" /\ closed = "no"
    <3>1. UnderWay = {} /\ \A a \in Attempts : ~Open(a)
      BY <2>3, Zenon DEF Alone, Demoted, Live
    <3>2. UnderWay' = {c}
      BY <2>0, <2>3, <3>1, Zenon DEF UnderWay
    <3> QED
      BY <2>0, <2>1, <2>2, <2>3, <3>1, <3>2, Zenon DEF Alone, SingleFlight
  <2>4. CASE pc'[c] # "spawning" /\ \A d \in Callers \ {c} : pc'[d] = pc[d]
    <3>1. UnderWay' \subseteq UnderWay
      BY <2>0, <2>4, Zenon DEF UnderWay
    <3>2. CASE UNCHANGED conn
      BY <2>0, <2>1, <2>2, <3>1, <3>2, AloneShrinks, Zenon
    <3>3. CASE conn' # conn
      <4>1. conn' = "Disconnected" /\ closed = "no" /\ conn # "Connecting" /\ ~Live
        BY <1>1, <2>4, <3>3, Zenon DEF PollReady, Demoted, Live
      <4>2. UnderWay = {} /\ \A a \in Attempts : ~Open(a)
        BY <4>1, Zenon DEF Alone, Live
      <4> QED
        BY <2>0, <2>1, <3>1, <4>1, <4>2, Zenon DEF Alone, SingleFlight
    <3> QED
      BY <3>2, <3>3, Zenon
  <2> QED
    BY <1>1, <2>3, <2>4, Zenon DEF PollReady, Answered, Granted
<1>2. CASE Spawn(c)
  <2>1. /\ UNCHANGED <<conn, owner, since, closed, gone>>
        /\ pc'[c] # "spawning" /\ \A d \in Callers \ {c} : pc'[d] = pc[d]
    BY <1>2, Zenon DEF Spawn, Answered
  <2>2. UnderWay = {c}
    BY <1>2 DEF Spawn, UnderWay, Alone, SingleFlight
  <2>3. CASE UNCHANGED phase
    <3>1. UnderWay' \subseteq UnderWay
      BY <2>1, <2>3, Zenon DEF UnderWay
    <3> QED
      BY <2>1, <2>3, <3>1, AloneShrinks, Zenon DEF Open
  <2>4. ASSUME NEW a \in Attempts, phase[a] = "free",
               phase' = [phase EXCEPT ![a] = "spawned"]
        PROVE  Alone'
    <3>1. UnderWay' = {a}
      BY <2>1, <2>2, <2>4, ReconnectAssumption DEF UnderWay
    <3>2. \A b \in since : phase'[b] # "guard"
      BY <1>2, <2>4, ReconnectAssumption DEF Spawn, MayRun, MidPoll
    <3>3. \A b \in Attempts : Open(b)' => Open(b)
      BY <2>1, <2>4, Zenon DEF Open
    <3> QED
      BY <2>1, <2>2, <3>1, <3>2, <3>3, Zenon DEF Alone, SingleFlight
  <2> QED
    BY <1>2, <2>3, <2>4, Zenon DEF Spawn
<1>3. CASE Want(c) \/ PollAgain(c) \/ Call(c) \/ Respond(c) \/ Leave(c)
  <2>1. UNCHANGED <<conn, owner, since, closed, phase, gone>> /\ pc'[c] # "spawning"
        /\ \A d \in Callers \ {c} : pc'[d] = pc[d]
    BY <1>3, Zenon DEF Want, PollAgain, Call, Respond, Leave, Answered, Granted
  <2>2. UnderWay' \subseteq UnderWay
    BY <2>1, Zenon DEF UnderWay
  <2> QED
    BY <2>1, <2>2, AloneShrinks, Zenon DEF Open
<1> QED
  BY <1>1, <1>2, <1>3, Zenon DEF CallerStep

\* Every step of a connection task keeps the attempts alone.
LEMMA AloneAttempt ==
    ASSUME TypeOK, SimInv, world.executor = "sim", NEW a \in Attempts, AttemptStep(a)
    PROVE  Alone'
<1> USE DEF TypeOK, SimInv, inner, shutdown, tasks, callers
<1>0. a \notin Callers
  BY ReconnectAssumption, Zenon
<1>1. CASE Begin(a)
  <2>1. /\ phase[a] = "starting" /\ phase'[a] \in {"backoff", "connecting"}
        /\ \A b \in Attempts \ {a} : phase'[b] = phase[b]
        /\ since' = since \cup {a}
        /\ UNCHANGED <<conn, owner, closed, gone, pc>>
    BY <1>1, Zenon DEF Begin
  <2>2. UnderWay' = UnderWay /\ \A b \in Attempts : Open(b)' <=> Open(b)
    BY <2>1, Zenon DEF UnderWay, Open
  <2> QED
    BY <2>1, <2>2, Zenon DEF Alone, SingleFlight
<1>2. CASE BackOff(a) \/ SenderCloses(a)
  <2>1. /\ UNCHANGED <<conn, owner, since, closed, pc>> /\ gone \subseteq gone'
        /\ \/ UNCHANGED phase
           \/ phase[a] = "backoff" /\ phase' = [phase EXCEPT ![a] = "connecting"]
    BY <1>2, Zenon DEF BackOff, SenderCloses, Awaiting
  <2>2. UnderWay' = UnderWay
    BY <2>1, Zenon DEF UnderWay
  <2>3. /\ \A b \in Attempts : Open(b)' => Open(b)
        /\ \A b \in since : phase'[b] = "guard" => phase[b] = "guard"
    BY <2>1, Zenon DEF Open
  <2> QED
    BY <2>1, <2>2, <2>3, AloneShrinks, Zenon
<1>3. CASE ConnectFails(a)
  <2>1. phase[a] = "connecting" /\ phase' = [phase EXCEPT ![a] = "guard"]
        /\ UNCHANGED <<owner, since, closed, gone, pc>>
    BY <1>3, Zenon DEF ConnectFails, Awaiting
  <2>2. UnderWay = {a}
    BY <2>1, Zenon DEF UnderWay, Alone, SingleFlight
  <2>3. UnderWay' = {} /\ \A b \in Attempts : Open(b)' => Open(b)
    BY <1>0, <2>1, <2>2 DEF UnderWay, Open
  <2>4. closed = "no" => conn = "Connecting"
    BY <2>2, Zenon DEF Alone
  <2> QED
    BY <2>1, <2>3, <2>4, Zenon DEF Alone, SingleFlight
<1>4. CASE Publish(a)
  <2>1. phase[a] = "connecting" /\ UNCHANGED <<closed, gone, pc>>
        /\ \A b \in Attempts \ {a} : phase'[b] = phase[b]
    BY <1>4, Zenon DEF Publish, Awaiting
  <2>2. UnderWay = {a}
    BY <2>1, Zenon DEF UnderWay, Alone, SingleFlight
  <2>3. phase'[a] \in {"serving", "guard"}
    BY <1>4, Zenon DEF Publish
  <2>4. UnderWay' = {}
    BY <1>0, <2>1, <2>2, <2>3, Zenon DEF UnderWay
  <2>5. CASE closed = "no"
    <3>1. conn = "Connecting"
      BY <2>2, <2>5, Zenon DEF Alone
    <3>2. conn' = "Connected" /\ owner' = a /\ since' = {}
      BY <1>4, <2>5, <3>1, Zenon DEF Publish
    <3>3. \A b \in Attempts \ {a} : ~Open(b)'
      BY <2>1, <2>5, <3>1, Zenon DEF Open, Alone
    <3> QED
      BY <2>4, <3>2, <3>3, Zenon DEF Alone, SingleFlight
  <2>6. CASE closed = "yes"
    BY <2>1, <2>4, <2>6, Zenon DEF Alone, SingleFlight
  <2> QED
    BY <2>5, <2>6, Zenon
<1>5. CASE ConnectionEnds(a) \/ DropTask(a)
  <2>1. /\ UNCHANGED <<conn, owner, since, closed, pc>>
        /\ phase'[a] \in {"retiring", "guard", "free"}
        /\ \A b \in Attempts \ {a} : phase'[b] = phase[b]
        /\ gone' = gone \ {a}
    BY <1>5, Zenon DEF ConnectionEnds, DropTask, Ended, Disconnect
  <2>2. UnderWay' \subseteq UnderWay \ {a} /\ \A b \in Attempts : Open(b)' => Open(b)
    BY <1>0, <2>1, Zenon DEF UnderWay, Open
  <2>3. a \in since => UnderWay' = {}
    <3>1. a \in since => phase[a] \in {"backoff", "connecting"}
      BY <1>5, Zenon DEF Unpublished, ConnectionEnds, Awaiting, DropTask
    <3> QED
      BY <2>2, <3>1 DEF UnderWay, Alone, SingleFlight
  <2> QED
    BY <2>1, <2>2, <2>3, AloneShrinks, Zenon
<1>6. CASE Retire(a)
  <2>1. /\ phase[a] = "retiring" /\ phase' = [phase EXCEPT ![a] = "guard"]
        /\ UNCHANGED <<owner, since, closed, gone, pc>>
        /\ a \notin since
    BY <1>6, Zenon DEF Retire, Unpublished
  <2>2. UnderWay' = UnderWay /\ \A b \in Attempts : Open(b)' => Open(b) /\ b # a
    BY <2>1, Zenon DEF UnderWay, Open
  <2>3. CASE UNCHANGED conn
    BY <2>1, <2>2, <2>3, AloneShrinks, Zenon
  <2>4. CASE Owns(a) /\ conn' = "Disconnected"
    BY <2>1, <2>2, <2>4, Zenon DEF Owns, Alone, SingleFlight
  <2> QED
    BY <1>6, <2>3, <2>4, Zenon DEF Retire
<1>7. CASE ReleaseGuard(a)
  <2>1. /\ phase[a] = "guard" /\ phase' = [phase EXCEPT ![a] = "free"]
        /\ since' = since \ {a} /\ owner' = IF owner = a THEN Dead ELSE owner
        /\ UNCHANGED <<closed, gone, pc>>
    BY <1>7, Zenon DEF ReleaseGuard
  <2>2. UnderWay' = UnderWay /\ \A b \in Attempts : Open(b)' => Open(b) /\ b # a
    BY <2>1, Zenon DEF UnderWay, Open
  <2>3. CASE UNCHANGED conn
    BY <2>1, <2>2, <2>3, Zenon DEF Alone, SingleFlight
  <2>4. CASE a \in since /\ conn = "Connecting" /\ conn' = "Disconnected"
    <3>1. closed = "no" => UnderWay = {}
      BY <2>1, <2>4, Zenon DEF Alone
    <3> QED
      BY <2>1, <2>2, <2>4, <3>1, Zenon DEF Alone, SingleFlight
  <2> QED
    BY <1>7, <2>3, <2>4, Zenon DEF ReleaseGuard
<1> QED
  BY <1>1, <1>2, <1>3, <1>4, <1>5, <1>6, <1>7, Zenon DEF AttemptStep

\* Every step keeps the invariant of this section.
LEMMA SimStep ==
    ASSUME TypeOK, SimInv, [Next]_vars
    PROVE  SimInv'
<1> USE DEF TypeOK, SimInv, inner, shutdown, tasks, callers
<1>0. UNCHANGED world
  BY Zenon DEF Next, CallerStep, AttemptStep, Want, PollReady, Spawn, PollAgain, Call, Respond, Leave,
     PollClosed, RegisterWaiter, Begin, BackOff, ConnectFails, Publish, SenderCloses,
     ConnectionEnds, Retire, DropTask, ReleaseGuard, Close, CloseInner, CloseWaiters, vars
<1>1. ASSUME NEW c \in Callers, CallerStep(c)
      PROVE  SimInv'
  <2>1. Unpublished'
    <3>1. UNCHANGED <<since, closed, closer>> /\ \A a \in since : phase'[a] = phase[a]
      BY <1>1, Zenon DEF CallerStep, Want, PollReady, Spawn, PollAgain, Call, Respond, Leave, Unpublished
    <3> QED
      BY <3>1, Zenon DEF Unpublished
  <2> QED
    BY <1>0, <1>1, <2>1, AloneCaller, Zenon
<1>2. ASSUME NEW a \in Attempts, AttemptStep(a)
      PROVE  SimInv'
  <2>1. Unpublished'
    <3>1. CASE Begin(a) \/ BackOff(a) \/ Publish(a)
      BY <3>1, Zenon DEF Begin, BackOff, Publish, Awaiting, Unpublished
    <3>2. CASE SenderCloses(a) \/ ConnectFails(a) \/ ReleaseGuard(a)
      BY <3>2, Zenon DEF SenderCloses, ConnectFails, ReleaseGuard, Unpublished
    <3>3. CASE ConnectionEnds(a) \/ Retire(a) \/ DropTask(a)
      BY <3>3, Zenon DEF ConnectionEnds, Awaiting, Retire, DropTask, Ended, Unpublished
    <3> QED
      BY <1>2, <3>1, <3>2, <3>3, Zenon DEF AttemptStep
  <2> QED
    BY <1>0, <1>2, <2>1, AloneAttempt, Zenon
<1>3. ASSUME NEW t \in Tasks, PollClosed(t) \/ RegisterWaiter(t)
      PROVE  SimInv'
  <2>1. /\ UNCHANGED <<conn, owner, since, closed, closer>>
        /\ closed = "no" => gone' = gone
    BY <1>3, Zenon DEF PollClosed, RegisterWaiter
  <2>2. /\ \A c \in Callers : pc'[c] = "spawning" => pc[c] = "spawning"
        /\ \A a \in Attempts : a # t => phase'[a] = phase[a]
    BY <1>3, Zenon DEF PollClosed, RegisterWaiter, CloseWins, Ended, Answered
  <2>3. t \in Attempts =>
          \/ phase'[t] = phase[t]
          \/ phase[t] = "spawned" /\ phase'[t] = "starting"
          \/ closed = "yes" /\ phase'[t] = "free" /\ phase[t] = "spawned"
          \/ closed = "yes" /\ phase'[t] = "guard"
    BY <1>3, Zenon DEF PollClosed, RegisterWaiter, CloseWins, Ended
  <2>4. Unpublished'
    BY <2>1, <2>2, <2>3, Zenon DEF Unpublished
  <2>5. UnderWay' \subseteq UnderWay
    BY <2>2, <2>3, Zenon DEF UnderWay
  <2>6. ASSUME Alone PROVE Alone'
    <3>1. CASE closed = "yes"
      BY <2>1, <2>5, <2>6, <3>1, Zenon DEF Alone, SingleFlight
    <3>2. CASE closed = "no"
      <4>1. \A a \in Attempts : Open(a)' => Open(a)
        BY <2>1, <2>2, <2>3, <3>2, Zenon DEF Open
      <4> QED
        BY <2>1, <2>2, <2>3, <2>5, <2>6, <3>2, <4>1, AloneShrinks, Zenon
    <3> QED
      BY <3>1, <3>2, Zenon
  <2> QED
    BY <1>0, <2>4, <2>6, Zenon
<1>4. CASE Close \/ CloseInner \/ CloseWaiters \/ UNCHANGED vars
  <2>1. /\ UNCHANGED <<owner, since, phase, gone, pc>>
        /\ closed' = "no" => UNCHANGED <<conn, closed>>
        /\ closer' # "idle" => closed' = "yes"
    BY <1>4, Zenon DEF Close, CloseInner, CloseWaiters, vars, Unpublished
  <2>2. UnderWay' = UnderWay /\ \A a \in Attempts : Open(a)' <=> Open(a)
    BY <2>1, Zenon DEF UnderWay, Open
  <2>3. closed' \in {"yes", "no"}
    BY TypeStep, Zenon
  <2> QED
    BY <1>0, <2>1, <2>2, <2>3, Zenon DEF Unpublished, Alone, SingleFlight
<1> QED
  BY <1>1, <1>2, <1>3, <1>4, Zenon DEF Next

\* On the simulation's executor there is one attempt at a time and every open
\* connection is the one the channel hands out, for any number of callers
\* (poll_connection, connection_lifecycle, record_failure).
THEOREM OneConnectionHolds == Spec => []OneConnection
<1>1. Init => SimInv
  BY DEF Init, SimInv, Unpublished, Alone, SingleFlight, UnderWay, Open
<1>2. TypeOK /\ SimInv /\ [Next]_vars => SimInv'
  BY SimStep, Zenon
<1>3. SimInv => OneConnection
  BY Zenon DEF SimInv, Alone, OneConnection
<1> QED
  BY <1>1, <1>2, <1>3, ReconnectTypeCorrect, PTL DEF Spec

-----------------------------------------------------------------------------
(* Giving up.                                                              *)

\* Once max_connection_failures is reached the channel never connects again,
\* whatever attempts and drivers are still running (poll_connection,
\* record_failure, connection_lifecycle).
THEOREM GivesUpHolds == Spec => GivesUpForGood
<1> DEFINE Stays == Reached(failures) /\ conn \in {"Disconnected", "Failed"} =>
                        conn' \in {"Disconnected", "Failed", "Closed"} /\ Reached(failures')
<1>1. TypeOK /\ [Next]_vars => [Stays]_vars
  <2> SUFFICES ASSUME TypeOK, Next, Reached(failures), conn \in {"Disconnected", "Failed"}
               PROVE  /\ conn' \in {"Disconnected", "Failed", "Closed"}
                      /\ world' = world
                      /\ failures' \in {failures, FailedOnce}
    BY ReconnectAssumption DEF Reached, FailedOnce, TypeOK
  <2> USE DEF inner, shutdown, tasks, callers
  <2>1. ASSUME NEW c \in Callers, CallerStep(c)
        PROVE  conn' \in {"Disconnected", "Failed"} /\ failures' = failures /\ world' = world
    BY <2>1, Zenon DEF CallerStep, Want, PollReady, Spawn, PollAgain, Call, Respond, Leave,
                Demoted, Exhausted, Reached
  <2>2. ASSUME NEW t \in Tasks, PollClosed(t) \/ RegisterWaiter(t)
        PROVE  UNCHANGED <<conn, failures, world>>
    BY <2>2, Zenon DEF PollClosed, RegisterWaiter
  <2>3. ASSUME NEW a \in Attempts, AttemptStep(a)
        PROVE  /\ conn' \in {"Disconnected", "Failed"} /\ world' = world
               /\ failures' \in {failures, FailedOnce}
    BY <2>3, Zenon DEF AttemptStep, Begin, BackOff, ConnectFails, Publish, SenderCloses,
                ConnectionEnds, Retire, Owns, DropTask, ReleaseGuard
  <2>4. CASE Close \/ CloseInner \/ CloseWaiters
    BY <2>4, Zenon DEF Close, CloseInner, CloseWaiters
  <2> QED
    BY <2>1, <2>2, <2>3, <2>4, Zenon DEF Next
<1> QED
  BY <1>1, ReconnectTypeCorrect, PTL DEF Spec, GivesUpForGood

=============================================================================
