------------------------------- MODULE Calls -------------------------------
(***************************************************************************)
(* The calls one RPC runtime makes to one remote endpoint, and to itself:  *)
(* what a call's end says about its execution (transport/calls.rs), over   *)
(* sessions that are dialed, accepted, replaced, cut and reported ended    *)
(* (connection.rs, sessions.rs, peer.rs, driver.rs), while callers give    *)
(* up, the endpoint is destroyed and the runtime shuts down.               *)
(*                                                                         *)
(* The state lock makes each handler one step.  Four places leave it: the  *)
(* writer takes a frame from a session's queue before it asks whether the  *)
(* frame may leave; the end of a session builds the next copies of its     *)
(* reliable calls outside the lock; a shutdown closes its sessions after   *)
(* it emptied the call table; accepting a session asks whether the runtime *)
(* is closing before it takes the lock.  Each is two steps here.           *)
(*                                                                         *)
(* A call is its id.  The order of frames in a queue, and the bytes they   *)
(* carry, are left out: a queue is a set of calls.                         *)
(***************************************************************************)
EXTENDS Naturals, FiniteSets

CONSTANTS
    Once,           \* at-most-once calls to the remote endpoint
    Reliable,       \* reliable calls to the remote endpoint
    OwnCalls,       \* calls to an endpoint of this runtime
    MaxSessions,    \* bound: sessions with a trace left at once
    MaxOpen,        \* max_connections
    MaxQueued,      \* max_queued_requests
    Worlds          \* the settings: see WorldType

Calls == Once \cup Reliable \cup OwnCalls

\* Whether the peer's address is the larger one (the tie-break of two dials);
\* the calls that are made; max_pending_calls; a bound on what disturbs them: the sessions that
\* arrive, are cut or closed, the callers that give up, the ends of the
\* endpoint and of the runtime.
WorldType ==
    [peerIsLarger : {"yes", "no"}, calls : SUBSET Calls, maxPending : Nat, faults : Nat]

Sessions == 1 .. MaxSessions

\* Origin::Local, and no session where one may be.
Local == 0

ASSUME CallsAssumption ==
    /\ MaxSessions \in Nat
    /\ MaxOpen \in Nat
    /\ MaxQueued \in Nat
    /\ Worlds \subseteq WorldType
    /\ Once \cap Reliable = {}
    /\ OwnCalls \cap (Once \cup Reliable) = {}

VARIABLES
    \* The call table (State::pending) and what callers were told.
    pending,        \* the calls in the table
    origin,         \* the session a pending call waits on
    transmitted,    \* pending calls whose current attempt began to leave
    earlier,        \* pending calls with an earlier attempt that began to leave
    outcome,        \* what the end of a call said of its execution
    \* Sessions.
    registered,     \* State::connections
    open,           \* not closed
    established,    \* the peer's handshake was accepted
    settled,        \* accepted sessions whose selection was decided
    inbound,        \* accepted, not dialed
    selected,       \* chosen for the peer's address at some time
    current,        \* Peer::current
    candidate,      \* Peer::candidate
    stalling,       \* Peer::unestablished_since is set
    queue,          \* request frames not taken by the writer
    writer,         \* the frame the writer took and did not decide on yet
    closing,        \* ended sessions whose calls are about to be sent again
    resend,         \* the copies an ended session prepares
    cut,            \* sessions the network or the peer ended
    \* The rest of the runtime.
    failed,         \* the monitor knows the remote endpoint is gone, from the
                    \* reply of a call or from the end of a stream
    lifecycle,      \* running, draining, ending, terminated, dropped
    accepting,      \* a session is past accept's check of the lifecycle
    collected,      \* the sessions a shutdown is to close
    \* The other side.
    wire,           \* request frames under way
    serving,        \* admitted requests whose handler did not answer yet
    replies,        \* replies under way
    endpoint,       \* the remote endpoint: live or gone
    runs,           \* history: how often a handler was handed the call
    silent,         \* history: calls a handler declined to answer
    world,          \* which of Worlds this is
    faults          \* how many of its faults happened

callVars == <<pending, origin, transmitted, earlier, outcome>>
peerVars == <<selected, current, candidate, stalling>>
sessionVars == <<registered, open, established, settled, inbound>>
frameVars == <<queue, writer, closing, resend>>
runtimeVars == <<failed, lifecycle, accepting, collected>>
serverVars == <<wire, serving, replies, endpoint, runs, silent>>
vars == <<callVars, peerVars, sessionVars, frameVars, runtimeVars, serverVars,
          cut, faults, world>>

Outcomes == {"none", "executed", "maybe", "not_admitted"}
Answers == {"reply", "broken", "rejected", "gone"}

TypeOK ==
    /\ pending \subseteq Calls
    /\ origin \in [Calls -> Sessions \cup {Local}]
    /\ transmitted \subseteq pending
    /\ earlier \subseteq pending
    /\ outcome \in [Calls -> Outcomes]
    /\ open \subseteq registered
    /\ registered \subseteq Sessions
    /\ established \subseteq registered
    /\ settled \subseteq inbound
    /\ inbound \subseteq registered
    /\ selected \subseteq registered
    /\ cut \subseteq registered
    /\ current \in registered \cup {Local}
    /\ candidate \in registered \cup {Local}
    /\ stalling \in {"yes", "no"}
    /\ queue \in [Sessions -> SUBSET Calls]
    /\ writer \in [Sessions -> SUBSET Calls]
    /\ closing \subseteq Sessions
    /\ resend \in [Sessions -> SUBSET Calls]
    /\ failed \in {"no", "call", "stream"}
    /\ lifecycle \in {"running", "draining", "ending", "terminated", "dropped"}
    /\ accepting \in {"yes", "no"}
    /\ collected \subseteq registered
    /\ wire \subseteq (Sessions \cup {Local}) \X Calls
    /\ serving \subseteq (Sessions \cup {Local}) \X Calls
    /\ replies \subseteq (Sessions \cup {Local}) \X Calls \X Answers
    /\ endpoint \in {"live", "gone"}
    /\ runs \in [Calls -> Nat]
    /\ silent \subseteq Calls
    /\ world \in Worlds
    /\ faults \in 0 .. world.faults

Init ==
    /\ pending = {}
    /\ origin = [c \in Calls |-> Local]
    /\ transmitted = {}
    /\ earlier = {}
    /\ outcome = [c \in Calls |-> "none"]
    /\ registered = {}
    /\ open = {}
    /\ established = {}
    /\ settled = {}
    /\ inbound = {}
    /\ selected = {}
    /\ current = Local
    /\ candidate = Local
    /\ stalling = "no"
    /\ queue = [k \in Sessions |-> {}]
    /\ writer = [k \in Sessions |-> {}]
    /\ closing = {}
    /\ resend = [k \in Sessions |-> {}]
    /\ cut = {}
    /\ failed = "no"
    /\ lifecycle = "running"
    /\ accepting = "no"
    /\ collected = {}
    /\ wire = {}
    /\ serving = {}
    /\ replies = {}
    /\ endpoint = "live"
    /\ runs = [c \in Calls |-> 0]
    /\ silent = {}
    /\ world \in Worlds
    /\ faults = 0

----------------------------------------------------------------------------
(* Sessions.                                                               *)

\* Peer::live: the selected session, unless it closed.
Live == {current} \cap open

\* A session leaves no trace: its id may stand for a new session, where the
\* code counts on (next_connection_id).
Unused(k) ==
    /\ k \notin registered \cup closing
    /\ \A c \in Calls :
        /\ <<k, c>> \notin wire \cup serving
        /\ c \in pending => origin[c] # k

NewSession(k) == Unused(k) /\ \A j \in Sessions : Unused(j) => k <= j

\* What peer_connection may return, and how: the selected session; one of the
\* peer's own that its stalled dials make it adopt; a new dial; a refusal, as
\* the runtime is closing or its session budget is spent.  A selected session
\* may also close before the caller queues its frame on it.
PeerChoices ==
    IF lifecycle # "running" THEN {[how |-> "refused", session |-> Local]}
    ELSE {[how |-> "existing", session |-> k] : k \in Live}
         \cup {[how |-> "raced", session |-> k] :
                 k \in IF faults < world.faults THEN Live ELSE {}}
         \cup {[how |-> "adopt", session |-> k] :
                 k \in IF stalling = "yes" /\ Live \cap established = {}
                       THEN {candidate} \cap open \cap established ELSE {}}
         \cup IF Live # {} THEN {}
              ELSE IF Cardinality(registered) >= MaxOpen
              THEN {[how |-> "refused", session |-> Local]}
              ELSE {[how |-> "dial", session |-> k] :
                      k \in {j \in Sessions : NewSession(j)}}

\* The frames an adoption moves: those of the session it replaces.
Moved(via) ==
    IF via.how = "adopt" THEN {c \in Calls : \E k \in Live : c \in queue[k]} ELSE {}

\* An adoption ends the stall, unless the driver of the dial it replaces did
\* not note its start yet (Peer::next_dial, as drive_outbound begins).
StallsAfterAdopt ==
    IF Live \ (inbound \cup established) = {} THEN {"no"} ELSE {"no", "yes"}

\* What peer_connection, and an adoption, do to the sessions.
Connect(via) ==
    /\ registered' = IF via.how = "dial" THEN registered \cup {via.session} ELSE registered
    /\ open' = IF via.how = "dial" THEN open \cup {via.session}
               ELSE IF via.how = "adopt" THEN open \ Live
               ELSE IF via.how = "raced" THEN open \ {via.session}
               ELSE open
    /\ IF via.how \in {"dial", "adopt"}
       THEN /\ selected' = selected \cup {via.session}
            /\ current' = via.session
            /\ stalling' \in IF via.how = "dial" THEN {"yes"} ELSE StallsAfterAdopt
       ELSE UNCHANGED <<selected, current, stalling>>
    /\ candidate' = IF via.how = "adopt" THEN Local ELSE candidate
    /\ faults' = IF via.how = "raced" THEN faults + 1 ELSE faults
    /\ UNCHANGED <<established, settled, inbound, cut>>

\* The queues after that, with the calls of add queued on the session.
Queued(via, add) ==
    [k \in Sessions |->
        IF \/ via.how = "raced" /\ k = via.session
           \/ via.how = "adopt" /\ k \in Live
           \/ via.how = "adopt" /\ k \notin open
        THEN {}
        ELSE IF k = via.session THEN queue[k] \cup Moved(via) \cup add
        ELSE queue[k]]

\* Some calls are settled: each leaves the table and its caller is told.
Told(ran, maybe, never) ==
    [c \in Calls |-> IF c \in ran THEN "executed"
                     ELSE IF c \in maybe THEN "maybe"
                     ELSE IF c \in never THEN "not_admitted"
                     ELSE outcome[c]]

Settle(ran, maybe, never) ==
    /\ outcome' = Told(ran, maybe, never)
    /\ pending' = pending \ (ran \cup maybe \cup never)
    /\ transmitted' = transmitted \ (ran \cup maybe \cup never)
    /\ earlier' = earlier \ (ran \cup maybe \cup never)
    /\ origin' = [c \in Calls |->
                    IF c \in ran \cup maybe \cup never THEN Local ELSE origin[c]]

\* Mutant: an adoption moves frames and leaves their calls where they were.
MovedToNobody(moved, k) == origin

\* The origins once the pending calls of moved wait on session k.
MovedTo(moved, k) ==
    [c \in Calls |-> IF c \in moved \cap pending THEN k ELSE origin[c]]

----------------------------------------------------------------------------
(* Starting a call.                                                        *)

New(c) == c \in world.calls \ pending /\ outcome[c] = "none"

\* Refused before anything was queued: failed for good, over a budget, no
\* session, or no room in its queue.
StartCall(c) ==
    /\ c \in Once \cup Reliable
    /\ New(c)
    /\ IF failed # "no" \/ Cardinality(pending) >= world.maxPending
       THEN /\ Settle({}, {}, {c})
            /\ UNCHANGED <<peerVars, sessionVars, queue, cut, faults>>
       ELSE \E via \in PeerChoices :
            /\ Connect(via)
            /\ IF \/ via.how \in {"refused", "raced"}
                  \/ Cardinality(queue[via.session] \cup Moved(via)) >= MaxQueued
               THEN /\ outcome' = Told({}, {}, {c})
                    /\ queue' = Queued(via, {})
                    /\ origin' = MovedTo(Moved(via), via.session)
                    /\ UNCHANGED pending
               ELSE /\ pending' = pending \cup {c}
                    /\ queue' = Queued(via, {c})
                    /\ origin' = [MovedTo(Moved(via), via.session)
                                    EXCEPT ![c] = via.session]
                    /\ UNCHANGED outcome
            /\ UNCHANGED <<transmitted, earlier>>
    /\ UNCHANGED <<writer, closing, resend, runtimeVars, serverVars, world>>

\* A call to this runtime: it counts as transmitted, and goes to admission at
\* once.  The check that the runtime is not closing comes before the lock.
StartOwnCall(c) ==
    /\ c \in OwnCalls
    /\ New(c)
    /\ \/ /\ lifecycle # "running" \/ Cardinality(pending) >= world.maxPending
          /\ Settle({}, {}, {c})
          /\ UNCHANGED wire
       \/ /\ lifecycle # "dropped" /\ Cardinality(pending) < world.maxPending
          /\ pending' = pending \cup {c}
          /\ transmitted' = transmitted \cup {c}
          /\ wire' = wire \cup {<<Local, c>>}
          /\ UNCHANGED <<origin, earlier, outcome>>
    /\ UNCHANGED <<peerVars, sessionVars, frameVars, runtimeVars, cut, faults,
                   serving, replies, endpoint, runs, silent, world>>

----------------------------------------------------------------------------
(* The driver of session k: handshake and writer.                          *)

\* A session the peer dialed: the runtime is not closing, at this moment.
BeginAccept ==
    /\ lifecycle = "running"
    /\ accepting = "no"
    /\ faults < world.faults
    /\ accepting' = "yes"
    /\ faults' = faults + 1
    /\ UNCHANGED <<callVars, peerVars, sessionVars, frameVars, failed, lifecycle,
                   collected, serverVars, cut, world>>

\* Then, under the lock, it is registered, unless the session budget is spent.
FinishAccept(k) ==
    /\ accepting = "yes"
    /\ accepting' = "no"
    /\ NewSession(k)
    /\ IF Cardinality(registered) >= MaxOpen
       THEN UNCHANGED <<registered, open, inbound>>
       ELSE /\ registered' = registered \cup {k}
            /\ open' = open \cup {k}
            /\ inbound' = inbound \cup {k}
    /\ UNCHANGED <<callVars, peerVars, established, settled, frameVars, failed,
                   lifecycle, collected, serverVars, cut, faults, world>>

\* The accepted session k announced the address its peer listens at: it
\* becomes the selected session, or the candidate, or is only served (sharing
\* is off, the claim is not verified, the peer table is full).
SelectInbound(k) ==
    /\ k \in inbound \ settled
    /\ k \notin cut
    /\ settled' = settled \cup {k}
    /\ LET via == [how |-> "adopt", session |-> k] IN
       \/ UNCHANGED <<peerVars, open, queue, origin>>
       \/ /\ \/ Live \subseteq inbound
             \/ world.peerIsLarger = "yes"
             \/ stalling = "yes" /\ Live \cap established = {}
          /\ selected' = selected \cup {k}
          /\ current' = k
          /\ candidate' = Local
          /\ stalling' \in StallsAfterAdopt
          /\ open' = open \ Live
          /\ queue' = Queued(via, {})
          /\ origin' = MovedTo(Moved(via), k)
       \/ /\ ~(Live \subseteq inbound)
          /\ world.peerIsLarger = "no"
          /\ candidate' = k
          /\ UNCHANGED <<selected, current, stalling, open, queue, origin>>
    /\ UNCHANGED <<pending, transmitted, earlier, outcome, registered, established,
                   inbound, writer, closing, resend, runtimeVars, serverVars, cut,
                   faults, world>>

Establish(k) ==
    /\ k \in registered \ established
    /\ k \in inbound => k \in settled
    /\ k \notin cut
    /\ established' = established \cup {k}
    /\ stalling' = IF k \in selected THEN "no" ELSE stalling
    /\ UNCHANGED <<callVars, selected, current, candidate, registered, open, settled,
                   inbound, frameVars, runtimeVars, serverVars, cut, faults,
                   world>>

\* The writer takes a request frame: requests wait for the handshake.
TakeFrame(k) ==
    /\ k \in open \cap established
    /\ writer[k] = {}
    /\ \E c \in queue[k] :
        /\ queue' = [queue EXCEPT ![k] = @ \ {c}]
        /\ writer' = [writer EXCEPT ![k] = {c}]
    /\ UNCHANGED <<callVars, peerVars, sessionVars, closing, resend, runtimeVars,
                   serverVars, cut, faults, world>>

\* admit_transmit refuses the frame it took: too large for the peer, or its
\* credential must not travel on this session.
RefuseFrame(k) ==
    /\ \E c \in writer[k] :
        Settle({}, {c} \cap earlier, ({c} \cap pending) \ earlier)
    /\ writer' = [writer EXCEPT ![k] = {}]
    /\ UNCHANGED <<peerVars, sessionVars, queue, closing, resend, runtimeVars,
                   serverVars, cut, faults, world>>

\* Or lets it leave, even when its call is no longer pending.
SendFrame(k) ==
    /\ \E c \in writer[k] :
        /\ transmitted' = transmitted \cup ({c} \cap pending)
        /\ wire' = wire \cup {<<k, c>>}
    /\ writer' = [writer EXCEPT ![k] = {}]
    /\ UNCHANGED <<pending, origin, earlier, outcome, peerVars, sessionVars, queue,
                   closing, resend, runtimeVars, serving, replies, endpoint, runs,
                   silent, cut, faults, world>>

----------------------------------------------------------------------------
(* The end of session k.                                                   *)

\* The network, the peer, a failed dial, a timeout or a violation ends it.
Cut(k) ==
    /\ k \in registered \ cut
    /\ faults < world.faults
    /\ cut' = cut \cup {k}
    /\ faults' = faults + 1
    /\ UNCHANGED <<callVars, peerVars, sessionVars, frameVars, runtimeVars,
                   serverVars, world>>

\* This side closes it: its queue is dropped.  close_if_idle spares a selected
\* session that calls wait on; an exhausted control reserve spares none.
CloseSession(k) ==
    /\ k \in open
    /\ faults < world.faults
    /\ open' = open \ {k}
    /\ queue' = [queue EXCEPT ![k] = {}]
    /\ faults' = faults + 1
    /\ UNCHANGED <<callVars, peerVars, registered, established, settled, inbound,
                   writer, closing, resend, runtimeVars, serverVars, cut, world>>

\* Mutant: only what was transmitted on a session ends with it.
CarriedOut(k) == {c \in transmitted : origin[c] = k}

\* The calls that wait on session k.
Carried(k) == {c \in pending : origin[c] = k}

\* Mutant: whatever the delivery mode.
EverythingAgain(k) == IF k \in selected THEN Carried(k) ELSE {}

\* Those of them to be sent again.
SentAgain(k) == IF k \in selected THEN Carried(k) \cap Reliable ELSE {}

\* What a session's end proves of the other calls it carried.
MayHaveRun(k) ==
    IF k \in established THEN (Carried(k) \ SentAgain(k)) \cap transmitted ELSE {}

\* Mutant: the address keeps the session that ended.
KeepsEnded(k) == current

\* The selected session of the address once session k ended.
AfterEnd(k) == IF current = k THEN Local ELSE current

\* close_connection, up to where it leaves the lock.  Copies of its reliable
\* calls are prepared; a watched address is dialed again without any.
EndConnection(k) ==
    /\ k \in registered
    /\ k \notin open \/ k \in cut
    /\ writer[k] = {}
    /\ LET again == SentAgain(k)
           lost == Carried(k) \ again
           maybe == MayHaveRun(k)
       IN /\ outcome' = Told({}, maybe, lost \ maybe)
          /\ pending' = pending \ lost
          /\ transmitted' = transmitted \ Carried(k)
          /\ earlier' = earlier \cup (again \cap transmitted)
          /\ origin' = [c \in Calls |-> IF c \in lost THEN Local ELSE origin[c]]
          /\ resend' = [resend EXCEPT ![k] = again]
          /\ \/ again # {} /\ closing' = closing \cup {k}
             \/ again = {} /\ closing' = closing
             \/ again = {} /\ k \in selected /\ closing' = closing \cup {k}
    /\ registered' = registered \ {k}
    /\ open' = open \ {k}
    /\ established' = established \ {k}
    /\ settled' = settled \ {k}
    /\ inbound' = inbound \ {k}
    /\ selected' = selected \ {k}
    /\ cut' = cut \ {k}
    /\ current' = AfterEnd(k)
    /\ candidate' = IF candidate = k THEN Local ELSE candidate
    /\ queue' = [queue EXCEPT ![k] = {}]
    /\ replies' = {r \in replies : r[1] # k}
    /\ collected' = collected \ {k}
    /\ UNCHANGED <<stalling, writer, failed, lifecycle, accepting, wire, serving, endpoint, runs,
                   silent, faults, world>>

\* Mutant: whatever is known of the endpoint.
LostAtRandom(via, copies) ==
    IF via.how \in {"refused", "raced"} THEN {copies} ELSE SUBSET copies

\* Of the copies of an ended session, those that may not be sent again.  Some
\* may not encode, or lack their credential.
LostCopies(via, copies) ==
    IF failed # "no" \/ via.how \in {"refused", "raced"} THEN {copies} ELSE SUBSET copies

\* The second half: the copies of the calls still waiting on k are queued on
\* the peer's next session, whatever its cap.
Retransmit(k) ==
    /\ k \in closing
    /\ LET copies == resend[k] \cap Carried(k) IN
       \E via \in PeerChoices :
       \E lost \in LostCopies(via, copies) :
            /\ Connect(via)
            /\ outcome' = Told({}, lost \cap earlier, lost \ earlier)
            /\ pending' = pending \ lost
            /\ earlier' = earlier \ lost
            /\ queue' = Queued(via, copies \ lost)
            /\ origin' = [c \in Calls |->
                            IF c \in lost THEN Local
                            ELSE MovedTo(Moved(via) \cup copies, via.session)[c]]
    /\ closing' = closing \ {k}
    /\ resend' = [resend EXCEPT ![k] = {}]
    /\ UNCHANGED <<transmitted, writer, runtimeVars, serverVars, world>>

----------------------------------------------------------------------------
(* The end of a call.                                                      *)

\* Mutant: a frame the writer holds has not left.
LeftForSure(calls) == {c \in calls : c \in transmitted \cup earlier}

\* Of some pending calls, those whose frame may have left: it cannot be
\* withdrawn from its session's queue any more (Connection::retract).
Left(calls) ==
    {c \in calls : \/ c \in transmitted \cup earlier
                   \/ origin[c] \in registered /\ c \notin queue[origin[c]]}

\* The queues once the frames of those never transmitted are withdrawn.
Retracted(calls) ==
    [k \in Sessions |->
        queue[k] \ {c \in calls : c \notin transmitted /\ origin[c] = k}]

\* Mutant: a late reply, or one of an ended session, settles its call.
AwaitedOnce(k, c) == c \in Calls

\* The call waits for a reply from there.
Awaited(k, c) == c \in pending /\ origin[c] = k

\* Mutant: a call between two sessions is overlooked.
FreedOnSessions(c, gone) ==
    {d \in (pending \cap Reliable) \ {c} : gone /\ origin[d] \in registered}

\* The reliable calls that end as the endpoint is first known to be gone.
Freed(c, gone) == {d \in (pending \cap Reliable) \ {c} : gone}

\* A reply on session k, or a local one.  A call no longer pending, or waiting
\* on another session, discards it.  A rejection proves non-admission of this
\* attempt only.  The first to say that the endpoint is gone releases every
\* reliable call to it.
Complete(k, c, answer) ==
    /\ <<k, c, answer>> \in replies
    /\ k \in registered \cup {Local}
    /\ replies' = replies \ {<<k, c, answer>>}
    /\ IF ~Awaited(k, c)
       THEN UNCHANGED <<callVars, queue, failed>>
       ELSE LET gone == answer = "gone" /\ failed = "no"
                freed == Freed(c, gone)
                maybe == IF answer = "broken" \/ c \in earlier THEN {c} ELSE {}
            IN /\ IF answer = "reply" THEN Settle({c}, {}, {})
                  ELSE Settle({}, maybe \cup Left(freed),
                              ({c} \ maybe) \cup (freed \ Left(freed)))
               /\ queue' = Retracted(freed)
               /\ failed' = IF gone THEN "call" ELSE failed
    /\ UNCHANGED <<peerVars, sessionVars, writer, closing, resend, lifecycle, accepting,
                   collected, wire, serving, endpoint, runs, silent, cut, faults, world>>

\* A stream of the endpoint ends with the news that it is gone, which the
\* monitor keeps and nothing else is told.  Streams are module ReplyStream: here
\* one may have been opened on any established session.
StreamEnd ==
    /\ endpoint = "gone"
    /\ failed = "no"
    /\ established # {}
    /\ lifecycle \in {"running", "draining"}
    /\ failed' = "stream"
    /\ UNCHANGED <<callVars, peerVars, sessionVars, frameVars, lifecycle, accepting,
                   collected, serverVars, cut, faults, world>>

\* The caller gives up: its future is dropped, or its deadline passes.  The
\* frame of a call that was ever transmitted is not withdrawn.
Abandon(c) ==
    /\ c \in pending
    /\ faults < world.faults
    /\ faults' = faults + 1
    /\ LET maybe == IF origin[c] \in registered THEN Left({c}) ELSE {c}
       IN /\ Settle({}, maybe, {c} \ maybe)
          /\ queue' = Retracted({c} \ maybe)
    /\ UNCHANGED <<peerVars, sessionVars, writer, closing, resend, runtimeVars,
                   serverVars, cut, world>>

----------------------------------------------------------------------------
(* The end of the runtime.                                                 *)

BeginShutdown ==
    /\ lifecycle = "running"
    /\ faults < world.faults
    /\ faults' = faults + 1
    /\ lifecycle' = "draining"
    /\ UNCHANGED <<callVars, peerVars, sessionVars, frameVars, failed, accepting,
                   collected, serverVars, cut, world>>

\* The grace is over, or nothing is pending: every call ends, and the sessions
\* there are now are to be closed.
Terminate ==
    /\ lifecycle = "draining"
    /\ lifecycle' = "ending"
    /\ Settle({}, Left(pending), pending \ Left(pending))
    /\ queue' = Retracted(pending)
    /\ collected' = registered
    /\ UNCHANGED <<peerVars, sessionVars, writer, closing, resend, failed, accepting,
                   serverVars, cut, faults, world>>

\* Mutant: a session still dialing is left to itself.
CloseEstablished ==
    /\ lifecycle = "ending"
    /\ lifecycle' = "terminated"
    /\ open' = open \ (collected \cap established)
    /\ queue' = [k \in Sessions |-> IF k \in collected THEN {} ELSE queue[k]]
    /\ UNCHANGED <<callVars, peerVars, registered, established, settled, inbound,
                   writer, closing, resend, failed, accepting, collected, serverVars,
                   cut, faults, world>>

\* Then every session it collected is closed.
CloseAll ==
    /\ lifecycle = "ending"
    /\ lifecycle' = "terminated"
    /\ open' = open \ collected
    /\ queue' = [k \in Sessions |-> IF k \in collected THEN {} ELSE queue[k]]
    /\ UNCHANGED <<callVars, peerVars, registered, established, settled, inbound,
                   writer, closing, resend, failed, accepting, collected, serverVars,
                   cut, faults, world>>

\* The driver is dropped, and the runtime with it: a caller whose call was not
\* settled learns nothing.  The driver accepts, so it is not dropped in between.
DropDriver ==
    /\ lifecycle # "dropped"
    /\ accepting = "no"
    /\ faults < world.faults
    /\ faults' = faults + 1
    /\ lifecycle' = "dropped"
    /\ Settle({}, pending, {})
    /\ registered' = {} /\ open' = {} /\ established' = {} /\ settled' = {}
    /\ inbound' = {} /\ selected' = {} /\ cut' = {} /\ closing' = {}
    /\ collected' = {}
    /\ current' = Local /\ candidate' = Local /\ stalling' = "no"
    /\ queue' = [k \in Sessions |-> {}]
    /\ writer' = [k \in Sessions |-> {}]
    /\ resend' = [k \in Sessions |-> {}]
    /\ replies' = {}
    /\ UNCHANGED <<failed, accepting, wire, serving, endpoint, runs, silent, world>>

----------------------------------------------------------------------------
(* The server: the remote runtime, and this one for its own calls.         *)

\* A reply that no session is left to read is dropped.
Sent(k, c, answer) ==
    IF k \in registered \/ (k = Local /\ lifecycle # "dropped")
    THEN replies \cup {<<k, c, answer>>} ELSE replies

\* Every check passed: the request is handed to its endpoint.
Admit(k, c) ==
    /\ <<k, c>> \in wire
    /\ IF k = Local THEN lifecycle = "running" ELSE endpoint = "live"
    /\ wire' = wire \ {<<k, c>>}
    /\ serving' = serving \cup {<<k, c>>}
    /\ runs' = [runs EXCEPT ![c] = @ + 1]
    /\ UNCHANGED <<callVars, peerVars, sessionVars, frameVars, runtimeVars, replies,
                   endpoint, silent, cut, faults, world>>

\* A check failed before the endpoint saw it: closing, overloaded, denied, of
\* another contract; or there is no such endpoint any more.
Reject(k, c) ==
    /\ <<k, c>> \in wire
    /\ wire' = wire \ {<<k, c>>}
    /\ replies' \in {Sent(k, c, answer) : answer \in
                        IF k # Local /\ endpoint = "gone" THEN {"rejected", "gone"}
                        ELSE {"rejected"}}
    /\ UNCHANGED <<callVars, peerVars, sessionVars, frameVars, runtimeVars, serving,
                   endpoint, runs, silent, cut, faults, world>>

\* The handler answers, or drops its reply handle: a broken promise.
Answer(k, c) ==
    /\ <<k, c>> \in serving
    /\ serving' = serving \ {<<k, c>>}
    /\ replies' \in {Sent(k, c, answer) : answer \in {"reply", "broken"}}
    /\ UNCHANGED <<callVars, peerVars, sessionVars, frameVars, runtimeVars, wire,
                   endpoint, runs, silent, cut, faults, world>>

\* The handler declines for good.
NeverReply(k, c) ==
    /\ <<k, c>> \in serving
    /\ serving' = serving \ {<<k, c>>}
    /\ silent' = silent \cup {c}
    /\ UNCHANGED <<callVars, peerVars, sessionVars, frameVars, runtimeVars, wire,
                   replies, endpoint, runs, cut, faults, world>>

DestroyEndpoint ==
    /\ endpoint = "live"
    /\ faults < world.faults
    /\ faults' = faults + 1
    /\ endpoint' = "gone"
    /\ UNCHANGED <<callVars, peerVars, sessionVars, frameVars, runtimeVars, wire,
                   serving, replies, runs, silent, cut, world>>

\* What is under way on a session that was cut, or closed, may never arrive.
Lose(k) ==
    /\ k \in Sessions
    /\ k \notin open \/ k \in cut
    /\ \/ \E c \in Calls : <<k, c>> \in wire /\ wire' = wire \ {<<k, c>>}
          /\ UNCHANGED replies
       \/ \E c \in Calls, answer \in Answers :
            <<k, c, answer>> \in replies /\ replies' = replies \ {<<k, c, answer>>}
          /\ UNCHANGED wire
    /\ UNCHANGED <<callVars, peerVars, sessionVars, frameVars, runtimeVars, serving,
                   endpoint, runs, silent, cut, faults, world>>

----------------------------------------------------------------------------

\* What the driver, the server and the shutdown keep doing.
Progress ==
    \/ \E k \in Sessions :
        \/ FinishAccept(k) \/ SelectInbound(k) \/ Establish(k)
        \/ TakeFrame(k) \/ RefuseFrame(k) \/ SendFrame(k)
        \/ EndConnection(k) \/ Retransmit(k)
    \/ \E k \in Sessions \cup {Local}, c \in Calls :
        \/ Admit(k, c) \/ Reject(k, c) \/ Answer(k, c) \/ NeverReply(k, c)
        \/ \E answer \in Answers : Complete(k, c, answer)
    \/ Terminate \/ CloseAll

Next ==
    \/ Progress
    \/ \E c \in Calls : StartCall(c) \/ StartOwnCall(c) \/ Abandon(c)
    \/ \E k \in Sessions : Cut(k) \/ CloseSession(k) \/ Lose(k)
    \/ BeginAccept \/ BeginShutdown \/ DropDriver \/ DestroyEndpoint \/ StreamEnd

\* The driver's tasks are polled, handlers end, and a shutdown's grace runs
\* out: some step of theirs is taken while one can be.
Spec == Init /\ [][Next]_vars /\ WF_vars(Progress)

----------------------------------------------------------------------------
(* Properties.                                                             *)

\* A call that ended NotAdmitted never reached a handler, and never will:
\* nothing of it that is still under way is admitted later (start_call,
\* admit_transmit, complete, abandon, close_connection, terminate).
NotAdmittedIsTrue == \A c \in Calls : outcome[c] = "not_admitted" => runs[c] = 0

\* Only a call a handler was handed ends with a reply, and an at-most-once
\* call is handed to one at most once, whatever sessions end or are replaced
\* under it (close_connection, adopt).
AtMostOnce ==
    \A c \in Calls :
        /\ outcome[c] = "executed" => runs[c] > 0
        /\ c \notin Reliable => runs[c] <= 1

\* Nobody waits for nothing: a pending call is queued or with the writer of the
\* session it waits on, was transmitted there, waits on a session whose end is
\* still to be reported, or is about to be sent again (adopt, retransmit).
NoOrphan ==
    \A c \in pending :
        \/ c \in transmitted
        \/ /\ origin[c] \in registered
           /\ c \in queue[origin[c]] \cup writer[origin[c]] \/ origin[c] \notin open
        \/ /\ origin[c] \in closing
           /\ c \in resend[origin[c]]

\* The reply of a call that says the endpoint is gone ends every reliable call
\* to it, even one between two sessions; whoever said it, no reliable call is
\* queued for it afterwards, neither a new one nor one whose session ended: an
\* adoption may only move what was queued already.  The end of a stream releases
\* none: what was sent before waits for its own reply or for the end of its
\* session (release_failed, stream_end, precheck, retransmit).
GoneReleases ==
    [][/\ failed' = "call" => pending' \cap Reliable = {}
       /\ failed # "no" => \A c \in Reliable, k \in Sessions :
            c \in queue'[k] => \E j \in Sessions : c \in queue[j]]_vars

\* A caller is told once: no late reply, second attempt, abandonment or
\* shutdown changes the end of a call (every path removes it from the table).
SettledOnce ==
    [][\A c \in Calls : outcome[c] # "none" => outcome'[c] = outcome[c]]_vars

\* No caller waits for ever, unless a handler declines to answer it: again and
\* again, no other call is pending.  A lost session, a replaced one, a full
\* queue or a shutdown leaves no caller behind (close_connection, retransmit).
CallsSettle == []<>(pending \subseteq silent)

\* A shutdown ends: every call is settled and every session reported ended, but
\* for one at most that was being accepted when the shutdown collected those it
\* closes (terminate, Shared::quiet).
ShutdownEnds ==
    []<>(\/ lifecycle = "running"
         \/ /\ pending = {} /\ closing = {}
            /\ registered \subseteq inbound \ collected
            /\ Cardinality(registered) <= 1
            /\ lifecycle \in {"terminated", "dropped"})

\* Nobody waits for nothing, neither the callers nor a shutdown
\* (close_connection, retransmit, terminate).
NobodyWaits == CallsSettle /\ ShutdownEnds

=============================================================================
