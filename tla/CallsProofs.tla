---------------------------- MODULE CallsProofs -----------------------------
(***************************************************************************)
(* Calls, for every set of calls and sessions: the inductive invariant,    *)
(* type correctness, the proof that each action keeps the invariant, what  *)
(* follows from it, and that no pending call is forgotten.                 *)
(***************************************************************************)
EXTENDS Calls, TLAPS

\* Where a frame, a handler or a reply may be: a session, or this runtime.
Anywhere == Sessions \cup {Local}

\* No frame of the call waits for a writer or is with one.
Unqueued(c) == \A k \in Sessions : c \notin queue[k] /\ c \notin writer[k]

\* No frame of the call is on its way to a server.
OffWire(c) == \A k \in Anywhere : <<k, c>> \notin wire

\* No handler holds the call and no reply to it is under way.
Unserved(c) ==
    \A k \in Anywhere :
        <<k, c>> \notin serving /\ \A a \in Answers : <<k, c, a>> \notin replies

\* A call in the table has not been told how it ended.
Untold == \A c \in pending : outcome[c] = "none"

\* A call that is not in the table and was told nothing, or NotAdmitted, ran
\* nowhere and left no frame behind.
NeverLeft ==
    \A c \in Calls \ pending :
        /\ outcome[c] \in {"none", "not_admitted"} => runs[c] = 0 /\ Unqueued(c) /\ OffWire(c)
        /\ outcome[c] = "none" => Unserved(c)

\* The pending calls never transmitted on a session that ended.  A reliable call
\* that was is told "maybe" at worst, so nothing need be known of its copies.
Fresh == pending \ earlier

\* A fresh call that no writer sent ran nowhere and is not under way.
NotSent ==
    \A c \in Fresh \ transmitted : runs[c] = 0 /\ OffWire(c) /\ Unserved(c)

\* A queued frame of a pending call is on the registered session the call waits
\* on, in the queue or with the writer and not both, and was not transmitted.
Placed ==
    \A c \in pending, k \in Sessions :
        c \in queue[k] \cup writer[k] =>
            /\ origin[c] = k
            /\ k \in registered
            /\ c \notin transmitted
            /\ ~(c \in queue[k] /\ c \in writer[k])

\* A fresh call has at most one frame on the wire, and while it is there no
\* handler had the call; a refusal of it proves that none had or will have.
SentOnce ==
    \A c \in Fresh, k \in Anywhere :
        /\ <<k, c>> \in wire =>
            /\ runs[c] = 0
            /\ Unserved(c)
            /\ \A j \in Anywhere : <<j, c>> \in wire => j = k
        /\ \A a \in {"rejected", "gone"} :
            <<k, c, a>> \in replies => runs[c] = 0 /\ OffWire(c)

\* What the tables of the driver keep in step: calls wait on selected sessions,
\* writers run on established ones, an ended session is no longer registered, and
\* only reliable calls are sent again.
Kept ==
    /\ \A c \in pending : origin[c] \in registered => origin[c] \in selected
    /\ \A c \in transmitted : origin[c] # Local => origin[c] \in established
    /\ current # Local => current \in selected
    /\ closing \cap registered = {}
    /\ \A k \in Sessions : writer[k] # {} => k \in established
    /\ earlier \subseteq Reliable
    /\ \A k \in Sessions : resend[k] \subseteq Reliable
    /\ \A c \in OwnCalls : origin[c] = Local /\ (c \in pending => c \in transmitted)

\* A handler that holds a call, or replied to it, was handed the call.
Ran ==
    \A c \in Calls, k \in Anywhere :
        <<k, c>> \in serving \/ <<k, c, "reply">> \in replies => runs[c] > 0

\* A call sent at most once has one frame, in one place, and none once it
\* reached a handler.
OneCopy ==
    \A c \in Calls \ Reliable :
        /\ runs[c] <= 1
        /\ runs[c] > 0 => Unqueued(c) /\ OffWire(c)
        /\ \A k \in Sessions :
            /\ c \in queue[k] => OffWire(c) /\ c \notin writer[k]
            /\ c \in writer[k] => OffWire(c)
            /\ c \in queue[k] \cup writer[k] =>
                \A j \in Sessions : c \in queue[j] \cup writer[j] => j = k
        /\ \A k, j \in Anywhere : <<k, c>> \in wire /\ <<j, c>> \in wire => j = k

\* Where the frames of a call can be, given what its caller was told.
Whereabouts == NeverLeft /\ NotSent /\ Placed /\ SentOnce /\ OneCopy

\* The inductive invariant.
IInv == TypeOK /\ Untold /\ Whereabouts /\ Kept /\ Ran

\* The part of the type invariant that where a call is depends on.
Typed ==
    /\ pending \subseteq Calls
    /\ origin \in [Calls -> Sessions \cup {Local}]
    /\ transmitted \subseteq pending
    /\ earlier \subseteq pending
    /\ outcome \in [Calls -> Outcomes]
    /\ open \subseteq registered
    /\ registered \subseteq Sessions
    /\ inbound \subseteq registered
    /\ established \subseteq registered
    /\ selected \subseteq registered
    /\ current \in registered \cup {Local}
    /\ queue \in [Sessions -> SUBSET Calls]
    /\ writer \in [Sessions -> SUBSET Calls]
    /\ closing \subseteq Sessions
    /\ resend \in [Sessions -> SUBSET Calls]
    /\ runs \in [Calls -> Nat]

\* What the steps are shown to keep, from less than the whole type invariant.
CallInv == Typed /\ Untold /\ Whereabouts /\ Kept /\ Ran

----------------------------------------------------------------------------
(* The disjuncts of the larger actions.                                    *)

\* What peer_connection may choose, one disjunct for each way.
ChoiceOf(via) ==
    \/ via.how = "refused" /\ via.session = Local
    \/ via.how = "existing" /\ via.session \in Live
    \/ via.how = "raced" /\ via.session \in Live /\ faults < world.faults
    \/ via.how = "adopt" /\ via.session \in (open \cap established) \ Live
    \/ via.how = "dial" /\ via.session \in Sessions /\ Unused(via.session)

\* The step of StartCall that chose a session and found no room.
StartRefused(c, via) ==
    /\ Connect(via)
    /\ outcome' = Told({}, {}, {c})
    /\ queue' = Queued(via, {})
    /\ origin' = MovedTo(Moved(via), via.session)
    /\ UNCHANGED <<pending, transmitted, earlier>>

\* The step of StartCall that queued the frame.
StartQueued(c, via) ==
    /\ via.how \notin {"refused", "raced"}
    /\ Connect(via)
    /\ pending' = pending \cup {c}
    /\ queue' = Queued(via, {c})
    /\ origin' = [MovedTo(Moved(via), via.session) EXCEPT ![c] = via.session]
    /\ UNCHANGED <<outcome, transmitted, earlier>>

\* The step of Retransmit: the copies lost for want of a session or of room
\* end, the others are queued on the chosen one.
Resent(copies, via, lost) ==
    /\ via.how \in {"refused", "raced"} => lost = copies
    /\ Connect(via)
    /\ outcome' = Told({}, lost \cap earlier, lost \ earlier)
    /\ pending' = pending \ lost
    /\ earlier' = earlier \ lost
    /\ queue' = Queued(via, copies \ lost)
    /\ origin' = [c \in Calls |->
                    IF c \in lost THEN Local
                    ELSE MovedTo(Moved(via) \cup copies, via.session)[c]]

\* Every choice of peer_connection is one of the five.
LEMMA ChoiceFacts ==
    ASSUME NEW via \in PeerChoices
    PROVE  ChoiceOf(via)
BY DEF PeerChoices, ChoiceOf, NewSession

\* start_call refuses outright, refuses after choosing a session, or queues.
LEMMA StartCallCases ==
    ASSUME NEW c \in Calls, StartCall(c)
    PROVE  \/ Settle({}, {}, {c}) /\ UNCHANGED <<peerVars, sessionVars, queue, cut, faults>>
           \/ \E via \in PeerChoices : StartRefused(c, via)
           \/ \E via \in PeerChoices : failed = "no" /\ StartQueued(c, via)
BY Zenon DEF StartCall, StartRefused, StartQueued

\* The witnesses of a retransmission.
LEMMA RetransmitCases ==
    ASSUME NEW k \in Sessions, Retransmit(k)
    PROVE  \E via \in PeerChoices : \E lost \in SUBSET (resend[k] \cap Carried(k)) :
                /\ Resent(resend[k] \cap Carried(k), via, lost)
                /\ failed # "no" => lost = resend[k] \cap Carried(k)
<1> DEFINE copies == resend[k] \cap Carried(k)
<1>1. PICK via \in PeerChoices :
        \E lost \in LostCopies(via, copies) :
            /\ Resent(copies, via, lost)
            /\ failed # "no" => lost = copies
  BY Zenon DEF Retransmit, Resent, LostCopies
<1>2. LostCopies(via, copies) \subseteq SUBSET copies
  BY Zenon DEF LostCopies
<1> HIDE DEF copies
<1>3. \E lost \in SUBSET copies :
            /\ Resent(copies, via, lost)
            /\ failed # "no" => lost = copies
  BY <1>1, <1>2, Zenon
<1> QED
  BY <1>3, Zenon DEF copies

----------------------------------------------------------------------------
(* Type correctness.                                                       *)

\* Choosing a session keeps the tables of sessions well typed (peer_connection).
LEMMA ConnectTypes ==
    ASSUME TypeOK, NEW via \in PeerChoices, Connect(via)
    PROVE  /\ open' \subseteq registered'
           /\ registered \subseteq registered'
           /\ registered' \subseteq Sessions
           /\ established' \subseteq registered'
           /\ settled' \subseteq inbound'
           /\ inbound' \subseteq registered'
           /\ selected' \subseteq registered'
           /\ cut' \subseteq registered'
           /\ current' \in registered' \cup {Local}
           /\ candidate' \in registered' \cup {Local}
           /\ stalling' \in {"yes", "no"}
           /\ faults' \in 0 .. world.faults
<1>1. ChoiceOf(via)
  BY ChoiceFacts, Zenon
<1>2. world.faults \in Nat
  BY CallsAssumption, Zenon DEF TypeOK, WorldType
<1> QED
  BY <1>1, <1>2 DEF TypeOK, Connect, ChoiceOf, Live, StallsAfterAdopt

\* Moving and adding frames keeps queues of calls (take_requests, push_request).
LEMMA QueuedTypes ==
    ASSUME TypeOK, NEW via, NEW add \in SUBSET Calls
    PROVE  Queued(via, add) \in [Sessions -> SUBSET Calls]
BY Zenon DEF TypeOK, Queued, Moved

\* The type invariant holds at first.
LEMMA TypeInit == Init => TypeOK
BY CallsAssumption DEF Init, TypeOK, Outcomes, WorldType

\* Every step keeps the type invariant, given what the driver keeps in step: a
\* retransmission would otherwise drop a transmitted call from the table alone.
LEMMA TypeStep ==
    ASSUME TypeOK, Kept, [Next]_vars
    PROVE  TypeOK'
<1> USE DEF TypeOK, callVars, peerVars, sessionVars, frameVars, runtimeVars, serverVars
<1>0. world.faults \in Nat
  BY CallsAssumption, Zenon DEF WorldType
<1>1. ASSUME NEW k \in Sessions, SelectInbound(k)
      PROVE  TypeOK'
  BY <1>1, QueuedTypes DEF SelectInbound, StallsAfterAdopt, MovedTo, Live
<1>2. ASSUME NEW k \in Sessions, Establish(k)
      PROVE  TypeOK'
  BY <1>2, Zenon DEF Establish
<1>3. ASSUME NEW k \in Sessions, TakeFrame(k)
      PROVE  TypeOK'
  BY <1>3 DEF TakeFrame
<1>4. ASSUME NEW k \in Sessions, RefuseFrame(k)
      PROVE  TypeOK'
  BY <1>4 DEF RefuseFrame, Settle, Told, Outcomes
<1>5. ASSUME NEW k \in Sessions, SendFrame(k)
      PROVE  TypeOK'
  BY <1>5 DEF SendFrame
<1>6. ASSUME NEW k \in Sessions, EndConnection(k)
      PROVE  TypeOK'
  <2>1. /\ pending' \subseteq Calls
        /\ transmitted' \subseteq pending'
        /\ earlier' \subseteq pending'
    BY <1>6 DEF EndConnection, Carried, SentAgain, Kept
  <2>2. /\ origin' \in [Calls -> Sessions \cup {Local}]
        /\ outcome' \in [Calls -> Outcomes]
    BY <1>6, Zenon DEF EndConnection, Told, Outcomes
  <2>3. /\ open' \subseteq registered'
        /\ registered' \subseteq Sessions
        /\ established' \subseteq registered'
        /\ settled' \subseteq inbound'
        /\ inbound' \subseteq registered'
        /\ selected' \subseteq registered'
        /\ cut' \subseteq registered'
        /\ current' \in registered' \cup {Local}
        /\ candidate' \in registered' \cup {Local}
        /\ collected' \subseteq registered'
    BY <1>6, Zenon DEF EndConnection, AfterEnd
  <2>4. /\ queue' \in [Sessions -> SUBSET Calls]
        /\ resend' \in [Sessions -> SUBSET Calls]
        /\ closing' \subseteq Sessions
        /\ replies' \subseteq (Sessions \cup {Local}) \X Calls \X Answers
    BY <1>6, Zenon DEF EndConnection, Carried, SentAgain
  <2> QED
    BY <1>6, <2>1, <2>2, <2>3, <2>4, Zenon DEF EndConnection
<1>7. ASSUME NEW k \in Sessions, Retransmit(k)
      PROVE  TypeOK'
  <2> DEFINE copies == resend[k] \cap Carried(k)
  <2>1. PICK via \in PeerChoices, lost \in SUBSET copies :
            /\ Connect(via)
            /\ outcome' = Told({}, lost \cap earlier, lost \ earlier)
            /\ pending' = pending \ lost
            /\ earlier' = earlier \ lost
            /\ queue' = Queued(via, copies \ lost)
            /\ origin' = [c \in Calls |->
                            IF c \in lost THEN Local
                            ELSE MovedTo(Moved(via) \cup copies, via.session)[c]]
    BY <1>7, Zenon DEF Retransmit, LostCopies
  <2>2. via.session \in Sessions \cup {Local}
    BY ChoiceFacts, Zenon DEF ChoiceOf, Live
  <2>3. /\ origin' \in [Calls -> Sessions \cup {Local}]
        /\ outcome' \in [Calls -> Outcomes]
    BY <2>1, <2>2, Zenon DEF Told, Outcomes, MovedTo
  <2>4. queue' \in [Sessions -> SUBSET Calls]
    BY <2>1, QueuedTypes, Zenon DEF Carried
  <2>5. transmitted' \subseteq pending'
    <3>1. ASSUME NEW c \in transmitted \cap Carried(k)
          PROVE  FALSE
      BY <1>7 DEF Retransmit, Kept, Carried, Sessions, Local
    <3> QED
      BY <1>7, <2>1, <3>1, Zenon DEF Retransmit
  <2> QED
    BY <1>7, <2>1, <2>3, <2>4, <2>5, ConnectTypes, Zenon DEF Retransmit
<1>8. ASSUME NEW k \in Sessions \cup {Local}, NEW c \in Calls, Admit(k, c)
      PROVE  TypeOK'
  BY <1>8 DEF Admit
<1>9. ASSUME NEW k \in Sessions \cup {Local}, NEW c \in Calls, Reject(k, c)
      PROVE  TypeOK'
  BY <1>9 DEF Reject, Sent, Answers
<1>10. ASSUME NEW k \in Sessions \cup {Local}, NEW c \in Calls, Answer(k, c)
      PROVE  TypeOK'
  BY <1>10 DEF Answer, Sent, Answers
<1>11. ASSUME NEW k \in Sessions \cup {Local}, NEW c \in Calls, NeverReply(k, c)
      PROVE  TypeOK'
  BY <1>11, ZenonT(60) DEF NeverReply
<1>12. ASSUME NEW k \in Sessions \cup {Local}, NEW c \in Calls, NEW answer \in Answers,
              Complete(k, c, answer)
       PROVE  TypeOK'
  BY <1>12, SMTT(60) DEF Complete, Settle, Told, Outcomes, Retracted, Freed, Left, Awaited
<1>13. CASE Terminate
  BY <1>13, Zenon DEF Terminate, Settle, Told, Outcomes, Retracted, Left
<1>14. CASE CloseAll
  BY <1>14, Zenon DEF CloseAll
<1>15. ASSUME NEW c \in Calls, StartCall(c)
       PROVE  TypeOK'
  <2>1. CASE Settle({}, {}, {c}) /\ UNCHANGED <<peerVars, sessionVars, queue, cut, faults>>
    BY <1>15, <2>1, ZenonT(60) DEF StartCall, Settle, Told, Outcomes
  <2>2. ASSUME NEW via \in PeerChoices, StartRefused(c, via)
        PROVE  TypeOK'
    <3>1. via.session \in Sessions \cup {Local}
      BY ChoiceFacts, Zenon DEF ChoiceOf, Live
    <3>2. /\ origin' \in [Calls -> Sessions \cup {Local}]
          /\ outcome' \in [Calls -> Outcomes]
          /\ queue' \in [Sessions -> SUBSET Calls]
      BY <2>2, <3>1, QueuedTypes, Zenon DEF StartRefused, Told, Outcomes, MovedTo
    <3> QED
      BY <1>15, <2>2, <3>2, ConnectTypes, Zenon DEF StartCall, StartRefused
  <2>3. ASSUME NEW via \in PeerChoices, StartQueued(c, via)
        PROVE  TypeOK'
    <3>1. via.session \in Sessions \cup {Local}
      BY ChoiceFacts, Zenon DEF ChoiceOf, Live
    <3>2. /\ origin' \in [Calls -> Sessions \cup {Local}]
          /\ queue' \in [Sessions -> SUBSET Calls]
      BY <2>3, <3>1, QueuedTypes, Zenon DEF StartQueued, MovedTo
    <3> QED
      BY <1>15, <2>3, <3>2, ConnectTypes, Zenon DEF StartCall, StartQueued
  <2> QED
    BY <1>15, <2>1, <2>2, <2>3, StartCallCases, Zenon
<1>16. ASSUME NEW c \in Calls, StartOwnCall(c)
       PROVE  TypeOK'
  BY <1>16, SMTT(60) DEF StartOwnCall, Settle, Told, Outcomes
<1>17. ASSUME NEW c \in Calls, Abandon(c)
       PROVE  TypeOK'
  BY <1>17, <1>0, SMTT(60) DEF Abandon, Settle, Told, Outcomes, Retracted, Left
<1>18. ASSUME NEW k \in Sessions, FinishAccept(k)
       PROVE  TypeOK'
  BY <1>18, Zenon DEF FinishAccept
<1>19. ASSUME NEW k \in Sessions, Cut(k)
       PROVE  TypeOK'
  BY <1>19, <1>0 DEF Cut
<1>20. ASSUME NEW k \in Sessions, CloseSession(k)
       PROVE  TypeOK'
  BY <1>20, <1>0 DEF CloseSession
<1>21. ASSUME NEW k \in Sessions, Lose(k)
       PROVE  TypeOK'
  BY <1>21, ZenonT(60) DEF Lose
<1>22. CASE BeginShutdown
  BY <1>22, <1>0 DEF BeginShutdown
<1>23. CASE DropDriver
  BY <1>23, <1>0 DEF DropDriver, Settle, Told, Outcomes
<1>24. CASE DestroyEndpoint
  BY <1>24, <1>0 DEF DestroyEndpoint
<1>25. CASE UNCHANGED vars
  BY <1>25, ZenonT(60) DEF vars
<1>26. CASE BeginAccept
  BY <1>26, <1>0 DEF BeginAccept
<1>27. CASE StreamEnd
  BY <1>27, Zenon DEF StreamEnd
<1> QED
  BY <1>1, <1>2, <1>3, <1>4, <1>5, <1>6, <1>7, <1>8, <1>9, <1>10, <1>11, <1>12, <1>13,
     <1>14, <1>15, <1>16, <1>17, <1>18, <1>19, <1>20, <1>21, <1>22, <1>23, <1>24, <1>25,
     <1>26, <1>27, ZenonT(60)
  DEF Next, Progress

-----------------------------------------------------------------------------
\* The steps that queue frames or move them to another session.

\* Moving the frames of the live session to an adopted one, and adding some with
\* no frame elsewhere, keeps every frame in one place (adopt, start_call,
\* retransmit).
LEMMA RequeueKeeps ==
    ASSUME CallInv, NEW via, NEW add \in SUBSET Calls,
           via.session \in registered' \cup {Local},
           queue' = Queued(via, add),
           registered \subseteq registered',
           UNCHANGED <<writer, transmitted, wire, runs>>,
           \A c \in add :
               /\ Unqueued(c)
               /\ c \notin transmitted
               /\ origin'[c] = via.session
               /\ c \in Reliable \/ (runs[c] = 0 /\ OffWire(c)),
           \A c \in pending' \ add :
               /\ c \in pending
               /\ origin'[c] = IF c \in Moved(via) THEN via.session ELSE origin[c]
    PROVE  /\ Placed'
           /\ OneCopy'
           /\ \A c \in Calls \ add : Unqueued(c) => Unqueued(c)'
<1> USE DEF CallInv, Whereabouts, Typed
<1>1. \A c \in Calls, k \in Sessions :
        c \in queue'[k] =>
            \/ c \in queue[k] /\ (via.how = "adopt" => k \notin Live)
            \/ k = via.session /\ c \in Moved(via)
            \/ k = via.session /\ c \in add
  BY Zenon DEF Queued
<1>2. \A c \in Moved(via) : via.how = "adopt" /\ \E k \in Sessions : k \in Live /\ c \in queue[k]
  BY Zenon DEF Moved, Live
<1>3. \A j, k \in Live : j = k
  BY Zenon DEF Live
<1>4. ASSUME NEW c \in Calls \ add, Unqueued(c)
      PROVE  Unqueued(c)'
  BY <1>1, <1>2, <1>4, Zenon DEF Unqueued
<1>5. Placed'
  <2>1. ASSUME NEW c \in pending', NEW k \in Sessions, c \in queue'[k] \cup writer'[k], c \in add
        PROVE  /\ origin'[c] = k
               /\ k \in registered'
               /\ c \notin transmitted'
               /\ ~(c \in queue'[k] /\ c \in writer'[k])
    BY <1>1, <1>2, <2>1 DEF Unqueued, Sessions, Local
  <2>2. ASSUME NEW c \in pending', NEW k \in Sessions, c \in writer'[k], c \notin add
        PROVE  /\ origin'[c] = k
               /\ k \in registered'
               /\ c \notin transmitted'
               /\ c \notin queue'[k]
    BY <1>1, <1>2, <2>2 DEF Placed
  <2>3. ASSUME NEW c \in pending', NEW k \in Sessions, c \in queue'[k], c \notin add
        PROVE  /\ origin'[c] = k
               /\ k \in registered'
               /\ c \notin transmitted'
    BY <1>1, <1>2, <1>3, <2>3, SMTT(60) DEF Placed, Sessions, Local
  <2> QED
    BY <2>1, <2>2, <2>3, ZenonT(60) DEF Placed
<1>6. OneCopy'
  <2>1. ASSUME NEW c \in add \ Reliable, NEW k \in Sessions, c \in queue'[k] \cup writer'[k]
        PROVE  k = via.session /\ c \notin writer'[k]
    BY <1>1, <1>2, <2>1, Zenon DEF Unqueued
  <2>2. ASSUME NEW c \in Calls \ (add \cup Reliable),
               NEW k \in Sessions, c \in queue'[k] \cup writer'[k],
               NEW j \in Sessions, c \in queue'[j] \cup writer'[j]
        PROVE  j = k /\ OffWire(c) /\ ~(c \in queue'[k] /\ c \in writer'[k]) /\ runs[c] = 0
    BY <1>1, <1>2, <1>3, <2>2, SMTT(60) DEF OneCopy, Unqueued
  <2>3. \A c \in Calls : OffWire(c)' <=> OffWire(c)
    BY Zenon DEF OffWire
  <2> QED
    BY <1>4, <2>1, <2>2, <2>3, SMTT(60) DEF OneCopy, Unqueued
<1> QED
  BY <1>4, <1>5, <1>6, Zenon

\* Choosing a session only adds sessions, which nobody waits on yet.
LEMMA ConnectKeeps ==
    ASSUME CallInv, NEW via \in PeerChoices, Connect(via)
    PROVE  /\ via.session \in registered' \cup {Local}
           /\ via.how \notin {"refused", "raced"} => via.session \in selected'
           /\ registered \subseteq registered'
           /\ selected \subseteq selected'
           /\ established' = established
           /\ current' # Local => current' \in selected'
           /\ \A k \in registered' \ registered :
                k \notin closing /\ \A c \in pending : origin[c] # k
<1> USE DEF CallInv, Typed, Kept
<1>1. ChoiceOf(via)
  BY ChoiceFacts, Zenon
<1>2. \A k \in Live : k \in registered /\ k \in selected
  BY SMTT(60) DEF Live, Sessions, Local
<1>3. CASE via.how \in {"refused", "existing", "raced"}
  BY <1>1, <1>2, <1>3 DEF Connect, ChoiceOf
<1>4. CASE via.how = "adopt"
  BY <1>1, <1>4, Zenon DEF Connect, ChoiceOf
<1>5. CASE via.how = "dial"
  BY <1>1, <1>5, Zenon DEF Connect, ChoiceOf, Unused
<1> QED
  BY <1>1, <1>3, <1>4, <1>5, Zenon DEF ChoiceOf

\* A new call is refused or queued (start_call).
LEMMA StepStartCall ==
    ASSUME CallInv, NEW c \in Calls, StartCall(c)
    PROVE  (Untold /\ Whereabouts /\ Kept /\ Ran)'
<1> USE DEF CallInv, Whereabouts, Typed, serverVars
<1>1. /\ c \notin pending /\ outcome[c] = "none"
      /\ c \notin OwnCalls
      /\ UNCHANGED <<writer, closing, resend, wire, serving, replies, runs>>
  BY CallsAssumption, Zenon DEF StartCall, New
<1>2. runs[c] = 0 /\ Unqueued(c) /\ OffWire(c) /\ Unserved(c)
  BY <1>1, Zenon DEF NeverLeft
<1>3. CASE Settle({}, {}, {c}) /\ UNCHANGED <<peerVars, sessionVars, queue, cut, faults>>
  <2>1. pending' = pending /\ transmitted' = transmitted /\ earlier' = earlier /\ queue' = queue
    BY <1>1, <1>3, ZenonT(60) DEF Settle
  <2>2. \A d \in Calls \ {c} : outcome'[d] = outcome[d]
    BY <1>3, Zenon DEF Settle, Told
  <2>3. \A d \in Calls \ {c} : origin'[d] = origin[d]
    BY <1>3, Zenon DEF Settle
  <2>4. Untold' /\ NeverLeft' /\ NotSent' /\ Placed'
    BY <1>1, <1>2, <1>3, <2>1, <2>2, <2>3, SMTT(60)
    DEF Untold, NeverLeft, NotSent, Placed, Fresh, Unqueued, OffWire, Unserved, sessionVars
  <2>5. SentOnce' /\ OneCopy' /\ Ran'
    BY <1>1, <2>1, SMTT(60) DEF SentOnce, OneCopy, Ran, Fresh, Unqueued, OffWire, Unserved
  <2>6. Kept'
    BY <1>1, <1>3, <2>1, <2>3, SMTT(60) DEF Kept, Calls, peerVars, sessionVars
  <2> QED
    BY <2>4, <2>5, <2>6, Zenon
<1>4. ASSUME NEW via \in PeerChoices, StartRefused(c, via)
      PROVE  (Untold /\ Whereabouts /\ Kept /\ Ran)'
  <2>1. /\ UNCHANGED <<pending, transmitted, earlier>>
        /\ \A d \in Calls \ {c} : outcome'[d] = outcome[d]
        /\ \A d \in pending : origin'[d] = IF d \in Moved(via) THEN via.session ELSE origin[d]
        /\ \A d \in Calls \ (pending \cup {c}) : origin'[d] = origin[d]
        /\ queue' = Queued(via, {})
        /\ Connect(via)
    BY <1>1, <1>4, ZenonT(60) DEF StartRefused, Told, MovedTo
  <2>2. Placed' /\ OneCopy' /\ \A d \in Calls \ {} : Unqueued(d) => Unqueued(d)'
    <3>1. /\ via.session \in registered' \cup {Local}
          /\ registered \subseteq registered'
      BY <2>1, ConnectKeeps, Zenon
    <3>2. \A d \in pending' \ {} :
              /\ d \in pending
              /\ origin'[d] = IF d \in Moved(via) THEN via.session ELSE origin[d]
      BY <2>1, Zenon
    <3>3. UNCHANGED <<writer, transmitted, wire, runs>>
      BY <1>1, <2>1, SMTT(60)
    <3>4. /\ {} \in SUBSET Calls
          /\ \A d \in {} :
                /\ Unqueued(d)
                /\ d \notin transmitted
                /\ origin'[d] = via.session
                /\ d \in Reliable \/ (runs[d] = 0 /\ OffWire(d))
      BY Zenon
    <3> QED
      BY <2>1, <3>1, <3>2, <3>3, <3>4, RequeueKeeps, ZenonT(60)
  <2>3. Untold' /\ NeverLeft' /\ NotSent'
    BY <1>1, <1>2, <2>1, <2>2, ZenonT(60) DEF Untold, NeverLeft, NotSent, Fresh, OffWire, Unserved
  <2>4. SentOnce' /\ Ran'
    BY <1>1, <2>1, SMTT(60) DEF SentOnce, Ran, Fresh, OffWire, Unserved
  <2>5. \A d \in Moved(via) \cap pending : d \notin transmitted
    BY Zenon DEF Moved, Live, Placed
  <2>6. \A d \in Moved(via) : via.how = "adopt"
    BY Zenon DEF Moved
  <2>7. Kept'
    BY <1>1, <2>1, <2>5, <2>6, ConnectKeeps DEF Kept, Calls
  <2> QED
    BY <2>2, <2>3, <2>4, <2>7, Zenon
<1>5. ASSUME NEW via \in PeerChoices, StartQueued(c, via)
      PROVE  (Untold /\ Whereabouts /\ Kept /\ Ran)'
  <2>1. /\ UNCHANGED <<outcome, transmitted, earlier>>
        /\ pending' = pending \cup {c}
        /\ origin'[c] = via.session
        /\ \A d \in pending : origin'[d] = IF d \in Moved(via) THEN via.session ELSE origin[d]
        /\ \A d \in Calls \ (pending \cup {c}) : origin'[d] = origin[d]
        /\ queue' = Queued(via, {c})
        /\ Connect(via)
        /\ via.how \notin {"refused", "raced"}
    BY <1>1, <1>5, ZenonT(60) DEF StartQueued, MovedTo
  <2>2. Placed' /\ OneCopy' /\ \A d \in Calls \ {c} : Unqueued(d) => Unqueued(d)'
    <3>1. /\ via.session \in registered' \cup {Local}
          /\ registered \subseteq registered'
      BY <2>1, ConnectKeeps, Zenon
    <3>2. \A d \in {c} :
              /\ Unqueued(d)
              /\ d \notin transmitted
              /\ origin'[d] = via.session
              /\ d \in Reliable \/ (runs[d] = 0 /\ OffWire(d))
      BY <1>1, <1>2, <2>1, Zenon
    <3>3. \A d \in pending' \ {c} :
              /\ d \in pending
              /\ origin'[d] = IF d \in Moved(via) THEN via.session ELSE origin[d]
      BY <2>1, Zenon
    <3>4. {c} \in SUBSET Calls /\ UNCHANGED <<writer, transmitted, wire, runs>>
      BY <1>1, <2>1, SMTT(60)
    <3> QED
      BY <2>1, <3>1, <3>2, <3>3, <3>4, RequeueKeeps, ZenonT(60)
  <2>3. Untold' /\ NeverLeft' /\ NotSent'
    BY <1>1, <1>2, <2>1, <2>2, Zenon DEF Untold, NeverLeft, NotSent, Fresh, OffWire, Unserved
  <2>4. SentOnce' /\ Ran'
    BY <1>1, <1>2, <2>1, SMTT(60) DEF SentOnce, Ran, Fresh, OffWire, Unserved
  <2>5. \A d \in Moved(via) \cap pending : d \notin transmitted
    BY Zenon DEF Moved, Live, Placed
  <2>6. \A d \in Moved(via) : via.how = "adopt"
    BY Zenon DEF Moved
  <2>7. Kept'
    BY <1>1, <2>1, <2>5, <2>6, ConnectKeeps, ZenonT(60) DEF Kept, Calls
  <2> QED
    BY <2>2, <2>3, <2>4, <2>7, Zenon
<1> QED
  BY <1>3, <1>4, <1>5, StartCallCases, Zenon

\* An accepted session is selected and adopted (select_inbound).
LEMMA StepSelectInbound ==
    ASSUME CallInv, NEW k \in Sessions, SelectInbound(k)
    PROVE  (Untold /\ Whereabouts /\ Kept /\ Ran)'
<1> USE DEF CallInv, Whereabouts, Typed, serverVars
<1> DEFINE via == [how |-> "adopt", session |-> k]
<1>1. /\ k \in registered
      /\ UNCHANGED <<pending, transmitted, earlier, outcome, registered, established,
                     writer, closing, resend, wire, serving, replies, runs>>
  BY Zenon DEF SelectInbound
<1>2. CASE UNCHANGED <<selected, current, queue, origin>>
  <2>1. Untold' /\ NeverLeft' /\ NotSent' /\ Placed'
    BY <1>1, <1>2, Zenon DEF Untold, NeverLeft, NotSent, Placed, Fresh, Unqueued, OffWire, Unserved
  <2>2. SentOnce' /\ OneCopy' /\ Ran' /\ Kept'
    BY <1>1, <1>2, SMTT(60) DEF SentOnce, OneCopy, Ran, Kept, Fresh, Unqueued, OffWire, Unserved
  <2> QED
    BY <2>1, <2>2, Zenon
<1>3. CASE /\ selected' = selected \cup {k}
           /\ current' = k
           /\ queue' = Queued(via, {})
           /\ origin' = MovedTo(Moved(via), k)
  <2>1. /\ \A d \in pending : origin'[d] = IF d \in Moved(via) THEN via.session ELSE origin[d]
        /\ \A d \in Calls \ pending : origin'[d] = origin[d]
    BY <1>3, Zenon DEF MovedTo
  <2>2. \A d \in Moved(via) \cap pending : d \notin transmitted
    BY Zenon DEF Moved, Live, Placed
  <2>3. via.session \in registered' \cup {Local} /\ queue' = Queued(via, {})
    BY <1>1, <1>3, Zenon
  <2>4. Kept'
    BY <1>1, <1>3, <2>1, <2>2, ZenonT(60) DEF Kept, Calls
  <2> HIDE DEF via
  <2>5. Placed' /\ OneCopy' /\ \A d \in Calls \ {} : Unqueued(d) => Unqueued(d)'
    <3>1. \A d \in pending' \ {} :
              /\ d \in pending
              /\ origin'[d] = IF d \in Moved(via) THEN via.session ELSE origin[d]
      BY <1>1, <2>1, Zenon
    <3>2. registered \subseteq registered' /\ UNCHANGED <<writer, transmitted, wire, runs>>
      BY <1>1, SMT
    <3>3. /\ {} \in SUBSET Calls
          /\ \A d \in {} :
                /\ Unqueued(d)
                /\ d \notin transmitted
                /\ origin'[d] = via.session
                /\ d \in Reliable \/ (runs[d] = 0 /\ OffWire(d))
      BY Zenon
    <3> QED
      BY <2>3, <3>1, <3>2, <3>3, RequeueKeeps, Zenon
  <2>6. Untold' /\ NeverLeft' /\ NotSent'
    BY <1>1, <2>5, Zenon DEF Untold, NeverLeft, NotSent, Fresh, OffWire, Unserved
  <2>7. SentOnce' /\ Ran'
    BY <1>1, Zenon DEF SentOnce, Ran, Fresh, OffWire, Unserved
  <2> QED
    BY <2>4, <2>5, <2>6, <2>7, Zenon
<1> QED
  BY <1>2, <1>3, Zenon DEF SelectInbound, peerVars

\* Copies of reliable calls are queued again, or end (retransmit).
LEMMA StepRetransmit ==
    ASSUME CallInv, NEW k \in Sessions, Retransmit(k)
    PROVE  (Untold /\ Whereabouts /\ Kept /\ Ran)'
<1> USE DEF CallInv, Whereabouts, Typed, serverVars
<1> DEFINE copies == resend[k] \cap Carried(k)
<1>1. PICK via \in PeerChoices, lost \in SUBSET copies : Resent(copies, via, lost)
  BY RetransmitCases, Zenon
<1>2. /\ k \in closing
      /\ closing' = closing \ {k}
      /\ resend' = [resend EXCEPT ![k] = {}]
      /\ UNCHANGED <<transmitted, writer, wire, serving, replies, runs>>
  BY Zenon DEF Retransmit
<1>3. \A c \in copies : /\ c \in pending /\ c \in Reliable /\ origin[c] = k
                        /\ c \notin transmitted /\ Unqueued(c)
  BY <1>2 DEF Carried, Kept, Placed, Unqueued, Sessions, Local
<1>4. \A c \in lost \ earlier : runs[c] = 0 /\ OffWire(c)
  BY <1>3, Zenon DEF NotSent, Fresh
<1>5. \A c \in pending' \ (copies \ lost) :
        /\ c \in pending
        /\ origin'[c] = IF c \in Moved(via) THEN via.session ELSE origin[c]
  BY <1>1, Zenon DEF MovedTo, Resent
<1>6. \A c \in copies \ lost : origin'[c] = via.session
  BY <1>1, <1>3, Zenon DEF MovedTo, Resent
<1>7. \A c \in Calls \ lost : outcome'[c] = outcome[c]
  BY <1>1, Zenon DEF Told, Resent
<1>8. \A c \in lost : /\ c \in earlier => outcome'[c] = "maybe"
                      /\ c \notin earlier => outcome'[c] = "not_admitted"
  BY <1>1, Zenon DEF Told, Resent
<1>9. copies \in SUBSET Calls
  BY <1>3, Zenon
<1>10. \A d \in Moved(via) \cap pending : d \notin transmitted
  BY Zenon DEF Moved, Live, Placed
<1>11. \A d \in Moved(via) : via.how = "adopt"
  BY Zenon DEF Moved
<1> HIDE DEF copies
<1>12. /\ via.session \in registered' \cup {Local}
       /\ queue' = Queued(via, copies \ lost)
       /\ registered \subseteq registered'
  BY <1>1, ConnectKeeps, Zenon DEF Resent
<1>13. \A c \in copies \ lost :
        /\ Unqueued(c)
        /\ c \notin transmitted
        /\ origin'[c] = via.session
        /\ c \in Reliable \/ (runs[c] = 0 /\ OffWire(c))
  BY <1>3, <1>6, Zenon
<1>14. Placed' /\ OneCopy' /\ \A d \in Calls \ (copies \ lost) : Unqueued(d) => Unqueued(d)'
  BY <1>2, <1>5, <1>9, <1>12, <1>13, RequeueKeeps, Zenon
<1>15. Untold'
  BY <1>1, <1>7, Zenon DEF Untold, Resent
<1>16. NeverLeft'
  BY <1>1, <1>2, <1>3, <1>4, <1>7, <1>8, <1>14, ZenonT(60) DEF NeverLeft, OffWire, Unserved, Resent
<1>17. NotSent' /\ SentOnce' /\ Ran'
  <2>1. Fresh' \subseteq Fresh
    BY <1>1, Zenon DEF Fresh, Resent
  <2>2. NotSent'
    BY <1>2, <2>1, ZenonT(60) DEF NotSent, OffWire, Unserved
  <2>3. SentOnce'
    BY <1>2, <2>1, ZenonT(60) DEF SentOnce, OffWire, Unserved
  <2>4. Ran'
    BY <1>2, Zenon DEF Ran
  <2> QED
    BY <2>2, <2>3, <2>4, Zenon
<1>18. Kept'
  <2>1. Connect(via) /\ pending' = pending \ lost /\ earlier' = earlier \ lost
    BY <1>1, Zenon DEF Resent
  <2>2. \A c \in pending' : origin'[c] \in registered' => origin'[c] \in selected'
    BY <1>1, <1>3, <1>5, <1>6, <1>11, <2>1, ConnectKeeps, Zenon DEF Kept, Resent
  <2>3. \A c \in transmitted' : origin'[c] # Local => origin'[c] \in established'
    BY <1>2, <1>3, <1>5, <1>10, <2>1, ConnectKeeps, Zenon DEF Kept
  <2>4. \A c \in OwnCalls : origin'[c] = Local /\ (c \in pending' => c \in transmitted')
    <3>1. \A c \in Calls \ pending' : origin'[c] \in {origin[c], Local}
      BY <1>1, <2>1, Zenon DEF Resent, MovedTo
    <3> QED
      BY <1>2, <1>3, <1>5, <1>10, <2>1, <3>1, CallsAssumption, Zenon DEF Kept, Calls
  <2>5. closing' \cap registered' = {} /\ (current' # Local => current' \in selected')
    BY <1>2, <2>1, ConnectKeeps, Zenon DEF Kept
  <2>6. \A j \in Sessions : writer'[j] # {} => j \in established'
    BY <1>2, <2>1, ConnectKeeps, Zenon DEF Kept
  <2>7. earlier' \subseteq Reliable /\ \A j \in Sessions : resend'[j] \subseteq Reliable
    BY <1>2, <2>1, ZenonT(60) DEF Kept
  <2> QED
    BY <2>2, <2>3, <2>4, <2>5, <2>6, <2>7, Zenon DEF Kept
<1> QED
  BY <1>14, <1>15, <1>16, <1>17, <1>18, Zenon

-----------------------------------------------------------------------------
\* The end of a session, and the steps of a server.

\* The end of a session settles the calls it carried that are not sent again:
\* only those no writer sent are told NotAdmitted (close_connection).
LEMMA StepEndConnection ==
    ASSUME CallInv, NEW k \in Sessions, EndConnection(k)
    PROVE  (Untold /\ Whereabouts /\ Kept /\ Ran)'
<1> USE DEF CallInv, Whereabouts, Typed
<1> DEFINE again == SentAgain(k)
           lost == Carried(k) \ again
           maybe == MayHaveRun(k)
<1>1. /\ outcome' = Told({}, maybe, lost \ maybe)
      /\ pending' = pending \ lost
      /\ transmitted' = transmitted \ Carried(k)
      /\ earlier' = earlier \cup (again \cap transmitted)
      /\ origin' = [c \in Calls |-> IF c \in lost THEN Local ELSE origin[c]]
      /\ resend' = [resend EXCEPT ![k] = again]
      /\ closing' \subseteq closing \cup {k}
  BY Zenon DEF EndConnection
<1>2. /\ k \in registered
      /\ writer[k] = {}
      /\ registered' = registered \ {k}
      /\ established' = established \ {k}
      /\ selected' = selected \ {k}
      /\ current' = IF current = k THEN Local ELSE current
      /\ queue' = [queue EXCEPT ![k] = {}]
      /\ replies' \subseteq replies
      /\ UNCHANGED <<writer, wire, serving, runs>>
  BY Zenon DEF EndConnection, AfterEnd
<1>3. k # Local
  BY DEF Sessions, Local
<1>4. again = Carried(k) \cap Reliable
  BY <1>2 DEF SentAgain, Carried, Kept
<1>5. maybe = Carried(k) \cap (transmitted \ Reliable)
  BY <1>3, <1>4 DEF MayHaveRun, Carried, Kept
<1>6. \A c \in Carried(k) : c \in pending /\ origin[c] = k
  BY Zenon DEF Carried
<1>7. \A c \in lost \ maybe : runs[c] = 0 /\ OffWire(c) /\ Unqueued(c)'
  <2>1. ASSUME NEW c \in lost \ maybe
        PROVE  c \in Fresh \ transmitted /\ origin[c] = k
    BY <1>4, <1>5, <1>6, <2>1, Zenon DEF Kept, Fresh
  <2>2. ASSUME NEW c \in lost \ maybe
        PROVE  Unqueued(c)'
    BY <1>2, <2>1, <2>2 DEF Placed, Unqueued, Fresh
  <2> QED
    BY <2>1, <2>2, Zenon DEF NotSent
<1>8. \A c \in Calls \ lost : outcome'[c] = outcome[c] /\ origin'[c] = origin[c]
  BY <1>1, <1>4, <1>5, Zenon DEF Told
<1>9. \A c \in lost : outcome'[c] = IF c \in maybe THEN "maybe" ELSE "not_admitted"
  BY <1>1, <1>6, Zenon DEF Told
<1> HIDE DEF again, lost, maybe
<1>10. Untold'
  BY <1>1, <1>8, Zenon DEF Untold
<1>11. NeverLeft'
  <2>1. ASSUME NEW c \in Calls \ pending', outcome'[c] \in {"none", "not_admitted"}
        PROVE  /\ runs'[c] = 0 /\ Unqueued(c)' /\ OffWire(c)'
               /\ outcome'[c] = "none" => Unserved(c)'
    <3>1. CASE c \in lost
      BY <1>2, <1>7, <1>9, <2>1, <3>1, Zenon DEF OffWire
    <3>2. CASE c \notin lost
      <4>1. c \notin pending /\ outcome'[c] = outcome[c]
        BY <1>1, <1>8, <2>1, <3>2, Zenon
      <4>2. Unqueued(c) => Unqueued(c)'
        BY <1>2, Zenon DEF Unqueued
      <4>3. (OffWire(c) => OffWire(c)') /\ (Unserved(c) => Unserved(c)')
        BY <1>2, Zenon DEF OffWire, Unserved
      <4> QED
        BY <1>2, <2>1, <4>1, <4>2, <4>3, Zenon DEF NeverLeft
    <3> QED
      BY <3>1, <3>2, Zenon
  <2> QED
    BY <2>1, Zenon DEF NeverLeft
<1>12. \A c \in Fresh' : c \in Fresh /\ (c \in transmitted => c \in transmitted')
  BY <1>1, <1>4, <1>6, Zenon DEF Fresh, lost
<1>13. \A c \in Calls : (Unserved(c) => Unserved(c)') /\ (OffWire(c) => OffWire(c)')
  BY <1>2, Zenon DEF OffWire, Unserved
<1>14. NotSent'
  BY <1>2, <1>12, <1>13, Zenon DEF NotSent, Fresh
<1>15. SentOnce'
  BY <1>2, <1>12, <1>13, Zenon DEF SentOnce, Fresh
<1>16. Placed'
  BY <1>1, <1>2, <1>8, Zenon DEF Placed
<1>17. OneCopy'
  BY <1>2 DEF OneCopy, Unqueued, OffWire
<1>18. Ran'
  BY <1>2, Zenon DEF Ran
<1>19. Kept'
  <2>1. \A c \in pending' : origin'[c] \in registered' => origin'[c] \in selected'
    BY <1>1, <1>2, <1>8, Zenon DEF Kept
  <2>2. \A c \in transmitted' : origin'[c] # Local => origin'[c] \in established'
    BY <1>1, <1>2, <1>8, ZenonT(60) DEF Kept, Carried, lost
  <2>3. \A c \in OwnCalls : origin'[c] = Local /\ (c \in pending' => c \in transmitted')
    BY <1>1, <1>2, <1>3, <1>6, <1>8, SMTT(60) DEF Kept, Calls, lost
  <2>4. earlier' \subseteq Reliable /\ \A j \in Sessions : resend'[j] \subseteq Reliable
    BY <1>1, <1>4, Zenon DEF Kept
  <2> QED
    BY <1>1, <1>2, <2>1, <2>2, <2>3, <2>4, Zenon DEF Kept
<1> QED
  BY <1>10, <1>11, <1>14, <1>15, <1>16, <1>17, <1>18, <1>19, Zenon

\* A call to this runtime is handed over at once (start_call).
LEMMA StepStartOwnCall ==
    ASSUME CallInv, NEW c \in Calls, StartOwnCall(c)
    PROVE  (Untold /\ Whereabouts /\ Kept /\ Ran)'
<1> USE DEF CallInv, Whereabouts, Typed
<1>1. /\ c \notin pending /\ outcome[c] = "none" /\ c \in OwnCalls
      /\ UNCHANGED <<registered, established, selected, current, queue, writer, closing,
                     resend, serving, replies, runs>>
  BY Zenon DEF StartOwnCall, New, peerVars, sessionVars, frameVars
<1>2. runs[c] = 0 /\ Unqueued(c) /\ OffWire(c) /\ Unserved(c)
  BY <1>1, Zenon DEF NeverLeft
<1>3. CASE Settle({}, {}, {c}) /\ UNCHANGED wire
  <2>1. pending' = pending /\ transmitted' = transmitted /\ earlier' = earlier
    BY <1>1, <1>3, Zenon DEF Settle
  <2>2. \A d \in Calls \ {c} : outcome'[d] = outcome[d] /\ origin'[d] = origin[d]
    BY <1>3, ZenonT(60) DEF Settle, Told
  <2>3. Untold' /\ NeverLeft' /\ NotSent' /\ Placed'
    BY <1>1, <1>2, <1>3, <2>1, <2>2, SMTT(60)
    DEF Untold, NeverLeft, NotSent, Placed, Fresh, Unqueued, OffWire, Unserved
  <2>4. SentOnce' /\ OneCopy' /\ Ran'
    BY <1>1, <1>3, <2>1, ZenonT(60) DEF SentOnce, OneCopy, Ran, Fresh, Unqueued, OffWire, Unserved
  <2>5. Kept'
    <3>1. origin'[c] = Local
      BY <1>3, Zenon DEF Settle
    <3> QED
      BY <1>1, <2>1, <2>2, <3>1, Zenon DEF Kept, Calls
  <2> QED
    BY <2>3, <2>4, <2>5, Zenon
<1>4. CASE /\ pending' = pending \cup {c}
           /\ transmitted' = transmitted \cup {c}
           /\ wire' = wire \cup {<<Local, c>>}
           /\ UNCHANGED <<origin, earlier, outcome>>
  <2>1. origin[c] = Local /\ c \notin Reliable /\ c \notin earlier
    BY <1>1, CallsAssumption, Zenon DEF Kept
  <2>2. \A d \in Calls \ {c} : OffWire(d)' <=> OffWire(d)
    BY <1>4, Zenon DEF OffWire
  <2>3. Untold' /\ NeverLeft' /\ NotSent' /\ Placed'
    BY <1>1, <1>2, <1>4, <2>2, SMTT(60)
    DEF Untold, NeverLeft, NotSent, Placed, Fresh, Unqueued, Unserved
  <2>4. SentOnce' /\ Ran'
    <3>1. \A d \in Fresh' : d # c => d \in Fresh /\ (d \in transmitted' => d \in transmitted)
      BY <1>4, Zenon DEF Fresh
    <3>2. Ran'
      BY <1>1, Zenon DEF Ran
    <3>3. Unserved(c)' /\ runs'[c] = 0 /\ \A d \in Calls : Unserved(d)' <=> Unserved(d)
      BY <1>1, <1>2, Zenon DEF Unserved
    <3>4. \A k \in Anywhere : <<k, c>> \in wire' => k = Local
      BY <1>2, <1>4, Zenon DEF OffWire
    <3>5. \A k \in Anywhere, d \in Calls : d # c => (<<k, d>> \in wire' <=> <<k, d>> \in wire)
      BY <1>4, Zenon
    <3>6. \A d \in Fresh' : d \in Calls
      BY <1>4, Zenon DEF Fresh
    <3>7. \A k \in Anywhere, a \in {"rejected", "gone"} : <<k, c, a>> \notin replies'
      BY <1>1, <1>2, Zenon DEF Unserved, Answers
    <3> QED
      BY <1>1, <2>2, <3>1, <3>2, <3>3, <3>4, <3>5, <3>6, <3>7, ZenonT(60) DEF SentOnce
  <2>5. OneCopy'
    BY <1>1, <1>2, <1>4, <2>2, SMTT(60) DEF OneCopy, Unqueued, OffWire
  <2>6. Kept'
    <3>1. Local \notin registered
      BY DEF Sessions, Local
    <3>2. \A d \in pending' : origin'[d] \in registered' => origin'[d] \in selected'
      BY <1>1, <1>4, <2>1, <3>1, Zenon DEF Kept
    <3>3. \A d \in transmitted' : origin'[d] # Local => origin'[d] \in established'
      BY <1>1, <1>4, <2>1, Zenon DEF Kept
    <3>4. \A d \in OwnCalls : origin'[d] = Local /\ (d \in pending' => d \in transmitted')
      BY <1>1, <1>4, Zenon DEF Kept
    <3> QED
      BY <1>1, <1>4, <3>2, <3>3, <3>4, Zenon DEF Kept
  <2> QED
    BY <2>3, <2>4, <2>5, <2>6, Zenon
<1> QED
  BY <1>3, <1>4, Zenon DEF StartOwnCall

\* What a server does with a frame and a call (admit, deliver).
LEMMA StepServer ==
    ASSUME CallInv, NEW k \in Anywhere, NEW c \in Calls,
           Admit(k, c) \/ Reject(k, c) \/ Answer(k, c) \/ NeverReply(k, c)
    PROVE  (Untold /\ Whereabouts /\ Kept /\ Ran)'
<1> USE DEF CallInv, Whereabouts, Typed
<1>1. UNCHANGED <<pending, origin, transmitted, earlier, outcome, registered, established,
                  selected, current, queue, writer, closing, resend>>
  BY Zenon DEF Admit, Reject, Answer, NeverReply, callVars, peerVars, sessionVars, frameVars
<1>2. Untold' /\ Placed' /\ Kept'
  BY <1>1, Zenon DEF Untold, Placed, Kept
<1>3. wire' \subseteq wire
  BY Zenon DEF Admit, Reject, Answer, NeverReply
<1>4. \A d \in Calls : (Unqueued(d) => Unqueued(d)') /\ (OffWire(d) => OffWire(d)')
  BY <1>1, <1>3, Zenon DEF Unqueued, OffWire
<1>5. CASE Admit(k, c)
  <2>1. /\ <<k, c>> \in wire
        /\ wire' = wire \ {<<k, c>>}
        /\ serving' = serving \cup {<<k, c>>}
        /\ runs' = [runs EXCEPT ![c] = runs[c] + 1]
        /\ replies' = replies
    BY <1>5, Zenon DEF Admit
  <2>2. ~OffWire(c)
    BY <2>1, Zenon DEF OffWire
  <2>3. \A d \in Calls \ {c} : Unserved(d) => Unserved(d)'
    BY <2>1, Zenon DEF Unserved
  <2>4. NeverLeft' /\ NotSent'
    BY <1>1, <1>4, <2>1, <2>2, <2>3, Zenon DEF NeverLeft, NotSent, Fresh
  <2>5. c \in Fresh => OffWire(c)'
    BY <2>1, Zenon DEF SentOnce, OffWire
  <2>6. c \in Fresh => Unserved(c)
    BY <2>1, Zenon DEF SentOnce
  <2>7. SentOnce'
    BY <1>1, <1>4, <2>1, <2>3, <2>5, <2>6, ZenonT(60) DEF SentOnce, Fresh, OffWire, Unserved, Answers
  <2>8. c \notin Reliable => runs[c] = 0 /\ Unqueued(c) /\ OffWire(c)'
    BY <2>1, <2>2 DEF OneCopy, Unqueued, OffWire
  <2>9. OneCopy'
    BY <1>1, <1>4, <2>1, <2>8, SMTT(60) DEF OneCopy, Unqueued
  <2>10. Ran'
    BY <2>1 DEF Ran
  <2> QED
    BY <1>2, <2>4, <2>7, <2>9, <2>10, Zenon
<1>6. CASE Reject(k, c)
  <2>1. /\ <<k, c>> \in wire
        /\ wire' = wire \ {<<k, c>>}
        /\ replies' \subseteq replies \cup {<<k, c, "rejected">>, <<k, c, "gone">>}
        /\ UNCHANGED <<serving, runs>>
    BY <1>6, Zenon DEF Reject, Sent
  <2>2. ~OffWire(c)
    BY <2>1, Zenon DEF OffWire
  <2>3. \A d \in Calls \ {c} : Unserved(d) => Unserved(d)'
    BY <2>1, Zenon DEF Unserved
  <2>4. NeverLeft' /\ NotSent'
    BY <1>1, <1>4, <2>1, <2>2, <2>3, Zenon DEF NeverLeft, NotSent, Fresh
  <2>5. c \in Fresh => OffWire(c)' /\ runs[c] = 0
    BY <2>1, Zenon DEF SentOnce, OffWire
  <2>6. SentOnce'
    <3>1. ASSUME NEW d \in Fresh', NEW j \in Anywhere, <<j, d>> \in wire'
          PROVE  runs'[d] = 0 /\ Unserved(d)' /\ \A i \in Anywhere : <<i, d>> \in wire' => i = j
      BY <1>1, <1>3, <2>1, <2>3, <2>5, <3>1, Zenon DEF SentOnce, Fresh, OffWire
    <3>2. ASSUME NEW d \in Fresh', NEW j \in Anywhere, NEW a \in {"rejected", "gone"},
                 <<j, d, a>> \in replies'
          PROVE  runs'[d] = 0 /\ OffWire(d)'
      <4>1. d \in Fresh
        BY <1>1, Zenon DEF Fresh
      <4>2. CASE d = c
        BY <2>1, <2>5, <4>1, <4>2, Zenon
      <4>3. CASE d # c
        <5>1. <<j, d, a>> \in replies
          BY <2>1, <3>2, <4>3, Zenon
        <5>2. runs[d] = 0 /\ OffWire(d)
          BY <4>1, <5>1, Zenon DEF SentOnce
        <5> QED
          BY <1>4, <2>1, <4>1, <5>2, Zenon DEF Fresh
      <4> QED
        BY <4>2, <4>3, Zenon
    <3> QED
      BY <3>1, <3>2, Zenon DEF SentOnce
  <2>7. OneCopy'
    BY <1>1, <1>4, <2>1, Zenon DEF OneCopy, Unqueued
  <2>8. Ran'
    BY <2>1, Zenon DEF Ran
  <2> QED
    BY <1>2, <2>4, <2>6, <2>7, <2>8, Zenon
<1>7. CASE Answer(k, c) \/ NeverReply(k, c)
  <2>1. /\ <<k, c>> \in serving
        /\ serving' \subseteq serving
        /\ replies' \subseteq replies \cup {<<k, c, "reply">>, <<k, c, "broken">>}
        /\ UNCHANGED <<wire, runs>>
    BY <1>7, Zenon DEF Answer, NeverReply, Sent
  <2>2. ~Unserved(c) /\ runs[c] > 0
    BY <2>1, Zenon DEF Unserved, Ran
  <2>3. \A d \in Calls \ {c} : Unserved(d) => Unserved(d)'
    BY <2>1, Zenon DEF Unserved
  <2>4. NeverLeft' /\ NotSent'
    BY <1>1, <1>4, <2>1, <2>2, <2>3, Zenon DEF NeverLeft, NotSent, Fresh
  <2>5. SentOnce'
    <3>1. Fresh' = Fresh
      BY <1>1, Zenon DEF Fresh
    <3>2. ASSUME NEW d \in Fresh, NEW j \in Anywhere, <<j, d>> \in wire
          PROVE  /\ runs[d] = 0 /\ Unserved(d)'
                 /\ \A i \in Anywhere : <<i, d>> \in wire => i = j
      <4>1. runs[d] = 0 /\ Unserved(d) /\ \A i \in Anywhere : <<i, d>> \in wire => i = j
        BY <3>2, Zenon DEF SentOnce
      <4> QED
        BY <2>2, <2>3, <4>1, Zenon DEF Fresh
    <3>3. ASSUME NEW d \in Fresh, NEW j \in Anywhere, NEW a \in {"rejected", "gone"},
                 <<j, d, a>> \in replies'
          PROVE  runs[d] = 0 /\ OffWire(d)'
      <4>1. <<j, d, a>> \in replies
        BY <2>1, <3>3, Zenon
      <4>2. runs[d] = 0 /\ OffWire(d)
        BY <4>1, Zenon DEF SentOnce
      <4> QED
        BY <1>4, <4>2, Zenon DEF Fresh
    <3> QED
      BY <2>1, <3>1, <3>2, <3>3, Zenon DEF SentOnce
  <2>6. OneCopy'
    BY <1>1, <1>4, <2>1, Zenon DEF OneCopy, Unqueued
  <2>7. Ran'
    BY <2>1, <2>2, Zenon DEF Ran
  <2> QED
    BY <1>2, <2>4, <2>5, <2>6, <2>7, Zenon
<1> QED
  BY <1>5, <1>6, <1>7, Zenon

-----------------------------------------------------------------------------
\* The steps that settle calls, and those that touch sessions or frames alone.

\* Settling calls keeps the invariant, if each of them that is told NotAdmitted
\* ran nowhere and has no frame left (the paths that remove a call).
LEMMA SettleKeeps ==
    ASSUME CallInv,
           NEW ran \in SUBSET pending, NEW maybe \in SUBSET pending, NEW never \in SUBSET pending,
           Settle(ran, maybe, never),
           \A k \in Sessions : queue'[k] \subseteq queue[k] /\ writer'[k] \subseteq writer[k],
           replies' \subseteq replies,
           UNCHANGED <<peerVars, sessionVars, closing, resend, wire, serving, runs>>,
           \A c \in never \ (ran \cup maybe) : runs[c] = 0 /\ Unqueued(c)' /\ OffWire(c)
    PROVE  (Untold /\ Whereabouts /\ Kept /\ Ran)'
<1> USE DEF CallInv, Whereabouts, Typed, peerVars, sessionVars
<1>1. \A c \in pending' :
        /\ c \in pending
        /\ outcome'[c] = outcome[c]
        /\ origin'[c] = origin[c]
        /\ c \in transmitted' <=> c \in transmitted
        /\ c \in earlier' <=> c \in earlier
  BY Zenon DEF Settle, Told
<1>2. \A c \in Calls \ pending' :
        outcome'[c] \in {"none", "not_admitted"} =>
            \/ c \notin pending /\ outcome'[c] = outcome[c]
            \/ c \in never \ (ran \cup maybe) /\ outcome'[c] # "none"
  BY Zenon DEF Settle, Told
<1>3. Untold'
  BY <1>1, Zenon DEF Untold
<1>4. NeverLeft'
  BY <1>2, ZenonT(60) DEF NeverLeft, Unqueued, OffWire, Unserved, Anywhere
<1>5. NotSent'
  BY <1>1, Zenon DEF NotSent, Fresh, OffWire, Unserved, Anywhere
<1>6. Placed'
  BY <1>1, SMTT(60) DEF Placed
<1>7. SentOnce'
  <2>1. \A c \in Calls : (Unserved(c) => Unserved(c)') /\ (OffWire(c) => OffWire(c)')
    BY Zenon DEF OffWire, Unserved, Anywhere
  <2>2. Fresh' \subseteq Fresh
    BY <1>1, ZenonT(60) DEF Fresh
  <2>3. UNCHANGED <<wire, runs>> /\ replies' \subseteq replies
    OBVIOUS
  <2> QED
    BY <2>1, <2>2, <2>3, Zenon DEF SentOnce, Fresh, Anywhere
<1>8. OneCopy'
  BY ZenonT(60) DEF OneCopy, Unqueued, OffWire, Anywhere
<1>9. Kept'
  <2>1. \A c \in Calls \ pending' : origin'[c] \in {origin[c], Local}
    BY Zenon DEF Settle
  <2>2. transmitted' \subseteq pending' /\ earlier' \subseteq pending'
    BY Zenon DEF Settle
  <2>3. /\ \A c \in pending' : origin'[c] \in registered' => origin'[c] \in selected'
        /\ \A c \in transmitted' : origin'[c] # Local => origin'[c] \in established'
    BY <1>1, <2>2, Zenon DEF Kept
  <2>4. earlier' \subseteq Reliable
    BY <1>1, <2>2, Zenon DEF Kept
  <2>5. \A c \in OwnCalls : origin'[c] = Local /\ (c \in pending' => c \in transmitted')
    BY <1>1, <2>1, Zenon DEF Kept, Calls
  <2> QED
    BY <2>3, <2>4, <2>5, Zenon DEF Kept
<1>10. Ran'
  BY Zenon DEF Ran, Anywhere
<1> QED
  BY <1>3, <1>4, <1>5, <1>6, <1>7, <1>8, <1>9, <1>10, Zenon

\* A frame the writer may not send ends its call (admit_transmit).
LEMMA StepRefuseFrame ==
    ASSUME CallInv, NEW k \in Sessions, RefuseFrame(k)
    PROVE  (Untold /\ Whereabouts /\ Kept /\ Ran)'
<1> USE DEF CallInv, Whereabouts, Typed, serverVars
<1>1. PICK c \in writer[k] : Settle({}, {c} \cap earlier, ({c} \cap pending) \ earlier)
  BY Zenon DEF RefuseFrame
<1>2. \A d \in (({c} \cap pending) \ earlier) \ ({} \cup ({c} \cap earlier)) :
            runs[d] = 0 /\ Unqueued(d)' /\ OffWire(d)
  BY <1>1 DEF RefuseFrame, Placed, NotSent, Fresh, Unqueued
<1>3. \A j \in Sessions : queue'[j] \subseteq queue[j] /\ writer'[j] \subseteq writer[j]
  BY Zenon DEF RefuseFrame
<1> QED
  BY <1>1, <1>2, <1>3, SettleKeeps, SMTT(60) DEF RefuseFrame

\* A caller that leaves withdraws its frame (abandon).
LEMMA StepAbandon ==
    ASSUME CallInv, NEW c \in Calls, Abandon(c)
    PROVE  (Untold /\ Whereabouts /\ Kept /\ Ran)'
<1> USE DEF CallInv, Whereabouts, Typed, serverVars
<1> DEFINE maybe == IF origin[c] \in registered THEN Left({c}) ELSE {c}
<1>1. /\ c \in pending
      /\ Settle({}, maybe, {c} \ maybe)
      /\ queue' = Retracted({c} \ maybe)
  BY Zenon DEF Abandon
<1>2. maybe \in SUBSET pending
  BY <1>1, ZenonT(60) DEF Left
<1>3. \A d \in ({c} \ maybe) \ ({} \cup maybe) : runs[d] = 0 /\ Unqueued(d)' /\ OffWire(d)
  BY <1>1, SMTT(60) DEF Abandon, Placed, NotSent, Fresh, Unqueued, Left, Retracted
<1>4. \A j \in Sessions : queue'[j] \subseteq queue[j] /\ writer'[j] \subseteq writer[j]
  BY <1>1, ZenonT(60) DEF Abandon, Retracted
<1> HIDE DEF maybe
<1> QED
  BY <1>1, <1>2, <1>3, <1>4, SettleKeeps, Zenon DEF Abandon

\* The end of a shutdown settles every call (terminate).
LEMMA StepTerminate ==
    ASSUME CallInv, Terminate
    PROVE  (Untold /\ Whereabouts /\ Kept /\ Ran)'
<1> USE DEF CallInv, Whereabouts, Typed, serverVars
<1>1. Left(pending) \in SUBSET pending
  BY Zenon DEF Left
<1>2. \A d \in (pending \ Left(pending)) \ ({} \cup Left(pending)) :
            runs[d] = 0 /\ Unqueued(d)' /\ OffWire(d)
  BY DEF Terminate, Placed, NotSent, Fresh, Unqueued, Left, Retracted
<1>3. \A j \in Sessions : queue'[j] \subseteq queue[j] /\ writer'[j] \subseteq writer[j]
  BY Zenon DEF Terminate, Retracted
<1> QED
  <2>1. /\ Settle({}, Left(pending), pending \ Left(pending))
        /\ replies' \subseteq replies
        /\ UNCHANGED <<peerVars, sessionVars, closing, resend, wire, serving, runs>>
    BY Zenon DEF Terminate
  <2>2. {} \in SUBSET pending /\ pending \ Left(pending) \in SUBSET pending /\ CallInv
    BY Zenon
  <2> HIDE DEF CallInv, Whereabouts, Typed
  <2> QED
    BY <1>1, <1>2, <1>3, <2>1, <2>2, SettleKeeps, ZenonT(60)

\* A reply settles its call, and frees others if the endpoint is gone (complete).
LEMMA StepComplete ==
    ASSUME CallInv, NEW k \in Anywhere, NEW c \in Calls, NEW answer \in Answers,
           Complete(k, c, answer)
    PROVE  (Untold /\ Whereabouts /\ Kept /\ Ran)'
<1> USE DEF CallInv, Whereabouts, Typed
<1>1. CASE ~Awaited(k, c)
  <2>1. UNCHANGED <<callVars, queue, wire, serving, runs, peerVars, sessionVars, writer,
                    closing, resend>>
    BY <1>1, Zenon DEF Complete
  <2>2. replies' \subseteq replies
    BY Zenon DEF Complete
  <2>3. Settle({}, {}, {})
    BY <2>1, Zenon DEF Settle, Told, callVars
  <2> QED
    BY <2>1, <2>2, <2>3, SettleKeeps, Zenon
<1>2. CASE Awaited(k, c)
  <2> DEFINE gone == answer = "gone" /\ failed = "no"
             freed == Freed(c, gone)
             maybe == IF answer = "broken" \/ c \in earlier THEN {c} ELSE {}
  <2>1. /\ <<k, c, answer>> \in replies
        /\ replies' \subseteq replies
        /\ queue' = Retracted(freed)
        /\ UNCHANGED <<peerVars, sessionVars, writer, closing, resend, wire, serving, runs>>
    BY <1>2, Zenon DEF Complete
  <2>2. c \in pending /\ origin[c] = k
    BY <1>2, Zenon DEF Awaited
  <2>3. freed \in SUBSET pending /\ Left(freed) \subseteq freed /\ maybe \in SUBSET {c}
    BY Zenon DEF Freed, Left
  <2>4. \A j \in Sessions : queue'[j] \subseteq queue[j] /\ writer'[j] \subseteq writer[j]
    BY <2>1, Zenon DEF Retracted
  <2>5. CASE answer = "reply"
    <3>1. Settle({c}, {}, {})
      BY <1>2, <2>5, Zenon DEF Complete
    <3>2. {c} \in SUBSET pending /\ {} \in SUBSET pending
      BY <2>2, Zenon
    <3>3. UNCHANGED <<peerVars, sessionVars, closing, resend, wire, serving, runs>>
      BY <2>1, Zenon
    <3> QED
      BY <2>1, <2>4, <3>1, <3>2, <3>3, SettleKeeps, Zenon
  <2>6. CASE answer # "reply"
    <3>1. Settle({}, maybe \cup Left(freed), ({c} \ maybe) \cup (freed \ Left(freed)))
      BY <1>2, <2>6, Zenon DEF Complete
    <3>2. ASSUME c \notin maybe
          PROVE  runs[c] = 0 /\ Unqueued(c)' /\ OffWire(c)
      <4>1. c \in Fresh /\ answer \in {"rejected", "gone"}
        BY <2>2, <2>6, <3>2, Zenon DEF Fresh, Answers
      <4>2. runs[c] = 0 /\ OffWire(c)
        BY <2>1, <4>1, Zenon DEF SentOnce
      <4>3. c \in transmitted
        BY <2>1, <4>1, ZenonT(60) DEF NotSent, Unserved
      <4> QED
        BY <2>1, <2>2, <2>4, <4>2, <4>3, Zenon DEF Placed, Unqueued
    <3>3. ASSUME NEW d \in freed \ Left(freed)
          PROVE  runs[d] = 0 /\ Unqueued(d)' /\ OffWire(d)
      BY <2>1, <2>3, <3>3 DEF Left, Retracted, Placed, NotSent, Fresh, Unqueued
    <3> HIDE DEF maybe, freed
    <3>4. UNCHANGED <<peerVars, sessionVars, closing, resend, wire, serving, runs>>
      BY <2>1, Zenon
    <3>5. PICK m \in SUBSET pending : m = maybe \cup Left(freed)
      BY <2>2, <2>3, Zenon
    <3>6. PICK n \in SUBSET pending : n = ({c} \ maybe) \cup (freed \ Left(freed))
      BY <2>2, <2>3, Zenon
    <3>7. \A d \in n \ ({} \cup m) : runs[d] = 0 /\ Unqueued(d)' /\ OffWire(d)
      BY <3>2, <3>3, <3>6, Zenon
    <3>8. {} \in SUBSET pending /\ Settle({}, m, n)
      BY <3>1, <3>5, <3>6, Zenon
    <3> QED
      BY <2>1, <2>4, <3>4, <3>7, <3>8, SettleKeeps, Zenon
  <2> QED
    BY <2>5, <2>6, Zenon
<1> QED
  BY <1>1, <1>2, Zenon

\* A step that only drops frames or adds sessions nobody waits on keeps the
\* invariant.
LEMMA ShrinkKeeps ==
    ASSUME CallInv,
           UNCHANGED <<pending, origin, transmitted, earlier, outcome, writer, serving, runs,
                       selected, current, closing, resend>>,
           registered \subseteq registered',
           established \subseteq established',
           \A k \in registered' \ registered :
                k \notin closing /\ \A c \in pending : origin[c] # k,
           \A k \in Sessions : queue'[k] \subseteq queue[k],
           wire' \subseteq wire,
           replies' \subseteq replies
    PROVE  (Untold /\ Whereabouts /\ Kept /\ Ran)'
<1> USE DEF CallInv, Whereabouts, Typed
<1>1. \A c \in Calls : /\ Unqueued(c) => Unqueued(c)'
                       /\ OffWire(c) => OffWire(c)'
                       /\ Unserved(c) => Unserved(c)'
  BY Zenon DEF Unqueued, OffWire, Unserved
<1>2. Untold' /\ NeverLeft' /\ NotSent'
  BY <1>1, ZenonT(60) DEF Untold, NeverLeft, NotSent, Fresh
<1>3. Placed' /\ Ran'
  <2>1. Placed'
    BY ZenonT(60) DEF Placed
  <2>2. Ran'
    BY ZenonT(60) DEF Ran
  <2> QED
    BY <2>1, <2>2, Zenon
<1>4. SentOnce'
  BY <1>1, ZenonT(60) DEF SentOnce, Fresh
<1>5. OneCopy'
  BY <1>1, Zenon DEF OneCopy
<1>6. Kept'
  BY Zenon DEF Kept
<1> QED
  BY <1>2, <1>3, <1>4, <1>5, <1>6, Zenon

\* What happens to a session alone: dialed, accepted, cut, closed, lost.
LEMMA StepSession ==
    ASSUME CallInv, NEW k \in Sessions,
           Establish(k) \/ FinishAccept(k) \/ Cut(k) \/ CloseSession(k) \/ Lose(k)
    PROVE  (Untold /\ Whereabouts /\ Kept /\ Ran)'
<1> USE DEF Typed, callVars, peerVars, sessionVars, frameVars, serverVars
<1>1. CASE Establish(k) \/ Cut(k) \/ CloseSession(k) \/ Lose(k)
  <2>1. UNCHANGED <<pending, origin, transmitted, earlier, outcome, writer, serving, runs,
                    selected, current, closing, resend, registered>>
    BY <1>1, Zenon DEF Establish, Cut, CloseSession, Lose
  <2>2. /\ established \subseteq established'
        /\ \A j \in Sessions : queue'[j] \subseteq queue[j]
        /\ wire' \subseteq wire
        /\ replies' \subseteq replies
    BY <1>1, Zenon DEF CallInv, Establish, Cut, CloseSession, Lose
  <2> QED
    BY <2>1, <2>2, ShrinkKeeps, Zenon
<1>2. CASE FinishAccept(k)
  <2>1. Unused(k) /\ registered \subseteq registered' /\ registered' \subseteq registered \cup {k}
    BY <1>2, Zenon DEF FinishAccept, NewSession
  <2>2. \A j \in registered' \ registered :
                j \notin closing /\ \A c \in pending : origin[c] # j
    BY <2>1, Zenon DEF CallInv, Unused
  <2> QED
    BY <1>2, <2>1, <2>2, ShrinkKeeps, Zenon DEF FinishAccept
<1> QED
  BY <1>1, <1>2, Zenon

\* The steps of a shutdown that touch no call, and the endpoint's end.
LEMMA StepRuntime ==
    ASSUME CallInv,
           \/ CloseAll \/ BeginAccept \/ BeginShutdown \/ DestroyEndpoint \/ StreamEnd
           \/ UNCHANGED vars
    PROVE  (Untold /\ Whereabouts /\ Kept /\ Ran)'
<1> USE DEF CallInv, Typed, vars, callVars, peerVars, sessionVars, frameVars, serverVars
<1>1. /\ UNCHANGED <<pending, origin, transmitted, earlier, outcome, writer, serving, runs,
                     selected, current, closing, resend, registered, established, wire, replies>>
      /\ \A j \in Sessions : queue'[j] \subseteq queue[j]
  BY Zenon DEF CloseAll, BeginAccept, BeginShutdown, DestroyEndpoint, StreamEnd
<1> QED
  BY <1>1, ShrinkKeeps, Zenon

\* The writer takes a frame of its queue and sends it (poll_next, admit_transmit).
LEMMA StepFrame ==
    ASSUME CallInv, NEW k \in Sessions, TakeFrame(k) \/ SendFrame(k)
    PROVE  (Untold /\ Whereabouts /\ Kept /\ Ran)'
<1> USE DEF CallInv, Whereabouts, Typed
<1>1. CASE TakeFrame(k)
  <2>1. PICK c \in queue[k] :
            /\ queue' = [queue EXCEPT ![k] = queue[k] \ {c}]
            /\ writer' = [writer EXCEPT ![k] = {c}]
    BY <1>1, Zenon DEF TakeFrame
  <2>2. /\ k \in established
        /\ writer[k] = {}
        /\ UNCHANGED <<pending, origin, transmitted, earlier, outcome, registered, established,
                       selected, current, closing, resend, wire, serving, replies, runs>>
    BY <1>1, Zenon DEF TakeFrame, callVars, peerVars, sessionVars, serverVars
  <2>3. \A d \in Calls : /\ Unqueued(d) => Unqueued(d)'
                         /\ OffWire(d)' <=> OffWire(d)
                         /\ Unserved(d)' <=> Unserved(d)
    BY <2>1, <2>2, Zenon DEF Unqueued, OffWire, Unserved
  <2>4. Untold' /\ NeverLeft' /\ NotSent'
    BY <2>2, <2>3, Zenon DEF Untold, NeverLeft, NotSent, Fresh
  <2>5. Placed'
    BY <2>1, <2>2 DEF Placed
  <2>6. SentOnce' /\ Ran'
    BY <2>2, <2>3, ZenonT(60) DEF SentOnce, Ran, Fresh
  <2>7. OneCopy'
    BY <2>1, <2>2, <2>3 DEF OneCopy
  <2>8. Kept'
    BY <2>1, <2>2, Zenon DEF Kept
  <2> QED
    BY <2>4, <2>5, <2>6, <2>7, <2>8, Zenon
<1>2. CASE SendFrame(k)
  <2>1. PICK c \in writer[k] :
            /\ transmitted' = transmitted \cup ({c} \cap pending)
            /\ wire' = wire \cup {<<k, c>>}
    BY <1>2, Zenon DEF SendFrame
  <2>2. /\ writer' = [writer EXCEPT ![k] = {}]
        /\ UNCHANGED <<pending, origin, earlier, outcome, registered, established, selected,
                       current, queue, closing, resend, serving, replies, runs>>
    BY <1>2, Zenon DEF SendFrame, peerVars, sessionVars
  <2>3. \A d \in Calls : /\ Unqueued(d) => Unqueued(d)' /\ d # c
                         /\ d # c => (OffWire(d)' <=> OffWire(d))
                         /\ Unserved(d)' <=> Unserved(d)
    BY <2>1, <2>2, Zenon DEF Unqueued, OffWire, Unserved
  <2>4. c \in Calls /\ k \in established
    BY <2>1, Zenon DEF Kept
  <2>5. Untold' /\ NeverLeft'
    BY <2>1, <2>2, <2>3, Zenon DEF Untold, NeverLeft
  <2>6. NotSent'
    BY <2>1, <2>2, <2>3, ZenonT(60) DEF NotSent, Fresh
  <2>7. Placed'
    BY <2>1, <2>2 DEF Placed
  <2>8. c \in Fresh => runs[c] = 0 /\ OffWire(c) /\ Unserved(c)
    BY <2>1, Zenon DEF Fresh, NotSent, Placed
  <2>9. SentOnce'
    <3>1. ASSUME NEW d \in Fresh, d # c
          PROVE  \A j \in Anywhere : <<j, d>> \in wire' <=> <<j, d>> \in wire
      BY <2>1, <3>1, Zenon
    <3>2. c \in Fresh => \A j \in Anywhere : <<j, c>> \in wire' => j = k
      BY <2>1, <2>8, Zenon DEF OffWire
    <3>3. ASSUME NEW d \in Fresh, NEW j \in Anywhere, <<j, d>> \in wire'
          PROVE  /\ runs[d] = 0 /\ Unserved(d)'
                 /\ \A i \in Anywhere : <<i, d>> \in wire' => i = j
      <4>1. CASE d = c
        BY <2>3, <2>4, <2>8, <3>2, <3>3, <4>1, Zenon
      <4>2. CASE d # c
        <5>1. /\ runs[d] = 0 /\ Unserved(d)
              /\ \A i \in Anywhere : <<i, d>> \in wire => i = j
          BY <3>1, <3>3, <4>2, Zenon DEF SentOnce
        <5> QED
          BY <2>3, <3>1, <4>2, <5>1, Zenon DEF Fresh
      <4> QED
        BY <4>1, <4>2, Zenon
    <3>4. ASSUME NEW d \in Fresh, NEW j \in Anywhere, NEW a \in {"rejected", "gone"},
                 <<j, d, a>> \in replies
          PROVE  runs[d] = 0 /\ OffWire(d)'
      <4>1. d # c
        BY <2>8, <3>4, Zenon DEF Unserved, Answers
      <4>2. runs[d] = 0 /\ OffWire(d)
        BY <3>4, Zenon DEF SentOnce
      <4> QED
        BY <2>3, <4>1, <4>2, Zenon DEF Fresh
    <3>5. Fresh' = Fresh
      BY <2>2, ZenonT(60) DEF Fresh
    <3> QED
      BY <2>2, <3>3, <3>4, <3>5, Zenon DEF SentOnce
  <2>10. OneCopy'
    BY <2>1, <2>2, <2>3, SMTT(60) DEF OneCopy, Unqueued, OffWire
  <2>11. Kept' /\ Ran'
    BY <2>1, <2>2, <2>4, SMTT(60) DEF Kept, Ran, Placed
  <2> QED
    BY <2>5, <2>6, <2>7, <2>9, <2>10, <2>11, Zenon
<1> QED
  BY <1>1, <1>2, Zenon

\* A dropped driver ends every call as MaybeExecuted (ReplyAttempt::finish).
LEMMA StepDropDriver ==
    ASSUME CallInv, DropDriver
    PROVE  (Untold /\ Whereabouts /\ Kept /\ Ran)'
<1> USE DEF CallInv, Whereabouts, Typed
<1>1. /\ pending' = {} /\ transmitted' = {} /\ earlier' = {}
      /\ \A c \in Calls : origin'[c] \in {origin[c], Local}
      /\ \A c \in Calls : outcome'[c] = IF c \in pending THEN "maybe" ELSE outcome[c]
  BY Zenon DEF DropDriver, Settle, Told
<1>2. /\ registered' = {} /\ closing' = {} /\ current' = Local /\ replies' = {}
      /\ \A k \in Sessions : queue'[k] = {} /\ writer'[k] = {} /\ resend'[k] = {}
      /\ UNCHANGED <<wire, serving, runs>>
  BY Zenon DEF DropDriver
<1>3. Untold' /\ NotSent' /\ Placed' /\ SentOnce'
  BY <1>1, Zenon DEF Untold, NotSent, Placed, SentOnce, Fresh
<1>4. NeverLeft' /\ OneCopy' /\ Ran'
  BY <1>1, <1>2, Zenon DEF NeverLeft, OneCopy, Ran, Unqueued, OffWire, Unserved
<1>5. Kept'
  BY <1>1, <1>2, Zenon DEF Kept, Calls
<1> QED
  BY <1>3, <1>4, <1>5, Zenon

-----------------------------------------------------------------------------
(* The invariant, and what follows from it.                                *)

\* The inductive invariant holds at first.
LEMMA InvInit == Init => IInv
<1> SUFFICES ASSUME Init PROVE IInv
  OBVIOUS
<1>1. TypeOK
  BY TypeInit, Zenon
<1>2. Untold /\ NeverLeft /\ NotSent /\ SentOnce
  BY DEF Init, Untold, NeverLeft, NotSent, SentOnce, Fresh, Unqueued, OffWire, Unserved, Calls
<1>3. Placed /\ Kept /\ Ran
  BY DEF Init, Placed, Kept, Ran, Calls
<1>4. OneCopy
  BY DEF Init, OneCopy, Unqueued, OffWire
<1> QED
  BY <1>1, <1>2, <1>3, <1>4, Zenon DEF IInv, Whereabouts

\* Every step keeps the inductive invariant.
LEMMA InvStep ==
    ASSUME IInv, [Next]_vars
    PROVE  IInv'
<1>1. TypeOK'
  BY TypeStep, Zenon DEF IInv
<1>2. CallInv
  BY Zenon DEF IInv, CallInv, Typed, TypeOK
<1>3. (Untold /\ Whereabouts /\ Kept /\ Ran)'
  <2>1. ASSUME NEW k \in Sessions,
               \/ SelectInbound(k) \/ Establish(k) \/ TakeFrame(k) \/ RefuseFrame(k)
               \/ SendFrame(k) \/ EndConnection(k) \/ Retransmit(k)
               \/ FinishAccept(k) \/ Cut(k) \/ CloseSession(k) \/ Lose(k)
        PROVE  (Untold /\ Whereabouts /\ Kept /\ Ran)'
    BY <1>2, <2>1, StepSelectInbound, StepSession, StepFrame, StepRefuseFrame,
       StepEndConnection, StepRetransmit, Zenon
  <2>2. ASSUME NEW k \in Sessions \cup {Local}, NEW c \in Calls,
               \/ Admit(k, c) \/ Reject(k, c) \/ Answer(k, c) \/ NeverReply(k, c)
               \/ \E answer \in Answers : Complete(k, c, answer)
        PROVE  (Untold /\ Whereabouts /\ Kept /\ Ran)'
    BY <1>2, <2>2, StepServer, StepComplete, Zenon DEF Anywhere
  <2>3. ASSUME NEW c \in Calls, StartCall(c) \/ StartOwnCall(c) \/ Abandon(c)
        PROVE  (Untold /\ Whereabouts /\ Kept /\ Ran)'
    BY <1>2, <2>3, StepStartCall, StepStartOwnCall, StepAbandon, Zenon
  <2>4. CASE Terminate \/ DropDriver \/ CloseAll \/ BeginAccept \/ BeginShutdown
             \/ DestroyEndpoint \/ StreamEnd \/ UNCHANGED vars
    BY <1>2, <2>4, StepTerminate, StepDropDriver, StepRuntime, Zenon
  <2> QED
    BY <2>1, <2>2, <2>3, <2>4, Zenon DEF Next, Progress
<1> QED
  BY <1>1, <1>3, Zenon DEF IInv

\* The inductive invariant holds in every reachable state.
LEMMA InvAlways == Spec => []IInv
<1>1. Init => IInv
  BY InvInit, Zenon
<1>2. IInv /\ [Next]_vars => IInv'
  BY InvStep, Zenon
<1> QED
  BY <1>1, <1>2, PTL DEF Spec

\* The type invariant holds in every reachable state, for every set of calls,
\* every number of sessions and every bound on queues.
THEOREM CallsTypeCorrect == Spec => []TypeOK
<1>1. IInv => TypeOK
  BY Zenon DEF IInv
<1> QED
  BY <1>1, InvAlways, PTL

\* A call that ended NotAdmitted never reached a handler and never will,
\* whatever sessions ended, were replaced or raced (every path that settles).
THEOREM NotAdmittedHolds == Spec => []NotAdmittedIsTrue
<1>1. IInv => NotAdmittedIsTrue
  BY Zenon DEF IInv, Whereabouts, Untold, NeverLeft, NotAdmittedIsTrue
<1> QED
  BY <1>1, InvAlways, PTL

\* A step tells a caller once, tells it "executed" only of a call a handler was
\* handed, and takes back no run.
ToldRight ==
    \A c \in Calls :
        /\ outcome[c] # "none" => outcome'[c] = outcome[c]
        /\ outcome'[c] = "executed" => outcome[c] = "executed" \/ runs[c] > 0
        /\ runs'[c] >= runs[c]

\* Every step tells callers right.
LEMMA ToldStep ==
    ASSUME IInv, [Next]_vars
    PROVE  ToldRight
<1> USE DEF IInv, TypeOK, callVars, serverVars
<1>1. ASSUME NEW ran \in SUBSET Calls, NEW maybe, NEW never,
             outcome' = Told(ran, maybe, never),
             \A c \in ran \cup maybe \cup never : c \in Calls => outcome[c] = "none",
             \A c \in ran : runs[c] > 0,
             runs' = runs
      PROVE  ToldRight
  BY <1>1 DEF ToldRight, Told
<1>2. \A c \in pending : outcome[c] = "none"
  BY Zenon DEF Untold
<1>3. CASE UNCHANGED <<outcome, runs>>
  BY <1>3 DEF ToldRight
<1>4. ASSUME NEW k \in Sessions, RefuseFrame(k)
      PROVE  ToldRight
  BY <1>1, <1>2, <1>4, SMTT(60) DEF RefuseFrame, Settle
<1>5. ASSUME NEW k \in Sessions, EndConnection(k)
      PROVE  ToldRight
  <2>1. outcome' = Told({}, MayHaveRun(k), (Carried(k) \ SentAgain(k)) \ MayHaveRun(k))
        /\ runs' = runs
    BY <1>5, Zenon DEF EndConnection
  <2>2. MayHaveRun(k) \subseteq pending /\ Carried(k) \subseteq pending
    BY Zenon DEF MayHaveRun, Carried
  <2> QED
    BY <1>1, <1>2, <2>1, <2>2, SMTT(60)
<1>6. ASSUME NEW k \in Sessions, Retransmit(k)
      PROVE  ToldRight
  <2>1. PICK via \in PeerChoices, lost \in SUBSET (resend[k] \cap Carried(k)) :
            Resent(resend[k] \cap Carried(k), via, lost)
    BY <1>6, RetransmitCases, Zenon
  <2>2. lost \subseteq pending
    BY <2>1, Zenon DEF Carried
  <2>3. runs' = runs
    BY <1>6, Zenon DEF Retransmit
  <2>4. outcome' = Told({}, lost \cap earlier, lost \ earlier)
    BY <2>1, Zenon DEF Resent
  <2>5. lost \cap earlier \subseteq pending /\ lost \ earlier \subseteq pending
    BY <2>2
  <2> QED
    BY <1>1, <1>2, <2>3, <2>4, <2>5
<1>7. ASSUME NEW k \in Sessions \cup {Local}, NEW c \in Calls, Admit(k, c)
      PROVE  ToldRight
  BY <1>7 DEF Admit, ToldRight
<1>8. ASSUME NEW k \in Sessions \cup {Local}, NEW c \in Calls, NEW answer \in Answers,
             Complete(k, c, answer)
      PROVE  ToldRight
  <2>1. CASE ~Awaited(k, c)
    BY <1>3, <1>8, <2>1, Zenon DEF Complete
  <2>2. CASE Awaited(k, c)
    <3> DEFINE freed == Freed(c, answer = "gone" /\ failed = "no")
               maybe == IF answer = "broken" \/ c \in earlier THEN {c} ELSE {}
    <3>1. c \in pending /\ maybe \subseteq {c} /\ freed \subseteq pending
          /\ Left(freed) \subseteq pending /\ runs' = runs
      BY <1>8, <2>2, Zenon DEF Awaited, Freed, Left, Complete
    <3>2. CASE answer = "reply"
      <4>1. outcome' = Told({c}, {}, {})
        BY <1>8, <2>2, <3>2, Zenon DEF Complete, Settle
      <4>2. runs[c] > 0
        BY <1>8, <3>2, Zenon DEF Complete, Ran, Anywhere
      <4>3. {c} \in SUBSET Calls /\ outcome[c] = "none"
        BY <1>2, <3>1
      <4> QED
        BY <1>1, <3>1, <4>1, <4>2, <4>3
    <3>3. CASE answer # "reply"
      <4>1. outcome' = Told({}, maybe \cup Left(freed),
                            ({c} \ maybe) \cup (freed \ Left(freed)))
        BY <1>8, <2>2, <3>3, Zenon DEF Complete, Settle
      <4> HIDE DEF maybe, freed
      <4> QED
        BY <1>1, <1>2, <3>1, <4>1
    <3> QED
      BY <3>2, <3>3, Zenon
  <2> QED
    BY <2>1, <2>2, Zenon
<1>9. CASE Terminate
  <2>1. outcome' = Told({}, Left(pending), pending \ Left(pending)) /\ runs' = runs
    BY <1>9, Zenon DEF Terminate, Settle
  <2>2. Left(pending) \subseteq pending
    BY Zenon DEF Left
  <2> QED
    BY <1>1, <1>2, <2>1, <2>2
<1>10. CASE DropDriver
  BY <1>1, <1>2, <1>10, SMTT(60) DEF DropDriver, Settle
<1>11. ASSUME NEW c \in Calls, StartCall(c)
       PROVE  ToldRight
  <2>1. outcome[c] = "none" /\ runs' = runs
    BY <1>11, Zenon DEF StartCall, New
  <2>2. outcome' = outcome \/ outcome' = Told({}, {}, {c})
    BY <1>11, StartCallCases, Zenon DEF StartRefused, StartQueued, Settle
  <2> QED
    BY <1>1, <1>3, <2>1, <2>2
<1>12. ASSUME NEW c \in Calls, StartOwnCall(c)
       PROVE  ToldRight
  <2>1. outcome[c] = "none" /\ runs' = runs
    BY <1>12, Zenon DEF StartOwnCall, New
  <2>2. outcome' = outcome \/ outcome' = Told({}, {}, {c})
    BY <1>12, Zenon DEF StartOwnCall, Settle
  <2> QED
    BY <1>1, <1>3, <2>1, <2>2
<1>13. ASSUME NEW c \in Calls, Abandon(c)
       PROVE  ToldRight
  <2> DEFINE maybe == IF origin[c] \in registered THEN Left({c}) ELSE {c}
  <2>1. c \in pending /\ maybe \subseteq {c} /\ outcome' = Told({}, maybe, {c} \ maybe)
        /\ runs' = runs
    BY <1>13, Zenon DEF Abandon, Settle, Left
  <2> HIDE DEF maybe
  <2> QED
    BY <1>1, <1>2, <2>1
<1>14. ASSUME NEW k \in Sessions,
              \/ SelectInbound(k) \/ Establish(k) \/ TakeFrame(k) \/ SendFrame(k)
              \/ FinishAccept(k) \/ Cut(k) \/ CloseSession(k) \/ Lose(k)
       PROVE  ToldRight
  BY <1>3, <1>14, Zenon DEF SelectInbound, Establish, TakeFrame, SendFrame, FinishAccept, Cut,
                     CloseSession, Lose
<1>15. ASSUME NEW k \in Sessions \cup {Local}, NEW c \in Calls,
              Reject(k, c) \/ Answer(k, c) \/ NeverReply(k, c)
       PROVE  ToldRight
  BY <1>3, <1>15, Zenon DEF Reject, Answer, NeverReply
<1>16. CASE CloseAll \/ BeginAccept \/ BeginShutdown \/ DestroyEndpoint \/ StreamEnd
            \/ UNCHANGED vars
  BY <1>3, <1>16, Zenon DEF CloseAll, BeginAccept, BeginShutdown, DestroyEndpoint, StreamEnd, vars
<1> QED
  BY <1>4, <1>5, <1>6, <1>7, <1>8, <1>9, <1>10, <1>11, <1>12, <1>13, <1>14, <1>15, <1>16, Zenon
  DEF Next, Progress

\* A caller is told once: no late reply, second attempt, abandonment or shutdown
\* changes the end of a call (every path removes it from the table).
THEOREM CallsSettledOnce == Spec => SettledOnce
<1>1. IInv /\ [Next]_vars => [\A c \in Calls : outcome[c] # "none" => outcome'[c] = outcome[c]]_vars
  BY ToldStep, Zenon DEF ToldRight
<1> QED
  BY <1>1, InvAlways, PTL DEF Spec, SettledOnce

\* A reply comes only from a handler that was handed the call, and a call that
\* is not reliable is handed to one at most once (close_connection, adopt).
THEOREM AtMostOnceHolds == Spec => []AtMostOnce
<1> DEFINE Executed == \A c \in Calls : outcome[c] = "executed" => runs[c] > 0
<1>1. Init => Executed
  BY Zenon DEF Init
<1>2. IInv /\ Executed /\ [Next]_vars => Executed'
  <2> SUFFICES ASSUME IInv, Executed, [Next]_vars, NEW c \in Calls, outcome'[c] = "executed"
               PROVE  runs'[c] > 0
    OBVIOUS
  <2>1. runs[c] > 0 /\ runs'[c] >= runs[c]
    BY ToldStep, Zenon DEF ToldRight
  <2>2. TypeOK /\ TypeOK'
    BY InvStep, Zenon DEF IInv
  <2>3. runs[c] \in Nat /\ runs'[c] \in Nat
    BY <2>2, Zenon DEF TypeOK
  <2> QED
    BY <2>1, <2>3
<1>3. IInv /\ Executed => AtMostOnce
  BY Zenon DEF IInv, Whereabouts, OneCopy, AtMostOnce
<1> HIDE DEF Executed
<1> QED
  BY <1>1, <1>2, <1>3, InvAlways, PTL DEF Spec

\* No reliable call is pending once the reply of a call said the endpoint is gone.
Released == failed = "call" => pending \cap Reliable = {}

\* Every step keeps reliable calls out of the table from then on (release_failed).
LEMMA GoneStep ==
    ASSUME TypeOK, Released, [Next]_vars
    PROVE  Released'
<1> USE DEF TypeOK, Released, callVars, runtimeVars
<1>1. CASE pending' \subseteq pending /\ failed' = failed
  BY <1>1, Zenon
<1>2. ASSUME NEW k \in Sessions,
             \/ SelectInbound(k) \/ Establish(k) \/ TakeFrame(k) \/ SendFrame(k)
             \/ FinishAccept(k) \/ Cut(k) \/ CloseSession(k) \/ Lose(k)
      PROVE  Released'
  BY <1>1, <1>2, Zenon DEF SelectInbound, Establish, TakeFrame, SendFrame, FinishAccept, Cut,
                    CloseSession, Lose
<1>3. ASSUME NEW k \in Sessions, RefuseFrame(k) \/ EndConnection(k)
      PROVE  Released'
  BY <1>1, <1>3, Zenon DEF RefuseFrame, EndConnection, Settle
<1>4. ASSUME NEW k \in Sessions, Retransmit(k)
      PROVE  Released'
  BY <1>1, <1>4, RetransmitCases, Zenon DEF Retransmit, Resent
<1>5. ASSUME NEW k \in Sessions \cup {Local}, NEW c \in Calls,
             Admit(k, c) \/ Reject(k, c) \/ Answer(k, c) \/ NeverReply(k, c)
      PROVE  Released'
  BY <1>1, <1>5, Zenon DEF Admit, Reject, Answer, NeverReply
<1>6. ASSUME NEW k \in Sessions \cup {Local}, NEW c \in Calls, NEW answer \in Answers,
             Complete(k, c, answer)
      PROVE  Released'
  <2>1. CASE ~Awaited(k, c)
    BY <1>1, <1>6, <2>1, Zenon DEF Complete
  <2>2. CASE Awaited(k, c) /\ ~(answer = "gone" /\ failed = "no")
    BY <1>1, <1>6, <2>2, Zenon DEF Complete, Settle
  <2>3. CASE Awaited(k, c) /\ answer = "gone" /\ failed = "no"
    <3>1. pending' \cap Reliable = {}
      BY <1>6, <2>3, Zenon DEF Complete, Settle, Freed
    <3> QED
      BY <3>1, Zenon
  <2> QED
    BY <2>1, <2>2, <2>3, Zenon
<1>7. ASSUME NEW c \in Calls, StartCall(c)
      PROVE  Released'
  BY <1>1, <1>7, StartCallCases, Zenon DEF StartCall, StartRefused, StartQueued, Settle
<1>8. ASSUME NEW c \in Calls, StartOwnCall(c)
      PROVE  Released'
  BY <1>1, <1>8, CallsAssumption, Zenon DEF StartOwnCall, Settle
<1>9. ASSUME NEW c \in Calls, Abandon(c)
      PROVE  Released'
  BY <1>1, <1>9, Zenon DEF Abandon, Settle
<1>10. CASE Terminate \/ DropDriver \/ CloseAll \/ BeginAccept \/ BeginShutdown
            \/ DestroyEndpoint \/ UNCHANGED vars
  BY <1>1, <1>10, Zenon DEF Terminate, DropDriver, CloseAll, BeginAccept, BeginShutdown,
                     DestroyEndpoint, Settle, vars
<1>11. CASE StreamEnd
  BY <1>11, Zenon DEF StreamEnd
<1> QED
  BY <1>2, <1>3, <1>4, <1>5, <1>6, <1>7, <1>8, <1>9, <1>10, <1>11, Zenon DEF Next, Progress

\* Whether every reliable call queued after a step was queued before it.
Requeued ==
    \A c \in Reliable, k \in Sessions : c \in queue'[k] => \E j \in Sessions : c \in queue[j]

\* No step queues a reliable call for an endpoint known to be gone, but for the
\* frames an adoption moves (start_call, adopt, retransmit).
LEMMA RequeueStep ==
    ASSUME TypeOK, failed # "no", [Next]_vars
    PROVE  Requeued
<1> USE DEF TypeOK, frameVars
<1>1. CASE \A k \in Sessions : queue'[k] \subseteq queue[k]
  BY <1>1, Zenon DEF Requeued
<1>2. ASSUME NEW via, queue' = Queued(via, {})
      PROVE  Requeued
  <2>1. \A c \in Moved(via) : \E j \in Sessions : c \in queue[j]
    BY Zenon DEF Moved, Live
  <2>2. \A k \in Sessions : queue'[k] \subseteq queue[k] \cup Moved(via)
    BY <1>2, Zenon DEF Queued
  <2> QED
    BY <1>2, <2>1, <2>2, Zenon DEF Requeued
<1>3. ASSUME NEW k \in Sessions, SelectInbound(k)
      PROVE  Requeued
  <2>1. queue' = queue \/ queue' = Queued([how |-> "adopt", session |-> k], {})
    BY <1>3, Zenon DEF SelectInbound
  <2> QED
    BY <1>1, <1>2, <2>1, Zenon
<1>4. ASSUME NEW k \in Sessions, Retransmit(k)
      PROVE  Requeued
  <2>1. PICK via \in PeerChoices : \E lost \in SUBSET (resend[k] \cap Carried(k)) :
            /\ Resent(resend[k] \cap Carried(k), via, lost)
            /\ failed # "no" => lost = resend[k] \cap Carried(k)
    BY <1>4, RetransmitCases, Zenon
  <2>2. queue' = Queued(via, (resend[k] \cap Carried(k)) \ (resend[k] \cap Carried(k)))
    BY <2>1, Zenon DEF Resent
  <2>3. (resend[k] \cap Carried(k)) \ (resend[k] \cap Carried(k)) = {}
    BY Zenon
  <2>4. queue' = Queued(via, {})
    BY <2>2, <2>3, Zenon
  <2> QED
    BY <1>2, <2>4, Zenon
<1>5. ASSUME NEW c \in Calls, StartCall(c)
      PROVE  Requeued
  <2>1. queue' = queue \/ \E via \in PeerChoices : queue' = Queued(via, {})
    BY <1>5, StartCallCases, Zenon DEF StartRefused
  <2>2. CASE queue' = queue
    BY <1>1, <2>2, Zenon
  <2> QED
    BY <1>2, <2>1, <2>2, Zenon
<1>6. ASSUME NEW k \in Sessions,
             \/ FinishAccept(k) \/ Establish(k) \/ TakeFrame(k) \/ RefuseFrame(k) \/ SendFrame(k)
             \/ EndConnection(k) \/ Cut(k) \/ CloseSession(k) \/ Lose(k)
      PROVE  Requeued
  BY <1>1, <1>6, ZenonT(60) DEF FinishAccept, Establish, TakeFrame, RefuseFrame, SendFrame,
                      EndConnection, Cut, CloseSession, Lose
<1>7. ASSUME NEW k \in Sessions \cup {Local}, NEW c \in Calls,
             \/ Admit(k, c) \/ Reject(k, c) \/ Answer(k, c) \/ NeverReply(k, c)
             \/ \E answer \in Answers : Complete(k, c, answer)
      PROVE  Requeued
  <2>1. queue' = queue \/ \E calls : queue' = Retracted(calls)
    BY <1>7, Zenon DEF Admit, Reject, Answer, NeverReply, Complete
  <2> QED
    BY <1>1, <2>1, Zenon DEF Retracted
<1>8. ASSUME NEW c \in Calls, StartOwnCall(c) \/ Abandon(c)
      PROVE  Requeued
  BY <1>1, <1>8, Zenon DEF StartOwnCall, Abandon, Retracted
<1>9. CASE Terminate \/ DropDriver \/ CloseAll \/ BeginAccept \/ BeginShutdown
           \/ DestroyEndpoint \/ StreamEnd \/ UNCHANGED vars
  BY <1>1, <1>9, Zenon DEF Terminate, DropDriver, CloseAll, BeginAccept, BeginShutdown,
                    DestroyEndpoint, StreamEnd, Retracted, vars
<1> QED
  BY <1>3, <1>4, <1>5, <1>6, <1>7, <1>8, <1>9, Zenon DEF Next, Progress

\* The reply of a call that says the endpoint is gone ends every reliable call to
\* it, even one between two sessions, and whoever said it, no reliable call is
\* queued for it again (release_failed, stream_end, precheck, retransmit).
THEOREM GoneReleasesHolds == Spec => GoneReleases
<1>1. Init => Released
  BY Zenon DEF Init, Released
<1>2. TypeOK /\ Released /\ [Next]_vars => Released'
  BY GoneStep, Zenon
<1>3. Released' /\ TypeOK /\ [Next]_vars =>
        [/\ failed' = "call" => pending' \cap Reliable = {}
         /\ failed # "no" => \A c \in Reliable, k \in Sessions :
                c \in queue'[k] => \E j \in Sessions : c \in queue[j]]_vars
  BY RequeueStep, Zenon DEF Released, Requeued
<1> QED
  BY <1>1, <1>2, <1>3, CallsTypeCorrect, PTL DEF Spec, GoneReleases

-----------------------------------------------------------------------------
\* No pending call is forgotten.

\* The call waits for something: the body of NoOrphan.
Waiting(c) ==
    \/ c \in transmitted
    \/ /\ origin[c] \in registered
       /\ c \in queue[origin[c]] \cup writer[origin[c]] \/ origin[c] \notin open
    \/ /\ origin[c] \in closing
       /\ c \in resend[origin[c]]

\* A writer holds one frame at a time.
OneFrame == \A k \in Sessions : \A c, d \in writer[k] : c = d

\* The inductive invariant of this module, given the one of CallsProofs.
OrphanInv == OneFrame /\ NoOrphan

\* Every step leaves a writer with at most one frame (poll_next).
LEMMA OneFrameStep ==
    ASSUME Typed, OneFrame, [Next]_vars
    PROVE  OneFrame'
<1> USE DEF Typed, OneFrame, frameVars
<1>1. CASE \A k \in Sessions : writer'[k] \subseteq writer[k]
  BY <1>1, Zenon
<1>2. ASSUME NEW k \in Sessions, TakeFrame(k)
      PROVE  OneFrame'
  BY <1>2 DEF TakeFrame
<1>3. ASSUME NEW k \in Sessions, RefuseFrame(k) \/ SendFrame(k)
      PROVE  OneFrame'
  BY <1>1, <1>3 DEF RefuseFrame, SendFrame
<1>4. ASSUME NEW k \in Sessions,
             \/ SelectInbound(k) \/ Establish(k) \/ EndConnection(k) \/ Retransmit(k)
             \/ FinishAccept(k) \/ Cut(k) \/ CloseSession(k) \/ Lose(k)
      PROVE  OneFrame'
  <2>1. writer' = writer
    BY <1>4, Zenon DEF SelectInbound, Establish, EndConnection, Retransmit, FinishAccept, Cut,
                CloseSession, Lose
  <2> QED
    BY <1>1, <2>1, Zenon
<1>5. ASSUME NEW k \in Sessions \cup {Local}, NEW c \in Calls,
             \/ Admit(k, c) \/ Reject(k, c) \/ Answer(k, c) \/ NeverReply(k, c)
             \/ \E answer \in Answers : Complete(k, c, answer)
      PROVE  OneFrame'
  <2>1. writer' = writer
    BY <1>5, Zenon DEF Admit, Reject, Answer, NeverReply, Complete
  <2> QED
    BY <1>1, <2>1, Zenon
<1>6. ASSUME NEW c \in Calls, StartCall(c) \/ StartOwnCall(c) \/ Abandon(c)
      PROVE  OneFrame'
  <2>1. writer' = writer
    BY <1>6, Zenon DEF StartCall, StartOwnCall, Abandon
  <2> QED
    BY <1>1, <2>1, Zenon
<1>7. CASE DropDriver
  BY <1>1, <1>7, Zenon DEF DropDriver
<1>8. CASE Terminate \/ CloseAll \/ BeginAccept \/ BeginShutdown \/ DestroyEndpoint
           \/ StreamEnd \/ UNCHANGED vars
  <2>1. writer' = writer
    BY <1>8, Zenon DEF Terminate, CloseAll, BeginAccept, BeginShutdown, DestroyEndpoint,
                StreamEnd, vars
  <2> QED
    BY <1>1, <2>1, Zenon
<1> QED
  BY <1>2, <1>3, <1>4, <1>5, <1>6, <1>7, <1>8, Zenon DEF Next, Progress

\* A call that waits still does after the frames of the live session moved to
\* the adopted one (adopt): its own moved with it.
LEMMA RequeueWaits ==
    ASSUME CallInv, NEW via, NEW add \in SUBSET Calls, NEW c \in pending \ add, Waiting(c),
           via.how = "adopt" => via.session \in registered,
           registered \subseteq registered',
           via.how = "dial" => origin[c] # via.session,
           open' = IF via.how = "dial" THEN open \cup {via.session}
                   ELSE IF via.how = "adopt" THEN open \ Live
                   ELSE IF via.how = "raced" THEN open \ {via.session}
                   ELSE open,
           queue' = Queued(via, add),
           UNCHANGED <<writer, transmitted>>,
           origin'[c] = IF c \in Moved(via) THEN via.session ELSE origin[c],
           origin[c] \in closing /\ c \in resend[origin[c]] /\ c \notin Moved(via) =>
                origin[c] \in closing' /\ c \in resend'[origin[c]]
    PROVE  Waiting(c)'
<1> USE DEF CallInv, Typed
<1>1. CASE c \in transmitted
  BY <1>1, Zenon DEF Waiting
<1>2. CASE c \in Moved(via)
  <2>1. via.how = "adopt" /\ origin'[c] = via.session /\ via.session \in registered'
    BY <1>2, Zenon DEF Moved
  <2>2. via.session \in open' => c \in queue'[via.session]
    BY <1>2, <2>1, Zenon DEF Queued, Live
  <2> QED
    BY <2>1, <2>2, Zenon DEF Waiting
<1>3. CASE c \notin transmitted /\ c \notin Moved(via) /\ origin[c] \in registered
  <2>1. origin'[c] = origin[c] /\ origin[c] \in registered'
    BY <1>3, Zenon
  <2>2. CASE c \in writer[origin[c]]
    BY <2>1, <2>2, Zenon DEF Waiting
  <2>3. CASE c \in queue[origin[c]]
    <3>1. via.how = "adopt" => origin[c] \notin Live
      BY <1>3, <2>3, Zenon DEF Moved
    <3>2. origin[c] \in open' => c \in queue'[origin[c]]
      BY <1>3, <2>3, <3>1, Zenon DEF Queued
    <3> QED
      BY <2>1, <3>2, Zenon DEF Waiting
  <2>4. CASE origin[c] \notin open
    BY <2>1, <2>4, Zenon DEF Waiting
  <2>5. CASE origin[c] \in closing /\ c \in resend[origin[c]]
    BY <1>3, <2>1, <2>5, Zenon DEF Waiting
  <2> QED
    BY <1>3, <2>2, <2>3, <2>4, <2>5, Zenon DEF Waiting
<1>4. CASE c \notin transmitted /\ c \notin Moved(via) /\ origin[c] \notin registered
  BY <1>4, Zenon DEF Waiting
<1> QED
  BY <1>1, <1>2, <1>3, <1>4, Zenon

\* What choosing a session does to the open ones, and where a frame it adds is.
LEMMA ConnectOpens ==
    ASSUME CallInv, NEW via \in PeerChoices, Connect(via)
    PROVE  /\ via.how = "adopt" => via.session \in registered
           /\ via.how = "dial" => \A c \in pending : origin[c] # via.session
           /\ open' = IF via.how = "dial" THEN open \cup {via.session}
                      ELSE IF via.how = "adopt" THEN open \ Live
                      ELSE IF via.how = "raced" THEN open \ {via.session}
                      ELSE open
           /\ via.how \notin {"refused", "raced"} =>
                /\ via.session \in registered'
                /\ \A add \in SUBSET Calls : add \subseteq Queued(via, add)[via.session]
<1> USE DEF CallInv, Typed
<1>1. ChoiceOf(via)
  BY ChoiceFacts, Zenon
<1>2. via.how = "adopt" => via.session \in open /\ via.session \notin Live
  BY <1>1, Zenon DEF ChoiceOf
<1>3. via.how = "dial" => \A c \in pending : origin[c] # via.session
  BY <1>1, Zenon DEF ChoiceOf, Unused
<1>4. ASSUME via.how \notin {"refused", "raced"}
      PROVE  via.session \in registered' /\ via.session \in Sessions
  BY <1>1, <1>4, Zenon DEF ChoiceOf, Connect, Live
<1>5. ASSUME via.how \notin {"refused", "raced"}, NEW add \in SUBSET Calls
      PROVE  add \subseteq Queued(via, add)[via.session]
  BY <1>2, <1>4, <1>5, Zenon DEF Queued
<1> QED
  BY <1>2, <1>3, <1>4, <1>5, Zenon DEF Connect

\* Starting a call leaves nobody waiting for nothing (start_call).
LEMMA OrphanStart ==
    ASSUME CallInv, NoOrphan, NEW c \in Calls, StartCall(c)
    PROVE  NoOrphan'
<1> USE DEF CallInv, Typed
<1>1. /\ c \notin pending
      /\ UNCHANGED <<writer, closing, resend>>
  BY Zenon DEF StartCall, New
<1>2. CASE Settle({}, {}, {c}) /\ UNCHANGED <<peerVars, sessionVars, queue, cut, faults>>
  <2>1. pending' = pending /\ transmitted' = transmitted
    BY <1>1, <1>2, Zenon DEF Settle
  <2>2. \A d \in pending : origin'[d] = origin[d]
    BY <1>1, <1>2, Zenon DEF Settle
  <2> QED
    BY <1>1, <1>2, <2>1, <2>2, Zenon DEF NoOrphan, sessionVars
<1>3. ASSUME NEW via \in PeerChoices, StartRefused(c, via)
      PROVE  NoOrphan'
  <2>1. ASSUME NEW d \in pending
        PROVE  Waiting(d)'
    <3>1. Waiting(d) /\ d \notin {}
      BY Zenon DEF NoOrphan, Waiting
    <3>2. /\ origin'[d] = IF d \in Moved(via) THEN via.session ELSE origin[d]
          /\ Connect(via)
          /\ queue' = Queued(via, {})
          /\ UNCHANGED <<writer, transmitted, closing, resend>>
      BY <1>1, <1>3, Zenon DEF StartRefused, MovedTo
    <3> QED
      BY <3>1, <3>2, ConnectOpens, ConnectKeeps, RequeueWaits, Zenon
  <2> QED
    BY <1>3, <2>1, Zenon DEF NoOrphan, Waiting, StartRefused
<1>4. ASSUME NEW via \in PeerChoices, StartQueued(c, via)
      PROVE  NoOrphan'
  <2>1. ASSUME NEW d \in pending
        PROVE  Waiting(d)'
    <3>1. Waiting(d) /\ d \notin {c}
      BY <1>1, Zenon DEF NoOrphan, Waiting
    <3>2. /\ origin'[d] = IF d \in Moved(via) THEN via.session ELSE origin[d]
          /\ Connect(via)
          /\ queue' = Queued(via, {c})
          /\ UNCHANGED <<writer, transmitted, closing, resend>>
      BY <1>1, <1>4, <3>1, Zenon DEF StartQueued, MovedTo
    <3> QED
      BY <3>1, <3>2, ConnectOpens, ConnectKeeps, RequeueWaits, Zenon
  <2>2. Waiting(c)'
    <3>1. origin'[c] = via.session /\ queue' = Queued(via, {c}) /\ Connect(via)
          /\ via.how \notin {"refused", "raced"}
      BY <1>4, Zenon DEF StartQueued, MovedTo
    <3> QED
      BY <3>1, ConnectOpens, Zenon DEF Waiting
  <2>3. \A d \in pending' : d \in pending \/ d = c
    BY <1>4, Zenon DEF StartQueued
  <2>4. \A d \in pending' : Waiting(d)'
    BY <2>1, <2>2, <2>3, Zenon
  <2> QED
    BY <2>4, Zenon DEF NoOrphan, Waiting
<1> QED
  BY <1>2, <1>3, <1>4, StartCallCases, Zenon

\* Nor does selecting an accepted session (select_inbound).
LEMMA OrphanSelect ==
    ASSUME CallInv, NoOrphan, NEW k \in Sessions, SelectInbound(k)
    PROVE  NoOrphan'
<1> USE DEF CallInv, Typed
<1> DEFINE via == [how |-> "adopt", session |-> k]
<1>1. /\ k \in registered
      /\ UNCHANGED <<pending, transmitted, registered, writer, closing, resend>>
  BY Zenon DEF SelectInbound
<1>2. CASE UNCHANGED <<open, queue, origin>>
  BY <1>1, <1>2, Zenon DEF NoOrphan
<1>3. CASE /\ open' = open \ Live
           /\ queue' = Queued(via, {})
           /\ origin' = MovedTo(Moved(via), k)
  <2>1. \A d \in pending : origin'[d] = IF d \in Moved(via) THEN via.session ELSE origin[d]
    BY <1>3, Zenon DEF MovedTo
  <2>2. via.how = "adopt" /\ via.session \in registered /\ open' = open \ Live
        /\ queue' = Queued(via, {})
    BY <1>1, <1>3, Zenon
  <2> HIDE DEF via
  <2>3. ASSUME NEW d \in pending
        PROVE  Waiting(d)'
    <3>1. Waiting(d) /\ d \notin {}
      BY Zenon DEF NoOrphan, Waiting
    <3> QED
      BY <1>1, <2>1, <2>2, <3>1, RequeueWaits, Zenon
  <2> QED
    BY <1>1, <2>3, Zenon DEF NoOrphan, Waiting
<1> QED
  BY <1>2, <1>3, Zenon DEF SelectInbound

\* Nor does sending reliable calls again (retransmit).
LEMMA OrphanRetransmit ==
    ASSUME CallInv, NoOrphan, NEW k \in Sessions, Retransmit(k)
    PROVE  NoOrphan'
<1> USE DEF CallInv, Typed
<1> DEFINE copies == resend[k] \cap Carried(k)
<1>1. PICK via \in PeerChoices, lost \in SUBSET copies : Resent(copies, via, lost)
  BY RetransmitCases, Zenon
<1>2. /\ closing' = closing \ {k}
      /\ resend' = [resend EXCEPT ![k] = {}]
      /\ UNCHANGED <<transmitted, writer>>
      /\ Connect(via)
      /\ pending' = pending \ lost
      /\ queue' = Queued(via, copies \ lost)
      /\ via.how \in {"refused", "raced"} => lost = copies
  BY <1>1, Zenon DEF Retransmit, Resent
<1>3. \A c \in pending \ copies :
        /\ origin'[c] = IF c \in Moved(via) THEN via.session ELSE origin[c]
        /\ origin[c] \in closing /\ c \in resend[origin[c]] => origin[c] # k
  BY <1>1, Zenon DEF Resent, MovedTo, Carried
<1>4. copies \in SUBSET pending
  BY Zenon DEF Carried
<1>5. \A c \in copies \ lost : origin'[c] = via.session
  BY <1>1, <1>4, Zenon DEF MovedTo, Resent
<1> HIDE DEF copies
<1>6. ASSUME NEW c \in pending \ copies
      PROVE  Waiting(c)'
  <2>1. Waiting(c) /\ c \notin copies \ lost
    BY Zenon DEF NoOrphan, Waiting
  <2>2. origin[c] \in closing /\ c \in resend[origin[c]] =>
            origin[c] \in closing' /\ c \in resend'[origin[c]]
    BY <1>2, <1>3, Zenon
  <2>3. copies \ lost \in SUBSET Calls
    BY <1>4, Zenon
  <2> QED
    BY <1>2, <1>3, <2>1, <2>2, <2>3, ConnectOpens, ConnectKeeps, RequeueWaits, Zenon
<1>7. ASSUME NEW c \in copies \ lost
      PROVE  Waiting(c)'
  <2>1. copies \ lost \in SUBSET Calls /\ via.how \notin {"refused", "raced"}
    BY <1>2, <1>4, Zenon
  <2> QED
    BY <1>2, <1>5, <2>1, ConnectOpens, Zenon DEF Waiting
<1> QED
  BY <1>2, <1>6, <1>7, Zenon DEF NoOrphan, Waiting

\* Nor does settling calls and withdrawing their frames, and no others.
LEMMA OrphanSettle ==
    ASSUME CallInv, NoOrphan,
           NEW gone,
           pending' = pending \ gone,
           transmitted' = transmitted \ gone,
           \A c \in pending' : origin'[c] = origin[c],
           \A k \in Sessions : queue[k] \subseteq queue'[k] \cup gone,
           UNCHANGED <<registered, open, writer, closing, resend>>
    PROVE  NoOrphan'
BY Zenon DEF CallInv, Typed, NoOrphan

\* Nor does the end of a session: what it carried ends or is sent again
\* (close_connection).
LEMMA OrphanEnd ==
    ASSUME CallInv, NoOrphan, NEW k \in Sessions, EndConnection(k)
    PROVE  NoOrphan'
<1> USE DEF CallInv, Typed
<1>1. /\ k \in registered
      /\ pending' = pending \ (Carried(k) \ SentAgain(k))
      /\ transmitted' = transmitted \ Carried(k)
      /\ resend' = [resend EXCEPT ![k] = SentAgain(k)]
      /\ SentAgain(k) # {} => k \in closing'
      /\ closing \subseteq closing'
      /\ registered' = registered \ {k}
      /\ open' = open \ {k}
      /\ queue' = [queue EXCEPT ![k] = {}]
      /\ writer' = writer
  BY Zenon DEF EndConnection
<1>2. \A c \in pending' : origin'[c] = origin[c]
  BY Zenon DEF EndConnection
<1>3. ASSUME NEW c \in pending', origin[c] = k
      PROVE  Waiting(c)'
  BY <1>1, <1>2, <1>3, Zenon DEF Waiting, Carried
<1>4. ASSUME NEW c \in pending', origin[c] # k
      PROVE  Waiting(c)'
  BY <1>1, <1>2, <1>4, Zenon DEF Waiting, Carried, NoOrphan
<1> QED
  BY <1>3, <1>4, Zenon DEF NoOrphan, Waiting

\* Every step keeps the invariant of this module.
LEMMA OrphanStep ==
    ASSUME CallInv, OrphanInv, [Next]_vars
    PROVE  OrphanInv'
<1> USE DEF CallInv, Typed, OrphanInv
<1>0. OneFrame'
  BY OneFrameStep, Zenon
<1>1. ASSUME NEW k \in Sessions, SelectInbound(k) \/ Retransmit(k) \/ EndConnection(k)
      PROVE  NoOrphan'
  BY <1>0, <1>1, OrphanSelect, OrphanRetransmit, OrphanEnd, Zenon
<1>2. ASSUME NEW k \in Sessions, RefuseFrame(k)
      PROVE  NoOrphan'
  BY <1>2, SMTT(60) DEF RefuseFrame, Settle, NoOrphan, OneFrame, sessionVars
<1>3. ASSUME NEW k \in Sessions, TakeFrame(k)
      PROVE  NoOrphan'
  BY <1>3, SMTT(60) DEF TakeFrame, NoOrphan, callVars, sessionVars
<1>4. ASSUME NEW k \in Sessions, SendFrame(k)
      PROVE  NoOrphan'
  BY <1>4, SMTT(60) DEF SendFrame, NoOrphan, OneFrame, sessionVars
<1>5. ASSUME NEW k \in Sessions, FinishAccept(k)
      PROVE  NoOrphan'
  <2>1. \A c \in pending : origin[c] # k
    BY <1>5, Zenon DEF FinishAccept, NewSession, Unused
  <2>2. /\ registered \subseteq registered'
        /\ open' \subseteq open \cup {k}
        /\ UNCHANGED <<pending, origin, transmitted, queue, writer, closing, resend>>
    BY <1>5, Zenon DEF FinishAccept, callVars, frameVars
  <2> QED
    BY <2>1, <2>2, Zenon DEF NoOrphan
<1>6. ASSUME NEW k \in Sessions, Establish(k) \/ Cut(k) \/ Lose(k)
      PROVE  NoOrphan'
  <2>1. UNCHANGED <<pending, origin, transmitted, registered, open, queue, writer, closing,
                    resend>>
    BY <1>6, Zenon DEF Establish, Cut, Lose, callVars, sessionVars, frameVars
  <2> QED
    BY <2>1, Zenon DEF NoOrphan
<1>7. ASSUME NEW k \in Sessions, CloseSession(k)
      PROVE  NoOrphan'
  BY <1>7, Zenon DEF CloseSession, NoOrphan, callVars
<1>8. ASSUME NEW k \in Sessions \cup {Local}, NEW c \in Calls,
             Admit(k, c) \/ Reject(k, c) \/ Answer(k, c) \/ NeverReply(k, c)
      PROVE  NoOrphan'
  <2>1. UNCHANGED <<pending, origin, transmitted, registered, open, queue, writer, closing,
                    resend>>
    BY <1>8, Zenon DEF Admit, Reject, Answer, NeverReply, callVars, sessionVars, frameVars
  <2> QED
    BY <2>1, Zenon DEF NoOrphan
<1>9. ASSUME NEW k \in Sessions \cup {Local}, NEW c \in Calls, NEW answer \in Answers,
             Complete(k, c, answer)
      PROVE  NoOrphan'
  <2> DEFINE freed == Freed(c, answer = "gone" /\ failed = "no")
  <2>1. UNCHANGED <<registered, open, writer, closing, resend>>
    BY <1>9, Zenon DEF Complete, sessionVars
  <2>2. CASE ~Awaited(k, c)
    BY <1>9, <2>1, <2>2, Zenon DEF Complete, NoOrphan, callVars
  <2>3. CASE Awaited(k, c) /\ answer = "reply"
    <3>1. Settle({c}, {}, {}) /\ queue' = Retracted(freed) /\ freed = {}
      BY <1>9, <2>3, Zenon DEF Complete, Freed
    <3> QED
      BY <2>1, <3>1, OrphanSettle, Zenon DEF Settle, Retracted
  <2>4. CASE Awaited(k, c) /\ answer # "reply"
    <3>1. /\ pending' = pending \ ({c} \cup freed)
          /\ transmitted' = transmitted \ ({c} \cup freed)
          /\ \A d \in pending' : origin'[d] = origin[d]
          /\ queue' = Retracted(freed)
      BY <1>9, <2>4, Zenon DEF Complete, Settle, Left
    <3>2. \A j \in Sessions : queue[j] \subseteq queue'[j] \cup ({c} \cup freed)
      BY <3>1, Zenon DEF Retracted
    <3> HIDE DEF freed
    <3> QED
      BY <2>1, <3>1, <3>2, OrphanSettle, Zenon
  <2> QED
    BY <2>2, <2>3, <2>4, Zenon
<1>10. ASSUME NEW c \in Calls, StartCall(c)
       PROVE  NoOrphan'
  BY <1>0, <1>10, OrphanStart, Zenon
<1>11. ASSUME NEW c \in Calls, StartOwnCall(c)
       PROVE  NoOrphan'
  BY <1>11 DEF StartOwnCall, New, Settle, NoOrphan, sessionVars, frameVars
<1>12. ASSUME NEW c \in Calls, Abandon(c)
       PROVE  NoOrphan'
  <2>1. /\ pending' = pending \ {c}
        /\ transmitted' = transmitted \ {c}
        /\ \A d \in pending' : origin'[d] = origin[d]
        /\ \A j \in Sessions : queue[j] \subseteq queue'[j] \cup {c}
        /\ UNCHANGED <<registered, open, writer, closing, resend>>
    BY <1>12, Zenon DEF Abandon, Settle, Left, Retracted, sessionVars
  <2> QED
    BY <2>1, OrphanSettle, Zenon
<1>13. CASE Terminate \/ DropDriver
  <2>1. pending' = {}
    BY <1>13, Zenon DEF Terminate, DropDriver, Settle, Left
  <2> QED
    BY <1>0, <2>1, Zenon DEF NoOrphan
<1>14. CASE CloseAll
  BY <1>0, <1>14, Zenon DEF CloseAll, NoOrphan, callVars
<1>15. CASE BeginAccept \/ BeginShutdown \/ DestroyEndpoint \/ StreamEnd \/ UNCHANGED vars
  <2>1. UNCHANGED <<pending, origin, transmitted, registered, open, queue, writer, closing,
                    resend>>
    BY <1>15, Zenon DEF BeginAccept, BeginShutdown, DestroyEndpoint, StreamEnd, vars, callVars,
                 sessionVars, frameVars
  <2> QED
    BY <1>0, <2>1, Zenon DEF NoOrphan
<1> QED
  BY <1>0, <1>1, <1>2, <1>3, <1>4, <1>5, <1>6, <1>7, <1>8, <1>9, <1>10, <1>11, <1>12, <1>13,
     <1>14, <1>15, Zenon DEF Next, Progress

\* Nobody waits for nothing: every pending call is queued, was transmitted, waits
\* on a session about to be reported ended, or is about to be sent again (adopt,
\* retransmit, close_connection).
THEOREM NoOrphanHolds == Spec => []NoOrphan
<1>1. Init => OrphanInv
  BY Zenon DEF Init, OrphanInv, OneFrame, NoOrphan
<1>2. IInv => CallInv
  BY Zenon DEF IInv, CallInv, Typed, TypeOK
<1>3. IInv /\ OrphanInv /\ [Next]_vars => OrphanInv'
  BY <1>2, OrphanStep, Zenon
<1>4. OrphanInv => NoOrphan
  BY Zenon DEF OrphanInv
<1> QED
  BY <1>1, <1>3, <1>4, InvAlways, PTL DEF Spec

=============================================================================
