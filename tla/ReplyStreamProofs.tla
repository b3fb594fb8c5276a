-------------------------- MODULE ReplyStreamProofs --------------------------
(***************************************************************************)
(* A reply stream never breaks its own protocol, holds what it queues,     *)
(* delivers in order and lets nobody oversleep: for every number of        *)
(* senders, every size of item, window and counter, on either route.       *)
(*                                                                         *)
(* The argument is a ledger.  total[j] is what the first j items of the    *)
(* stream account for, a function the state does not hold but that every   *)
(* reachable state has: credit, frames, intake and acknowledgements are    *)
(* all values of it.  m is the number of the next frame the consuming side *)
(* will see.                                                               *)
(***************************************************************************)
EXTENDS ReplyStream, WellFoundedInduction, TLAPS

Items == [kind : {"item"}, n : Nat, size : Nat]
Ends == [kind : {"end"}, n : Nat, error : {"ok", "failed", "protocol"}]
Signals == [kind : {"none", "ack", "cancel"}, consumed : Nat]

Credits == [window : Nat, sent : Nat, acked : Nat, next : Nat, boundaries : SUBSET Nat]
Terminals == {"none", "ended", "protocol", "disconnected", "cancelled"}

\* Records and sequences of the right shape: what the producer holds and emits,
\* the connections and what they signal, the consumer.
TypedOut ==
    /\ world \in Worlds
    /\ credit \in Credits
    /\ terminal \in Terminals
    /\ hold \in {"core", "frame", "free"}
    /\ out \in Seq(Items \cup Ends)
    /\ down \in Seq(Items \cup Ends)
TypedBack ==
    /\ handle \in {"held", "gone"}
    /\ server \in {"open", "closed", "ended"}
    /\ client \in {"open", "closed", "ended"}
    /\ signal \in Signals
    /\ up \in Seq(Signals)
TypedIn ==
    /\ pending \in BOOLEAN
    /\ intake \in [next : Nat, received : Nat, consumed : Nat]
    /\ buffer \in Seq(Items)
    /\ outcome \in {"none", "ok", "failed", "protocol", "disconnected", "malformed"}
    /\ reader \in {"run", "wait", "over", "dropped"}
    /\ taken \in Seq(Nat)
Typed == TypedOut /\ TypedBack /\ TypedIn

\* The senders' tasks and their line.
Lined ==
    /\ line \in Seq(Senders) /\ IsInjective(line)
    /\ sender \in [Senders -> [task : {"run", "wait"}, size : Sizes] \cup {Idle}]
    /\ caller \in {"idle", "run", "wait"}

\* What the credit knows of the ledger; the window in force is never above the
\* one that was reserved, nor is what is in flight.
Books(total) ==
    /\ total \in [Nat -> Nat]
    /\ total[0] = 0
    /\ \A i, j \in Nat : i <= j => total[i] <= total[j]
    /\ \A j \in Nat : j >= credit.next => total[j] = credit.sent
    /\ credit.boundaries = {total[j] : j \in {i \in Nat : total[i] > credit.acked}}
    /\ credit.sent <= MaxCounter
    /\ credit.acked <= credit.sent
    /\ credit.sent - credit.acked <= Window
    /\ credit.window <= Window

\* What the consumer counts is what those items account for.
Counted(total) ==
    /\ intake.next <= credit.next
    /\ intake.received = total[intake.next]
    /\ \E c \in 0 .. intake.next : intake.consumed = total[c]
    /\ credit.acked <= intake.consumed

\* An acknowledgement is a value of the ledger the credit has not passed.
Ack(a, total, acked, in) ==
    a.kind = "ack" =>
        /\ acked <= a.consumed
        /\ a.consumed <= in.consumed
        /\ \E c \in 0 .. in.next : a.consumed = total[c]

\* Acknowledgements are sent in order.
Acks(total) ==
    /\ Ack(signal, total, credit.acked, intake)
    /\ signal.kind # "ack" => signal.consumed = 0
    /\ \A i \in DOMAIN up :
        /\ Ack(up[i], total, credit.acked, intake)
        /\ up[i].kind \in {"ack", "cancel"}
        /\ signal.kind = "ack" /\ up[i].kind = "ack" => up[i].consumed <= signal.consumed
        /\ \A j \in DOMAIN up : i <= j /\ up[i].kind = "ack" /\ up[j].kind = "ack" =>
            up[i].consumed <= up[j].consumed
    /\ Local => up = <<>> /\ signal = NoSignal

\* A frame is an entry of the ledger, or the end of it.
Entry(f, total, next, why) ==
    /\ f.kind = "item" => f.n < next /\ f.size = total[f.n + 1] - total[f.n]
    /\ f.kind = "end" => f.n = next /\ why # "none"

Entries(total) ==
    /\ \A i \in DOMAIN out : Entry(out[i], total, credit.next, terminal)
    /\ \A i \in DOMAIN down : Entry(down[i], total, credit.next, terminal)
    /\ \A i \in DOMAIN buffer : Entry(buffer[i], total, credit.next, terminal)

\* Frames travel in the order of their numbers, and a producer that can still
\* emit continues it.
Chained(m) ==
    /\ m \in Nat
    /\ intake.next <= m
    /\ pending => m = intake.next
    /\ \A i \in DOMAIN down : down[i].n = m + i - 1
    /\ \A i \in DOMAIN out : out[i].n = m + Len(down) + i - 1
    /\ terminal = "none" /\ (Local \/ server = "open") =>
        credit.next = m + Len(down) + Len(out)
    /\ out # <<>> => ~Local /\ server = "open"

\* The application has read a prefix of what arrived.
Reading(total) ==
    /\ taken = [i \in 1 .. Len(taken) |-> i - 1]
    /\ reader \in {"run", "wait"} =>
        /\ intake.next = Len(taken) + Len(buffer)
        /\ intake.consumed = total[Len(taken)]
        /\ \A i \in DOMAIN buffer : buffer[i].n = Len(taken) + i - 1
    /\ pending => outcome = "none" /\ reader \in {"run", "wait"}
    /\ outcome \in {"ok", "failed"} => terminal # "none" /\ intake.next = credit.next
    /\ reader = "over" => outcome # "none"
    /\ reader = "over" /\ outcome \in {"ok", "failed"} => Len(taken) = credit.next

\* What admission reserved is with the core, or in the end frame, or free.
Holding ==
    /\ terminal = "none" <=> hold = "core"
    /\ hold = "frame" /\ ~Local => out # <<>> /\ out[Len(out)].kind = "end"
    /\ hold = "frame" /\ Local => \E i \in DOMAIN down : down[i].kind = "end"
    /\ out # <<>> => hold # "free"

Ledger(total, m) ==
    /\ Books(total)
    /\ Counted(total)
    /\ Acks(total)
    /\ Entries(total)
    /\ Chained(m)
    /\ Reading(total)

IInv ==
    /\ Typed
    /\ Lined
    /\ NobodyOversleeps
    /\ Holding
    /\ NeverRefused
    /\ \E total, m : Ledger(total, m)

\* The three parts of NobodyOversleeps.
SendersAwake ==
    \A s \in Senders : sender[s].task = "wait" =>
        /\ terminal = "none"
        /\ s \in Range(line)
        /\ Head(line) = s => ~Fits(credit, sender[s].size)
CallerAwake == caller = "wait" => terminal = "none" /\ ~(HasRoom(credit) /\ line = <<>>)
ReaderAwake == reader = "wait" => buffer = <<>> /\ outcome = "none"

-----------------------------------------------------------------------------
(* Counters.                                                               *)

\* At most what is at most a third.
LEMMA AtMostThird == \A a, b, c \in Nat : a <= b /\ b <= c => a <= c
BY SMT

\* A counter that stays within its bound, as does zero.
LEMMA InBound == \A a, b \in Nat : 0 \in 0 .. b /\ (a <= b => a \in 0 .. b)
BY SMT

----------------------------------------------------------------------------
(* The line.                                                               *)

\* A sender that leaves the line leaves everybody else in it (CoreState::leave).
LEMMA LeaveFacts ==
    ASSUME Lined, NEW s \in Senders
    PROVE  /\ Leave(s) \in Seq(Senders)
           /\ IsInjective(Leave(s))
           /\ \A t : t \in Range(line) /\ t # s => t \in Range(Leave(s))
<1>1. CASE s \notin Range(line)
  BY <1>1, Zenon DEF Lined, Leave
<1>2. CASE s \in Range(line)
  <2> DEFINE place == CHOOSE i \in DOMAIN line : line[i] = s
             l == [i \in 1 .. Len(line) - 1 |-> line[IF i < place THEN i ELSE i + 1]]
  <2>1. place \in DOMAIN line /\ line[place] = s
    BY <1>2, Zenon DEF Range
  <2>2. Leave(s) = l
    BY <1>2, Zenon DEF Leave
  <2> HIDE DEF place
  <2>3. line \in Seq(Senders) /\ IsInjective(line)
    BY Zenon DEF Lined
  <2>4. Len(line) \in Nat /\ DOMAIN line = 1 .. Len(line) /\ place \in 1 .. Len(line)
    BY <2>1, <2>3
  <2>5. l \in Seq(Senders) /\ DOMAIN l = 1 .. Len(line) - 1
    BY <2>3, <2>4
  <2>6. IsInjective(l)
    BY <2>3, <2>4 DEF IsInjective
  <2>7. ASSUME NEW t, t \in Range(line), t # s PROVE t \in Range(l)
    <3>1. PICK i \in DOMAIN line : line[i] = t
      BY <2>7, Zenon DEF Range
    <3>2. CASE i < place
      <4>1. i \in DOMAIN l /\ l[i] = t
        BY <2>4, <3>1, <3>2
      <4> QED
        BY <4>1, Zenon DEF Range
    <3>3. CASE i > place
      <4>1. i - 1 \in DOMAIN l /\ l[i - 1] = t
        BY <2>4, <3>1, <3>3
      <4> QED
        BY <4>1, Zenon DEF Range
    <3> QED
      BY <2>1, <2>4, <2>7, <3>1, <3>2, <3>3
  <2> QED
    BY <2>2, <2>5, <2>6, <2>7, Zenon
<1> QED
  BY <1>1, <1>2, Zenon

\* Waking changes nothing of a task but that it runs (Effects::apply).
LEMMA WokenFacts ==
    ASSUME Lined, NEW who
    PROVE  /\ Woken(who) \in [Senders -> [task : {"run", "wait"}, size : Sizes] \cup {Idle}]
           /\ \A s \in Senders : Woken(who)[s].task = "wait" =>
                s \notin who /\ Woken(who)[s] = sender[s]
           /\ WokenCaller \in {"idle", "run"}
<1>1. ASSUME NEW s \in Senders
      PROVE  /\ Woken(who)[s] \in [task : {"run", "wait"}, size : Sizes] \cup {Idle}
             /\ Woken(who)[s].task = "wait" => s \notin who /\ Woken(who)[s] = sender[s]
  BY DEF Woken, Lined, Idle
<1>2. DOMAIN Woken(who) = Senders /\ Woken(who) = [s \in Senders |-> Woken(who)[s]]
  BY DEF Woken
<1>3. Woken(who) \in [Senders -> [task : {"run", "wait"}, size : Sizes] \cup {Idle}]
  BY <1>1, <1>2
<1>4. WokenCaller \in {"idle", "run"}
  BY Zenon DEF Lined, WokenCaller
<1> QED
  BY <1>1, <1>3, <1>4, Zenon

\* A stream that stops leaves nobody asleep (CoreState::stop, CoreState::all).
LEMMA StopWakes ==
    ASSUME Lined, NEW why, NEW done, Stop(why, done)
    PROVE  Lined' /\ SendersAwake' /\ CallerAwake'
<1>1. line' \in Seq(Senders) /\ IsInjective(line')
  BY DEF Stop, IsInjective
<1>2. caller' \in {"idle", "run"}
  BY WokenFacts, Zenon DEF Stop
<1>3. ASSUME NEW s \in Senders
      PROVE  /\ sender'[s] \in [task : {"run", "wait"}, size : Sizes] \cup {Idle}
             /\ sender'[s].task # "wait"
  <2>1. sender'[s] = IF s \in done THEN Idle ELSE Woken(Senders)[s]
    BY Zenon DEF Stop
  <2>2. Woken(Senders)[s] \in [task : {"run", "wait"}, size : Sizes] \cup {Idle}
    BY WokenFacts, Zenon
  <2>3. Woken(Senders)[s].task # "wait"
    BY WokenFacts, Zenon
  <2>4. Idle.task # "wait"
    BY DEF Idle
  <2> QED
    BY <2>1, <2>2, <2>3, <2>4, Zenon
<1>4. sender' \in [Senders -> [task : {"run", "wait"}, size : Sizes] \cup {Idle}]
  <2>1. sender' = [s \in Senders |-> IF s \in done THEN Idle ELSE Woken(Senders)[s]]
    BY Zenon DEF Stop
  <2>2. sender' = [s \in Senders |-> sender'[s]]
    BY <2>1, Zenon
  <2>3. 0 \in Nat
    OBVIOUS
  <2> QED
    BY <1>3, <2>2, <2>3, Zenon
<1>5. Lined'
  BY <1>1, <1>2, <1>4, Zenon DEF Lined
<1>6. SendersAwake'
  BY <1>3, Zenon DEF SendersAwake
<1>7. CallerAwake'
  BY <1>2, Zenon DEF CallerAwake
<1> QED
  BY <1>5, <1>6, <1>7, Zenon

\* When a sender is done, the next in line is awake, and so is a ready() caller
\* once there is credit for it (CoreState::turn_passed).
LEMMA TurnPassedWakes ==
    ASSUME Lined, SendersAwake, CallerAwake, NEW s \in Senders,
           TurnPassed(s, Leave(s), credit'), terminal' = terminal
    PROVE  Lined' /\ SendersAwake' /\ CallerAwake'
<1>1. line' = Leave(s) /\ line' \in Seq(Senders) /\ IsInjective(line')
  BY LeaveFacts, Zenon DEF TurnPassed
<1>2. sender' = [Woken(Heads(line')) EXCEPT ![s] = Idle]
  BY <1>1, Zenon DEF TurnPassed
<1>3. sender' \in [Senders -> [task : {"run", "wait"}, size : Sizes] \cup {Idle}]
  BY <1>2, WokenFacts
<1>4. caller' \in {"idle", "run", "wait"}
  BY WokenFacts, Zenon DEF TurnPassed, Lined
<1>5. Lined'
  BY <1>1, <1>3, <1>4, Zenon DEF Lined
<1>6. ASSUME NEW t \in Senders, sender'[t].task = "wait"
      PROVE  terminal' = "none" /\ t \in Range(line') /\ Head(line') # t
  <2>0. DOMAIN Woken(Heads(line')) = Senders
    BY DEF Woken
  <2>1. t # s
    <3>1. sender'[s] = Idle
      BY <1>2, <2>0
    <3> QED
      BY <1>6, <3>1 DEF Idle
  <2>2. sender'[t] = Woken(Heads(line'))[t]
    BY <1>2, <2>0, <2>1
  <2>3. t \notin Heads(line') /\ sender[t].task = "wait"
    <3>1. Woken(Heads(line'))[t].task = "wait" =>
            t \notin Heads(line') /\ Woken(Heads(line'))[t] = sender[t]
      BY WokenFacts, Zenon
    <3> QED
      BY <1>6, <2>2, <3>1, Zenon
  <2>4. terminal = "none" /\ t \in Range(line)
    BY <2>3, Zenon DEF SendersAwake
  <2>5. t \in Range(line')
    BY <1>1, <2>1, <2>4, LeaveFacts, Zenon
  <2>6. line' # <<>>
    BY <2>5 DEF Range
  <2> QED
    BY <2>3, <2>4, <2>5, <2>6, Zenon DEF Heads
<1>7. SendersAwake'
  BY <1>6, Zenon DEF SendersAwake
<1>8. CallerAwake'
  <2> SUFFICES ASSUME caller' = "wait" PROVE terminal' = "none" /\ ~(HasRoom(credit') /\ line' = <<>>)
    BY Zenon DEF CallerAwake
  <2>1. WokenCaller # "wait"
    BY WokenFacts, Zenon
  <2>2. ~(HasRoom(credit') /\ line' = <<>>) /\ caller = "wait"
    BY <1>1, <2>1, Zenon DEF TurnPassed
  <2> QED
    BY <2>2, Zenon DEF CallerAwake
<1> QED
  BY <1>5, <1>7, <1>8, Zenon

\* The line and its sleepers, in one name.
Rested == Lined /\ SendersAwake /\ CallerAwake

\* Nothing of the line changes.
LEMMA RestedSkip ==
    ASSUME Rested, UNCHANGED <<credit, terminal, line, sender, caller>>
    PROVE  Rested'
<1>1. /\ credit' = credit /\ terminal' = terminal /\ line' = line
      /\ sender' = sender /\ caller' = caller
  BY Zenon
<1>2. Lined'
  BY <1>1, Zenon DEF Rested, Lined
<1>3. SendersAwake'
  BY <1>1, Zenon DEF Rested, SendersAwake
<1>4. CallerAwake'
  BY <1>1, Zenon DEF Rested, CallerAwake
<1> QED
  BY <1>2, <1>3, <1>4, Zenon DEF Rested

\* A stream that ends lets everybody know (StreamCore::end_with).
LEMMA RestedEnd ==
    ASSUME Rested, NEW why, NEW error, NEW done, EndWith(why, error, done)
    PROVE  Rested'
BY StopWakes, Zenon DEF Rested, EndWith

\* An acknowledgement wakes whom its credit may serve (StreamCore::on_ack).
LEMMA RestedAck ==
    ASSUME Rested, NEW consumed, OnAck(consumed)
    PROVE  Rested'
<1>1. CASE terminal # "none" \/ consumed = credit.acked
  <2>1. UNCHANGED <<credit, terminal, line, sender, caller>>
    BY <1>1, Zenon DEF OnAck
  <2> QED
    BY <2>1, RestedSkip, Zenon
<1>2. CASE terminal = "none" /\ consumed # credit.acked /\ consumed \in credit.boundaries
  <2>1. /\ sender' = Woken(Heads(line)) /\ caller' = WokenCaller
        /\ terminal' = terminal /\ line' = line
    BY <1>2, Zenon DEF OnAck
  <2>2. Lined'
    BY <2>1, WokenFacts, Zenon DEF Rested, Lined
  <2>3. CallerAwake'
    <3>1. caller' # "wait"
      BY <2>1, WokenFacts, Zenon DEF Rested
    <3> QED
      BY <3>1, Zenon DEF CallerAwake
  <2>4. ASSUME NEW s \in Senders, sender'[s].task = "wait"
        PROVE  terminal' = "none" /\ s \in Range(line') /\ Head(line') # s
    <3>1. Woken(Heads(line))[s].task = "wait" =>
            s \notin Heads(line) /\ Woken(Heads(line))[s] = sender[s]
      BY WokenFacts, Zenon DEF Rested
    <3>2. s \notin Heads(line) /\ sender[s].task = "wait"
      BY <2>1, <2>4, <3>1, Zenon
    <3>3. terminal = "none" /\ s \in Range(line)
      BY <3>2, Zenon DEF Rested, SendersAwake
    <3>4. line # <<>>
      BY <3>3 DEF Range
    <3> QED
      BY <2>1, <3>2, <3>3, <3>4, Zenon DEF Heads
  <2>5. SendersAwake'
    BY <2>4, Zenon DEF SendersAwake
  <2> QED
    BY <2>2, <2>3, <2>5, Zenon DEF Rested
<1>3. CASE terminal = "none" /\ consumed # credit.acked /\ consumed \notin credit.boundaries
  <2>1. EndWith("protocol", "protocol", {})
    BY <1>3, Zenon DEF OnAck
  <2> QED
    BY <2>1, RestedEnd, Zenon
<1> QED
  BY <1>1, <1>2, <1>3, Zenon

\* A cancelled stream leaves nobody asleep (StreamCore::cancel).
LEMMA RestedCancel ==
    ASSUME Rested, OnCancel, UNCHANGED credit
    PROVE  Rested'
<1>1. CASE terminal # "none"
  <2>1. UNCHANGED <<credit, terminal, line, sender, caller>>
    BY <1>1, Zenon DEF OnCancel
  <2> QED
    BY <2>1, RestedSkip, Zenon
<1>2. CASE terminal = "none"
  <2>1. Stop("cancelled", {})
    BY <1>2, Zenon DEF OnCancel
  <2> QED
    BY <2>1, StopWakes, Zenon DEF Rested
<1> QED
  BY <1>1, <1>2, Zenon

\* The same when the consumer gives up (Shared::abandon).
LEMMA RestedAbandon ==
    ASSUME Rested, Abandon, UNCHANGED credit
    PROVE  Rested'
<1>1. CASE Local
  BY <1>1, RestedCancel, Zenon DEF Abandon
<1>2. CASE ~Local
  <2>1. UNCHANGED <<credit, terminal, line, sender, caller>>
    BY <1>2, Zenon DEF Abandon
  <2> QED
    BY <2>1, RestedSkip, Zenon
<1> QED
  BY <1>1, <1>2, Zenon

\* The same when the consumer acknowledges (ConsumerCore::acknowledge).
LEMMA RestedAcknowledge ==
    ASSUME Rested, NEW consumed, Acknowledge(consumed)
    PROVE  Rested'
<1>1. CASE Local
  BY <1>1, RestedAck, Zenon DEF Acknowledge
<1>2. CASE ~Local
  <2>1. UNCHANGED <<credit, terminal, line, sender, caller>>
    BY <1>2, Zenon DEF Acknowledge
  <2> QED
    BY <2>1, RestedSkip, Zenon
<1> QED
  BY <1>1, <1>2, Zenon

\* A sender whose task changes while its line does not.
LEMMA RestedTask ==
    ASSUME Rested, NEW s \in Senders, NEW task,
           task \in [task : {"run"}, size : Sizes] \cup {Idle},
           sender' = [sender EXCEPT ![s] = task],
           line' \in Seq(Senders), IsInjective(line'),
           line' = line \/ terminal # "none",
           UNCHANGED <<credit, terminal, caller>>
    PROVE  Rested'
<1>1. credit' = credit /\ terminal' = terminal /\ caller' = caller
  BY Zenon
<1>2. sender \in [Senders -> [task : {"run", "wait"}, size : Sizes] \cup {Idle}]
  BY Zenon DEF Rested, Lined
<1>3. sender' \in [Senders -> [task : {"run", "wait"}, size : Sizes] \cup {Idle}]
  BY <1>2
<1>4. Lined'
  BY <1>1, <1>3, Zenon DEF Rested, Lined
<1>5. \A t \in Senders : sender'[t].task = "wait" => sender'[t] = sender[t]
  <2>1. task.task # "wait"
    BY DEF Idle
  <2> QED
    BY <1>2, <2>1
<1>6. SendersAwake'
  BY <1>1, <1>5, Zenon DEF Rested, SendersAwake
<1>7. CallerAwake'
  BY <1>1, Zenon DEF Rested, CallerAwake
<1> QED
  BY <1>4, <1>6, <1>7, Zenon DEF Rested

\* One poll of a send (StreamCore::send_locked).
LEMMA RestedPoll ==
    ASSUME Rested, NEW s \in Senders, PollSend(s)
    PROVE  Rested'
<1>0. Lined /\ SendersAwake /\ CallerAwake
  BY Zenon DEF Rested
<1>1. CASE SendAfterEnd(s)
  <2>1. Leave(s) \in Seq(Senders) /\ IsInjective(Leave(s))
    BY <1>0, LeaveFacts, Zenon
  <2>2. /\ sender' = [sender EXCEPT ![s] = Idle] /\ line' = Leave(s) /\ terminal # "none"
        /\ UNCHANGED <<credit, terminal, caller>>
    BY <1>1, Zenon DEF SendAfterEnd
  <2> QED
    BY <2>1, <2>2, RestedTask, Zenon
<1>2. CASE SendTooLarge(s)
  <2>1. TurnPassed(s, Leave(s), credit') /\ terminal' = terminal
    BY <1>2, Zenon DEF SendTooLarge
  <2> QED
    BY <1>0, <2>1, TurnPassedWakes, Zenon DEF Rested
<1>3. CASE SendOverflows(s)
  BY <1>3, RestedEnd, Zenon DEF SendOverflows
<1>4. CASE SendItem(s)
  <2>1. CASE Local \/ server = "open"
    <3>1. TurnPassed(s, Leave(s), credit') /\ terminal' = terminal
      BY <1>4, <2>1, Zenon DEF SendItem
    <3> QED
      BY <1>0, <3>1, TurnPassedWakes, Zenon DEF Rested
  <2>2. CASE ~(Local \/ server = "open")
    <3>1. Stop("disconnected", {s})
      BY <1>4, <2>2, Zenon DEF SendItem
    <3> QED
      BY <1>0, <3>1, StopWakes, Zenon DEF Rested
  <2> QED
    BY <2>1, <2>2, Zenon
<1>5. CASE SendWaits(s)
  <2>1. /\ line' = IF s \in Range(line) THEN line ELSE Append(line, s)
        /\ sender' = [sender EXCEPT ![s].task = "wait"]
        /\ terminal = "none" /\ terminal' = terminal /\ credit' = credit /\ caller' = caller
        /\ MyTurn(s) => ~Fits(credit, sender[s].size)
        /\ sender[s].task = "run"
    BY <1>5, Zenon DEF SendWaits, Polls
  <2>2. /\ line \in Seq(Senders) /\ IsInjective(line)
        /\ sender \in [Senders -> [task : {"run", "wait"}, size : Sizes] \cup {Idle}]
        /\ caller \in {"idle", "run", "wait"}
    BY <1>0, Zenon DEF Lined
  <2>3. line' \in Seq(Senders) /\ IsInjective(line')
    BY <2>1, <2>2 DEF Range, IsInjective
  <2>4. \A t : t \in Range(line) \/ t = s => t \in Range(line')
    <3>1. CASE s \in Range(line)
      BY <2>1, <3>1, Zenon
    <3>2. CASE s \notin Range(line)
      <4>1. line' = Append(line, s) /\ DOMAIN line = 1 .. Len(line) /\ Len(line) \in Nat
        BY <2>1, <2>2, <3>2
      <4>2. line'[Len(line) + 1] = s /\ Len(line) + 1 \in DOMAIN line'
        BY <2>2, <4>1
      <4>3. \A i \in DOMAIN line : i \in DOMAIN line' /\ line'[i] = line[i]
        BY <2>2, <4>1
      <4> QED
        BY <4>2, <4>3 DEF Range
    <3> QED
      BY <3>1, <3>2, Zenon
  <2>5. sender[s] \in [task : {"run", "wait"}, size : Sizes]
    BY <2>1, <2>2 DEF Idle
  <2>6. sender' \in [Senders -> [task : {"run", "wait"}, size : Sizes] \cup {Idle}]
    BY <2>1, <2>2, <2>5
  <2>7. Lined'
    BY <2>1, <2>2, <2>3, <2>6, Zenon DEF Lined
  <2>8. line' # <<>>
    BY <2>4 DEF Range
  <2>9. CallerAwake'
    BY <1>0, <2>1, <2>8, Zenon DEF CallerAwake
  <2>10. \A t \in Senders : t # s => sender'[t] = sender[t]
    BY <2>1, <2>2
  <2>11. sender'[s].size = sender[s].size
    BY <2>1, <2>2, <2>5
  <2>12. Head(line') = s => MyTurn(s)
    BY <2>1, <2>2 DEF MyTurn, Heads, Range
  <2>13. line # <<>> => Head(line') = Head(line)
    BY <2>1, <2>2
  <2>14. ASSUME NEW t \in Senders, sender'[t].task = "wait"
         PROVE  /\ terminal' = "none" /\ t \in Range(line')
                /\ Head(line') = t => ~Fits(credit', sender'[t].size)
    <3>1. CASE t = s
      BY <2>1, <2>4, <2>11, <2>12, <3>1, Zenon
    <3>2. CASE t # s
      <4>1. /\ t \in Range(line)
            /\ Head(line) = t => ~Fits(credit, sender[t].size)
        BY <1>0, <2>10, <2>14, <3>2, Zenon DEF SendersAwake
      <4>2. line # <<>>
        BY <4>1 DEF Range
      <4> QED
        BY <2>1, <2>4, <2>10, <2>13, <3>2, <4>1, <4>2, Zenon
    <3> QED
      BY <3>1, <3>2, Zenon
  <2> QED
    BY <2>7, <2>9, <2>14, Zenon DEF Rested, SendersAwake
<1> QED
  BY <1>1, <1>2, <1>3, <1>4, <1>5, Zenon DEF PollSend

\* A send that is dropped (StreamCore::abandon_send).
LEMMA RestedAbandonSend ==
    ASSUME Rested, NEW s \in Senders, AbandonSend(s)
    PROVE  Rested'
<1>1. CASE s \in Range(line)
  <2>1. TurnPassed(s, Leave(s), credit') /\ terminal' = terminal
    BY <1>1, Zenon DEF AbandonSend
  <2> QED
    BY <2>1, TurnPassedWakes, Zenon DEF Rested
<1>2. CASE s \notin Range(line)
  <2>1. /\ sender' = [sender EXCEPT ![s] = Idle] /\ line' = line
        /\ UNCHANGED <<credit, terminal, caller>>
    BY <1>2, Zenon DEF AbandonSend
  <2>2. line' \in Seq(Senders) /\ IsInjective(line')
    BY <2>1, Zenon DEF Rested, Lined
  <2> QED
    BY <2>1, <2>2, RestedTask, Zenon
<1> QED
  BY <1>1, <1>2, Zenon

\* A ready() caller starts, or looks (StreamCore::poll_ready).
LEMMA RestedReady ==
    ASSUME Rested, StartReady \/ PollReady
    PROVE  Rested'
<1>1. /\ UNCHANGED <<credit, terminal, line, sender>>
      /\ caller' \in {"idle", "run", "wait"}
      /\ caller' = "wait" => terminal = "none" /\ ~(HasRoom(credit) /\ line = <<>>)
  BY Zenon DEF StartReady, PollReady
<1>2. credit' = credit /\ terminal' = terminal /\ line' = line /\ sender' = sender
  BY <1>1, Zenon
<1>3. Lined' /\ SendersAwake'
  BY <1>1, <1>2, Zenon DEF Rested, Lined, SendersAwake
<1>4. CallerAwake'
  BY <1>1, <1>2, Zenon DEF CallerAwake
<1> QED
  BY <1>3, <1>4, Zenon DEF Rested

\* A lower window has less room, never more (Credit::limit_window).
LEMMA RestedLimit ==
    ASSUME Typed, Rested, NEW limit \in Sizes, LimitWindow(limit)
    PROVE  Rested'
<1>1. /\ credit' = [credit EXCEPT !.window = limit] /\ limit < credit.window
      /\ UNCHANGED <<terminal, line, sender, caller>>
  BY Zenon DEF LimitWindow
<1>2. terminal' = terminal /\ line' = line /\ sender' = sender /\ caller' = caller
  BY <1>1, Zenon
<1>3. limit \in Nat /\ Sizes \subseteq Nat
  BY StreamAssumption
<1>4. credit \in [window : Nat, sent : Nat, acked : Nat, next : Nat, boundaries : SUBSET Nat]
  BY Zenon DEF Typed, TypedOut, Credits
<1>5. \A k \in Nat : Fits(credit', k) => Fits(credit, k)
  BY <1>1, <1>3, <1>4 DEF Fits
<1>6. HasRoom(credit') => HasRoom(credit)
  BY <1>1, <1>3, <1>4 DEF HasRoom
<1>7. \A s \in Senders : sender[s].size \in Nat
  <2>1. sender \in [Senders -> [task : {"run", "wait"}, size : Sizes] \cup {Idle}]
    BY Zenon DEF Rested, Lined
  <2>2. \A s \in Senders : sender[s].size \in Sizes \/ sender[s].size = 0
    BY <2>1 DEF Idle
  <2>3. 0 \in Nat
    OBVIOUS
  <2> QED
    BY <1>3, <2>2, <2>3, Zenon
<1>8. Lined' /\ CallerAwake'
  BY <1>2, <1>6, Zenon DEF Rested, Lined, CallerAwake
<1>9. SendersAwake'
  BY <1>2, <1>5, <1>7, Zenon DEF Rested, SendersAwake
<1> QED
  BY <1>8, <1>9, Zenon DEF Rested

\* Every step leaves the line's sleepers with a reason to sleep.
LEMMA RestedStep ==
    ASSUME Typed, Rested, [Next]_vars
    PROVE  Rested'
<1>1. CASE UNCHANGED vars
  <2>1. UNCHANGED <<credit, terminal, line, sender, caller>>
    BY <1>1, Zenon DEF vars, producing
  <2> QED
    BY <2>1, RestedSkip, Zenon
<1>2. ASSUME NEW s \in Senders, PollSend(s) PROVE Rested'
  BY <1>2, RestedPoll, Zenon
<1>3. ASSUME NEW s \in Senders, AbandonSend(s) PROVE Rested'
  BY <1>3, RestedAbandonSend, Zenon
<1>4. ASSUME NEW s \in Senders, NEW k \in Sizes, StartSend(s, k) PROVE Rested'
  <2>1. /\ sender' = [sender EXCEPT ![s] = [task |-> "run", size |-> k]] /\ line' = line
        /\ UNCHANGED <<credit, terminal, caller>>
    BY <1>4, Zenon DEF StartSend
  <2>2. line' \in Seq(Senders) /\ IsInjective(line')
    BY <2>1, Zenon DEF Rested, Lined
  <2>3. [task |-> "run", size |-> k] \in [task : {"run"}, size : Sizes] \cup {Idle}
    OBVIOUS
  <2> QED
    BY <2>1, <2>2, <2>3, RestedTask, Zenon
<1>5. CASE StartReady \/ PollReady
  BY <1>5, RestedReady, Zenon
<1>6. ASSUME NEW limit \in Sizes, LimitWindow(limit) PROVE Rested'
  BY <1>6, RestedLimit, Zenon
<1>7. ASSUME NEW error \in {"ok", "failed"}, Finish(error) PROVE Rested'
  <2>1. CASE terminal = "none"
    BY <1>7, <2>1, RestedEnd, Zenon DEF Finish
  <2>2. CASE terminal # "none"
    <3>1. UNCHANGED <<credit, terminal, line, sender, caller>>
      BY <1>7, <2>2, Zenon DEF Finish
    <3> QED
      BY <3>1, RestedSkip, Zenon
  <2> QED
    BY <2>1, <2>2, Zenon
<1>8. CASE WriteFrame \/ StreamEnd \/ WriteSignal \/ ReadOutcome \/ ReadWaits
           \/ CloseServer \/ CloseClient \/ EndClient
  <2>1. UNCHANGED <<credit, terminal, line, sender, caller>>
    BY <1>8, Zenon DEF WriteFrame, StreamEnd, WriteSignal, ReadOutcome, ReadWaits,
                       CloseServer, CloseClient, EndClient, producing
  <2> QED
    BY <2>1, RestedSkip, Zenon
<1>9. CASE StreamItem
  <2>1. Abandon \/ UNCHANGED <<terminal, line, sender, caller>>
    BY <1>9, Zenon DEF StreamItem
  <2>2. UNCHANGED credit
    BY <1>9, Zenon DEF StreamItem
  <2>3. CASE UNCHANGED <<terminal, line, sender, caller>>
    <3>1. UNCHANGED <<credit, terminal, line, sender, caller>>
      BY <2>2, <2>3, Zenon
    <3> QED
      BY <3>1, RestedSkip, Zenon
  <2> QED
    BY <2>1, <2>2, <2>3, RestedAbandon, Zenon
<1>10. CASE StreamAck
  BY <1>10, RestedAck, Zenon DEF StreamAck
<1>11. CASE StreamCancel
  BY <1>11, RestedCancel, Zenon DEF StreamCancel
<1>12. CASE ReadItem
  <2>1. Acknowledge(intake'.consumed) \/ UNCHANGED <<credit, terminal, line, sender, caller>>
    BY <1>12, Zenon DEF ReadItem
  <2> QED
    BY <2>1, RestedAcknowledge, RestedSkip, Zenon
<1>13. CASE ReadMalformed
  <2>1. (Abandon /\ UNCHANGED credit) \/ Acknowledge(intake'.consumed)
    BY <1>13, Zenon DEF ReadMalformed
  <2> QED
    BY <2>1, RestedAbandon, RestedAcknowledge, Zenon
<1>14. CASE DropReader
  <2>1. Abandon \/ UNCHANGED <<terminal, line, sender, caller>>
    BY <1>14, Zenon DEF DropReader
  <2>2. UNCHANGED credit
    BY <1>14, Zenon DEF DropReader
  <2>3. CASE UNCHANGED <<terminal, line, sender, caller>>
    <3>1. UNCHANGED <<credit, terminal, line, sender, caller>>
      BY <2>2, <2>3, Zenon
    <3> QED
      BY <3>1, RestedSkip, Zenon
  <2> QED
    BY <2>1, <2>2, <2>3, RestedAbandon, Zenon
<1>15. CASE EndServer
  <2>1. CASE terminal = "none"
    <3>1. Stop("disconnected", {})
      BY <1>15, <2>1, Zenon DEF EndServer
    <3> QED
      BY <3>1, StopWakes, Zenon DEF Rested
  <2>2. CASE terminal # "none"
    <3>1. UNCHANGED <<credit, terminal, line, sender, caller>>
      BY <1>15, <2>2, Zenon DEF EndServer
    <3> QED
      BY <3>1, RestedSkip, Zenon
  <2> QED
    BY <2>1, <2>2, Zenon
<1> QED
  BY <1>1, <1>2, <1>3, <1>4, <1>5, <1>6, <1>7, <1>8, <1>9, <1>10, <1>11, <1>12, <1>13,
     <1>14, <1>15, Zenon DEF Next

----------------------------------------------------------------------------
(* Types.                                                                  *)

\* A frame joins its queue (Connection::push_stream_frame).
LEMMA EmitTyped ==
    ASSUME TypedOut, NEW f \in Items \cup Ends, Emit(f)
    PROVE  out' \in Seq(Items \cup Ends) /\ down' \in Seq(Items \cup Ends)
<1>1. out \in Seq(Items \cup Ends) /\ down \in Seq(Items \cup Ends)
  BY Zenon DEF TypedOut
<1>2. (down' = Append(down, f) /\ out' = out) \/ (out' = Append(out, f) /\ down' = down)
  BY Zenon DEF Emit
<1>3. \A S : \A q \in Seq(S) : \A x \in S : Append(q, x) \in Seq(S)
  OBVIOUS
<1>4. Append(down, f) \in Seq(Items \cup Ends) /\ Append(out, f) \in Seq(Items \cup Ends)
  BY <1>1, <1>3, Zenon
<1> QED
  BY <1>1, <1>2, <1>4, Zenon

\* An end is emitted or not (StreamCore::end_with).
LEMMA EndTyped ==
    ASSUME TypedOut, NEW why \in Terminals, NEW error \in {"ok", "failed", "protocol"},
           NEW done, EndWith(why, error, done), UNCHANGED <<world, credit>>
    PROVE  TypedOut'
<1>1. terminal' = why
  BY Zenon DEF EndWith, Stop
<1>2. End(credit.next, error) \in Items \cup Ends
  BY DEF End, Ends, TypedOut, Credits
<1>3. /\ hold' \in {"core", "frame", "free"}
      /\ Emit(End(credit.next, error)) \/ UNCHANGED <<out, down>>
  BY Zenon DEF EndWith
<1>4. out' \in Seq(Items \cup Ends) /\ down' \in Seq(Items \cup Ends)
  <2>1. CASE UNCHANGED <<out, down>>
    BY <2>1, Zenon DEF TypedOut
  <2> QED
    BY <1>2, <1>3, <2>1, EmitTyped, Zenon
<1>5. world' = world /\ credit' = credit
  BY Zenon
<1> QED
  BY <1>1, <1>3, <1>4, <1>5, Zenon DEF TypedOut

\* An acknowledgement returns credit or is refused (StreamCore::on_ack).
LEMMA AckTyped ==
    ASSUME TypedOut, NEW consumed \in Nat, OnAck(consumed), UNCHANGED world
    PROVE  TypedOut'
<1>1. CASE terminal # "none" \/ consumed = credit.acked
  <2>1. UNCHANGED <<credit, terminal, hold, out, down>>
    BY <1>1, Zenon DEF OnAck
  <2> QED
    BY <2>1, Zenon DEF TypedOut
<1>2. CASE terminal = "none" /\ consumed # credit.acked /\ consumed \in credit.boundaries
  <2>1. credit' = Acked(credit, consumed) /\ UNCHANGED <<terminal, hold, out, down>>
    BY <1>2, ZenonT(60) DEF OnAck
  <2>2. credit' \in Credits
    BY <2>1, Zenon DEF TypedOut, Credits, Acked
  <2> QED
    BY <2>1, <2>2, Zenon DEF TypedOut
<1>3. CASE terminal = "none" /\ consumed # credit.acked /\ consumed \notin credit.boundaries
  <2>1. EndWith("protocol", "protocol", {}) /\ UNCHANGED <<world, credit>>
    BY <1>3, Zenon DEF OnAck
  <2>2. "protocol" \in Terminals /\ "protocol" \in {"ok", "failed", "protocol"}
    BY DEF Terminals
  <2> QED
    BY <2>1, <2>2, EndTyped, Zenon
<1> QED
  BY <1>1, <1>2, <1>3, Zenon

\* A cancelled stream (StreamCore::cancel).
LEMMA CancelTyped ==
    ASSUME TypedOut, OnCancel, UNCHANGED <<world, credit, down>>
    PROVE  TypedOut'
<1>1. <<>> \in Seq(Items \cup Ends) /\ "cancelled" \in Terminals
  BY DEF Terminals
<1> QED
  BY <1>1, Zenon DEF TypedOut, OnCancel, Stop

\* The consumer gives up, or acknowledges (Shared::abandon,
\* ConsumerCore::acknowledge).
LEMMA AbandonTyped ==
    ASSUME TypedOut, signal \in Signals, Abandon, UNCHANGED <<world, credit, down>>
    PROVE  TypedOut' /\ signal' \in Signals
<1>1. CASE Local
  BY <1>1, CancelTyped, Zenon DEF Abandon
<1>2. CASE ~Local
  <2>1. UNCHANGED <<terminal, hold, out>>
    BY <1>2, Zenon DEF Abandon
  <2>2. TypedOut'
    BY <2>1, Zenon DEF TypedOut
  <2>3. signal' = [kind |-> "cancel", consumed |-> 0] \/ signal' = signal
    BY <1>2, Zenon DEF Abandon
  <2>4. [kind |-> "cancel", consumed |-> 0] \in Signals
    BY DEF Signals
  <2> QED
    BY <2>2, <2>3, <2>4, Zenon
<1> QED
  BY <1>1, <1>2, Zenon

\* An acknowledgement, on either route, keeps the types
\* (Connection::signal_ack, StreamCore::on_ack).
LEMMA AcknowledgeTyped ==
    ASSUME TypedOut, signal \in Signals, NEW consumed \in Nat, Acknowledge(consumed),
           UNCHANGED world
    PROVE  TypedOut' /\ signal' \in Signals
<1>1. CASE Local
  BY <1>1, AckTyped, Zenon DEF Acknowledge
<1>2. CASE ~Local
  <2>1. UNCHANGED <<credit, terminal, hold, out, down>> /\ SignalAck(consumed)
    BY <1>2, Zenon DEF Acknowledge
  <2>2. TypedOut'
    BY <2>1, Zenon DEF TypedOut
  <2>3. signal' \in Signals
    BY <2>1 DEF SignalAck, Signals
  <2> QED
    BY <2>2, <2>3, Zenon
<1> QED
  BY <1>1, <1>2, Zenon

\* A sender that runs has an item, of a size that counts.
LEMMA SizeOfRunning ==
    ASSUME Lined, NEW s \in Senders, sender[s].task = "run"
    PROVE  sender[s].size \in Nat /\ sender[s].size > 0
<1>1. sender \in [Senders -> [task : {"run", "wait"}, size : Sizes] \cup {Idle}]
  BY Zenon DEF Lined
<1>2. sender[s].size \in Sizes
  BY <1>1 DEF Idle
<1>3. Sizes \subseteq Nat \ {0}
  BY StreamAssumption, Zenon
<1>4. sender[s].size \in Nat \ {0}
  BY <1>2, <1>3, Zenon
<1> QED
  BY <1>4

\* The first frame of a queue, and the rest of it.
LEMMA HeadTail ==
    ASSUME NEW S, NEW q \in Seq(S), q # <<>>
    PROVE  /\ Head(q) \in S /\ Head(q) = q[1] /\ Tail(q) \in Seq(S)
           /\ Len(q) \in Nat /\ Len(q) > 0 /\ DOMAIN q = 1 .. Len(q)
           /\ Len(Tail(q)) = Len(q) - 1 /\ DOMAIN Tail(q) = 1 .. Len(q) - 1
           /\ \A i \in DOMAIN Tail(q) : i + 1 \in DOMAIN q /\ Tail(q)[i] = q[i + 1]
OBVIOUS

\* Sending keeps the types (StreamCore::send_locked).
LEMMA TypedPoll ==
    ASSUME Typed, Lined, NEW s \in Senders, PollSend(s)
    PROVE  Typed'
<1>0. TypedOut /\ TypedBack /\ TypedIn
  BY Zenon DEF Typed
<1>1. UNCHANGED <<world, handle, server, client, signal, up, consuming>>
  BY Zenon DEF PollSend, SendAfterEnd, SendTooLarge, SendOverflows, SendItem, SendWaits, carrying
<1>2. TypedBack' /\ TypedIn'
  BY <1>0, <1>1, Zenon DEF TypedBack, TypedIn, consuming
<1>3. CASE SendAfterEnd(s) \/ SendTooLarge(s) \/ SendWaits(s)
  <2>1. UNCHANGED <<world, credit, terminal, hold, out, down>>
    BY <1>3, Zenon DEF SendAfterEnd, SendTooLarge, SendWaits, carrying
  <2> QED
    BY <1>0, <1>2, <2>1, Zenon DEF TypedOut, Typed
<1>4. CASE SendOverflows(s)
  <2>1. EndWith("protocol", "protocol", {s}) /\ UNCHANGED <<world, credit>>
    BY <1>4, Zenon DEF SendOverflows
  <2>2. "protocol" \in Terminals /\ "protocol" \in {"ok", "failed", "protocol"}
    BY DEF Terminals
  <2> QED
    BY <1>0, <1>2, <2>1, <2>2, EndTyped, Zenon DEF Typed
<1>5. CASE SendItem(s)
  <2>1. credit' = Reserve(credit, sender[s].size) /\ sender[s].task = "run"
    BY <1>5, Zenon DEF SendItem, Polls
  <2>2. sender[s].size \in Nat
    BY <2>1, SizeOfRunning, Zenon
  <2>3. credit \in Credits
    BY <1>0, Zenon DEF TypedOut
  <2>4. credit' \in Credits
    <3>1. /\ credit.window \in Nat /\ credit.sent \in Nat /\ credit.acked \in Nat
          /\ credit.next \in Nat /\ credit.boundaries \in SUBSET Nat
      BY <2>3 DEF Credits
    <3>2. credit' = [window |-> credit.window, sent |-> credit.sent + sender[s].size,
                     acked |-> credit.acked, next |-> credit.next + 1,
                     boundaries |-> credit.boundaries \cup {credit.sent + sender[s].size}]
      BY <2>1, <2>3, Zenon DEF Reserve, Credits
    <3>3. credit.sent + sender[s].size \in Nat /\ credit.next + 1 \in Nat
      BY <2>2, <3>1
    <3> QED
      BY <3>1, <3>2, <3>3 DEF Credits
  <2>5. Item(credit.next, sender[s].size) \in Items \cup Ends
    BY <2>2, <2>3 DEF Item, Items, Credits
  <2>6. CASE Local \/ server = "open"
    <3>1. Emit(Item(credit.next, sender[s].size)) /\ UNCHANGED <<terminal, hold>>
      BY <1>5, <2>6, Zenon DEF SendItem
    <3>2. out' \in Seq(Items \cup Ends) /\ down' \in Seq(Items \cup Ends)
      BY <1>0, <2>5, <3>1, EmitTyped, Zenon
    <3> QED
      BY <1>0, <1>1, <1>2, <2>4, <3>1, <3>2, Zenon DEF TypedOut, Typed
  <2>7. CASE ~(Local \/ server = "open")
    <3>1. terminal' = "disconnected" /\ hold' = "free" /\ UNCHANGED <<out, down>>
      BY <1>5, <2>7, Zenon DEF SendItem, Stop
    <3>2. "disconnected" \in Terminals
      BY DEF Terminals
    <3> QED
      BY <1>0, <1>1, <1>2, <2>4, <3>1, <3>2, Zenon DEF TypedOut, Typed
  <2> QED
    BY <2>6, <2>7, Zenon
<1> QED
  BY <1>3, <1>4, <1>5, Zenon DEF PollSend

\* The producer's other steps keep them.
LEMMA TypedProduce ==
    ASSUME Typed,
           \/ \E s \in Senders : AbandonSend(s) \/ \E k \in Sizes : StartSend(s, k)
           \/ StartReady \/ PollReady
           \/ \E limit \in Sizes : LimitWindow(limit)
           \/ \E error \in {"ok", "failed"} : Finish(error)
    PROVE  Typed'
<1>0. TypedOut /\ TypedBack /\ TypedIn
  BY Zenon DEF Typed
<1>1. /\ UNCHANGED <<world, server, client, signal, up, consuming>>
      /\ handle' \in {"held", "gone"}
  BY <1>0, Zenon DEF AbandonSend, StartSend, StartReady, PollReady, LimitWindow, Finish, carrying,
                     TypedBack
<1>2. TypedBack' /\ TypedIn'
  BY <1>0, <1>1, Zenon DEF TypedBack, TypedIn, consuming
<1>3. CASE UNCHANGED <<credit, terminal, hold, out, down>>
  BY <1>0, <1>1, <1>2, <1>3, Zenon DEF TypedOut, Typed
<1>4. ASSUME NEW limit \in Sizes, LimitWindow(limit) PROVE Typed'
  <2>1. credit' = [credit EXCEPT !.window = limit] /\ UNCHANGED <<terminal, hold, out, down>>
    BY <1>4, Zenon DEF LimitWindow, carrying
  <2>2. limit \in Nat
    BY StreamAssumption
  <2>3. credit \in Credits
    BY <1>0, Zenon DEF TypedOut
  <2>4. credit' \in Credits
    BY <2>1, <2>2, <2>3 DEF Credits
  <2> QED
    BY <1>0, <1>1, <1>2, <2>1, <2>4, Zenon DEF TypedOut, Typed
<1>5. ASSUME NEW error \in {"ok", "failed"}, Finish(error) PROVE Typed'
  <2>1. UNCHANGED <<world, credit>>
    BY <1>5, Zenon DEF Finish
  <2>2. CASE terminal = "none"
    <3>1. EndWith("ended", error, {})
      BY <1>5, <2>2, Zenon DEF Finish
    <3>2. "ended" \in Terminals /\ error \in {"ok", "failed", "protocol"}
      BY <1>5 DEF Terminals
    <3> QED
      BY <1>0, <1>2, <2>1, <3>1, <3>2, EndTyped, Zenon DEF Typed
  <2>3. CASE terminal # "none"
    BY <1>3, <1>5, <2>1, <2>3, Zenon DEF Finish
  <2> QED
    BY <2>2, <2>3, Zenon
<1> QED
  BY <1>3, <1>4, <1>5, Zenon DEF AbandonSend, StartSend, StartReady, PollReady, carrying

\* What the connections carry keeps its type (Connection::poll_next,
\* Shared::stream_ack, Shared::stream_cancel, Connection::close).
LEMMA TypedCarry ==
    ASSUME Typed,
           WriteFrame \/ WriteSignal \/ StreamAck \/ StreamCancel
           \/ CloseServer \/ EndServer \/ CloseClient
    PROVE  Typed'
<1>0. TypedOut /\ TypedBack /\ TypedIn
  BY Zenon DEF Typed
<1>1. TypedIn'
  BY <1>0, Zenon DEF TypedIn, WriteFrame, WriteSignal, StreamAck, StreamCancel, CloseServer,
                     EndServer, CloseClient, consuming
<1>2. /\ out \in Seq(Items \cup Ends) /\ down \in Seq(Items \cup Ends)
      /\ signal \in Signals /\ up \in Seq(Signals)
  BY <1>0, Zenon DEF TypedOut, TypedBack
<1>3. CASE WriteFrame
  <2>1. /\ down' = Append(down, Head(out)) /\ out' = Tail(out) /\ out # <<>>
        /\ UNCHANGED <<world, credit, terminal, handle, server, client, signal, up>>
        /\ hold' = "free" \/ hold' = hold
    BY <1>3, Zenon DEF WriteFrame
  <2>2. out' \in Seq(Items \cup Ends) /\ down' \in Seq(Items \cup Ends)
    BY <1>2, <2>1
  <2> QED
    BY <1>0, <1>1, <2>1, <2>2, Zenon DEF Typed, TypedOut, TypedBack
<1>4. CASE WriteSignal
  <2>1. /\ up' = Append(up, signal) /\ signal' = NoSignal
        /\ UNCHANGED <<world, producing, server, out, down, client>>
    BY <1>4, Zenon DEF WriteSignal
  <2>2. up' \in Seq(Signals) /\ signal' \in Signals
    BY <1>2, <2>1 DEF NoSignal, Signals
  <2> QED
    BY <1>0, <1>1, <2>1, <2>2, Zenon DEF Typed, TypedOut, TypedBack, producing
<1>5. CASE StreamAck
  <2>1. /\ up' = Tail(up) /\ up # <<>> /\ OnAck(Head(up).consumed)
        /\ UNCHANGED <<world, handle, server, client, signal>>
    BY <1>5, Zenon DEF StreamAck
  <2>2. up' \in Seq(Signals) /\ Head(up) \in Signals
    BY <1>2, <2>1
  <2>3. Head(up).consumed \in Nat
    BY <2>2 DEF Signals
  <2>4. TypedOut'
    BY <1>0, <2>1, <2>3, AckTyped, Zenon
  <2> QED
    BY <1>0, <1>1, <2>1, <2>2, <2>4, Zenon DEF Typed, TypedBack
<1>6. CASE StreamCancel
  <2>1. /\ up' = Tail(up) /\ up # <<>> /\ OnCancel
        /\ UNCHANGED <<world, handle, credit, server, down, client, signal>>
    BY <1>6, Zenon DEF StreamCancel
  <2>2. up' \in Seq(Signals)
    BY <1>2, <2>1
  <2>3. TypedOut'
    BY <1>0, <2>1, CancelTyped, Zenon
  <2> QED
    BY <1>0, <1>1, <2>1, <2>2, <2>3, Zenon DEF Typed, TypedBack
<1>7. CASE CloseServer
  <2>1. /\ server' = "closed" /\ out' = <<>>
        /\ hold' = "free" \/ hold' = hold
        /\ UNCHANGED <<world, handle, credit, terminal, down, client, signal, up>>
    BY <1>7, Zenon DEF CloseServer
  <2>2. out' \in Seq(Items \cup Ends)
    BY <2>1
  <2> QED
    BY <1>0, <1>1, <2>1, <2>2, Zenon DEF Typed, TypedOut, TypedBack
<1>8. CASE EndServer
  <2>1. /\ server' = "ended"
        /\ hold' = "free" \/ hold' = hold
        /\ terminal' = "disconnected" \/ terminal' = terminal
        /\ UNCHANGED <<world, handle, credit, out, down, client, signal, up>>
    BY <1>8, Zenon DEF EndServer, Stop
  <2>2. "disconnected" \in Terminals
    BY DEF Terminals
  <2> QED
    BY <1>0, <1>1, <2>1, <2>2, Zenon DEF Typed, TypedOut, TypedBack
<1>9. CASE CloseClient
  <2>1. /\ client' = "closed" /\ signal' = NoSignal
        /\ UNCHANGED <<world, producing, server, out, down, up>>
    BY <1>9, Zenon DEF CloseClient
  <2>2. NoSignal \in Signals
    BY DEF NoSignal, Signals
  <2> QED
    BY <1>0, <1>1, <2>1, <2>2, Zenon DEF Typed, TypedOut, TypedBack, producing
<1> QED
  BY <1>3, <1>4, <1>5, <1>6, <1>7, <1>8, <1>9, Zenon

\* The consuming side keeps them (Shared::stream_item, ConsumerCore).
LEMMA TypedConsume ==
    ASSUME Typed,
           StreamItem \/ StreamEnd \/ ReadItem \/ ReadMalformed \/ ReadOutcome
           \/ ReadWaits \/ DropReader \/ EndClient
    PROVE  Typed'
<1>0. TypedOut /\ TypedBack /\ TypedIn
  BY Zenon DEF Typed
<1>1. /\ down \in Seq(Items \cup Ends) /\ signal \in Signals /\ buffer \in Seq(Items)
      /\ intake \in [next : Nat, received : Nat, consumed : Nat]
      /\ taken \in Seq(Nat)
  BY <1>0, Zenon DEF TypedOut, TypedBack, TypedIn
<1>2. WokenReader \in {"run", "over", "dropped"}
  BY <1>0, Zenon DEF TypedIn, WokenReader
<1>3. CASE StreamItem
  <2>1. /\ down' = Tail(down) /\ down # <<>> /\ Head(down).kind = "item"
        /\ UNCHANGED <<world, handle, credit, server, client, up, taken>>
    BY <1>3, Zenon DEF StreamItem
  <2>2. Head(down) \in Items /\ down' \in Seq(Items \cup Ends)
    BY <1>1, <2>1 DEF Items, Ends
  <2>3. CASE ~pending \/ outcome # "none"
    <3>1. UNCHANGED <<pending, intake, buffer, outcome, reader, terminal, hold, out, signal>>
      BY <1>3, <2>3, Zenon DEF StreamItem
    <3>4. TypedOut'
      BY <1>0, <2>1, <2>2, <3>1, Zenon DEF TypedOut
    <3>5. TypedBack'
      BY <1>0, <2>1, <2>2, <3>1, Zenon DEF TypedBack
    <3>6. TypedIn'
      BY <1>0, <2>1, <2>2, <3>1, Zenon DEF TypedIn
    <3> QED
      BY <3>4, <3>5, <3>6, Zenon DEF Typed
  <2>4. CASE ~(~pending \/ outcome # "none") /\ Accepts(Head(down))
    <3>1. /\ intake' = [intake EXCEPT !.next = @ + 1, !.received = @ + Head(down).size]
          /\ buffer' = Append(buffer, Head(down)) /\ reader' = WokenReader
          /\ UNCHANGED <<pending, outcome, terminal, hold, out, signal>>
      BY <1>3, <2>4, Zenon DEF StreamItem
    <3>2. Head(down).size \in Nat
      BY <2>2 DEF Items
    <3>3. intake' \in [next : Nat, received : Nat, consumed : Nat] /\ buffer' \in Seq(Items)
      <4>1. intake' = [next |-> intake.next + 1, received |-> intake.received + Head(down).size,
                       consumed |-> intake.consumed]
        BY <1>1, <3>1, Zenon
      <4>2. intake.next \in Nat /\ intake.received \in Nat /\ intake.consumed \in Nat
        BY <1>1
      <4>3. intake' \in [next : Nat, received : Nat, consumed : Nat]
        BY <3>2, <4>1, <4>2
      <4>4. buffer' \in Seq(Items)
        BY <1>1, <2>2, <3>1
      <4> QED
        BY <4>3, <4>4, Zenon
    <3>4. TypedOut'
      BY <1>0, <1>2, <2>1, <2>2, <3>1, <3>3, Zenon DEF TypedOut
    <3>5. TypedBack'
      BY <1>0, <1>2, <2>1, <2>2, <3>1, <3>3, Zenon DEF TypedBack
    <3>6. TypedIn'
      BY <1>0, <1>2, <2>1, <2>2, <3>1, <3>3, Zenon DEF TypedIn
    <3> QED
      BY <3>4, <3>5, <3>6, Zenon DEF Typed
  <2>5. CASE ~(~pending \/ outcome # "none") /\ ~Accepts(Head(down))
    <3>1. /\ outcome' = "protocol" /\ pending' = FALSE /\ reader' = WokenReader
          /\ Abandon /\ UNCHANGED <<intake, buffer>>
      BY <1>3, <2>5, Zenon DEF StreamItem
    <3>2. signal' \in Signals
      <4>1. [kind |-> "cancel", consumed |-> 0] \in Signals
        BY DEF Signals
      <4> QED
        BY <1>1, <3>1, <4>1, Zenon DEF Abandon
    <3>3. terminal' \in Terminals /\ hold' \in {"core", "frame", "free"} /\ out' \in Seq(Items \cup Ends)
      <4>1. <<>> \in Seq(Items \cup Ends) /\ "cancelled" \in Terminals
        BY DEF Terminals
      <4> QED
        BY <1>0, <3>1, <4>1, Zenon DEF Abandon, OnCancel, Stop, TypedOut
    <3>4. TypedOut'
      BY <1>0, <1>2, <2>1, <2>2, <3>1, <3>2, <3>3, Zenon DEF TypedOut
    <3>5. TypedBack'
      BY <1>0, <1>2, <2>1, <2>2, <3>1, <3>2, <3>3, Zenon DEF TypedBack
    <3>6. TypedIn'
      BY <1>0, <1>2, <2>1, <2>2, <3>1, <3>2, <3>3, Zenon DEF TypedIn
    <3> QED
      BY <3>4, <3>5, <3>6, Zenon DEF Typed
  <2> QED
    BY <2>3, <2>4, <2>5, Zenon
<1>4. CASE StreamEnd
  <2>1. /\ down' = Tail(down) /\ down # <<>> /\ Head(down).kind = "end"
        /\ hold' = "free" \/ hold' = hold
        /\ pending' = FALSE
        /\ outcome' = outcome \/ outcome' = "protocol" \/ outcome' = Head(down).error
        /\ reader' = reader \/ reader' = WokenReader
        /\ UNCHANGED <<world, handle, credit, terminal, server, out, client, signal, up,
                       intake, buffer, taken>>
    BY <1>4, Zenon DEF StreamEnd
  <2>2. Head(down) \in Ends /\ down' \in Seq(Items \cup Ends)
    BY <1>1, <2>1 DEF Items, Ends
  <2>3. Head(down).error \in {"ok", "failed", "protocol"}
    BY <2>2 DEF Ends
  <2>4. outcome' \in {"none", "ok", "failed", "protocol", "disconnected", "malformed"}
    BY <1>0, <2>1, <2>3, Zenon DEF TypedIn
  <2>5. TypedIn'
    BY <1>0, <1>2, <2>1, <2>4, Zenon DEF TypedIn
  <2> QED
    BY <1>0, <2>1, <2>2, <2>5, Zenon DEF Typed, TypedOut, TypedBack
<1>5. CASE ReadItem
  <2>1. /\ buffer' = Tail(buffer) /\ buffer # <<>> /\ taken' = Append(taken, Head(buffer).n)
        /\ intake' = [intake EXCEPT !.consumed = @ + Head(buffer).size]
        /\ \/ Acknowledge(intake'.consumed)
           \/ UNCHANGED <<credit, terminal, hold, out, down, signal>>
        /\ UNCHANGED <<world, handle, server, client, up, pending, outcome, reader>>
    BY <1>5, Zenon DEF ReadItem
  <2>2. /\ Head(buffer) \in Items /\ buffer' \in Seq(Items)
    BY <1>1, <2>1
  <2>3. Head(buffer).size \in Nat /\ Head(buffer).n \in Nat
    BY <2>2 DEF Items
  <2>4. /\ intake' \in [next : Nat, received : Nat, consumed : Nat]
        /\ intake'.consumed \in Nat /\ taken' \in Seq(Nat)
    <3>1. intake' = [next |-> intake.next, received |-> intake.received,
                     consumed |-> intake.consumed + Head(buffer).size]
      BY <1>1, <2>1, ZenonT(60)
    <3>2. intake.next \in Nat /\ intake.received \in Nat /\ intake.consumed \in Nat
      BY <1>1
    <3>3. intake' \in [next : Nat, received : Nat, consumed : Nat] /\ intake'.consumed \in Nat
      BY <2>3, <3>1, <3>2
    <3>4. taken' \in Seq(Nat)
      BY <1>1, <2>1, <2>3
    <3> QED
      BY <3>3, <3>4, Zenon
  <2>5. TypedOut' /\ signal' \in Signals
    <3>1. CASE UNCHANGED <<credit, terminal, hold, out, down, signal>>
      BY <1>0, <1>1, <2>1, <3>1, Zenon DEF TypedOut
    <3> QED
      BY <1>0, <1>1, <2>1, <2>4, <3>1, AcknowledgeTyped, Zenon
  <2> QED
    BY <1>0, <2>1, <2>2, <2>4, <2>5, Zenon DEF Typed, TypedBack, TypedIn
<1>6. CASE ReadMalformed
  <2>1. /\ buffer' = <<>> /\ buffer # <<>> /\ outcome' = "malformed" /\ reader' = "over"
        /\ intake' = [intake EXCEPT !.consumed = @ + Head(buffer).size]
        /\ pending' = FALSE
        /\ \/ Abandon /\ UNCHANGED <<credit, down>>
           \/ Acknowledge(intake'.consumed)
        /\ UNCHANGED <<world, handle, server, client, up, taken>>
    BY <1>6, Zenon DEF ReadMalformed
  <2>2. /\ Head(buffer) \in Items /\ buffer' \in Seq(Items)
    BY <1>1, <2>1
  <2>3. Head(buffer).size \in Nat
    BY <2>2 DEF Items
  <2>4. /\ intake' \in [next : Nat, received : Nat, consumed : Nat]
        /\ intake'.consumed \in Nat
    <3>1. intake' = [next |-> intake.next, received |-> intake.received,
                     consumed |-> intake.consumed + Head(buffer).size]
      BY <1>1, <2>1
    <3>2. intake.next \in Nat /\ intake.received \in Nat /\ intake.consumed \in Nat
      BY <1>1
    <3>3. intake' \in [next : Nat, received : Nat, consumed : Nat] /\ intake'.consumed \in Nat
      BY <2>3, <3>1, <3>2
    <3> QED
      BY <3>3, Zenon
  <2>5. TypedOut' /\ signal' \in Signals
    BY <1>0, <1>1, <2>1, <2>4, AbandonTyped, AcknowledgeTyped, Zenon
  <2> QED
    BY <1>0, <2>1, <2>2, <2>4, <2>5, Zenon DEF Typed, TypedBack, TypedIn
<1>7. CASE ReadOutcome \/ ReadWaits
  BY <1>0, <1>7, ZenonT(60) DEF ReadOutcome, ReadWaits, Typed, TypedOut, TypedBack, TypedIn,
                           producing, carrying
<1>8. CASE DropReader
  <2>1. /\ buffer' = <<>> /\ reader' = "dropped" /\ pending' = FALSE
        /\ UNCHANGED <<world, handle, credit, server, down, client, up, intake, outcome, taken>>
        /\ Abandon \/ UNCHANGED <<terminal, hold, out, signal>>
    BY <1>8, Zenon DEF DropReader
  <2>2. buffer' \in Seq(Items)
    BY <2>1
  <2>3. TypedOut' /\ signal' \in Signals
    <3>1. CASE UNCHANGED <<terminal, hold, out, signal>>
      BY <1>0, <1>1, <2>1, <3>1, Zenon DEF TypedOut
    <3> QED
      BY <1>0, <1>1, <2>1, <3>1, AbandonTyped, Zenon
  <2> QED
    BY <1>0, <2>1, <2>2, <2>3, Zenon DEF Typed, TypedBack, TypedIn
<1>9. CASE EndClient
  <2>1. /\ client' = "ended" /\ pending' = FALSE
        /\ outcome' = "disconnected" \/ outcome' = outcome
        /\ reader' = reader \/ reader' = WokenReader
        /\ UNCHANGED <<world, producing, server, out, down, signal, up, intake, buffer, taken>>
    BY <1>9, Zenon DEF EndClient
  <2> QED
    BY <1>0, <1>2, <2>1, Zenon DEF Typed, TypedOut, TypedBack, TypedIn, producing
<1> QED
  BY <1>3, <1>4, <1>5, <1>6, <1>7, <1>8, <1>9, Zenon

\* Every step keeps the types.
LEMMA TypedStep ==
    ASSUME Typed, Lined, [Next]_vars
    PROVE  Typed'
<1>1. CASE UNCHANGED vars
  BY <1>1, ZenonT(60) DEF vars, producing, carrying, consuming, Typed, TypedOut, TypedBack, TypedIn
<1>2. ASSUME NEW s \in Senders, PollSend(s) PROVE Typed'
  BY <1>2, TypedPoll, Zenon
<1> QED
  BY <1>1, <1>2, TypedProduce, TypedCarry, TypedConsume, Zenon DEF Next

----------------------------------------------------------------------------
(* The ledger, part by part, where a step leaves it alone.                 *)

\* The terminal is set once (CoreState::stop).
Later == terminal' = terminal \/ terminal = "none"

\* The credit is left alone (Credit).
LEMMA BooksSkip ==
    ASSUME NEW total, Books(total), UNCHANGED <<world, credit>>
    PROVE  Books(total)'
<1>1. world' = world /\ credit' = credit /\ Window' = Window
  BY Zenon DEF Window
<1> QED
  BY <1>1, Zenon DEF Books

\* The credit and the intake are left alone (Credit, Intake).
LEMMA CountedSkip ==
    ASSUME NEW total, Counted(total), UNCHANGED <<credit, intake>>
    PROVE  Counted(total)'
<1>1. intake' = intake /\ credit' = credit
  BY Zenon
<1> QED
  BY <1>1, Zenon DEF Counted

\* The signals are left alone (Connection's signals).
LEMMA AcksSkip ==
    ASSUME NEW total, Acks(total), UNCHANGED <<world, credit, intake, signal, up>>
    PROVE  Acks(total)'
<1>1. world' = world /\ credit' = credit /\ intake' = intake /\ signal' = signal /\ up' = up
  BY Zenon
<1>2. Local' = Local /\ NoSignal' = NoSignal
  BY <1>1, Zenon DEF Local, NoSignal
<1> QED
  BY <1>1, <1>2, Zenon DEF Acks

\* Frames of a queue that is kept or dropped, a buffer that is kept or dropped.
LEMMA EntriesCut ==
    ASSUME NEW total, Entries(total), credit'.next = credit.next, UNCHANGED down, Later,
           out' = out \/ out' = <<>>, buffer' = buffer \/ buffer' = <<>>
    PROVE  Entries(total)'
<1>1. credit'.next = credit.next /\ down' = down
  BY Zenon
<1>2. \A f : Entry(f, total, credit.next, terminal) => Entry(f, total, credit.next, terminal')
  BY Zenon DEF Entry, Later
<1>3. DOMAIN <<>> = {}
  OBVIOUS
<1>4. \A i \in DOMAIN out' : Entry(out'[i], total, credit'.next, terminal')
  BY <1>1, <1>2, <1>3, Zenon DEF Entries
<1>5. \A i \in DOMAIN down' : Entry(down'[i], total, credit'.next, terminal')
  BY <1>1, <1>2, Zenon DEF Entries
<1>6. \A i \in DOMAIN buffer' : Entry(buffer'[i], total, credit'.next, terminal')
  BY <1>1, <1>2, <1>3, Zenon DEF Entries
<1> QED
  BY <1>4, <1>5, <1>6, Zenon DEF Entries

\* The chain of a queue that is kept or dropped.
LEMMA ChainedCut ==
    ASSUME NEW m, Chained(m), credit'.next = credit.next, UNCHANGED <<world, down>>,
           intake'.next = intake.next,
           out' = out \/ out' = <<>>, pending' => pending, Later,
           out' # <<>> => server' = server,
           terminal' = "none" /\ (Local \/ server' = "open") =>
                out' = out /\ (Local \/ server = "open")
    PROVE  Chained(m)'
<1>1. world' = world /\ down' = down /\ Local' = Local
  BY Zenon DEF Local
<1>2. DOMAIN <<>> = {}
  OBVIOUS
<1>3. \A i \in DOMAIN out' : out'[i].n = m + Len(down) + i - 1
  BY <1>2, Zenon DEF Chained
<1>4. terminal' = "none" /\ (Local \/ server' = "open") => terminal = "none"
  BY Zenon DEF Later
<1> QED
  BY <1>1, <1>3, <1>4, Zenon DEF Chained

\* The consumer is left alone (ConsumerCore), the producer at most ends.
LEMMA ReadingSkip ==
    ASSUME NEW total, Reading(total), credit'.next = credit.next,
           UNCHANGED <<taken, reader, intake, buffer, outcome>>,
           pending' => pending, Later
    PROVE  Reading(total)'
<1>1. taken' = taken /\ reader' = reader /\ intake' = intake
      /\ buffer' = buffer /\ outcome' = outcome
  BY Zenon
<1> QED
  BY <1>1, Zenon DEF Reading, Later

----------------------------------------------------------------------------
(* The producer writes the ledger.                                         *)

\* A frame is emitted where the ledger says (StreamCore::emit_item).
LEMMA EntriesEmit ==
    ASSUME Typed, NEW total, NEW more, Entries(total), NEW f, Emit(f), UNCHANGED buffer,
           Entry(f, more, credit'.next, terminal'),
           \A g \in Items \cup Ends :
               Entry(g, total, credit.next, terminal) => Entry(g, more, credit'.next, terminal')
    PROVE  Entries(more)'
<1>1. /\ out \in Seq(Items \cup Ends) /\ down \in Seq(Items \cup Ends) /\ buffer \in Seq(Items)
      /\ buffer' = buffer
  BY Zenon DEF Typed, TypedOut, TypedIn
<1>2. ASSUME NEW q \in Seq(Items \cup Ends),
             \A i \in DOMAIN q : Entry(q[i], total, credit.next, terminal)
      PROVE  /\ \A i \in DOMAIN q : Entry(q[i], more, credit'.next, terminal')
             /\ \A i \in DOMAIN Append(q, f) : Entry(Append(q, f)[i], more, credit'.next, terminal')
  <2>1. \A i \in DOMAIN q : q[i] \in Items \cup Ends
    OBVIOUS
  <2>2. \A i \in DOMAIN q : Entry(q[i], more, credit'.next, terminal')
    BY <1>2, <2>1, Zenon
  <2>3. \A i \in DOMAIN Append(q, f) : Append(q, f)[i] = f \/ (i \in DOMAIN q /\ Append(q, f)[i] = q[i])
    OBVIOUS
  <2> QED
    BY <2>2, <2>3, Zenon
<1>3. /\ \A i \in DOMAIN out : Entry(out[i], more, credit'.next, terminal')
      /\ \A i \in DOMAIN Append(out, f) : Entry(Append(out, f)[i], more, credit'.next, terminal')
  BY <1>1, <1>2, Zenon DEF Entries
<1>4. /\ \A i \in DOMAIN down : Entry(down[i], more, credit'.next, terminal')
      /\ \A i \in DOMAIN Append(down, f) : Entry(Append(down, f)[i], more, credit'.next, terminal')
  BY <1>1, <1>2, Zenon DEF Entries
<1>5. \A i \in DOMAIN buffer : Entry(buffer[i], more, credit'.next, terminal')
  <2>1. \A i \in DOMAIN buffer : buffer[i] \in Items \cup Ends
    BY <1>1
  <2> QED
    BY <2>1, Zenon DEF Entries
<1>6. (down' = Append(down, f) /\ out' = out) \/ (out' = Append(out, f) /\ down' = down)
  BY Zenon DEF Emit
<1> QED
  BY <1>1, <1>3, <1>4, <1>5, <1>6, Zenon DEF Entries

\* The next frame continues the chain (StreamCore::emit_item, end_with).
LEMMA ChainedEmit ==
    ASSUME Typed, NEW m, Chained(m), terminal = "none", Local \/ server = "open",
           NEW f, f.n = credit.next, Emit(f), UNCHANGED <<world, server, intake, pending>>,
           terminal' = "none" => credit'.next = credit.next + 1
    PROVE  Chained(m)'
<1>1. /\ out \in Seq(Items \cup Ends) /\ down \in Seq(Items \cup Ends)
      /\ world' = world /\ server' = server /\ intake' = intake /\ pending' = pending
      /\ Local' = Local
  BY Zenon DEF Typed, TypedOut, Local
<1>2. /\ m \in Nat /\ credit.next = m + Len(down) + Len(out)
      /\ \A i \in DOMAIN down : down[i].n = m + i - 1
      /\ \A i \in DOMAIN out : out[i].n = m + Len(down) + i - 1
      /\ out # <<>> => ~Local /\ server = "open"
      /\ intake.next <= m
      /\ pending => m = intake.next
  BY Zenon DEF Chained
<1>0. /\ intake'.next <= m
      /\ pending' => m = intake'.next
  BY <1>1, <1>2
<1>3. CASE Local
  <2>1. down' = Append(down, f) /\ out' = out /\ out = <<>>
    BY <1>2, <1>3, Zenon DEF Emit
  <2>2. Len(down') = Len(down) + 1 /\ Len(down) \in Nat /\ Len(out) = 0
    BY <1>1, <2>1
  <2>3. \A i \in DOMAIN down' : down'[i].n = m + i - 1
    BY <1>1, <1>2, <2>1, <2>2
  <2>4. terminal' = "none" => credit'.next = m + Len(down') + Len(out')
    BY <1>2, <2>1, <2>2
  <2>5. \A i \in DOMAIN out' : out'[i].n = m + Len(down') + i - 1
    BY <2>1
  <2>6. out' # <<>> => ~Local' /\ server' = "open"
    BY <2>1, Zenon
  <2> QED
    BY <1>0, <1>2, <2>3, <2>4, <2>5, <2>6, Zenon DEF Chained
<1>4. CASE ~Local
  <2>1. out' = Append(out, f) /\ down' = down
    BY <1>4, Zenon DEF Emit
  <2>2. Len(out') = Len(out) + 1 /\ Len(out) \in Nat /\ Len(down) \in Nat
    BY <1>1, <2>1
  <2>3. \A i \in DOMAIN out' : out'[i].n = m + Len(down') + i - 1
    BY <1>1, <1>2, <2>1, <2>2, SMTT(60)
  <2>4. terminal' = "none" => credit'.next = m + Len(down') + Len(out')
    BY <1>2, <2>1, <2>2
  <2>5. out' # <<>> => ~Local' /\ server' = "open"
    BY <1>1, <1>4, Zenon
  <2>6. \A i \in DOMAIN down' : down'[i].n = m + i - 1
    BY <1>2, <2>1, Zenon
  <2> QED
    BY <1>0, <1>2, <2>3, <2>4, <2>5, <2>6, Zenon DEF Chained
<1> QED
  BY <1>3, <1>4, Zenon

\* Everything but what the producer emits.
OnlyEmits == UNCHANGED <<world, server, client, signal, up, pending, intake, buffer, outcome,
                         reader, taken>>

\* An end closes the ledger (StreamCore::end_with).
LEMMA LedgerEnd ==
    ASSUME Typed, NEW total, NEW m, Ledger(total, m), terminal = "none",
           NEW why, why # "none", NEW error, NEW done, EndWith(why, error, done),
           UNCHANGED credit, OnlyEmits
    PROVE  Ledger(total, m)'
<1>1. Books(total) /\ Counted(total) /\ Acks(total) /\ Entries(total) /\ Chained(m) /\ Reading(total)
  BY Zenon DEF Ledger
<1>2. /\ UNCHANGED <<world, credit>> /\ UNCHANGED <<credit, intake>>
      /\ UNCHANGED <<world, credit, intake, signal, up>>
      /\ UNCHANGED <<taken, reader, intake, buffer, outcome>>
      /\ credit' = credit /\ credit'.next = credit.next /\ UNCHANGED <<world, server, intake, pending>>
      /\ pending' => pending
  BY Zenon DEF OnlyEmits
<1>3. terminal' = why /\ Later
  BY Zenon DEF EndWith, Stop, Later
<1>4. Books(total)' /\ Counted(total)' /\ Acks(total)' /\ Reading(total)'
  <2>1. Books(total)'
    BY <1>1, <1>2, BooksSkip, Zenon
  <2>2. Counted(total)'
    BY <1>1, <1>2, CountedSkip, Zenon
  <2>3. Acks(total)'
    BY <1>1, <1>2, AcksSkip, Zenon
  <2>4. Reading(total)'
    BY <1>1, <1>2, <1>3, ReadingSkip, Zenon
  <2> QED
    BY <2>1, <2>2, <2>3, <2>4, Zenon
<1>5. CASE Local \/ server = "open"
  <2>1. Emit(End(credit.next, error))
    BY <1>5, Zenon DEF EndWith
  <2>2. End(credit.next, error).n = credit.next /\ End(credit.next, error).kind = "end"
    BY DEF End
  <2>3. Chained(m)'
    BY <1>1, <1>2, <1>3, <1>5, <2>1, <2>2, ChainedEmit, Zenon
  <2>4. Entry(End(credit.next, error), total, credit'.next, terminal')
    BY <1>2, <1>3, <2>2, Zenon DEF Entry
  <2>5. \A g \in Items \cup Ends :
          Entry(g, total, credit.next, terminal) => Entry(g, total, credit'.next, terminal')
    BY <1>2, <1>3, Zenon DEF Entry
  <2>6. Entries(total)'
    BY <1>1, <1>2, <2>1, <2>4, <2>5, EntriesEmit
  <2> QED
    BY <1>4, <2>3, <2>6, Zenon DEF Ledger
<1>6. CASE ~(Local \/ server = "open")
  <2>1. UNCHANGED <<out, down>>
    BY <1>6, Zenon DEF EndWith
  <2>2. Entries(total)'
    BY <1>1, <1>2, <1>3, <2>1, EntriesCut, Zenon
  <2>3. Chained(m)'
    <3>1. UNCHANGED <<world, down>> /\ intake'.next = intake.next /\ out' = out /\ server' = server
      BY <1>2, <2>1, Zenon
    <3>2. terminal' = "none" /\ (Local \/ server' = "open") =>
            out' = out /\ (Local \/ server = "open")
      BY <1>3, Zenon
    <3> QED
      BY <1>1, <1>2, <1>3, <3>1, <3>2, ChainedCut, Zenon
  <2> QED
    BY <1>4, <2>2, <2>3, Zenon DEF Ledger
<1> QED
  BY <1>5, <1>6, Zenon

\* The ledger with one more item of size k.
Longer(total, k) == [j \in Nat |-> IF j <= credit.next THEN total[j] ELSE credit.sent + k]

\* It begins as it did.
LEMMA LongerFacts ==
    ASSUME Typed, NEW total, Books(total), NEW k \in Nat
    PROVE  /\ Longer(total, k) \in [Nat -> Nat]
           /\ \A j \in Nat : j <= credit.next => Longer(total, k)[j] = total[j]
           /\ \A j \in Nat : j > credit.next => Longer(total, k)[j] = credit.sent + k
           /\ total[credit.next] = credit.sent
<1>1. credit.next \in Nat /\ credit.sent \in Nat
  BY DEF Typed, TypedOut, Credits
<1>2. total \in [Nat -> Nat] /\ \A j \in Nat : j >= credit.next => total[j] = credit.sent
  BY Zenon DEF Books
<1> QED
  BY <1>1, <1>2 DEF Longer

\* Credit is reserved for it (Credit::reserve).
LEMMA BooksReserve ==
    ASSUME Typed, NEW total, Books(total), NEW k \in Nat, k > 0,
           NEW more, more = Longer(total, k), credit' = Reserve(credit, k),
           ~Overflows(credit, k), Fits(credit, k), UNCHANGED world
    PROVE  Books(more)'
<1>1. /\ credit.window \in Nat /\ credit.sent \in Nat /\ credit.acked \in Nat
      /\ credit.next \in Nat /\ credit.boundaries \in SUBSET Nat /\ credit \in Credits
  BY DEF Typed, TypedOut, Credits
<1>2. credit' = [window |-> credit.window, sent |-> credit.sent + k,
                 acked |-> credit.acked, next |-> credit.next + 1,
                 boundaries |-> credit.boundaries \cup {credit.sent + k}]
  BY <1>1, Zenon DEF Reserve, Credits
<1>3. /\ credit'.window = credit.window /\ credit'.sent = credit.sent + k
      /\ credit'.acked = credit.acked /\ credit'.next = credit.next + 1
      /\ credit'.boundaries = credit.boundaries \cup {credit.sent + k}
  BY <1>2
<1>4. /\ total \in [Nat -> Nat] /\ total[0] = 0
      /\ \A i, j \in Nat : i <= j => total[i] <= total[j]
      /\ \A j \in Nat : j >= credit.next => total[j] = credit.sent
      /\ credit.boundaries = {total[j] : j \in {i \in Nat : total[i] > credit.acked}}
      /\ credit.sent <= MaxCounter
      /\ credit.acked <= credit.sent
      /\ credit.sent - credit.acked <= Window
      /\ credit.window <= Window
  BY Zenon DEF Books
<1>5. /\ more \in [Nat -> Nat]
      /\ \A j \in Nat : j <= credit.next => more[j] = total[j]
      /\ \A j \in Nat : j > credit.next => more[j] = credit.sent + k
      /\ total[credit.next] = credit.sent
  <2>1. /\ Longer(total, k) \in [Nat -> Nat]
        /\ \A j \in Nat : j <= credit.next => Longer(total, k)[j] = total[j]
        /\ \A j \in Nat : j > credit.next => Longer(total, k)[j] = credit.sent + k
        /\ total[credit.next] = credit.sent
    BY LongerFacts, Zenon
  <2> QED
    BY <2>1, Zenon
<1>6. MaxCounter \in Nat /\ Window' = Window /\ Window \in Nat
  <2>1. world \in Worlds /\ world' = world
    BY Zenon DEF Typed, TypedOut
  <2>2. world.window \in Nat /\ world.max \in Nat
    BY <2>1, StreamAssumption
  <2> QED
    BY <2>1, <2>2, StreamAssumption, Zenon DEF Window
<1>7. more[0] = 0
  BY <1>1, <1>4, <1>5
<1>8. \A i, j \in Nat : i <= j => more[i] <= more[j]
  <2> SUFFICES ASSUME NEW i \in Nat, NEW j \in Nat, i <= j PROVE more[i] <= more[j]
    BY Zenon
  <2>1. total[i] \in Nat /\ total[i] <= total[j]
    BY <1>4
  <2>2. i <= credit.next => total[i] <= credit.sent
    BY <1>1, <1>4, <1>5, SMTT(60)
  <2> QED
    BY <1>1, <1>5, <2>1, <2>2
<1>9. \A j \in Nat : j >= credit'.next => more[j] = credit'.sent
  BY <1>1, <1>3, <1>5
<1>10. credit'.sent <= MaxCounter
  BY <1>1, <1>3, <1>6 DEF Overflows
<1>11. credit'.sent - credit'.acked <= Window /\ credit'.window <= Window
  BY <1>1, <1>3, <1>4, <1>6, SMTT(60) DEF Fits
<1>12. credit'.acked <= credit'.sent /\ credit.sent + k > credit.acked
  BY <1>1, <1>3, <1>4
<1>13. ASSUME NEW b, b \in credit'.boundaries
       PROVE  b \in {more[j] : j \in {i \in Nat : more[i] > credit'.acked}}
  <2>1. CASE b \in credit.boundaries
    <3>0. b \in {total[j] : j \in {i \in Nat : total[i] > credit.acked}}
      BY <1>4, <2>1, Zenon
    <3>1. PICK j \in Nat : b = total[j] /\ total[j] > credit.acked
      BY <3>0, Zenon
    <3>2. CASE j <= credit.next
      <4>1. more[j] = b /\ more[j] > credit'.acked
        BY <1>3, <1>5, <3>1, <3>2, Zenon
      <4> QED
        BY <4>1
    <3>3. CASE j > credit.next
      <4>0. j >= credit.next /\ credit.next <= credit.next
        BY <1>1, <3>3
      <4>1. more[credit.next] = b /\ b > credit.acked
        BY <1>1, <1>4, <1>5, <3>1, <4>0, Zenon
      <4>2. more[credit.next] > credit'.acked
        BY <1>3, <4>1, Zenon
      <4> QED
        BY <1>1, <4>1, <4>2
    <3> QED
      BY <1>1, <3>2, <3>3
  <2>2. CASE b = credit.sent + k
    <3>1. credit.next + 1 \in Nat /\ more[credit.next + 1] = credit.sent + k
      BY <1>1, <1>5
    <3> QED
      BY <1>3, <1>12, <2>2, <3>1, SMTT(60)
  <2> QED
    BY <1>3, <1>13, <2>1, <2>2, Zenon
<1>14. ASSUME NEW b, b \in {more[j] : j \in {i \in Nat : more[i] > credit'.acked}}
       PROVE  b \in credit'.boundaries
  <2>1. PICK j \in Nat : b = more[j] /\ more[j] > credit.acked
    BY <1>3, <1>14, Zenon
  <2>2. CASE j <= credit.next
    <3>1. b = total[j] /\ total[j] > credit.acked
      BY <1>5, <2>1, <2>2, Zenon
    <3> QED
      BY <1>3, <1>4, <3>1
  <2>3. CASE j > credit.next
    BY <1>3, <1>5, <2>1, <2>3, SMTT(60)
  <2> QED
    BY <1>1, <2>2, <2>3
<1>15. credit'.boundaries = {more[j] : j \in {i \in Nat : more[i] > credit'.acked}}
  BY <1>13, <1>14, Zenon
<1> QED
  BY <1>5, <1>6, <1>7, <1>8, <1>9, <1>10, <1>11, <1>12, <1>15, Zenon DEF Books

\* What the consumer counts and acknowledges is in the part that stays.
LEMMA CountedLonger ==
    ASSUME Typed, NEW total, NEW more, Counted(total), Acks(total),
           \A j \in Nat : j <= credit.next => more[j] = total[j],
           credit'.next = credit.next + 1, credit'.acked = credit.acked,
           UNCHANGED <<world, intake, signal, up>>
    PROVE  Counted(more)' /\ Acks(more)'
<1>1. /\ credit.next \in Nat /\ intake.next \in Nat /\ intake.next <= credit.next
      /\ intake' = intake /\ signal' = signal /\ up' = up /\ Local' = Local /\ NoSignal' = NoSignal
  BY DEF Typed, TypedOut, TypedIn, Credits, Counted, Local
<1>2. \A c \in 0 .. intake.next : more[c] = total[c]
  BY <1>1
<1>3. intake.next \in 0 .. intake.next /\ intake.next <= credit'.next
  BY <1>1
<1>4. Counted(more)'
  <2>1. /\ intake.received = total[intake.next]
        /\ \E c \in 0 .. intake.next : intake.consumed = total[c]
        /\ credit.acked <= intake.consumed
    BY Zenon DEF Counted
  <2>2. /\ intake'.next <= credit'.next
        /\ intake'.received = more[intake'.next]
        /\ \E c \in 0 .. intake'.next : intake'.consumed = more[c]
        /\ credit'.acked <= intake'.consumed
    BY <1>1, <1>2, <1>3, <2>1, Zenon
  <2> QED
    BY <2>2, Zenon DEF Counted
<1>5. \A a : Ack(a, total, credit.acked, intake) => Ack(a, more, credit'.acked, intake')
  BY <1>1, <1>2, Zenon DEF Ack
<1>6. Acks(more)'
  BY <1>1, <1>5, Zenon DEF Acks
<1> QED
  BY <1>4, <1>6, Zenon

\* The consumer does not see the new item yet (StreamCore::emit_item).
LEMMA ReadingLonger ==
    ASSUME Typed, NEW total, NEW more, Counted(total), Reading(total), terminal = "none",
           \A j \in Nat : j <= credit.next => more[j] = total[j],
           UNCHANGED <<pending, intake, buffer, outcome, reader, taken>>
    PROVE  Reading(more)'
<1>1. /\ credit.next \in Nat /\ intake.next \in Nat /\ intake.next <= credit.next
      /\ Len(taken) \in Nat /\ Len(buffer) \in Nat
  BY SMTT(60) DEF Typed, TypedOut, TypedIn, Credits, Counted
<1>2. /\ intake' = intake /\ pending' = pending /\ buffer' = buffer /\ outcome' = outcome
      /\ reader' = reader /\ taken' = taken
  BY Zenon
<1>3. reader \in {"run", "wait"} =>
        /\ intake.next = Len(taken) + Len(buffer)
        /\ intake.consumed = total[Len(taken)]
        /\ \A i \in DOMAIN buffer : buffer[i].n = Len(taken) + i - 1
  BY Zenon DEF Reading
<1>4. reader \in {"run", "wait"} => intake.consumed = more[Len(taken)]
  BY <1>1, <1>3
<1>5. outcome \notin {"ok", "failed"}
  BY Zenon DEF Reading
<1>6. /\ taken = [i \in 1 .. Len(taken) |-> i - 1]
      /\ pending => outcome = "none" /\ reader \in {"run", "wait"}
      /\ reader = "over" => outcome # "none"
  BY Zenon DEF Reading
<1>7. reader' \in {"run", "wait"} =>
        /\ intake'.next = Len(taken') + Len(buffer')
        /\ intake'.consumed = more[Len(taken')]
        /\ \A i \in DOMAIN buffer' : buffer'[i].n = Len(taken') + i - 1
  BY <1>2, <1>3, <1>4, Zenon
<1>8. /\ taken' = [i \in 1 .. Len(taken') |-> i - 1]
      /\ pending' => outcome' = "none" /\ reader' \in {"run", "wait"}
      /\ reader' = "over" => outcome' # "none"
      /\ outcome' \notin {"ok", "failed"}
  BY <1>2, <1>5, <1>6
<1> QED
  BY <1>7, <1>8, Zenon DEF Reading

\* An item is sent, or lost with its connection (StreamCore::send_locked).
LEMMA LedgerSend ==
    ASSUME Typed, Lined, NEW total, NEW m, Ledger(total, m), NEW s \in Senders, SendItem(s)
    PROVE  \E more : Ledger(more, m)'
<1>1. Books(total) /\ Counted(total) /\ Acks(total) /\ Entries(total) /\ Chained(m) /\ Reading(total)
  BY Zenon DEF Ledger
<1> DEFINE k == sender[s].size
<1>2. /\ k \in Nat /\ k > 0 /\ terminal = "none"
      /\ ~Overflows(credit, k) /\ Fits(credit, k) /\ credit' = Reserve(credit, k)
      /\ UNCHANGED <<world, server, client, signal, up, consuming>>
  BY SizeOfRunning, Zenon DEF SendItem, Polls
<1>3. /\ UNCHANGED <<world, intake, signal, up>> /\ UNCHANGED world
      /\ UNCHANGED <<pending, intake, buffer, outcome, reader, taken>>
      /\ UNCHANGED <<world, server, intake, pending>> /\ UNCHANGED buffer
      /\ world' = world /\ server' = server /\ intake' = intake /\ pending' = pending
      /\ buffer' = buffer
  BY <1>2, Zenon DEF consuming
<1> HIDE DEF k
<1>4. PICK more : more = Longer(total, k)
  BY Zenon
<1>5. /\ \A j \in Nat : j <= credit.next => more[j] = total[j]
      /\ \A j \in Nat : j > credit.next => more[j] = credit.sent + k
      /\ total[credit.next] = credit.sent
  <2>1. /\ \A j \in Nat : j <= credit.next => Longer(total, k)[j] = total[j]
        /\ \A j \in Nat : j > credit.next => Longer(total, k)[j] = credit.sent + k
        /\ total[credit.next] = credit.sent
    BY <1>1, <1>2, LongerFacts, Zenon
  <2> QED
    BY <1>4, <2>1, Zenon
<1>6. /\ credit \in Credits /\ credit.next \in Nat /\ credit.sent \in Nat
  BY DEF Typed, TypedOut, Credits
<1>7. credit'.next = credit.next + 1 /\ credit'.acked = credit.acked
  BY <1>2, <1>6 DEF Reserve, Credits
<1>8. Books(more)'
  BY <1>1, <1>2, <1>3, <1>4, BooksReserve, Zenon
<1>9. Counted(more)' /\ Acks(more)'
  BY <1>1, <1>3, <1>5, <1>7, CountedLonger, Zenon
<1>10. Reading(more)'
  BY <1>1, <1>2, <1>3, <1>5, ReadingLonger, Zenon
<1>11. ASSUME NEW g \in Items \cup Ends, NEW why, Entry(g, total, credit.next, "none")
       PROVE  Entry(g, more, credit'.next, why)
  <2>1. g \in Items /\ g.n \in Nat /\ g.kind = "item"
    BY <1>11 DEF Entry, Items, Ends
  <2>2. g.n < credit.next /\ g.size = total[g.n + 1] - total[g.n]
    BY <1>11, <2>1, Zenon DEF Entry
  <2>3. more[g.n + 1] = total[g.n + 1] /\ more[g.n] = total[g.n] /\ g.n < credit'.next
    BY <1>5, <1>6, <1>7, <2>1, <2>2, SMTT(60)
  <2>4. g.kind # "end"
    BY <2>1
  <2> QED
    BY <2>2, <2>3, <2>4, Zenon DEF Entry
<1>12. CASE Local \/ server = "open"
  <2>1. Emit(Item(credit.next, k)) /\ terminal' = terminal
    BY <1>12, Zenon DEF SendItem, k
  <2>2. /\ Item(credit.next, k).n = credit.next /\ Item(credit.next, k).kind = "item"
        /\ Item(credit.next, k).size = k
    BY DEF Item
  <2>3. Entry(Item(credit.next, k), more, credit'.next, terminal')
    <3>1. more[credit.next] = credit.sent /\ more[credit.next + 1] = credit.sent + k
      BY <1>5, <1>6, SMTT(60)
    <3>2. credit.next < credit'.next /\ k = more[credit.next + 1] - more[credit.next]
      BY <1>2, <1>6, <1>7, <3>1, SMTT(60)
    <3> QED
      BY <2>2, <3>2 DEF Entry
  <2>4. \A g \in Items \cup Ends :
          Entry(g, total, credit.next, terminal) => Entry(g, more, credit'.next, terminal')
    BY <1>2, <1>11, ZenonT(60)
  <2>5. Entries(more)'
    BY <1>1, <1>3, <2>1, <2>3, <2>4, EntriesEmit, SMTT(60)
  <2>6. Chained(m)'
    BY <1>1, <1>2, <1>3, <1>7, <1>12, <2>1, <2>2, ChainedEmit, ZenonT(60)
  <2> QED
    BY <1>8, <1>9, <1>10, <2>5, <2>6, Zenon DEF Ledger
<1>13. CASE ~(Local \/ server = "open")
  <2>1. terminal' = "disconnected" /\ out' = out /\ down' = down
    BY <1>13, Zenon DEF SendItem, Stop
  <2>2. /\ out \in Seq(Items \cup Ends) /\ down \in Seq(Items \cup Ends) /\ buffer \in Seq(Items)
    BY Zenon DEF Typed, TypedOut, TypedIn
  <2>3. /\ \A i \in DOMAIN out : out[i] \in Items \cup Ends
        /\ \A i \in DOMAIN down : down[i] \in Items \cup Ends
        /\ \A i \in DOMAIN buffer : buffer[i] \in Items \cup Ends
    BY <2>2
  <2>4. /\ \A i \in DOMAIN out : Entry(out[i], more, credit'.next, terminal')
        /\ \A i \in DOMAIN down : Entry(down[i], more, credit'.next, terminal')
        /\ \A i \in DOMAIN buffer : Entry(buffer[i], more, credit'.next, terminal')
    BY <1>1, <1>2, <1>11, <2>3, Zenon DEF Entries
  <2>5. Entries(more)'
    BY <1>3, <2>1, <2>4, Zenon DEF Entries
  <2>6. Chained(m)'
    <3>1. out = <<>>
      BY <1>1, <1>13, Zenon DEF Chained
    <3>2. /\ m \in Nat /\ intake.next <= m
          /\ pending => m = intake.next
          /\ \A i \in DOMAIN down : down[i].n = m + i - 1
      BY <1>1, ZenonT(60) DEF Chained
    <3>3. /\ intake'.next <= m
          /\ pending' => m = intake'.next
          /\ \A i \in DOMAIN down' : down'[i].n = m + i - 1
      BY <1>3, <2>1, <3>2
    <3>4. out' = <<>> /\ DOMAIN out' = {} /\ terminal' # "none"
      BY <2>1, <3>1
    <3> QED
      BY <3>2, <3>3, <3>4, Zenon DEF Chained
  <2> QED
    BY <1>8, <1>9, <1>10, <2>5, <2>6, Zenon DEF Ledger
<1> QED
  BY <1>12, <1>13, Zenon

----------------------------------------------------------------------------
(* Acknowledgements are read against the ledger.                           *)

\* A value of the ledger the credit has not passed is accepted, and returns
\* what is below it (Credit::ack).
LEMMA BooksAck ==
    ASSUME Typed, NEW total, Books(total), NEW consumed, NEW c \in Nat, consumed = total[c],
           credit.acked <= consumed, OnAck(consumed), UNCHANGED world
    PROVE  /\ Books(total)'
           /\ UNCHANGED <<terminal, hold, out, down, refused>>
           /\ credit'.next = credit.next
           /\ credit'.acked = credit.acked \/ credit'.acked = consumed
           /\ credit'.acked >= credit.acked
<1>1. /\ credit.window \in Nat /\ credit.sent \in Nat /\ credit.acked \in Nat
      /\ credit.next \in Nat /\ credit.boundaries \in SUBSET Nat /\ credit \in Credits
  BY DEF Typed, TypedOut, Credits
<1>2. CASE terminal # "none" \/ consumed = credit.acked
  <2>1. UNCHANGED <<credit, terminal, hold, out, down, refused>>
    BY <1>2, Zenon DEF OnAck
  <2>2. UNCHANGED <<world, credit>> /\ credit' = credit
    BY <2>1, Zenon
  <2>3. Books(total)'
    BY <2>2, BooksSkip, Zenon
  <2>4. credit'.acked >= credit.acked
    BY <1>1, <2>2
  <2> QED
    BY <2>1, <2>2, <2>3, <2>4, Zenon
<1>3. CASE ~(terminal # "none" \/ consumed = credit.acked)
  <2>1. /\ total \in [Nat -> Nat] /\ total[0] = 0
        /\ \A i, j \in Nat : i <= j => total[i] <= total[j]
        /\ \A j \in Nat : j >= credit.next => total[j] = credit.sent
        /\ credit.boundaries = {total[j] : j \in {i \in Nat : total[i] > credit.acked}}
        /\ credit.sent <= MaxCounter
        /\ credit.acked <= credit.sent
        /\ credit.sent - credit.acked <= Window
        /\ credit.window <= Window
    BY Zenon DEF Books
  <2>2. consumed \in Nat /\ consumed > credit.acked
    BY <1>1, <1>3, <2>1
  <2>3. consumed <= credit.sent
    <3>1. CASE c <= credit.next
      <4>1. total[credit.next] = credit.sent
        BY <1>1, <2>1
      <4> QED
        BY <1>1, <2>1, <3>1, <4>1, SMTT(60)
    <3>2. CASE c >= credit.next
      BY <1>1, <2>1, <3>2
    <3> QED
      BY <1>1, <3>1, <3>2, SMTT(60)
  <2>4. consumed \in credit.boundaries
    <3>1. credit.boundaries = {total[j] : j \in {i \in Nat : total[i] > credit.acked}}
      BY <2>1, Zenon
    <3> QED
      BY <2>2, <3>1
  <2>5. credit' = Acked(credit, consumed) /\ UNCHANGED <<terminal, hold, out, down, refused>>
    BY <1>3, <2>4, Zenon DEF OnAck
  <2>6. /\ credit'.window = credit.window /\ credit'.sent = credit.sent
        /\ credit'.acked = consumed /\ credit'.next = credit.next
        /\ credit'.boundaries = {b \in credit.boundaries : b > consumed}
    BY <1>1, <2>5 DEF Acked, Credits
  <2>7. Window' = Window /\ Window \in Nat
    <3>1. world \in Worlds /\ world' = world
      BY Zenon DEF Typed, TypedOut
    <3>2. world.window \in Nat /\ world.max \in Nat
      BY <3>1, StreamAssumption
    <3> QED
      BY <3>1, <3>2, Zenon DEF Window
  <2>8. ASSUME NEW b
        PROVE  b \in credit'.boundaries <=> b \in {total[j] : j \in {i \in Nat : total[i] > credit'.acked}}
    <3>0. credit.boundaries = {total[j] : j \in {i \in Nat : total[i] > credit.acked}}
      BY <2>1, Zenon
    <3>1. b \in credit'.boundaries <=> b > consumed /\ \E j \in Nat : b = total[j] /\ total[j] > credit.acked
      BY <2>6, <3>0, SMTT(60)
    <3>2. b \in {total[j] : j \in {i \in Nat : total[i] > credit'.acked}} <=>
            \E j \in Nat : b = total[j] /\ total[j] > consumed
      BY <2>6, SMTT(60)
    <3>3. \A j \in Nat : total[j] > consumed => total[j] > credit.acked
      BY <1>1, <2>1, <2>2
    <3> QED
      BY <3>1, <3>2, <3>3, Zenon
  <2>9. credit'.boundaries = {total[j] : j \in {i \in Nat : total[i] > credit'.acked}}
    BY <2>8, Zenon
  <2>10. /\ credit'.acked <= credit'.sent /\ credit'.acked >= credit.acked
         /\ credit'.sent - credit'.acked <= Window'
         /\ credit'.window <= Window' /\ credit'.sent <= MaxCounter
    BY <1>1, <2>1, <2>2, <2>3, <2>6, <2>7, SMTT(60)
  <2>11. \A j \in Nat : j >= credit'.next => total[j] = credit'.sent
    BY <2>1, <2>6, Zenon
  <2>12. Books(total)'
    BY <2>1, <2>9, <2>10, <2>11, Zenon DEF Books
  <2> QED
    BY <2>5, <2>6, <2>10, <2>12, Zenon
<1> QED
  BY <1>2, <1>3, Zenon

\* A step that only drops queued frames, or only ends the stream.
LEMMA LedgerCut ==
    ASSUME NEW total, NEW m, Ledger(total, m), Acks(total)',
           UNCHANGED <<world, credit, intake, down, buffer, taken, reader, outcome>>,
           pending' => pending, Later, out' = out \/ out' = <<>>,
           out' # <<>> => server' = server,
           terminal' = "none" /\ (Local \/ server' = "open") =>
                out' = out /\ (Local \/ server = "open")
    PROVE  Ledger(total, m)'
<1>1. Books(total) /\ Counted(total) /\ Entries(total) /\ Chained(m) /\ Reading(total)
  BY Zenon DEF Ledger
<1>2. /\ UNCHANGED <<world, credit>> /\ UNCHANGED <<credit, intake>>
      /\ credit'.next = credit.next /\ UNCHANGED down /\ UNCHANGED <<world, down>> /\ intake'.next = intake.next
      /\ UNCHANGED <<taken, reader, intake, buffer, outcome>> /\ buffer' = buffer
  BY Zenon
<1>3. Books(total)'
  BY <1>1, <1>2, BooksSkip, Zenon
<1>4. Counted(total)'
  BY <1>1, <1>2, CountedSkip, Zenon
<1>5. Entries(total)'
  BY <1>1, <1>2, EntriesCut, Zenon
<1>6. Chained(m)'
  BY <1>1, <1>2, ChainedCut, Zenon
<1>7. Reading(total)'
  BY <1>1, <1>2, ReadingSkip, Zenon
<1> QED
  BY <1>3, <1>4, <1>5, <1>6, <1>7, Zenon DEF Ledger

\* What a cancel does to the queue and the terminal (StreamCore::cancel).
LEMMA CancelCuts ==
    ASSUME OnCancel
    PROVE  /\ Later /\ terminal' # "none"
           /\ out' = out \/ out' = <<>>
           /\ terminal # "none" => UNCHANGED <<terminal, hold, out>>
           /\ terminal = "none" => hold' = "free" /\ out' = <<>>
<1>1. CASE terminal # "none"
  BY <1>1, Zenon DEF OnCancel, Later
<1>2. CASE terminal = "none"
  <2>1. terminal' = "cancelled" /\ hold' = "free" /\ out' = <<>>
    BY <1>2, Zenon DEF OnCancel, Stop
  <2> QED
    BY <1>2, <2>1 DEF Later
<1> QED
  BY <1>1, <1>2, Zenon

\* The rest of the signals on their way, once the first was read.
LEMMA AcksTail ==
    ASSUME Typed, NEW total, Acks(total), up # <<>>, up' = Tail(up),
           UNCHANGED <<world, intake, signal>>, NEW acked, credit'.acked = acked,
           \/ acked = credit.acked
           \/ Head(up).kind = "ack" /\ acked = Head(up).consumed
    PROVE  Acks(total)'
<1>1. /\ up \in Seq(Signals) /\ signal \in Signals /\ credit.acked \in Nat
      /\ intake' = intake /\ signal' = signal /\ Local' = Local /\ NoSignal' = NoSignal
  BY DEF Typed, TypedOut, TypedBack, Credits, Local
<1>2. /\ Head(up) = up[1] /\ 1 \in DOMAIN up /\ DOMAIN up' = 1 .. Len(up) - 1
      /\ Len(up) \in Nat
      /\ \A i \in DOMAIN up' : i + 1 \in DOMAIN up /\ up'[i] = up[i + 1]
  BY <1>1, HeadTail
<1>3. /\ Ack(signal, total, credit.acked, intake)
      /\ signal.kind # "ack" => signal.consumed = 0
      /\ Local => up = <<>> /\ signal = NoSignal
      /\ \A i \in DOMAIN up :
        /\ Ack(up[i], total, credit.acked, intake)
        /\ up[i].kind \in {"ack", "cancel"}
        /\ signal.kind = "ack" /\ up[i].kind = "ack" => up[i].consumed <= signal.consumed
        /\ \A j \in DOMAIN up : i <= j /\ up[i].kind = "ack" /\ up[j].kind = "ack" =>
            up[i].consumed <= up[j].consumed
  BY Zenon DEF Acks
<1>4. Ack(signal', total, acked, intake')
  BY <1>1, <1>2, <1>3, SMTT(60) DEF Ack
<1>5. ASSUME NEW i \in DOMAIN up'
      PROVE  /\ Ack(up'[i], total, acked, intake')
             /\ up'[i].kind \in {"ack", "cancel"}
             /\ signal'.kind = "ack" /\ up'[i].kind = "ack" => up'[i].consumed <= signal'.consumed
             /\ \A j \in DOMAIN up' : i <= j /\ up'[i].kind = "ack" /\ up'[j].kind = "ack" =>
                    up'[i].consumed <= up'[j].consumed
  <2>1. i + 1 \in DOMAIN up /\ up'[i] = up[i + 1] /\ i \in Nat /\ 1 <= i + 1
    BY <1>2
  <2>2. Ack(up'[i], total, acked, intake')
    <3>1. up[1].kind = "ack" /\ up[i + 1].kind = "ack" => up[1].consumed <= up[i + 1].consumed
      BY <1>2, <1>3, <2>1, Zenon
    <3>2. Ack(up[i + 1], total, credit.acked, intake)
      BY <1>3, <2>1, Zenon
    <3> QED
      BY <1>1, <1>2, <2>1, <3>1, <3>2, Zenon DEF Ack
  <2>3. \A j \in DOMAIN up' : i <= j /\ up'[i].kind = "ack" /\ up'[j].kind = "ack" =>
            up'[i].consumed <= up'[j].consumed
    <3> SUFFICES ASSUME NEW j \in DOMAIN up', i <= j, up'[i].kind = "ack", up'[j].kind = "ack"
                 PROVE  up'[i].consumed <= up'[j].consumed
      BY Zenon
    <3>1. j + 1 \in DOMAIN up /\ up'[j] = up[j + 1] /\ i + 1 <= j + 1
      BY <1>2, <2>1
    <3> QED
      BY <1>3, <2>1, <3>1, Zenon
  <2>4. /\ up'[i].kind \in {"ack", "cancel"}
        /\ signal'.kind = "ack" /\ up'[i].kind = "ack" => up'[i].consumed <= signal'.consumed
    BY <1>1, <1>3, <2>1, Zenon
  <2> QED
    BY <2>2, <2>3, <2>4, Zenon
<1>6. ~Local
  BY <1>3, Zenon
<1> QED
  BY <1>1, <1>3, <1>4, <1>5, <1>6, Zenon DEF Acks

\* Signals are written, read, cancelled and dropped; sessions end.
LEMMA LedgerCarry ==
    ASSUME Typed, NEW total, NEW m, Ledger(total, m),
           WriteSignal \/ StreamCancel \/ CloseServer \/ EndServer \/ CloseClient
    PROVE  Ledger(total, m)'
<1>1. Acks(total) /\ Chained(m)
  BY Zenon DEF Ledger
<1>2. UNCHANGED <<world, credit, intake, down, buffer, taken, reader, outcome>> /\ pending' = pending
  BY Zenon DEF WriteSignal, StreamCancel, CloseServer, EndServer, CloseClient, producing, consuming
<1>3. Later /\ (out' = out \/ out' = <<>>)
  <2>1. CASE StreamCancel
    BY <2>1, CancelCuts, Zenon DEF StreamCancel
  <2>2. CASE WriteSignal \/ CloseServer \/ EndServer \/ CloseClient
    BY <2>2, Zenon DEF WriteSignal, CloseServer, EndServer, CloseClient, producing, Later
  <2> QED
    BY <2>1, <2>2, Zenon
<1>4. /\ out' # <<>> => server' = server
      /\ terminal' = "none" /\ (Local \/ server' = "open") =>
                out' = out /\ (Local \/ server = "open")
  <2>1. CASE StreamCancel
    BY <2>1, CancelCuts, Zenon DEF StreamCancel
  <2>2. CASE WriteSignal \/ CloseClient
    BY <2>2, Zenon DEF WriteSignal, CloseClient, producing
  <2>3. CASE CloseServer
    <3>1. out' = <<>> /\ server' = "closed"
      BY <2>3, Zenon DEF CloseServer
    <3>2. Local => out = <<>>
      BY <1>1, Zenon DEF Chained
    <3> QED
      BY <3>1, <3>2
  <2>4. CASE EndServer
    <3>1. out' = out /\ server' = "ended" /\ server = "closed"
      BY <2>4, Zenon DEF EndServer
    <3>2. out = <<>>
      BY <1>1, <3>1 DEF Chained
    <3> QED
      BY <3>1, <3>2
  <2> QED
    BY <2>1, <2>2, <2>3, <2>4, Zenon
<1>5. Acks(total)'
  <2>1. CASE CloseServer \/ EndServer
    <3>1. UNCHANGED <<world, credit, intake, signal, up>>
      BY <2>1, Zenon DEF CloseServer, EndServer, consuming
    <3> QED
      BY <1>1, <3>1, AcksSkip, Zenon
  <2>2. CASE CloseClient
    <3>1. signal' = NoSignal /\ up' = up /\ credit' = credit /\ intake' = intake /\ Local' = Local
      BY <1>2, <2>2, Zenon DEF CloseClient, Local
    <3>2. signal'.kind = "none" /\ signal'.consumed = 0 /\ NoSignal' = NoSignal
      BY <3>1 DEF NoSignal
    <3> QED
      BY <1>1, <3>1, <3>2 DEF Acks, Ack
  <2>3. CASE StreamCancel
    <3>1. up # <<>> /\ up' = Tail(up) /\ UNCHANGED <<world, intake, signal>>
      BY <2>3, Zenon DEF StreamCancel, consuming
    <3>2. credit'.acked = credit.acked
      BY <1>2, Zenon
    <3> QED
      BY <1>1, <3>1, <3>2, AcksTail, Zenon
  <2>4. CASE WriteSignal
    <3>1. /\ up' = Append(up, signal) /\ signal' = NoSignal /\ signal # NoSignal
          /\ credit' = credit /\ intake' = intake /\ Local' = Local
      BY <1>2, <2>4, Zenon DEF WriteSignal, Local
    <3>2. up \in Seq(Signals) /\ signal \in Signals
      BY Zenon DEF Typed, TypedBack
    <3>3. /\ Ack(signal, total, credit.acked, intake)
          /\ signal.kind # "ack" => signal.consumed = 0
          /\ Local => up = <<>> /\ signal = NoSignal
          /\ \A i \in DOMAIN up :
            /\ Ack(up[i], total, credit.acked, intake)
            /\ up[i].kind \in {"ack", "cancel"}
            /\ signal.kind = "ack" /\ up[i].kind = "ack" => up[i].consumed <= signal.consumed
            /\ \A j \in DOMAIN up : i <= j /\ up[i].kind = "ack" /\ up[j].kind = "ack" =>
                up[i].consumed <= up[j].consumed
      BY <1>1, Zenon DEF Acks
    <3>4. signal.kind \in {"ack", "cancel"}
      BY <3>1, <3>2, <3>3, SMTT(60) DEF Signals, NoSignal
    <3>5. signal'.kind = "none" /\ signal'.consumed = 0
      BY <3>1 DEF NoSignal
    <3>6. \A i \in DOMAIN up' : up'[i] = signal \/ (i \in DOMAIN up /\ up'[i] = up[i])
      BY <3>1, <3>2
    <3>7. \A i \in DOMAIN up' : /\ Ack(up'[i], total, credit.acked, intake)
                                /\ up'[i].kind \in {"ack", "cancel"}
      BY <3>3, <3>4, <3>6, Zenon
    <3>8. ASSUME NEW i \in DOMAIN up', NEW j \in DOMAIN up', i <= j,
                 up'[i].kind = "ack", up'[j].kind = "ack"
          PROVE  up'[i].consumed <= up'[j].consumed
      <4>1. signal.consumed <= signal.consumed
        BY <3>2 DEF Signals
      <4>2. CASE i \in DOMAIN up /\ up'[i] = up[i]
        <5>1. CASE j \in DOMAIN up /\ up'[j] = up[j]
          BY <3>3, <3>8, <4>2, <5>1, ZenonT(60)
        <5>2. CASE up'[j] = signal
          BY <3>3, <3>8, <4>2, <5>2, Zenon
        <5> QED
          BY <3>6, <5>1, <5>2, Zenon
      <4>3. CASE i = Len(up) + 1
        <5>1. j = i /\ up'[i] = signal
          BY <3>1, <3>2, <3>8, <4>3, SMTT(60)
        <5> QED
          BY <4>1, <5>1, Zenon
      <4>4. i = Len(up) + 1 \/ (i \in DOMAIN up /\ up'[i] = up[i])
        BY <3>1, <3>2, SMTT(60)
      <4> QED
        BY <4>2, <4>3, <4>4, Zenon
    <3>9. ~Local
      BY <3>1, <3>3, Zenon
    <3>10. Ack(signal', total, credit.acked, intake)
      BY <3>5 DEF Ack
    <3> QED
      BY <3>1, <3>5, <3>7, <3>8, <3>9, <3>10, SMTT(60) DEF Acks
  <2> QED
    BY <2>1, <2>2, <2>3, <2>4, Zenon
<1> QED
  BY <1>2, <1>3, <1>4, <1>5, LedgerCut, Zenon

\* An acknowledgement arrives (Shared::stream_ack): it is never refused.
LEMMA LedgerStreamAck ==
    ASSUME Typed, NEW total, NEW m, Ledger(total, m), StreamAck
    PROVE  Ledger(total, m)' /\ refused' = refused /\ UNCHANGED <<terminal, hold, out, down>>
<1>1. Books(total) /\ Counted(total) /\ Acks(total) /\ Entries(total) /\ Chained(m) /\ Reading(total)
  BY Zenon DEF Ledger
<1>2. /\ up # <<>> /\ Head(up).kind = "ack" /\ up' = Tail(up) /\ OnAck(Head(up).consumed)
      /\ UNCHANGED <<world, handle, server, client, signal, pending, intake, buffer, outcome,
                     reader, taken>>
  BY Zenon DEF StreamAck
<1>3. Head(up) = up[1] /\ 1 \in DOMAIN up
  <2>1. up \in Seq(Signals)
    BY Zenon DEF Typed, TypedBack
  <2> QED
    BY <1>2, <2>1
<1>4. Ack(Head(up), total, credit.acked, intake)
  BY <1>1, <1>3, Zenon DEF Acks
<1>5. /\ credit.acked <= Head(up).consumed /\ Head(up).consumed <= intake.consumed
      /\ \E c \in 0 .. intake.next : Head(up).consumed = total[c]
  BY <1>2, <1>4, Zenon DEF Ack
<1>6. PICK c \in Nat : Head(up).consumed = total[c]
  BY <1>5
<1>7. /\ Books(total)' /\ UNCHANGED <<terminal, hold, out, down, refused>>
      /\ credit'.next = credit.next
      /\ credit'.acked = credit.acked \/ credit'.acked = Head(up).consumed
  BY <1>1, <1>2, <1>5, <1>6, BooksAck, ZenonT(60)
<1>8. /\ UNCHANGED <<world, intake, signal>> /\ UNCHANGED down /\ UNCHANGED <<world, down>> /\ intake'.next = intake.next
      /\ out' = out /\ buffer' = buffer /\ server' = server /\ terminal' = terminal
      /\ intake' = intake /\ Later
      /\ UNCHANGED <<taken, reader, intake, buffer, outcome>>
      /\ pending' => pending
  BY <1>2, <1>7, Zenon DEF Later
<1>9. Acks(total)'
  BY <1>1, <1>2, <1>7, <1>8, AcksTail, ZenonT(60)
<1>10. Counted(total)'
  <2>1. credit'.acked <= intake.consumed
    BY <1>1, <1>5, <1>7, Zenon DEF Counted
  <2> QED
    BY <1>1, <1>7, <1>8, <2>1, Zenon DEF Counted
<1>11. Entries(total)'
  BY <1>1, <1>7, <1>8, EntriesCut, Zenon
<1>12. Chained(m)'
  BY <1>1, <1>7, <1>8, ChainedCut, Zenon
<1>13. Reading(total)'
  BY <1>1, <1>7, <1>8, ReadingSkip, Zenon
<1> QED
  BY <1>7, <1>9, <1>10, <1>11, <1>12, <1>13, Zenon DEF Ledger

\* The writer moves the next frame on (Connection::poll_next).
LEMMA LedgerWriteFrame ==
    ASSUME Typed, NEW total, NEW m, Ledger(total, m), WriteFrame
    PROVE  Ledger(total, m)'
<1>1. Books(total) /\ Counted(total) /\ Acks(total) /\ Entries(total) /\ Chained(m) /\ Reading(total)
  BY Zenon DEF Ledger
<1>2. /\ server = "open" /\ out # <<>> /\ down' = Append(down, Head(out)) /\ out' = Tail(out)
      /\ UNCHANGED <<world, credit, terminal, server, signal, up, pending, intake, buffer, outcome,
                     reader, taken>>
  BY Zenon DEF WriteFrame, consuming
<1>3. /\ UNCHANGED <<world, credit>> /\ UNCHANGED <<credit, intake>> /\ credit' = credit
      /\ UNCHANGED <<world, credit, intake, signal, up>> /\ credit'.next = credit.next
      /\ UNCHANGED <<taken, reader, intake, buffer, outcome>> /\ Later
      /\ pending' => pending
      /\ world' = world /\ server' = server /\ intake' = intake /\ pending' = pending
      /\ buffer' = buffer /\ terminal' = terminal /\ Local' = Local
  BY <1>2, Zenon DEF Later, Local
<1>4. Books(total)'
  BY <1>1, <1>3, BooksSkip, Zenon
<1>5. Counted(total)'
  BY <1>1, <1>3, CountedSkip, Zenon
<1>6. Acks(total)'
  BY <1>1, <1>3, AcksSkip, Zenon
<1>7. Reading(total)'
  BY <1>1, <1>3, ReadingSkip, Zenon
<1>8. out \in Seq(Items \cup Ends) /\ down \in Seq(Items \cup Ends)
  BY Zenon DEF Typed, TypedOut
<1>9. /\ Head(out) = out[1] /\ 1 \in DOMAIN out /\ Len(out) \in Nat /\ Len(out') = Len(out) - 1
      /\ \A i \in DOMAIN out' : i + 1 \in DOMAIN out /\ out'[i] = out[i + 1]
      /\ DOMAIN out' = 1 .. Len(out) - 1
  <2>1. 1 \in DOMAIN out
    BY <1>2, <1>8, SMTT(60)
  <2> QED
    BY <1>2, <1>8, <2>1, HeadTail, Zenon
<1>10. /\ Len(down') = Len(down) + 1 /\ Len(down) \in Nat
       /\ \A i \in DOMAIN down' : (i = Len(down) + 1 /\ down'[i] = out[1]) \/ (i \in DOMAIN down /\ down'[i] = down[i])
  BY <1>2, <1>8, <1>9
<1>11. Entries(total)'
  <2>1. \A i \in DOMAIN out' : Entry(out'[i], total, credit.next, terminal)
    BY <1>1, <1>9, Zenon DEF Entries
  <2>2. \A i \in DOMAIN down' : Entry(down'[i], total, credit.next, terminal)
    BY <1>1, <1>9, <1>10, Zenon DEF Entries
  <2> QED
    BY <1>1, <1>3, <2>1, <2>2, Zenon DEF Entries
<1>12. Chained(m)'
  <2>1. /\ m \in Nat /\ intake.next <= m
        /\ pending => m = intake.next
        /\ \A i \in DOMAIN down : down[i].n = m + i - 1
        /\ \A i \in DOMAIN out : out[i].n = m + Len(down) + i - 1
        /\ terminal = "none" /\ (Local \/ server = "open") => credit.next = m + Len(down) + Len(out)
        /\ ~Local /\ server = "open"
    BY <1>1, <1>2, Zenon DEF Chained
  <2>2. \A i \in DOMAIN down' : down'[i].n = m + i - 1
    <3>1. out[1].n = m + Len(down) + 1 - 1
      BY <1>9, <2>1, Zenon
    <3>2. out[1].n = m + (Len(down) + 1) - 1
      BY <1>10, <2>1, <3>1, SMTT(60)
    <3> QED
      BY <1>10, <2>1, <3>2, Zenon
  <2>3. \A i \in DOMAIN out' : out'[i].n = m + Len(down') + i - 1
    <3> SUFFICES ASSUME NEW i \in DOMAIN out' PROVE out'[i].n = m + Len(down') + i - 1
      BY Zenon
    <3>1. out'[i].n = m + Len(down) + (i + 1) - 1
      BY <1>9, <2>1, Zenon
    <3> QED
      BY <1>9, <1>10, <2>1, <3>1, SMTT(60)
  <2>4. Len(down') + Len(out') = Len(down) + Len(out) /\ m + Len(down') + Len(out') = m + Len(down) + Len(out)
    BY <1>9, <1>10, <2>1, SMTT(60)
  <2>5. /\ intake'.next <= m
        /\ pending' => m = intake'.next
        /\ terminal' = "none" /\ (Local' \/ server' = "open") => credit'.next = m + Len(down') + Len(out')
        /\ ~Local' /\ server' = "open"
    BY <1>3, <2>1, <2>4, SMTT(60)
  <2> QED
    BY <2>1, <2>2, <2>3, <2>5, SMTT(60) DEF Chained
<1> QED
  BY <1>4, <1>5, <1>6, <1>7, <1>11, <1>12, ZenonT(60) DEF Ledger

----------------------------------------------------------------------------
(* The consumer reads the ledger.                                          *)

\* The first frame on its way is taken off (Shared::stream_item).
LEMMA ChainedPop ==
    ASSUME Typed, NEW m, Chained(m), down # <<>>, down' = Tail(down),
           UNCHANGED <<world, credit, terminal, server, out>>,
           intake'.next <= m + 1,
           pending' => m + 1 = intake'.next
    PROVE  Chained(m + 1)'
<1>1. /\ world' = world /\ credit' = credit /\ terminal' = terminal /\ server' = server /\ out' = out
      /\ Local' = Local
  BY Zenon DEF Local
<1>2. down \in Seq(Items \cup Ends) /\ out \in Seq(Items \cup Ends)
  BY Zenon DEF Typed, TypedOut
<1>3. /\ m \in Nat
      /\ \A i \in DOMAIN down : down[i].n = m + i - 1
      /\ \A i \in DOMAIN out : out[i].n = m + Len(down) + i - 1
      /\ terminal = "none" /\ (Local \/ server = "open") => credit.next = m + Len(down) + Len(out)
      /\ out # <<>> => ~Local /\ server = "open"
  BY Zenon DEF Chained
<1>4. /\ Len(down) \in Nat /\ Len(down') = Len(down) - 1 /\ DOMAIN down' = 1 .. Len(down) - 1
      /\ \A i \in DOMAIN down' : i + 1 \in DOMAIN down /\ down'[i] = down[i + 1]
  BY <1>2, HeadTail, Zenon
<1>5. DOMAIN out = 1 .. Len(out) /\ Len(out) \in Nat
  BY <1>2, SMTT(60)
<1>6. \A i \in DOMAIN down' : down'[i].n = (m + 1) + i - 1
  <2> SUFFICES ASSUME NEW i \in DOMAIN down' PROVE down'[i].n = (m + 1) + i - 1
    BY Zenon
  <2>1. down'[i].n = m + (i + 1) - 1
    BY <1>3, <1>4, Zenon
  <2> QED
    BY <1>3, <1>4, <2>1, SMTT(60)
<1>7. \A i \in DOMAIN out' : out'[i].n = (m + 1) + Len(down') + i - 1
  <2> SUFFICES ASSUME NEW i \in DOMAIN out PROVE out[i].n = (m + 1) + Len(down') + i - 1
    BY <1>1, Zenon
  <2>1. out[i].n = m + Len(down) + i - 1
    BY <1>3, Zenon
  <2> QED
    BY <1>3, <1>4, <1>5, <2>1, SMTT(60)
<1>8. m + 1 \in Nat /\ (m + 1) + Len(down') + Len(out) = m + Len(down) + Len(out)
  BY <1>3, <1>4, <1>5, SMTT(60)
<1>9. /\ terminal' = "none" /\ (Local' \/ server' = "open") =>
            credit'.next = (m + 1) + Len(down') + Len(out')
      /\ out' # <<>> => ~Local' /\ server' = "open"
  BY <1>1, <1>3, <1>8, Zenon
<1> QED
  BY <1>6, <1>7, <1>8, <1>9, SMTT(60) DEF Chained

\* The frame that arrives leaves the way, and may be buffered
\* (ConsumerCore::on_item).
LEMMA EntriesPop ==
    ASSUME Typed, NEW total, Entries(total), down # <<>>, down' = Tail(down),
           UNCHANGED <<credit, terminal, out>>,
           buffer' = buffer \/ buffer' = Append(buffer, Head(down))
    PROVE  Entries(total)'
<1>1. credit' = credit /\ terminal' = terminal /\ out' = out
  BY Zenon
<1>2. down \in Seq(Items \cup Ends) /\ buffer \in Seq(Items)
  BY Zenon DEF Typed, TypedOut, TypedIn
<1>3. /\ Head(down) = down[1] /\ \A i \in DOMAIN down' : i + 1 \in DOMAIN down /\ down'[i] = down[i + 1]
  BY <1>2, HeadTail, Zenon
<1>4. 1 \in DOMAIN down
  BY <1>2
<1>5. \A i \in DOMAIN buffer' : (i \in DOMAIN buffer /\ buffer'[i] = buffer[i]) \/ buffer'[i] = down[1]
  <2>1. CASE buffer' = buffer
    BY <2>1, Zenon
  <2>2. CASE buffer' = Append(buffer, Head(down))
    <3> DEFINE x == Head(down)
    <3>1. buffer' = Append(buffer, x) /\ x = down[1]
      BY <1>3, <2>2, Zenon
    <3> HIDE DEF x
    <3> QED
      BY <1>2, <3>1, SMTT(60)
  <2> QED
    BY <2>1, <2>2, Zenon
<1>6. \A i \in DOMAIN down' : Entry(down'[i], total, credit.next, terminal)
  BY <1>3, Zenon DEF Entries
<1>7. \A i \in DOMAIN buffer' : Entry(buffer'[i], total, credit.next, terminal)
  BY <1>4, <1>5, Zenon DEF Entries
<1> QED
  BY <1>1, <1>6, <1>7, Zenon DEF Entries

\* An item the consumer waits for is the next one, and fits
\* (Intake::accept).
LEMMA Welcome ==
    ASSUME Typed, NEW total, NEW m, Ledger(total, m), down # <<>>, Head(down).kind = "item", pending = TRUE
    PROVE  /\ Accepts(Head(down))
           /\ Head(down).n = intake.next /\ intake.next < credit.next
           /\ intake.received + Head(down).size = total[intake.next + 1]
<1>1. Books(total) /\ Counted(total) /\ Entries(total) /\ Chained(m)
  BY Zenon DEF Ledger
<1>2. down \in Seq(Items \cup Ends)
  BY Zenon DEF Typed, TypedOut
<1>3. Head(down) = down[1] /\ 1 \in DOMAIN down
  BY <1>2
<1>4. Head(down).n = m + 1 - 1 /\ m \in Nat /\ m = intake.next
  BY <1>1, <1>3, Zenon DEF Chained
<1>5. Head(down).n = intake.next
  BY <1>4
<1>6. Entry(Head(down), total, credit.next, terminal)
  BY <1>1, <1>3, Zenon DEF Entries
<1>7. /\ Head(down).n < credit.next
      /\ Head(down).size = total[Head(down).n + 1] - total[Head(down).n]
  BY <1>6, Zenon DEF Entry
<1>8. /\ intake.next < credit.next
      /\ Head(down).size = total[intake.next + 1] - total[intake.next]
  BY <1>5, <1>7, Zenon
<1>9. /\ intake.next \in Nat /\ intake.received \in Nat /\ intake.consumed \in Nat
      /\ credit.next \in Nat /\ credit.sent \in Nat /\ credit.acked \in Nat
  BY DEF Typed, TypedOut, TypedIn, Credits
<1>10. /\ total \in [Nat -> Nat]
       /\ \A i, j \in Nat : i <= j => total[i] <= total[j]
       /\ \A j \in Nat : j >= credit.next => total[j] = credit.sent
       /\ credit.sent <= MaxCounter
       /\ credit.sent - credit.acked <= Window
  BY <1>1, Zenon DEF Books
<1>11. intake.received = total[intake.next] /\ credit.acked <= intake.consumed
  BY <1>1, Zenon DEF Counted
<1>12. intake.next + 1 \in Nat /\ total[intake.next + 1] \in Nat /\ total[intake.next] \in Nat
  <2>1. intake.next + 1 \in Nat
    BY <1>9
  <2>2. total \in [Nat -> Nat]
    BY <1>10, Zenon
  <2> QED
    BY <1>9, <2>1, <2>2, Zenon
<1>13. intake.received + Head(down).size = total[intake.next + 1]
  <2>1. \A x, y \in Nat : x + (y - x) = y
    OBVIOUS
  <2>2. total[intake.next] + (total[intake.next + 1] - total[intake.next]) = total[intake.next + 1]
    BY <1>12, <2>1, Zenon
  <2> QED
    BY <1>8, <1>11, <2>2, Zenon
<1>14. total[intake.next + 1] <= credit.sent
  <2>1. intake.next + 1 <= credit.next /\ credit.next >= credit.next
    BY <1>8, <1>9
  <2>2. total[intake.next + 1] <= total[credit.next] /\ total[credit.next] = credit.sent
    BY <1>9, <1>10, <1>12, <2>1, Zenon
  <2> QED
    BY <2>2, Zenon
<1>15. Window \in Nat /\ Window <= world.window /\ world.window \in Nat /\ MaxCounter \in Nat
  <2>1. world \in Worlds
    BY Zenon DEF Typed, TypedOut
  <2>2. world.window \in Nat /\ world.max \in Nat /\ MaxCounter \in Nat
    BY <2>1, StreamAssumption
  <2> QED
    BY <2>2 DEF Window
<1>16. total[intake.next + 1] <= MaxCounter
  <2>1. \A x, y, z \in Nat : x <= y /\ y <= z => x <= z
    OBVIOUS
  <2> QED
    BY <1>9, <1>10, <1>12, <1>14, <1>15, <2>1, ZenonT(60)
<1>17. PICK t \in Nat : t = total[intake.next + 1]
  BY <1>12, Zenon
<1>18. /\ intake.received + Head(down).size = t /\ t <= MaxCounter /\ t <= credit.sent
       /\ credit.sent - credit.acked <= Window /\ credit.acked <= intake.consumed
  BY <1>10, <1>11, <1>13, <1>14, <1>16, <1>17, Zenon
<1>19. t - intake.consumed <= world.window
  BY <1>9, <1>15, <1>18, SMTT(60)
<1>20. Accepts(Head(down))
  <2>1. intake.received + Head(down).size <= MaxCounter
    BY <1>18
  <2>2. intake.received + Head(down).size - intake.consumed <= world.window
    <3>1. Head(down).size \in Nat
      BY <1>2 DEF Items, Ends
    <3> QED
      BY <1>9, <1>15, <1>18, <1>19, <3>1, SMTT(60)
  <2> QED
    BY <1>5, <2>1, <2>2, Zenon DEF Accepts
<1> QED
  BY <1>5, <1>8, <1>13, <1>20, Zenon

\* An item arrives (Shared::stream_item): it is discarded when it comes late,
\* and never refused.
LEMMA LedgerStreamItem ==
    ASSUME Typed, NEW total, NEW m, Ledger(total, m), StreamItem
    PROVE  Ledger(total, m + 1)' /\ refused' = refused /\ UNCHANGED <<terminal, hold, out>>
<1>1. Books(total) /\ Counted(total) /\ Acks(total) /\ Entries(total) /\ Chained(m) /\ Reading(total)
  BY Zenon DEF Ledger
<1>2. /\ down # <<>> /\ Head(down).kind = "item" /\ down' = Tail(down)
      /\ UNCHANGED <<world, handle, credit, server, client, up, taken>>
  BY Zenon DEF StreamItem
<1>3. /\ intake.next \in Nat /\ intake.received \in Nat /\ intake.consumed \in Nat
      /\ intake \in [next : Nat, received : Nat, consumed : Nat]
      /\ Len(taken) \in Nat /\ Len(buffer) \in Nat /\ buffer \in Seq(Items)
      /\ pending \in BOOLEAN /\ credit.next \in Nat
  BY DEF Typed, TypedOut, TypedIn, Credits
<1>4. m \in Nat /\ intake.next <= m
  BY <1>1, Zenon DEF Chained
<1>5. CASE ~pending
  <2>1. UNCHANGED <<pending, intake, buffer, outcome, reader, refused,
                    terminal, hold, line, sender, caller, out, signal>>
    BY <1>5, Zenon DEF StreamItem
  <2>2. /\ UNCHANGED <<world, credit>> /\ UNCHANGED <<credit, intake>>
        /\ UNCHANGED <<world, credit, intake, signal, up>> /\ credit'.next = credit.next
        /\ UNCHANGED <<taken, reader, intake, buffer, outcome>> /\ Later
        /\ UNCHANGED <<world, credit, terminal, server, out>> /\ UNCHANGED <<credit, terminal, out>>
        /\ buffer' = buffer /\ intake' = intake
        /\ pending' = pending
    BY <1>2, <2>1, Zenon DEF Later
  <2>3. Books(total)'
    BY <1>1, <2>2, BooksSkip, Zenon
  <2>4. Counted(total)'
    BY <1>1, <2>2, CountedSkip, Zenon
  <2>5. Acks(total)'
    BY <1>1, <2>2, AcksSkip, Zenon
  <2>6. Reading(total)'
    BY <1>1, <2>2, ReadingSkip, Zenon
  <2>7. Entries(total)'
    BY <1>1, <1>2, <2>2, EntriesPop, Zenon
  <2>8. Chained(m + 1)'
    <3>1. intake'.next <= m + 1
      BY <1>3, <1>4, <2>2
    <3> QED
      BY <1>1, <1>2, <1>5, <2>2, <3>1, ChainedPop, Zenon
  <2> QED
    BY <2>1, <2>3, <2>4, <2>5, <2>6, <2>7, <2>8, Zenon DEF Ledger
<1>6. CASE pending = TRUE
  <2>1. outcome = "none" /\ reader \in {"run", "wait"} /\ m = intake.next
    BY <1>1, <1>6, Zenon DEF Reading, Chained
  <2>2. /\ Accepts(Head(down))
        /\ Head(down).n = intake.next /\ intake.next < credit.next
        /\ intake.received + Head(down).size = total[intake.next + 1]
    BY <1>2, <1>6, Welcome, Zenon
  <2>3. /\ intake' = [intake EXCEPT !.next = @ + 1, !.received = @ + Head(down).size]
        /\ buffer' = Append(buffer, Head(down)) /\ reader' = WokenReader
        /\ UNCHANGED <<pending, outcome, refused,
                       terminal, hold, line, sender, caller, out, signal>>
    BY <1>6, <2>1, <2>2, Zenon DEF StreamItem
  <2>4. /\ intake'.next = intake.next + 1 /\ intake'.consumed = intake.consumed
        /\ intake'.received = intake.received + Head(down).size
    BY <1>3, <2>3, SMTT(60)
  <2>5. /\ UNCHANGED <<world, credit>> /\ credit' = credit /\ taken' = taken /\ outcome' = outcome
        /\ UNCHANGED <<world, credit, terminal, server, out>> /\ UNCHANGED <<credit, terminal, out>>
        /\ pending' = pending /\ signal' = signal /\ up' = up /\ Local' = Local /\ NoSignal' = NoSignal
        /\ terminal' = terminal
    BY <1>2, <2>3, Zenon DEF Local, NoSignal
  <2>6. reader' = "run"
    BY <2>1, <2>3, Zenon DEF WokenReader
  <2>7. Books(total)'
    BY <1>1, <2>5, BooksSkip, Zenon
  <2>8. 0 .. intake.next \subseteq 0 .. intake'.next
    BY <1>3, <2>4
  <2>9. Counted(total)'
    <3>1. intake'.next <= credit'.next /\ intake'.received = total[intake'.next]
      BY <1>3, <2>2, <2>4, <2>5, SMTT(60)
    <3>2. \E c \in 0 .. intake.next : intake.consumed = total[c]
      BY <1>1, Zenon DEF Counted
    <3>3. \E c \in 0 .. intake'.next : intake'.consumed = total[c]
      BY <2>4, <2>8, <3>2, Zenon
    <3>4. credit'.acked <= intake'.consumed
      BY <1>1, <2>4, <2>5, Zenon DEF Counted
    <3> QED
      BY <3>1, <3>3, <3>4, Zenon DEF Counted
  <2>10. \A a : Ack(a, total, credit.acked, intake) => Ack(a, total, credit'.acked, intake')
    BY <2>4, <2>5, <2>8, Zenon DEF Ack
  <2>11. Acks(total)'
    BY <1>1, <2>5, <2>10, Zenon DEF Acks
  <2>12. Entries(total)'
    BY <1>1, <1>2, <2>3, <2>5, EntriesPop, Zenon
  <2>13. Chained(m + 1)'
    <3>1. intake'.next <= m + 1 /\ intake'.next = m + 1
      BY <1>3, <2>1, <2>4, SMTT(60)
    <3> QED
      BY <1>1, <1>2, <2>5, <3>1, ChainedPop, ZenonT(60)
  <2>14. Reading(total)'
    <3>1. /\ taken = [i \in 1 .. Len(taken) |-> i - 1]
          /\ intake.next = Len(taken) + Len(buffer)
          /\ intake.consumed = total[Len(taken)]
          /\ \A i \in DOMAIN buffer : buffer[i].n = Len(taken) + i - 1
      BY <1>1, <2>1, Zenon DEF Reading
    <3>2. Len(buffer') = Len(buffer) + 1 /\ intake'.next = Len(taken') + Len(buffer')
      BY <1>3, <2>3, <2>4, <2>5, <3>1, SMTT(60)
    <3>3. \A i \in DOMAIN buffer' : \/ i \in DOMAIN buffer /\ buffer'[i] = buffer[i]
                                    \/ i = Len(buffer) + 1 /\ buffer'[i] = Head(down)
      BY <1>3, <2>3, SMTT(60)
    <3>4. Head(down).n = Len(taken) + (Len(buffer) + 1) - 1
      BY <1>3, <2>2, <3>1, SMTT(60)
    <3>5. \A i \in DOMAIN buffer' : buffer'[i].n = Len(taken') + i - 1
      BY <2>5, <3>1, <3>3, <3>4, Zenon
    <3>6. /\ taken' = [i \in 1 .. Len(taken') |-> i - 1]
          /\ intake'.consumed = total[Len(taken')]
          /\ outcome' = "none" /\ reader' = "run"
      BY <2>1, <2>4, <2>5, <2>6, <3>1, ZenonT(60)
    <3> QED
      BY <3>2, <3>5, <3>6, SMTT(60) DEF Reading
  <2> QED
    BY <2>3, <2>7, <2>9, <2>11, <2>12, <2>13, <2>14, Zenon DEF Ledger
<1> QED
  BY <1>3, <1>5, <1>6, Zenon

\* The end arrives (ConsumerCore::on_end): it counts what was received.
LEMMA LedgerStreamEnd ==
    ASSUME Typed, NEW total, NEW m, Ledger(total, m), StreamEnd
    PROVE  Ledger(total, m + 1)' /\ refused' = refused
<1>1. Books(total) /\ Counted(total) /\ Acks(total) /\ Entries(total) /\ Chained(m) /\ Reading(total)
  BY Zenon DEF Ledger
<1>2. /\ down # <<>> /\ Head(down).kind = "end" /\ down' = Tail(down) /\ pending' = FALSE
      /\ UNCHANGED <<world, handle, credit, terminal, server, out, client, signal, up, intake,
                     buffer, taken>>
  BY Zenon DEF StreamEnd
<1>3. /\ UNCHANGED <<world, credit>> /\ UNCHANGED <<credit, intake>>
      /\ UNCHANGED <<world, credit, intake, signal, up>> /\ credit'.next = credit.next
      /\ UNCHANGED <<world, credit, terminal, server, out>> /\ UNCHANGED <<credit, terminal, out>>
      /\ buffer' = buffer /\ intake' = intake /\ taken' = taken /\ terminal' = terminal
      /\ Later
  BY <1>2, Zenon DEF Later
<1>4. Books(total)'
  BY <1>1, <1>3, BooksSkip, Zenon
<1>5. Counted(total)'
  BY <1>1, <1>3, CountedSkip, Zenon
<1>6. Acks(total)'
  BY <1>1, <1>3, AcksSkip, Zenon
<1>7. Entries(total)'
  BY <1>1, <1>2, <1>3, EntriesPop, Zenon
<1>8. Chained(m + 1)'
  <2>1. m \in Nat /\ intake.next <= m /\ intake.next \in Nat
    BY <1>1 DEF Chained, Typed, TypedIn
  <2>2. intake'.next <= m + 1
    BY <1>3, <2>1
  <2> QED
    BY <1>1, <1>2, <1>3, <2>2, ChainedPop, Zenon
<1>9. Reading(total)' /\ refused' = refused
  <2>1. pending \in BOOLEAN /\ down \in Seq(Items \cup Ends)
    BY Zenon DEF Typed, TypedIn, TypedOut
  <2>2. CASE ~pending
    <3>1. UNCHANGED <<outcome, reader, refused>>
      BY <2>2, Zenon DEF StreamEnd
    <3>2. UNCHANGED <<taken, reader, intake, buffer, outcome>> /\ (pending' => pending)
      BY <1>2, <3>1, Zenon
    <3> QED
      BY <1>1, <1>3, <3>1, <3>2, ReadingSkip, Zenon
  <2>3. CASE pending = TRUE
    <3>1. outcome = "none" /\ reader \in {"run", "wait"} /\ m = intake.next /\ m \in Nat
      BY <1>1, <2>3, Zenon DEF Reading, Chained
    <3>2. Head(down) = down[1] /\ 1 \in DOMAIN down
      BY <1>2, <2>1, SMTT(60)
    <3>3. Head(down).n = m + 1 - 1
      BY <1>1, <3>2, Zenon DEF Chained
    <3>4. Head(down).n = intake.next
      BY <3>1, <3>3
    <3>5. Head(down).n = credit.next /\ terminal # "none"
      BY <1>1, <1>2, <3>2, ZenonT(60) DEF Entries, Entry
    <3>6. Head(down).error \in {"ok", "failed", "protocol"}
      BY <1>2, <2>1 DEF Items, Ends
    <3>7. refused' = refused /\ reader' = "run" /\ outcome' = Head(down).error
      BY <2>3, <3>1, <3>4, Zenon DEF StreamEnd, WokenReader
    <3>8. /\ taken' = [i \in 1 .. Len(taken') |-> i - 1]
          /\ intake'.next = Len(taken') + Len(buffer')
          /\ intake'.consumed = total[Len(taken')]
          /\ \A i \in DOMAIN buffer' : buffer'[i].n = Len(taken') + i - 1
      BY <1>1, <1>3, <3>1, Zenon DEF Reading
    <3>9. outcome' # "none" /\ terminal' # "none" /\ intake'.next = credit'.next
      BY <1>3, <3>4, <3>5, <3>6, <3>7, SMTT(60)
    <3>10. Reading(total)'
      BY <1>2, <3>7, <3>8, <3>9, SMTT(60) DEF Reading
    <3> QED
      BY <3>7, <3>10, Zenon
  <2> QED
    BY <2>1, <2>2, <2>3, Zenon
<1> QED
  BY <1>4, <1>5, <1>6, <1>7, <1>8, <1>9, ZenonT(60) DEF Ledger

----------------------------------------------------------------------------
(* The application reads.                                                  *)

\* What the intake counts once the first buffered item is consumed
\* (Intake::consume).
LEMMA ReadFacts ==
    ASSUME Typed, NEW total, NEW m, Ledger(total, m), reader = "run", buffer # <<>>,
           intake' = [intake EXCEPT !.consumed = @ + Head(buffer).size]
    PROVE  /\ intake'.next = intake.next /\ intake'.received = intake.received
           /\ Head(buffer).n = Len(taken)
           /\ Len(taken) + 1 \in 0 .. intake.next
           /\ intake'.consumed = total[Len(taken) + 1]
           /\ intake.consumed <= intake'.consumed
<1>1. /\ intake \in [next : Nat, received : Nat, consumed : Nat]
      /\ buffer \in Seq(Items) /\ Len(taken) \in Nat
  BY DEF Typed, TypedIn
<1>2. /\ Head(buffer) \in Items /\ Head(buffer) = buffer[1] /\ Len(buffer) \in Nat /\ Len(buffer) > 0
      /\ 1 \in DOMAIN buffer
  BY <1>1
<1>3. /\ intake.next = Len(taken) + Len(buffer)
      /\ intake.consumed = total[Len(taken)]
      /\ buffer[1].n = Len(taken) + 1 - 1
  BY <1>2, Zenon DEF Ledger, Reading
<1>4. Head(buffer).n = Len(taken)
  BY <1>1, <1>2, <1>3, SMTT(60)
<1>5. /\ Head(buffer).size \in Nat /\ Head(buffer).kind = "item"
  BY <1>2 DEF Items
<1>6. Entry(buffer[1], total, credit.next, terminal)
  BY <1>2, Zenon DEF Ledger, Entries
<1>7. Head(buffer).size = total[Len(taken) + 1] - total[Len(taken)]
  BY <1>2, <1>4, <1>5, <1>6, ZenonT(60) DEF Entry
<1>8. total \in [Nat -> Nat]
  BY Zenon DEF Ledger, Books
<1>9. PICK t \in Nat : t = total[Len(taken) + 1]
  <2>1. Len(taken) + 1 \in Nat
    BY <1>1
  <2>2. total[Len(taken) + 1] \in Nat
    BY <1>8, <2>1, SMTT(60)
  <2> QED
    BY <2>2, Zenon
<1>10. /\ intake'.next = intake.next /\ intake'.received = intake.received
       /\ intake'.consumed = intake.consumed + Head(buffer).size
  BY <1>1
<1>11. intake'.consumed = t /\ intake.consumed <= t
  BY <1>1, <1>3, <1>5, <1>7, <1>9, <1>10, SMTT(60)
<1>12. Len(taken) + 1 \in 0 .. intake.next
  BY <1>1, <1>2, <1>3, SMTT(60)
<1> QED
  BY <1>4, <1>9, <1>10, <1>11, <1>12, ZenonT(60)

\* Acknowledgements stay entries of the ledger while more is consumed.
LEMMA AcksConsume ==
    ASSUME Typed, NEW total, Acks(total), Counted(total), NEW eaten \in Nat,
           intake.consumed <= eaten, intake'.consumed = eaten, intake'.next = intake.next
    PROVE  \A a \in Signals :
               Ack(a, total, credit.acked, intake) => Ack(a, total, credit.acked, intake')
<1> SUFFICES ASSUME NEW a \in Signals, Ack(a, total, credit.acked, intake), a.kind = "ack"
             PROVE  a.consumed <= intake'.consumed
  BY Zenon DEF Ack
<1>1. a.consumed \in Nat /\ intake.consumed \in Nat
  BY DEF Signals, Typed, TypedIn
<1>2. a.consumed <= intake.consumed
  BY Zenon DEF Ack
<1> QED
  BY <1>1, <1>2

\* The reader abandons the stream: the acknowledgements on their way still
\* hold (Connection::signal_cancel, or StreamCore::cancel on the spot).
LEMMA AcksAbandon ==
    ASSUME Typed, NEW total, Acks(total), Counted(total), Abandon, NEW eaten \in Nat,
           intake.consumed <= eaten, intake'.consumed = eaten, intake'.next = intake.next,
           UNCHANGED <<world, credit, up>>
    PROVE  Acks(total)'
<1>1. up' = up /\ credit' = credit /\ Local' = Local /\ NoSignal' = NoSignal
  BY Zenon DEF Local, NoSignal
<1>2. up \in Seq(Signals) /\ signal \in Signals
  BY Zenon DEF Typed, TypedBack
<1>3. \A a \in Signals : Ack(a, total, credit.acked, intake) => Ack(a, total, credit'.acked, intake')
  BY <1>1, AcksConsume, Zenon
<1>4. \A i \in DOMAIN up : up[i] \in Signals
  BY <1>2
<1>5. signal' = signal \/ (~Local /\ signal' = [kind |-> "cancel", consumed |-> 0])
  BY Zenon DEF Abandon
<1>6. CASE signal' = signal
  BY <1>1, <1>2, <1>3, <1>4, <1>6, ZenonT(60) DEF Acks
<1>7. CASE ~Local /\ signal' = [kind |-> "cancel", consumed |-> 0]
  <2>1. signal'.kind = "cancel" /\ signal'.consumed = 0 /\ signal'.kind # "ack"
    BY <1>7
  <2>2. Ack(signal', total, credit'.acked, intake')
    BY <2>1, Zenon DEF Ack
  <2> QED
    BY <1>1, <1>3, <1>4, <1>7, <2>1, <2>2, ZenonT(60) DEF Acks
<1> QED
  BY <1>5, <1>6, <1>7, Zenon

\* What an abandoned stream keeps: the queue or nothing of it, and no producer
\* that can still emit into a queue that was dropped.
LEMMA AbandonCuts ==
    ASSUME Abandon
    PROVE  /\ Later /\ (out' = out \/ out' = <<>>)
           /\ terminal' = "none" => out' = out
           /\ UNCHANGED <<terminal, hold, out>> \/ (terminal = "none" /\ terminal' # "none" /\ hold' = "free" /\ out' = <<>>)
<1>1. CASE Local
  BY <1>1, CancelCuts, Zenon DEF Abandon
<1>2. CASE ~Local
  BY <1>2, Zenon DEF Abandon, Later
<1> QED
  BY <1>1, <1>2, Zenon

\* The acknowledgement of what was consumed, on either route, is one the
\* producer accepts (StreamCore::on_ack, Connection::signal_ack).
LEMMA LedgerAcknowledge ==
    ASSUME Typed, NEW total, Books(total), Acks(total), Counted(total), NEW c \in 0 .. intake.next,
           NEW eaten, eaten = total[c], intake.consumed <= eaten, Acknowledge(eaten),
           intake'.consumed = eaten, intake'.next = intake.next, intake'.received = intake.received,
           UNCHANGED <<world, up>>
    PROVE  /\ Books(total)' /\ Acks(total)' /\ Counted(total)'
           /\ UNCHANGED <<terminal, hold, out, down, refused>> /\ credit'.next = credit.next
<1>1. up' = up /\ world' = world /\ Local' = Local /\ NoSignal' = NoSignal
  BY Zenon DEF Local, NoSignal
<1>2. up \in Seq(Signals) /\ signal \in Signals
  BY Zenon DEF Typed, TypedBack
<1>3. \A i \in DOMAIN up : up[i] \in Signals
  BY <1>2
<1>4. /\ intake.consumed \in Nat /\ intake.next \in Nat /\ credit.acked \in Nat /\ credit.next \in Nat
      /\ c \in Nat
  BY DEF Typed, TypedIn, TypedOut, Credits
<1>5. eaten \in Nat /\ total \in [Nat -> Nat]
  BY <1>4, SMTT(60) DEF Books
<1>6. credit.acked <= eaten /\ credit.acked <= intake.consumed
  <2>1. credit.acked <= intake.consumed
    BY Zenon DEF Counted
  <2> QED
    BY <1>4, <1>5, <2>1, SMTT(60)
<1>7. \A a \in Signals : Ack(a, total, credit.acked, intake) => Ack(a, total, credit.acked, intake')
  BY <1>5, AcksConsume, Zenon
<1>8. CASE Local
  <2>1. OnAck(eaten) /\ signal' = signal
    BY <1>8, Zenon DEF Acknowledge
  <2>2. /\ Books(total)' /\ UNCHANGED <<terminal, hold, out, down, refused>> /\ credit'.next = credit.next
        /\ credit'.acked = credit.acked \/ credit'.acked = eaten
    BY <1>1, <1>4, <1>6, <2>1, BooksAck, Zenon
  <2>3. up' = <<>> /\ signal' = NoSignal'
    BY <1>1, <1>8, <2>1, Zenon DEF Acks
  <2>4. signal'.kind # "ack" /\ signal'.consumed = 0 /\ DOMAIN up' = {}
    BY <2>3 DEF NoSignal
  <2>5. Ack(signal', total, credit'.acked, intake')
    BY <2>4, Zenon DEF Ack
  <2>6. Acks(total)'
    BY <2>3, <2>4, <2>5, Zenon DEF Acks
  <2>7. credit'.acked <= intake'.consumed
    BY <1>4, <1>5, <1>6, <2>2, SMTT(60)
  <2>8. Counted(total)'
    BY <2>2, <2>7, Zenon DEF Counted
  <2> QED
    BY <2>2, <2>6, <2>8, Zenon
<1>9. CASE ~Local
  <2>1. SignalAck(eaten) /\ UNCHANGED <<credit, terminal, hold, out, down, refused>>
    BY <1>9, Zenon DEF Acknowledge
  <2>2. UNCHANGED <<world, credit>> /\ credit' = credit
    BY <1>1, <2>1, Zenon
  <2>3. Books(total)'
    BY <2>2, BooksSkip, Zenon
  <2>4. credit'.acked <= intake'.consumed
    BY <1>6, <2>2, Zenon
  <2>5. Counted(total)'
    BY <2>2, <2>4, Zenon DEF Counted
  <2>6. CASE signal' = signal
    <3>1. Acks(total)'
      BY <1>1, <1>2, <1>3, <1>7, <2>2, <2>6, ZenonT(60) DEF Acks
    <3> QED
      BY <2>1, <2>2, <2>3, <2>5, <3>1, Zenon
  <2>7. CASE signal.kind # "cancel" /\ signal' = [kind |-> "ack", consumed |-> eaten]
    <3>1. signal'.kind = "ack" /\ signal'.consumed = eaten
      BY <2>7
    <3>2. Ack(signal', total, credit'.acked, intake')
      <4>1. eaten <= eaten
        BY <1>5, SMTT(60)
      <4> QED
        BY <1>6, <2>2, <3>1, <4>1, Zenon DEF Ack
    <3>3. \A i \in DOMAIN up : up[i].kind = "ack" => up[i].consumed <= signal'.consumed
      <4> SUFFICES ASSUME NEW i \in DOMAIN up, up[i].kind = "ack" PROVE up[i].consumed <= signal'.consumed
        BY Zenon
      <4>1. up[i].consumed \in Nat
        BY <1>3 DEF Signals
      <4>2. up[i].consumed <= intake.consumed
        BY Zenon DEF Acks, Ack
      <4> QED
        BY <1>4, <1>5, <3>1, <4>1, <4>2, SMTT(60)
    <3>4. Acks(total)'
      BY <1>1, <1>3, <1>7, <1>9, <2>2, <3>1, <3>2, <3>3, ZenonT(60) DEF Acks
    <3> QED
      BY <2>1, <2>2, <2>3, <2>5, <3>4, Zenon
  <2>8. signal' = signal \/ (signal.kind # "cancel" /\ signal' = [kind |-> "ack", consumed |-> eaten])
    <3>1. CASE client # "open" \/ signal.kind = "cancel"
      BY <2>1, <3>1, Zenon DEF SignalAck
    <3>2. CASE ~(client # "open" \/ signal.kind = "cancel")
      <4>1. ~(signal.consumed > eaten)
        <5>1. signal.consumed \in Nat
          BY <1>2 DEF Signals
        <5>2. signal.consumed = 0 \/ signal.consumed <= intake.consumed
          BY Zenon DEF Acks, Ack
        <5> QED
          BY <1>4, <1>5, <5>1, <5>2, SMTT(60)
      <4> QED
        BY <2>1, <3>2, <4>1, Zenon DEF SignalAck
    <3> QED
      BY <3>1, <3>2, Zenon
  <2> QED
    BY <2>6, <2>7, <2>8, Zenon
<1> QED
  BY <1>8, <1>9, Zenon

\* The application takes an item, and acknowledges it or leaves that to the
\* next one (ConsumerCore::poll_next).
LEMMA LedgerReadItem ==
    ASSUME Typed, NEW total, NEW m, Ledger(total, m), ReadItem
    PROVE  Ledger(total, m)' /\ refused' = refused /\ UNCHANGED <<terminal, hold, out, down>>
<1>1. Books(total) /\ Counted(total) /\ Acks(total) /\ Entries(total) /\ Chained(m) /\ Reading(total)
  BY Zenon DEF Ledger
<1>2. /\ reader = "run" /\ buffer # <<>> /\ buffer' = Tail(buffer)
      /\ taken' = Append(taken, Head(buffer).n)
      /\ intake' = [intake EXCEPT !.consumed = @ + Head(buffer).size]
      /\ UNCHANGED <<world, up>> /\ UNCHANGED <<server, pending, outcome, reader>>
  BY Zenon DEF ReadItem
<1>3. /\ intake'.next = intake.next /\ intake'.received = intake.received
      /\ Head(buffer).n = Len(taken)
      /\ Len(taken) + 1 \in 0 .. intake.next
      /\ intake'.consumed = total[Len(taken) + 1]
      /\ intake.consumed <= intake'.consumed
  BY <1>2, ReadFacts, Zenon
<1>4. PICK eaten \in Nat : eaten = intake'.consumed
  <2>1. Typed'
    BY TypedConsume, Zenon
  <2>2. intake'.consumed \in Nat
    BY <2>1 DEF Typed, TypedIn
  <2> QED
    BY <2>2, Zenon
<1>5. /\ Books(total)' /\ Acks(total)' /\ Counted(total)'
      /\ UNCHANGED <<terminal, hold, out, down, refused>> /\ credit'.next = credit.next
  <2>1. CASE Acknowledge(intake'.consumed)
    <3>1. /\ eaten = total[Len(taken) + 1] /\ intake.consumed <= eaten
          /\ Acknowledge(eaten) /\ intake'.consumed = eaten
      BY <1>3, <1>4, <2>1, Zenon
    <3> QED
      BY <1>1, <1>2, <1>3, <3>1, LedgerAcknowledge, Zenon
  <2>2. CASE UNCHANGED <<credit, terminal, hold, line, sender, caller, out, down, signal, refused>>
    <3>1. /\ up' = up /\ credit' = credit /\ Local' = Local /\ NoSignal' = NoSignal /\ signal' = signal
          /\ UNCHANGED <<world, credit>>
      BY <1>2, <2>2, Zenon DEF Local, NoSignal
    <3>2. Books(total)'
      BY <1>1, <3>1, BooksSkip, Zenon
    <3>3. up \in Seq(Signals) /\ signal \in Signals
      BY Zenon DEF Typed, TypedBack
    <3>4. \A i \in DOMAIN up : up[i] \in Signals
      BY <3>3
    <3>5. \A a \in Signals : Ack(a, total, credit.acked, intake) => Ack(a, total, credit'.acked, intake')
      BY <1>1, <1>3, <1>4, <3>1, AcksConsume, Zenon
    <3>6. Acks(total)'
      BY <1>1, <3>1, <3>3, <3>4, <3>5, Zenon DEF Acks
    <3>7. credit'.acked <= intake'.consumed
      <4>1. credit.acked \in Nat /\ intake.consumed \in Nat
        BY DEF Typed, TypedOut, TypedIn, Credits
      <4>2. credit.acked <= intake.consumed
        BY <1>1, Zenon DEF Counted
      <4> QED
        BY <1>3, <1>4, <3>1, <4>1, <4>2, SMTT(60)
    <3>8. Counted(total)'
      BY <1>1, <1>3, <3>1, <3>7, Zenon DEF Counted
    <3> QED
      BY <2>2, <3>1, <3>2, <3>6, <3>8, Zenon
  <2> QED
    BY <2>1, <2>2, Zenon DEF ReadItem
<1>6. /\ UNCHANGED down /\ UNCHANGED <<world, down>> /\ out' = out /\ server' = server
      /\ terminal' = terminal /\ pending' = pending /\ Later
  BY <1>2, <1>5, Zenon DEF Later
<1>7. Chained(m)'
  BY <1>1, <1>3, <1>5, <1>6, ChainedCut, Zenon
<1>8. /\ buffer \in Seq(Items) /\ taken \in Seq(Nat) /\ Len(taken) \in Nat /\ Len(buffer) \in Nat
      /\ intake.next \in Nat
  BY DEF Typed, TypedIn
<1>9. /\ Len(buffer') = Len(buffer) - 1
      /\ \A i \in DOMAIN buffer' : i + 1 \in DOMAIN buffer /\ buffer'[i] = buffer[i + 1] /\ i \in Nat
  BY <1>2, <1>8, HeadTail, SMTT(60)
<1>10. Entries(total)'
  <2>1. \A i \in DOMAIN buffer' : Entry(buffer'[i], total, credit.next, terminal)
    BY <1>1, <1>9, Zenon DEF Entries
  <2> QED
    BY <1>1, <1>5, <1>6, <2>1, Zenon DEF Entries
<1>11. Reading(total)'
  <2>1. /\ taken = [i \in 1 .. Len(taken) |-> i - 1]
        /\ intake.next = Len(taken) + Len(buffer)
        /\ \A i \in DOMAIN buffer : buffer[i].n = Len(taken) + i - 1
        /\ pending => outcome = "none" /\ reader \in {"run", "wait"}
        /\ outcome \in {"ok", "failed"} => terminal # "none" /\ intake.next = credit.next
    BY <1>1, <1>2, SMTT(60) DEF Reading
  <2>2. Len(taken') = Len(taken) + 1 /\ intake'.next = Len(taken') + Len(buffer')
    BY <1>2, <1>3, <1>8, <1>9, <2>1, SMTT(60)
  <2>3. taken' = [i \in 1 .. Len(taken') |-> i - 1]
    <3>1. \A i \in 1 .. Len(taken) : taken[i] = i - 1
      BY <2>1, SMTT(60)
    <3>2. taken' = [i \in 1 .. Len(taken) + 1 |-> IF i = Len(taken) + 1 THEN Len(taken) ELSE taken[i]]
      BY <1>2, <1>3, <1>8, SMTT(60)
    <3>3. \A i \in 1 .. Len(taken) + 1 :
            (IF i = Len(taken) + 1 THEN Len(taken) ELSE taken[i]) = i - 1
      BY <1>8, <3>1, SMTT(60)
    <3> QED
      BY <2>2, <3>2, <3>3, SMTT(60)
  <2>4. \A i \in DOMAIN buffer' : buffer'[i].n = Len(taken') + i - 1
    <3> SUFFICES ASSUME NEW i \in DOMAIN buffer' PROVE buffer'[i].n = Len(taken') + i - 1
      BY Zenon
    <3>1. buffer'[i].n = Len(taken) + (i + 1) - 1 /\ i \in Nat
      BY <1>9, <2>1, Zenon
    <3> QED
      BY <1>8, <2>2, <3>1
  <2>5. intake'.consumed = total[Len(taken')]
    BY <1>3, <2>2, Zenon
  <2>6. reader' = "run" /\ outcome' = outcome
    BY <1>2, Zenon
  <2>7. /\ pending' => outcome' = "none"
        /\ outcome' \in {"ok", "failed"} => terminal' # "none" /\ intake'.next = credit'.next
    BY <1>3, <1>5, <1>6, <2>1, <2>6, ZenonT(60)
  <2> QED
    BY <2>2, <2>3, <2>4, <2>5, <2>6, <2>7, SMTT(60) DEF Reading
<1> QED
  BY <1>5, <1>7, <1>10, <1>11, ZenonT(60) DEF Ledger

\* An item that does not decode, or a reader that is dropped, leaves a ledger
\* nobody reads any more (ConsumerCore::poll_next, ConsumerCore::drop).
LEMMA LedgerReaderGone ==
    ASSUME Typed, NEW total, NEW m, Ledger(total, m), ReadMalformed \/ DropReader
    PROVE  /\ Ledger(total, m)' /\ refused' = refused /\ UNCHANGED down
           /\ \/ UNCHANGED <<terminal, hold, out>>
              \/ terminal = "none" /\ terminal' # "none" /\ hold' = "free" /\ out' = <<>>
<1>1. Books(total) /\ Counted(total) /\ Acks(total) /\ Entries(total) /\ Chained(m) /\ Reading(total)
  BY Zenon DEF Ledger
<1>2. /\ buffer' = <<>> /\ pending' = FALSE /\ UNCHANGED <<world, up>> /\ server' = server
      /\ taken' = taken
  BY Zenon DEF ReadMalformed, DropReader
<1>3. /\ intake'.next = intake.next /\ intake'.received = intake.received
      /\ \E c \in 0 .. intake.next : intake'.consumed = total[c]
      /\ intake.consumed <= intake'.consumed
  <2>1. CASE ReadMalformed
    <3>1. /\ reader = "run" /\ buffer # <<>>
          /\ intake' = [intake EXCEPT !.consumed = @ + Head(buffer).size]
      BY <2>1, Zenon DEF ReadMalformed
    <3> QED
      BY <3>1, ReadFacts, Zenon
  <2>2. CASE DropReader
    <3>1. intake' = intake
      BY <2>2, Zenon DEF DropReader
    <3>2. intake.consumed <= intake.consumed
      BY DEF Typed, TypedIn
    <3> QED
      BY <1>1, <3>1, <3>2, Zenon DEF Counted
  <2> QED
    BY <2>1, <2>2, Zenon
<1>4. PICK c \in 0 .. intake.next : intake'.consumed = total[c]
  BY <1>3, Zenon
<1>5. PICK eaten \in Nat : eaten = intake'.consumed
  <2>1. Typed'
    BY TypedConsume, Zenon
  <2>2. intake'.consumed \in Nat
    BY <2>1 DEF Typed, TypedIn
  <2> QED
    BY <2>2, Zenon
<1>6. /\ intake.consumed <= eaten /\ intake'.consumed = eaten /\ eaten = total[c]
  BY <1>3, <1>4, <1>5, Zenon
<1>7. /\ Books(total)' /\ Acks(total)' /\ Counted(total)'
      /\ Later /\ (out' = out \/ out' = <<>>)
      /\ terminal' = "none" => out' = out
      /\ UNCHANGED <<terminal, hold, out>>
         \/ (terminal = "none" /\ terminal' # "none" /\ hold' = "free" /\ out' = <<>>)
      /\ credit'.next = credit.next /\ UNCHANGED down /\ refused' = refused
  <2>1. CASE Abandon /\ UNCHANGED <<credit, down, refused>>
    <3>1. UNCHANGED <<world, credit, up>> /\ UNCHANGED <<world, credit>> /\ credit' = credit
      BY <1>2, <2>1, Zenon
    <3>2. Acks(total)'
      BY <1>1, <1>3, <1>6, <2>1, <3>1, AcksAbandon, Zenon
    <3>3. Books(total)'
      BY <1>1, <3>1, BooksSkip, Zenon
    <3>4. credit'.acked <= intake'.consumed
      <4>1. credit.acked \in Nat /\ intake.consumed \in Nat
        BY DEF Typed, TypedOut, TypedIn, Credits
      <4>2. credit.acked <= intake.consumed
        BY <1>1, Zenon DEF Counted
      <4> QED
        BY <1>6, <3>1, <4>1, <4>2, SMTT(60)
    <3>5. Counted(total)'
      BY <1>1, <1>3, <3>1, <3>4, Zenon DEF Counted
    <3>6. /\ Later /\ (out' = out \/ out' = <<>>)
          /\ terminal' = "none" => out' = out
          /\ UNCHANGED <<terminal, hold, out>>
             \/ (terminal = "none" /\ terminal' # "none" /\ hold' = "free" /\ out' = <<>>)
      BY <2>1, AbandonCuts, Zenon
    <3>7. credit'.next = credit.next /\ down' = down /\ refused' = refused /\ UNCHANGED down
      BY <2>1, Zenon
    <3> QED
      BY <3>2, <3>3, <3>5, <3>6, <3>7, Zenon
  <2>2. CASE Acknowledge(intake'.consumed)
    <3>1. Acknowledge(eaten)
      BY <1>5, <2>2, Zenon
    <3>2. /\ Books(total)' /\ Acks(total)' /\ Counted(total)'
          /\ UNCHANGED <<terminal, hold, out, down, refused>> /\ credit'.next = credit.next
      BY <1>1, <1>2, <1>3, <1>6, <3>1, LedgerAcknowledge, ZenonT(60)
    <3> QED
      BY <3>2, Zenon DEF Later
  <2>3. CASE UNCHANGED <<terminal, hold, out, signal, credit, intake, down, refused>>
    <3>1. UNCHANGED <<world, credit>> /\ UNCHANGED <<credit, intake>>
          /\ UNCHANGED <<world, credit, intake, signal, up>>
      BY <1>2, <2>3, Zenon
    <3>2. Books(total)' /\ Acks(total)' /\ Counted(total)'
      BY <1>1, <3>1, BooksSkip, AcksSkip, CountedSkip, ZenonT(60)
    <3> QED
      BY <2>3, <3>2, Zenon DEF Later
  <2>4. CASE ReadMalformed
    BY <2>1, <2>2, <2>4, Zenon DEF ReadMalformed
  <2>5. CASE DropReader
    <3>1. UNCHANGED <<credit, down, refused>> /\ UNCHANGED intake
      BY <2>5, Zenon DEF DropReader
    <3>2. Abandon \/ UNCHANGED <<terminal, hold, out, signal>>
      BY <2>5, Zenon DEF DropReader
    <3> QED
      BY <2>1, <2>3, <3>1, <3>2, Zenon
  <2> QED
    BY <2>4, <2>5, Zenon
<1>8. Entries(total)'
  BY <1>1, <1>2, <1>7, EntriesCut, Zenon
<1>9. Chained(m)'
  <2>1. /\ UNCHANGED <<world, down>> /\ (pending' => pending)
        /\ out' # <<>> => server' = server
        /\ terminal' = "none" /\ (Local \/ server' = "open") =>
                out' = out /\ (Local \/ server = "open")
    BY <1>2, <1>7, Zenon
  <2> QED
    BY <1>1, <1>3, <1>7, <2>1, ChainedCut, Zenon
<1>10. Reading(total)'
  <2>1. /\ taken = [i \in 1 .. Len(taken) |-> i - 1]
        /\ outcome \in {"ok", "failed"} => terminal # "none" /\ intake.next = credit.next
    BY <1>1, Zenon DEF Reading
  <2>2. \/ reader' = "over" /\ outcome' = "malformed"
        \/ reader' = "dropped" /\ outcome' = outcome
    BY Zenon DEF ReadMalformed, DropReader
  <2>3. outcome' \in {"ok", "failed"} => terminal' # "none" /\ intake'.next = credit'.next
    BY <1>3, <1>7, <2>1, <2>2, SMTT(60) DEF Later
  <2> QED
    BY <1>2, <2>1, <2>2, <2>3, SMTT(60) DEF Reading
<1> QED
  BY <1>7, <1>8, <1>9, <1>10, Zenon DEF Ledger

\* The reader meets the outcome or sleeps; the consuming session ends: what was
\* received stays readable (ConsumerCore::poll_next, terminate).
LEMMA LedgerOutcome ==
    ASSUME Typed, NEW total, NEW m, Ledger(total, m), ReadOutcome \/ ReadWaits \/ EndClient
    PROVE  Ledger(total, m)' /\ refused' = refused /\ UNCHANGED <<terminal, hold, out, down>>
<1>1. Books(total) /\ Counted(total) /\ Acks(total) /\ Entries(total) /\ Chained(m) /\ Reading(total)
  BY Zenon DEF Ledger
<1>2. /\ UNCHANGED <<world, credit, terminal, hold, server, out, down, signal, up, intake, buffer,
                     taken, refused>>
      /\ pending' => pending
  <2>1. CASE ReadOutcome \/ ReadWaits
    BY <2>1, SMTT(60) DEF ReadOutcome, ReadWaits, producing, carrying
  <2>2. CASE EndClient
    BY <2>2 DEF EndClient, producing
  <2> QED
    BY <2>1, <2>2, ZenonT(60)
<1>3. /\ UNCHANGED <<world, credit>> /\ UNCHANGED <<credit, intake>>
      /\ UNCHANGED <<world, credit, intake, signal, up>> /\ credit'.next = credit.next
      /\ UNCHANGED down /\ UNCHANGED <<world, down>> /\ intake'.next = intake.next
      /\ out' = out /\ buffer' = buffer /\ server' = server /\ terminal' = terminal
      /\ intake' = intake /\ taken' = taken /\ credit' = credit
      /\ Later
  BY <1>2, Zenon DEF Later
<1>4. Books(total)' /\ Acks(total)' /\ Counted(total)'
  BY <1>1, <1>3, BooksSkip, AcksSkip, CountedSkip, Zenon
<1>5. Entries(total)'
  BY <1>1, <1>3, EntriesCut, Zenon
<1>6. Chained(m)'
  BY <1>1, <1>2, <1>3, ChainedCut, Zenon
<1>7. /\ taken = [i \in 1 .. Len(taken) |-> i - 1]
      /\ reader \in {"run", "wait"} =>
            /\ intake.next = Len(taken) + Len(buffer)
            /\ intake.consumed = total[Len(taken)]
            /\ \A i \in DOMAIN buffer : buffer[i].n = Len(taken) + i - 1
      /\ pending => outcome = "none" /\ reader \in {"run", "wait"}
      /\ outcome \in {"ok", "failed"} => terminal # "none" /\ intake.next = credit.next
      /\ reader = "over" => outcome # "none"
      /\ reader = "over" /\ outcome \in {"ok", "failed"} => Len(taken) = credit.next
  BY <1>1, Zenon DEF Reading
<1>8. reader' \in {"run", "wait"} => reader \in {"run", "wait"}
  BY DEF ReadOutcome, ReadWaits, EndClient, WokenReader
<1>9. /\ pending' => outcome' = "none" /\ reader' \in {"run", "wait"}
      /\ outcome' \in {"ok", "failed"} => outcome' = outcome
      /\ reader' = "over" => outcome' # "none"
  <2>1. CASE ReadOutcome \/ ReadWaits
    BY <1>7, <2>1, SMTT(60) DEF ReadOutcome, ReadWaits
  <2>2. CASE EndClient
    <3>1. reader' = "over" => reader = "over"
      BY <2>2 DEF EndClient, WokenReader
    <3> QED
      BY <1>7, <2>2, <3>1, SMTT(60) DEF EndClient
  <2> QED
    BY <2>1, <2>2, Zenon
<1>10. reader' = "over" /\ outcome' \in {"ok", "failed"} => Len(taken) = credit.next
  <2> SUFFICES ASSUME reader' = "over", outcome' \in {"ok", "failed"} PROVE Len(taken) = credit.next
    BY Zenon
  <2>1. outcome' = outcome
    BY <1>9, Zenon
  <2>2. CASE ReadOutcome
    <3>1. buffer = <<>> /\ reader = "run"
      BY <2>2, Zenon DEF ReadOutcome
    <3>2. Len(buffer) = 0 /\ Len(taken) \in Nat /\ intake.next \in Nat
      BY <3>1 DEF Typed, TypedIn
    <3>3. intake.next = Len(taken) + Len(buffer) /\ intake.next = credit.next
      BY <1>7, <2>1, <3>1
    <3> QED
      BY <3>2, <3>3
  <2>3. CASE ReadWaits \/ EndClient
    <3>1. reader = "over"
      BY <2>3 DEF ReadWaits, EndClient, WokenReader
    <3> QED
      BY <1>7, <2>1, <3>1, Zenon
  <2> QED
    BY <2>2, <2>3, Zenon
<1>11. Reading(total)'
  BY <1>3, <1>7, <1>8, <1>9, <1>10, Zenon DEF Reading
<1> QED
  BY <1>2, <1>4, <1>5, <1>6, <1>11, Zenon DEF Ledger

----------------------------------------------------------------------------
(* Every step keeps the ledger, and nothing is refused.                    *)

\* The producer lowers its own window (StreamProducer::limit_window).
LEMMA LedgerLimit ==
    ASSUME Typed, NEW total, NEW m, Ledger(total, m), NEW limit \in Sizes, LimitWindow(limit)
    PROVE  Ledger(total, m)'
<1>1. Books(total) /\ Counted(total) /\ Acks(total) /\ Entries(total) /\ Chained(m) /\ Reading(total)
  BY Zenon DEF Ledger
<1>2. /\ limit < credit.window /\ credit' = [credit EXCEPT !.window = limit]
      /\ UNCHANGED <<world, terminal, server, out, down, signal, up, pending, intake, buffer,
                     outcome, reader, taken>>
  BY Zenon DEF LimitWindow, carrying, consuming
<1>3. credit \in Credits /\ credit.window \in Nat /\ limit \in Nat
  BY StreamAssumption DEF Typed, TypedOut, Credits
<1>4. /\ credit'.sent = credit.sent /\ credit'.acked = credit.acked /\ credit'.next = credit.next
      /\ credit'.boundaries = credit.boundaries /\ credit'.window = limit
  BY <1>2, <1>3 DEF Credits
<1>5. /\ UNCHANGED down /\ UNCHANGED <<world, down>> /\ intake'.next = intake.next /\ intake' = intake
      /\ UNCHANGED <<taken, reader, intake, buffer, outcome>> /\ buffer' = buffer /\ out' = out
      /\ server' = server /\ signal' = signal /\ up' = up /\ Local' = Local /\ NoSignal' = NoSignal
      /\ world' = world /\ Window' = Window /\ terminal' = terminal /\ pending' = pending /\ Later
  BY <1>2, Zenon DEF Local, NoSignal, Window, Later
<1>6. Books(total)'
  <2>1. Window \in Nat
    BY StreamAssumption DEF Window, Typed, TypedOut
  <2>2. credit.window <= Window
    BY <1>1, Zenon DEF Books
  <2>3. limit <= Window
    BY <1>2, <1>3, <2>1, <2>2, SMTT(60)
  <2> QED
    BY <1>1, <1>4, <1>5, <2>3, Zenon DEF Books
<1>7. Counted(total)' /\ Acks(total)'
  BY <1>1, <1>4, <1>5, Zenon DEF Counted, Acks
<1>8. Entries(total)'
  BY <1>1, <1>4, <1>5, EntriesCut, Zenon
<1>9. Chained(m)'
  BY <1>1, <1>4, <1>5, ChainedCut, Zenon
<1>10. Reading(total)'
  BY <1>1, <1>4, <1>5, ReadingSkip, Zenon
<1> QED
  BY <1>6, <1>7, <1>8, <1>9, <1>10, Zenon DEF Ledger

\* A step that neither emits nor counts anything.
LEMMA LedgerSkip ==
    ASSUME NEW total, NEW m, Ledger(total, m),
           UNCHANGED <<world, credit, terminal, server, out, down, signal, up, pending, intake,
                       buffer, outcome, reader, taken>>
    PROVE  Ledger(total, m)'
<1>1. /\ UNCHANGED <<world, credit, intake, signal, up>>
      /\ UNCHANGED <<world, credit, intake, down, buffer, taken, reader, outcome>>
      /\ out' = out /\ server' = server /\ terminal' = terminal /\ Later
      /\ pending' = pending
  BY Zenon DEF Later
<1>2. Acks(total)'
  BY <1>1, AcksSkip, Zenon DEF Ledger
<1>3. /\ pending' => pending
      /\ terminal' = "none" /\ (Local \/ server' = "open") =>
                out' = out /\ (Local \/ server = "open")
  BY <1>1
<1> QED
  BY <1>1, <1>2, <1>3, LedgerCut, Zenon

\* A poll of a send (StreamCore::poll_send).
LEMMA LedgerPoll ==
    ASSUME Typed, Lined, NEW total, NEW m, Ledger(total, m), NEW s \in Senders, PollSend(s)
    PROVE  (\E more : Ledger(more, m)') /\ refused' = refused
<1>1. refused' = refused
  BY Zenon DEF PollSend, SendAfterEnd, SendTooLarge, SendOverflows, SendItem, SendWaits, consuming
<1>2. CASE SendItem(s)
  BY <1>1, <1>2, LedgerSend, Zenon
<1>3. CASE SendOverflows(s)
  <2>1. terminal = "none" /\ EndWith("protocol", "protocol", {s}) /\ UNCHANGED credit /\ OnlyEmits
    BY <1>3, Zenon DEF SendOverflows, OnlyEmits, consuming
  <2>2. "protocol" # "none"
    OBVIOUS
  <2>3. Ledger(total, m)'
    BY <2>1, <2>2, LedgerEnd, Zenon
  <2> QED
    BY <1>1, <2>3, Zenon
<1>4. CASE SendAfterEnd(s) \/ SendTooLarge(s) \/ SendWaits(s)
  <2>1. UNCHANGED <<world, credit, terminal, server, out, down, signal, up, pending, intake,
                    buffer, outcome, reader, taken>>
    BY <1>4, Zenon DEF SendAfterEnd, SendTooLarge, SendWaits, carrying, consuming
  <2>2. Ledger(total, m)'
    BY <2>1, LedgerSkip, Zenon
  <2> QED
    BY <1>1, <2>2, Zenon
<1> QED
  BY <1>2, <1>3, <1>4, Zenon DEF PollSend

\* The producer's end (StreamProducer::finish, fail, drop).
LEMMA LedgerFinish ==
    ASSUME Typed, NEW total, NEW m, Ledger(total, m), NEW error, Finish(error)
    PROVE  Ledger(total, m)' /\ refused' = refused
<1>1. refused' = refused /\ UNCHANGED credit /\ OnlyEmits
  BY Zenon DEF Finish, consuming, OnlyEmits
<1>2. CASE terminal = "none"
  <2>1. EndWith("ended", error, {})
    BY <1>2, Zenon DEF Finish
  <2>2. "ended" # "none"
    OBVIOUS
  <2> QED
    BY <1>1, <1>2, <2>1, <2>2, LedgerEnd, Zenon
<1>3. CASE terminal # "none"
  <2>1. UNCHANGED <<world, credit, terminal, server, out, down, signal, up, pending, intake,
                    buffer, outcome, reader, taken>>
    BY <1>1, <1>3, Zenon DEF Finish, OnlyEmits
  <2> QED
    BY <1>1, <2>1, LedgerSkip, Zenon
<1> QED
  BY <1>2, <1>3, Zenon

\* There is a ledger after every step, and no side refused the other.
LEMMA LedgerStep ==
    ASSUME Typed, Lined, NEW total, NEW m, Ledger(total, m), [Next]_vars
    PROVE  (\E more, n : Ledger(more, n)') /\ refused' = refused
<1>1. CASE UNCHANGED vars
  <2>1. /\ UNCHANGED <<world, credit, terminal, server, out, down, signal, up, pending, intake,
                       buffer, outcome, reader, taken>>
        /\ refused' = refused
    BY <1>1, Zenon DEF vars, producing, carrying, consuming
  <2>2. Ledger(total, m)'
    BY <2>1, LedgerSkip, Zenon
  <2> QED
    BY <2>1, <2>2, Zenon
<1>2. ASSUME NEW s \in Senders, PollSend(s)
      PROVE  (\E more, n : Ledger(more, n)') /\ refused' = refused
  <2>1. (\E more : Ledger(more, m)') /\ refused' = refused
    BY <1>2, LedgerPoll, Zenon
  <2> QED
    BY <2>1, Zenon
<1>3. ASSUME \/ \E s \in Senders : AbandonSend(s) \/ \E k \in Sizes : StartSend(s, k)
             \/ StartReady
             \/ PollReady
      PROVE  (\E more, n : Ledger(more, n)') /\ refused' = refused
  <2>1. /\ UNCHANGED <<world, credit, terminal, server, out, down, signal, up, pending, intake,
                       buffer, outcome, reader, taken>>
        /\ refused' = refused
    BY <1>3, Zenon DEF AbandonSend, StartSend, StartReady, PollReady, carrying, consuming
  <2>2. Ledger(total, m)'
    BY <2>1, LedgerSkip, Zenon
  <2> QED
    BY <2>1, <2>2, Zenon
<1>4. ASSUME NEW limit \in Sizes, LimitWindow(limit)
      PROVE  (\E more, n : Ledger(more, n)') /\ refused' = refused
  <2>1. refused' = refused
    BY <1>4, Zenon DEF LimitWindow, consuming
  <2>2. Ledger(total, m)'
    BY <1>4, LedgerLimit, Zenon
  <2> QED
    BY <2>1, <2>2, Zenon
<1>5. ASSUME NEW error, Finish(error)
      PROVE  (\E more, n : Ledger(more, n)') /\ refused' = refused
  <2>1. Ledger(total, m)' /\ refused' = refused
    BY <1>5, LedgerFinish, Zenon
  <2> QED
    BY <2>1, Zenon
<1>6. CASE WriteFrame \/ WriteSignal \/ StreamCancel \/ CloseServer \/ EndServer \/ CloseClient
  <2>1. refused' = refused
    BY <1>6, Zenon DEF WriteFrame, WriteSignal, StreamCancel, CloseServer, EndServer, CloseClient,
                       consuming
  <2>2. Ledger(total, m)'
    BY <1>6, LedgerWriteFrame, LedgerCarry, Zenon
  <2> QED
    BY <2>1, <2>2, Zenon
<1>7. CASE StreamItem \/ StreamEnd
  <2>1. Ledger(total, m + 1)' /\ refused' = refused
    BY <1>7, LedgerStreamItem, LedgerStreamEnd, Zenon
  <2> QED
    BY <2>1, Zenon
<1>8. CASE StreamAck \/ ReadItem \/ ReadMalformed \/ DropReader \/ ReadOutcome \/ ReadWaits \/ EndClient
  <2>1. Ledger(total, m)' /\ refused' = refused
    BY <1>8, LedgerStreamAck, LedgerReadItem, LedgerReaderGone, LedgerOutcome, Zenon
  <2> QED
    BY <2>1, Zenon
<1> QED
  BY <1>1, <1>2, <1>3, <1>4, <1>5, <1>6, <1>7, <1>8, ZenonT(60) DEF Next

----------------------------------------------------------------------------
(* What admission reserved.                                                *)

\* A step that touches none of it.
LEMMA HoldingSkip ==
    ASSUME Holding, UNCHANGED <<world, terminal, hold, out, down>>
    PROVE  Holding'
<1>1. /\ terminal' = terminal /\ hold' = hold /\ out' = out /\ down' = down /\ Local' = Local
  BY Zenon DEF Local
<1> QED
  BY <1>1, Zenon DEF Holding

\* A stream that is stopped with nothing queued keeps nothing
\* (StreamCore::stop).
LEMMA HoldingFree ==
    ASSUME terminal' # "none", hold' = "free", out' = <<>>
    PROVE  Holding'
  BY DEF Holding

\* The end carries what was held, or there is nowhere to send it
\* (StreamCore::end_with).
LEMMA HoldingEnd ==
    ASSUME Typed, NEW m, Chained(m), Holding, terminal = "none", NEW why, why # "none", NEW error,
           NEW done, EndWith(why, error, done), UNCHANGED world
    PROVE  Holding'
<1>1. terminal' = why /\ Local' = Local
  BY Zenon DEF EndWith, Stop, Local
<1>2. out \in Seq(Items \cup Ends) /\ down \in Seq(Items \cup Ends)
  BY Zenon DEF Typed, TypedOut
<1>3. End(credit.next, error).kind = "end"
  BY DEF End
<1>4. CASE ~(Local \/ server = "open")
  <2>1. hold' = "free" /\ out' = out
    BY <1>4, Zenon DEF EndWith
  <2>2. out = <<>>
    BY <1>4, Zenon DEF Chained
  <2> QED
    BY <1>1, <2>1, <2>2, HoldingFree, Zenon
<1>5. CASE Local
  <2>1. hold' = "frame" /\ down' = Append(down, End(credit.next, error)) /\ out' = out
    BY <1>5, Zenon DEF EndWith, Emit
  <2>2. \E i \in DOMAIN down' : down'[i].kind = "end"
    <3>1. /\ Len(down) + 1 \in DOMAIN down'
          /\ down'[Len(down) + 1] = End(credit.next, error)
      BY <1>2, <2>1, SMTT(60)
    <3> QED
      BY <1>3, <3>1, Zenon
  <2> QED
    BY <1>1, <1>5, <2>1, <2>2, SMTT(60) DEF Holding
<1>6. CASE ~Local /\ server = "open"
  <2>1. hold' = "frame" /\ out' = Append(out, End(credit.next, error))
    BY <1>6, Zenon DEF EndWith, Emit
  <2>2. /\ out' # <<>> /\ Len(out') = Len(out) + 1
        /\ out'[Len(out')] = End(credit.next, error)
    BY <1>2, <2>1
  <2>3. out'[Len(out')].kind = "end"
    BY <1>3, <2>2, Zenon
  <2> QED
    BY <1>1, <1>6, <2>1, <2>2, <2>3, SMTT(60) DEF Holding
<1> QED
  BY <1>4, <1>5, <1>6, Zenon

\* A poll of a send (StreamCore::poll_send).
LEMMA HoldingPoll ==
    ASSUME Typed, NEW m, Chained(m), Holding, NEW s \in Senders, PollSend(s)
    PROVE  Holding'
<1>1. world' = world /\ Local' = Local
  BY Zenon DEF PollSend, SendAfterEnd, SendTooLarge, SendOverflows, SendItem, SendWaits, Local
<1>2. CASE SendItem(s)
  <2>1. terminal = "none" /\ hold = "core"
    BY <1>2, Zenon DEF SendItem, Holding
  <2>2. CASE Local \/ server = "open"
    <3>1. terminal' = terminal /\ hold' = hold
      BY <1>2, <2>2, Zenon DEF SendItem
    <3> QED
      BY <2>1, <3>1 DEF Holding
  <2>3. CASE ~(Local \/ server = "open")
    <3>1. terminal' = "disconnected" /\ hold' = "free" /\ out' = out
      BY <1>2, <2>3, Zenon DEF SendItem, Stop
    <3>2. out = <<>>
      BY <2>3, Zenon DEF Chained
    <3>3. terminal' # "none"
      BY <3>1
    <3> QED
      BY <3>1, <3>2, <3>3, HoldingFree, Zenon
  <2> QED
    BY <2>2, <2>3, Zenon
<1>3. CASE SendOverflows(s)
  <2>1. terminal = "none" /\ EndWith("protocol", "protocol", {s}) /\ UNCHANGED world
    BY <1>3, Zenon DEF SendOverflows
  <2>2. "protocol" # "none"
    OBVIOUS
  <2> QED
    BY <2>1, <2>2, HoldingEnd, Zenon
<1>4. CASE SendAfterEnd(s) \/ SendTooLarge(s) \/ SendWaits(s)
  <2>1. UNCHANGED <<world, terminal, hold, out, down>>
    BY <1>4, Zenon DEF SendAfterEnd, SendTooLarge, SendWaits, carrying
  <2> QED
    BY <2>1, HoldingSkip, Zenon
<1> QED
  BY <1>2, <1>3, <1>4, Zenon DEF PollSend

\* The writer takes a frame: an end is the last one, and what it carried is
\* released with it (Connection::poll_next).
LEMMA HoldingWrite ==
    ASSUME Typed, NEW total, NEW m, Entries(total), Chained(m), Holding, WriteFrame
    PROVE  Holding'
<1>1. /\ out # <<>> /\ out' = Tail(out) /\ terminal' = terminal /\ Local' = Local
      /\ hold' = IF Head(out).kind = "end" THEN "free" ELSE hold
  BY Zenon DEF WriteFrame, Local
<1>2. out \in Seq(Items \cup Ends) /\ credit.next \in Nat
  BY DEF Typed, TypedOut, Credits
<1>3. /\ Head(out) = out[1] /\ Len(out) \in Nat /\ Len(out) > 0 /\ DOMAIN out = 1 .. Len(out)
      /\ Len(out') = Len(out) - 1 /\ DOMAIN out' = 1 .. Len(out) - 1
      /\ \A i \in DOMAIN out' : out'[i] = out[i + 1]
  BY <1>1, <1>2, HeadTail
<1>4. ~Local
  BY <1>1, Zenon DEF Chained
<1>5. CASE Head(out).kind = "end"
  <2>1. hold' = "free"
    BY <1>1, <1>5, Zenon
  <2>2. Entry(out[1], total, credit.next, terminal) /\ 1 \in DOMAIN out
    BY <1>3 DEF Entries
  <2>3. terminal # "none" /\ out[1].n = credit.next
    BY <1>3, <1>5, <2>2, Zenon DEF Entry
  <2>4. out' = <<>>
    <3>1. ASSUME Len(out) > 1 PROVE FALSE
      <4>1. 2 \in DOMAIN out
        BY <1>3, <3>1
      <4>2. out[1].n = m + Len(down) + 1 - 1 /\ out[2].n = m + Len(down) + 2 - 1 /\ m \in Nat
        BY <2>2, <4>1, Zenon DEF Chained
      <4>3. Len(down) \in Nat
        BY DEF Typed, TypedOut
      <4>4. out[2].n = credit.next + 1
        BY <1>2, <2>3, <4>2, <4>3, SMTT(60)
      <4>5. Entry(out[2], total, credit.next, terminal)
        BY <4>1, Zenon DEF Entries
      <4>6. out[2] \in Items \cup Ends
        BY <1>2, <4>1, SMTT(60)
      <4>7. out[2].kind = "item" \/ out[2].kind = "end"
        BY <4>6 DEF Items, Ends
      <4>8. out[2].n < credit.next \/ out[2].n = credit.next
        BY <4>5, <4>7, Zenon DEF Entry
      <4> QED
        BY <1>2, <4>4, <4>8, SMTT(60)
    <3>2. Len(out') = 0
      BY <1>3, <3>1, SMTT(60)
    <3>3. out' \in Seq(Items \cup Ends)
      BY <1>1, <1>2, HeadTail
    <3> QED
      BY <3>2, <3>3
  <2>5. terminal' # "none"
    BY <1>1, <2>3, Zenon
  <2> QED
    BY <2>1, <2>4, <2>5, HoldingFree, Zenon
<1>6. CASE Head(out).kind # "end"
  <2>1. hold' = hold
    BY <1>1, <1>6, Zenon
  <2>2. hold # "free" /\ (terminal = "none" <=> hold = "core")
    BY <1>1, Zenon DEF Holding
  <2>3. ASSUME hold = "frame" PROVE out' # <<>> /\ out'[Len(out')].kind = "end"
    <3>1. out[Len(out)].kind = "end"
      BY <1>4, <2>3, Zenon DEF Holding
    <3>2. Len(out) # 1
      BY <1>3, <1>6, <3>1, SMTT(60)
    <3>3. Len(out') > 0 /\ Len(out') \in DOMAIN out' /\ out'[Len(out')] = out[Len(out)]
      BY <1>3, <3>2
    <3>4. out' # <<>>
      BY <3>3
    <3> QED
      BY <3>1, <3>3, <3>4, Zenon
  <2> QED
    BY <1>1, <1>4, <2>1, <2>2, <2>3, SMTT(60) DEF Holding
<1> QED
  BY <1>5, <1>6, Zenon

\* A frame arrives; a local end releases what the stream held when it is handed
\* over (Shared::stream_item, Shared::stream_end).
LEMMA HoldingArrive ==
    ASSUME Typed, NEW total, NEW m, Ledger(total, m), Holding, StreamItem \/ StreamEnd
    PROVE  Holding'
<1>1. /\ down # <<>> /\ down' = Tail(down) /\ UNCHANGED world /\ Local' = Local
  BY Zenon DEF StreamItem, StreamEnd, Local
<1>2. down \in Seq(Items \cup Ends)
  BY Zenon DEF Typed, TypedOut
<1>3. /\ Head(down) = down[1] /\ Len(down) \in Nat /\ 1 \in DOMAIN down /\ DOMAIN down = 1 .. Len(down)
      /\ DOMAIN down' = 1 .. Len(down) - 1
      /\ \A i \in DOMAIN down' : down'[i] = down[i + 1]
  BY <1>1, <1>2, HeadTail
<1>4. CASE StreamItem
  <2>1. UNCHANGED <<terminal, hold, out>> /\ Head(down).kind = "item"
    BY <1>4, LedgerStreamItem, Zenon DEF StreamItem
  <2>2. ASSUME hold = "frame", Local PROVE \E i \in DOMAIN down' : down'[i].kind = "end"
    <3>1. PICK i \in DOMAIN down : down[i].kind = "end"
      BY <2>2, Zenon DEF Holding
    <3>2. i # 1
      BY <1>3, <2>1, <3>1, ZenonT(60)
    <3>3. i - 1 \in DOMAIN down' /\ down'[i - 1] = down[i]
      BY <1>3, <3>2
    <3> QED
      BY <3>1, <3>3, Zenon
  <2>3. terminal' = terminal /\ hold' = hold /\ out' = out
    BY <2>1, Zenon
  <2> QED
    BY <1>1, <2>2, <2>3, Zenon DEF Holding
<1>5. CASE StreamEnd
  <2>1. /\ terminal' = terminal /\ out' = out /\ Head(down).kind = "end"
        /\ hold' = IF Local THEN "free" ELSE hold
    BY <1>5, Zenon DEF StreamEnd
  <2>2. CASE Local
    <3>1. Entry(down[1], total, credit.next, terminal)
      BY <1>3, Zenon DEF Ledger, Entries
    <3>2. terminal' # "none"
      BY <1>3, <2>1, <3>1, Zenon DEF Entry
    <3>3. out = <<>>
      BY <2>2, Zenon DEF Ledger, Chained
    <3> QED
      BY <2>1, <2>2, <3>2, <3>3, HoldingFree, Zenon
  <2>3. CASE ~Local
    <3>1. hold' = hold
      BY <2>1, <2>3, Zenon
    <3> QED
      BY <1>1, <2>1, <2>3, <3>1, Zenon DEF Holding
  <2> QED
    BY <2>2, <2>3, Zenon
<1> QED
  BY <1>4, <1>5, Zenon

\* The sessions and the cancel.
LEMMA HoldingCarry ==
    ASSUME Typed, NEW total, NEW m, Ledger(total, m), Holding,
           \/ StreamAck \/ StreamCancel \/ CloseServer \/ EndServer
           \/ ReadItem \/ ReadMalformed \/ DropReader \/ ReadOutcome \/ ReadWaits \/ EndClient
    PROVE  Holding'
<1>0. UNCHANGED world
  BY Zenon DEF StreamAck, StreamCancel, CloseServer, EndServer, ReadItem, ReadMalformed, DropReader,
               ReadOutcome, ReadWaits, EndClient
<1>1. CASE StreamAck \/ ReadItem \/ ReadOutcome \/ ReadWaits \/ EndClient
  <2>1. UNCHANGED <<terminal, hold, out, down>>
    BY <1>1, LedgerStreamAck, LedgerReadItem, LedgerOutcome, Zenon
  <2>2. UNCHANGED <<world, terminal, hold, out, down>>
    BY <1>0, <2>1, Zenon
  <2> QED
    BY <2>2, HoldingSkip, Zenon
<1>2. CASE ReadMalformed \/ DropReader
  <2>1. /\ UNCHANGED down
        /\ \/ UNCHANGED <<terminal, hold, out>>
           \/ terminal = "none" /\ terminal' # "none" /\ hold' = "free" /\ out' = <<>>
    BY <1>2, LedgerReaderGone, Zenon
  <2> QED
    BY <1>0, <2>1, HoldingSkip, HoldingFree, Zenon
<1>3. CASE StreamCancel
  <2>1. OnCancel /\ UNCHANGED down
    BY <1>3, Zenon DEF StreamCancel
  <2>2. /\ terminal' # "none"
        /\ terminal # "none" => UNCHANGED <<terminal, hold, out>>
        /\ terminal = "none" => hold' = "free" /\ out' = <<>>
    BY <2>1, CancelCuts, Zenon
  <2> QED
    BY <1>0, <2>1, <2>2, HoldingSkip, HoldingFree, Zenon
<1>4. CASE CloseServer
  <2>1. /\ out' = <<>> /\ terminal' = terminal
        /\ hold' = IF hold = "frame" THEN "free" ELSE hold
    BY <1>4, Zenon DEF CloseServer
  <2>2. hold' # "frame" /\ (hold' = "core" <=> hold = "core")
    BY <2>1
  <2>3. terminal = "none" <=> hold = "core"
    BY Zenon DEF Holding
  <2> QED
    BY <2>1, <2>2, <2>3, SMTT(60) DEF Holding
<1>5. CASE EndServer
  <2>1. server = "closed" /\ out' = out /\ UNCHANGED <<world, out, down>>
    BY <1>5, Zenon DEF EndServer
  <2>2. out = <<>>
    BY <2>1 DEF Ledger, Chained
  <2>3. CASE terminal = "none"
    <3>1. terminal' = "disconnected" /\ hold' = "free"
      BY <1>5, <2>3, Zenon DEF EndServer, Stop
    <3>2. terminal' # "none"
      BY <3>1, SMTT(60)
    <3> QED
      BY <2>1, <2>2, <3>1, <3>2, HoldingFree, Zenon
  <2>4. CASE terminal # "none"
    <3>1. UNCHANGED <<world, terminal, hold, out, down>>
      BY <1>5, <2>1, <2>4, Zenon DEF EndServer
    <3> QED
      BY <3>1, HoldingSkip, Zenon
  <2> QED
    BY <2>3, <2>4, Zenon
<1> QED
  BY <1>1, <1>2, <1>3, <1>4, <1>5, Zenon

\* What admission reserved stays accounted for, step by step.
LEMMA HoldingStep ==
    ASSUME Typed, NEW total, NEW m, Ledger(total, m), Holding, [Next]_vars
    PROVE  Holding'
<1>0. Chained(m) /\ Entries(total)
  BY Zenon DEF Ledger
<1>1. CASE UNCHANGED vars
  <2>1. UNCHANGED <<world, terminal, hold, out, down>>
    BY <1>1, Zenon DEF vars, producing, carrying
  <2> QED
    BY <2>1, HoldingSkip, Zenon
<1>2. ASSUME NEW s \in Senders, PollSend(s) PROVE Holding'
  BY <1>0, <1>2, HoldingPoll, Zenon
<1>3. ASSUME \/ \E s \in Senders : AbandonSend(s) \/ \E k \in Sizes : StartSend(s, k)
             \/ StartReady \/ PollReady
             \/ \E limit \in Sizes : LimitWindow(limit)
             \/ WriteSignal \/ CloseClient
      PROVE  Holding'
  <2>1. UNCHANGED <<world, terminal, hold, out, down>>
    BY <1>3, Zenon DEF AbandonSend, StartSend, StartReady, PollReady, LimitWindow, WriteSignal,
                       CloseClient, producing, carrying
  <2> QED
    BY <2>1, HoldingSkip, Zenon
<1>4. ASSUME NEW error, Finish(error) PROVE Holding'
  <2>1. UNCHANGED world
    BY <1>4, Zenon DEF Finish
  <2>2. CASE terminal = "none"
    <3>1. EndWith("ended", error, {})
      BY <1>4, <2>2, Zenon DEF Finish
    <3>2. "ended" # "none"
      BY SMTT(60)
    <3> QED
      BY <1>0, <2>1, <2>2, <3>1, <3>2, HoldingEnd, Zenon
  <2>3. CASE terminal # "none"
    <3>1. UNCHANGED <<world, terminal, hold, out, down>>
      BY <1>4, <2>1, <2>3, Zenon DEF Finish
    <3> QED
      BY <3>1, HoldingSkip, Zenon
  <2> QED
    BY <2>2, <2>3, Zenon
<1>5. CASE WriteFrame
  BY <1>0, <1>5, HoldingWrite, Zenon
<1>6. CASE StreamItem \/ StreamEnd
  BY <1>6, HoldingArrive, Zenon
<1>7. CASE \/ StreamAck \/ StreamCancel \/ CloseServer \/ EndServer
           \/ ReadItem \/ ReadMalformed \/ DropReader \/ ReadOutcome \/ ReadWaits \/ EndClient
  BY <1>7, HoldingCarry, Zenon
<1> QED
  BY <1>1, <1>2, <1>3, <1>4, <1>5, <1>6, <1>7, ZenonT(60) DEF Next

\* The reader is woken by what it waits for (ConsumerCore::on_item, on_end, terminate).
LEMMA ReaderStep ==
    ASSUME ReaderAwake, [Next]_vars
    PROVE  ReaderAwake'
<1>0. WokenReader # "wait"
  BY DEF WokenReader
<1>1. CASE UNCHANGED <<buffer, outcome, reader>>
  <2>1. buffer' = buffer /\ outcome' = outcome /\ reader' = reader
    BY <1>1, Zenon
  <2> QED
    BY <2>1, Zenon DEF ReaderAwake
<1>2. CASE reader' # "wait"
  BY <1>2, Zenon DEF ReaderAwake
<1>3. CASE StreamItem \/ StreamEnd \/ EndClient
  <2>1. UNCHANGED <<buffer, outcome, reader>> \/ reader' = WokenReader
    <3>1. CASE StreamItem
      BY <3>1, Zenon DEF StreamItem
    <3>2. CASE StreamEnd
      BY <3>2, Zenon DEF StreamEnd
    <3>3. CASE EndClient
      <4>1. CASE pending
        BY <3>3, <4>1, Zenon DEF EndClient
      <4>2. CASE ~pending
        BY <3>3, <4>2, Zenon DEF EndClient
      <4> QED
        BY <4>1, <4>2, Zenon
    <3> QED
      BY <1>3, <3>1, <3>2, <3>3, Zenon
  <2> QED
    BY <1>0, <1>1, <1>2, <2>1, Zenon
<1>4. CASE ReadItem \/ ReadMalformed \/ ReadOutcome \/ DropReader
  <2>1. reader' # "wait"
    BY <1>4 DEF ReadItem, ReadMalformed, ReadOutcome, DropReader
  <2> QED
    BY <1>2, <2>1, Zenon
<1>5. CASE ReadWaits
  <2>1. buffer' = <<>> /\ outcome' = "none"
    BY <1>5, Zenon DEF ReadWaits
  <2> QED
    BY <2>1, Zenon DEF ReaderAwake
<1>6. ASSUME NEW s \in Senders, PollSend(s) PROVE ReaderAwake'
  BY <1>1, <1>6, Zenon DEF PollSend, SendAfterEnd, SendTooLarge, SendOverflows, SendItem, SendWaits,
                           consuming
<1>7. ASSUME \/ UNCHANGED vars
             \/ \E s \in Senders : AbandonSend(s) \/ \E k \in Sizes : StartSend(s, k)
             \/ StartReady \/ PollReady
             \/ \E limit \in Sizes : LimitWindow(limit)
             \/ \E error \in {"ok", "failed"} : Finish(error)
             \/ WriteFrame \/ WriteSignal \/ StreamAck \/ StreamCancel
             \/ CloseServer \/ EndServer \/ CloseClient
      PROVE  ReaderAwake'
  <2>1. UNCHANGED <<buffer, outcome, reader>>
    BY <1>7, Zenon DEF vars, AbandonSend, StartSend, StartReady, PollReady, LimitWindow, Finish,
                       WriteFrame, WriteSignal, StreamAck, StreamCancel, CloseServer, EndServer,
                       CloseClient, consuming
  <2> QED
    BY <1>1, <2>1, Zenon
<1> QED
  BY <1>3, <1>4, <1>5, <1>6, <1>7, Zenon DEF Next

----------------------------------------------------------------------------
(* The invariant.                                                          *)

\* NobodyOversleeps, in its three parts.
LEMMA Awake == NobodyOversleeps <=> SendersAwake /\ CallerAwake /\ ReaderAwake
  BY Zenon DEF NobodyOversleeps, SendersAwake, CallerAwake, ReaderAwake

\* The empty ledger of a stream just admitted (StreamCore::new).
LEMMA LedgerInit ==
    ASSUME Init
    PROVE  Ledger([j \in Nat |-> 0], 0)
<1> DEFINE total == [j \in Nat |-> 0]
<1>1. total \in [Nat -> Nat] /\ \A j \in Nat : total[j] = 0
  BY SMTT(60)
<1> HIDE DEF total
<1>2. Window \in Nat /\ Window >= 0 /\ 0 <= MaxCounter /\ Window <= Window
  BY StreamAssumption, SMTT(60) DEF Init, Window
<1>3. /\ credit.window = Window /\ credit.sent = 0 /\ credit.acked = 0 /\ credit.next = 0
      /\ credit.boundaries = {}
      /\ intake.next = 0 /\ intake.received = 0 /\ intake.consumed = 0
      /\ signal.kind = "none" /\ signal.consumed = 0
  BY SMTT(60) DEF Init, NoSignal
<1>4. /\ DOMAIN out = {} /\ DOMAIN down = {} /\ DOMAIN up = {} /\ DOMAIN buffer = {}
      /\ Len(out) = 0 /\ Len(down) = 0 /\ Len(buffer) = 0 /\ Len(taken) = 0 /\ 1 .. 0 = {}
  BY SMTT(60) DEF Init
<1>5. Books(total)
  <2>1. {total[j] : j \in {i \in Nat : total[i] > 0}} = {}
    BY <1>1
  <2>2. total[0] = 0 /\ (\A i, j \in Nat : i <= j => total[i] <= total[j])
    BY <1>1
  <2> QED
    BY <1>1, <1>2, <1>3, <2>1, <2>2, SMTT(60) DEF Books
<1>6. Counted(total)
  <2>1. 0 \in 0 .. 0 /\ total[0] = 0 /\ 0 <= 0
    BY <1>1, SMTT(60)
  <2> QED
    BY <1>3, <2>1, Zenon DEF Counted
<1>7. Acks(total)
  <2>1. Ack(signal, total, credit.acked, intake)
    BY <1>3 DEF Ack
  <2>2. up = <<>> /\ signal = NoSignal
    BY Zenon DEF Init
  <2> QED
    BY <1>3, <1>4, <2>1, <2>2, SMTT(60) DEF Acks
<1>8. Entries(total)
  BY <1>4, Zenon DEF Entries
<1>9. Chained(0)
  <2>1. 0 \in Nat /\ 0 <= 0 /\ 0 = 0 + 0 + 0 /\ out = <<>>
    BY DEF Init
  <2> QED
    BY <1>3, <1>4, <2>1, ZenonT(60) DEF Chained
<1>10. Reading(total)
  <2>1. /\ taken = <<>> /\ outcome = "none" /\ reader = "run"
    BY Zenon DEF Init
  <2>2. taken = [i \in 1 .. Len(taken) |-> i - 1]
    BY <2>1
  <2>3. 0 = Len(taken) + Len(buffer) /\ total[Len(taken)] = 0
    BY <1>1, <1>4
  <2> QED
    BY <1>3, <1>4, <2>1, <2>2, <2>3, SMTT(60) DEF Reading
<1> QED
  BY <1>5, <1>6, <1>7, <1>8, <1>9, <1>10, Zenon DEF Ledger, total

\* The invariant holds of a stream just admitted.
LEMMA InvInit ==
    ASSUME Init
    PROVE  IInv
<1>1. Typed
  <2>1. Window \in Nat
    BY StreamAssumption, ZenonT(60) DEF Init, Window
  <2>2. TypedOut
    BY <2>1, SMTT(60) DEF Init, TypedOut, Credits, Terminals, Items, Ends
  <2>3. TypedBack
    BY SMTT(60) DEF Init, TypedBack, Signals, NoSignal
  <2>4. TypedIn
    BY SMTT(60) DEF Init, TypedIn, Items
  <2> QED
    BY <2>2, <2>3, <2>4, Zenon DEF Typed
<1>2. Lined
  BY SMTT(60) DEF Init, Lined, IsInjective
<1>3. NobodyOversleeps
  <2>1. \A s \in Senders : sender[s].task = "idle"
    BY SMTT(60) DEF Init, Idle
  <2> QED
    BY <2>1, SMTT(60) DEF Init, NobodyOversleeps
<1>4. Holding
  BY DEF Init, Holding
<1>5. NeverRefused
  BY Zenon DEF Init, NeverRefused
<1>6. Ledger([j \in Nat |-> 0], 0)
  BY LedgerInit, Zenon
<1>7. \E total, m : Ledger(total, m)
  BY <1>6, Zenon
<1> QED
  BY <1>1, <1>2, <1>3, <1>4, <1>5, <1>7, Zenon DEF IInv

\* Every step keeps it.
LEMMA InvStep ==
    ASSUME IInv, [Next]_vars
    PROVE  IInv'
<1>1. Typed /\ Lined /\ NobodyOversleeps /\ Holding /\ NeverRefused
  BY Zenon DEF IInv
<1>2. PICK total, m : Ledger(total, m)
  BY Zenon DEF IInv
<1>3. Rested /\ ReaderAwake
  BY <1>1, Awake, Zenon DEF Rested
<1>4. Rested'
  BY <1>1, <1>3, RestedStep, Zenon
<1>5. ReaderAwake'
  BY <1>3, ReaderStep, Zenon
<1>6. Typed'
  BY <1>1, TypedStep, Zenon
<1>7. (\E more, n : Ledger(more, n)') /\ refused' = refused
  BY <1>1, <1>2, LedgerStep, Zenon
<1>8. Holding'
  BY <1>1, <1>2, HoldingStep, Zenon
<1>9. NeverRefused'
  BY <1>1, <1>7, Zenon DEF NeverRefused
<1>10. Lined' /\ SendersAwake' /\ CallerAwake'
  BY <1>4, Zenon DEF Rested
<1>11. NobodyOversleeps'
  BY <1>5, <1>10, Zenon DEF NobodyOversleeps, SendersAwake, CallerAwake, ReaderAwake
<1>12. (\E more, n : Ledger(more, n))'
  BY <1>7, Zenon
<1> QED
  BY <1>6, <1>8, <1>9, <1>10, <1>11, <1>12, Zenon DEF IInv

\* So every state of the stream has a ledger.
LEMMA Invariance == Spec => []IInv
<1>1. Init => IInv
  BY InvInit, Zenon
<1>2. IInv /\ [Next]_vars => IInv'
  BY InvStep, Zenon
<1> QED
  BY <1>1, <1>2, PTL DEF Spec

----------------------------------------------------------------------------
(* What it says.                                                           *)

\* g holds the sums of the first terms of f, up to n of them.
SumsTo(g, f, n) == g = [k \in 0 .. n |-> IF k = 0 THEN 0 ELSE g[k - 1] + f[k]]

\* The terms of f are the steps of total behind b.
Steps(f, total, b, n) ==
    \A i \in 1 .. n : f[i] \in Nat /\ total[b + i] = total[b + (i - 1)] + f[i]

\* total grows by x over the n steps behind b.
Adds(total, b, n, x) == x \in Nat /\ total[b + n] = total[b] + x

\* No sequence of natural numbers goes down for ever.
LEMMA Descent == IsWellFoundedOn({ss \in Nat \X Nat : ss[1] < ss[2]}, Nat)
BY NatLessThanWellFounded DEF OpToRel

\* A nonempty set of natural numbers has a least element.
LEMMA Smallest ==
    ASSUME NEW S \in SUBSET Nat, S # {}
    PROVE  \E m \in S : \A k \in S : m <= k
<1> DEFINE R == {ss \in Nat \X Nat : ss[1] < ss[2]}
<1>1. PICK m \in S : \A k \in S : ~(<<k, m>> \in R)
  BY Descent, WFMin, Zenon
<1>2. \A j, k \in Nat : <<j, k>> \in R <=> j < k
  OBVIOUS
<1>3. \A j, k \in Nat : ~(j < k) => k <= j
  OBVIOUS
<1> QED
  BY <1>1, <1>2, <1>3, Zenon

\* A set with 0 that is closed under successor holds every natural number.
LEMMA SetInduction ==
    ASSUME NEW S, 0 \in S, \A n \in Nat : n \in S => n + 1 \in S
    PROVE  Nat \subseteq S
<1>1. SUFFICES ASSUME Nat \ S # {} PROVE FALSE
  OBVIOUS
<1>2. PICK m \in Nat \ S : \A k \in Nat \ S : m <= k
  BY <1>1, Smallest, Zenon
<1>3. m # 0 /\ m - 1 \in Nat
  OBVIOUS
<1>4. m - 1 \in S
  BY <1>2, <1>3
<1> QED
  BY <1>3, <1>4

\* What the frames behind b account for has a sum.
LEMMA SumsExist ==
    ASSUME NEW total \in [Nat -> Nat], NEW b \in Nat, NEW n \in Nat, NEW f, Steps(f, total, b, n)
    PROVE  \E g : SumsTo(g, f, n)
<1> DEFINE g == [k \in 0 .. n |-> total[b + k] - total[b]]
           h == [k \in 0 .. n |-> IF k = 0 THEN 0 ELSE g[k - 1] + f[k]]
<1>1. ASSUME NEW k \in 0 .. n PROVE g[k] = IF k = 0 THEN 0 ELSE g[k - 1] + f[k]
  <2>1. b + k \in Nat /\ total[b] \in Nat /\ total[b + k] \in Nat
    OBVIOUS
  <2>2. CASE k = 0
    <3>1. b + 0 = b /\ total[b] - total[b] = 0
      BY <2>1
    <3> QED
      BY <2>2, <3>1
  <2>3. CASE k # 0
    <3>1. k \in 1 .. n /\ k - 1 \in 0 .. n /\ b + (k - 1) \in Nat
      BY <2>3
    <3>2. total[b + k] = total[b + (k - 1)] + f[k] /\ f[k] \in Nat /\ total[b + (k - 1)] \in Nat
      BY <3>1 DEF Steps
    <3>3. g[k] = total[b + k] - total[b] /\ g[k - 1] = total[b + (k - 1)] - total[b]
      BY <3>1, Zenon
    <3> DEFINE t == total[b]
               x == total[b + k]
               y == total[b + (k - 1)]
               z == f[k]
    <3>4. x = y + z /\ z \in Nat /\ y \in Nat /\ t \in Nat
      BY <2>1, <3>2, Zenon
    <3> HIDE DEF t, x, y, z, g
    <3>5. x - t = (y - t) + z
      BY <3>4
    <3> QED
      BY <2>3, <3>3, <3>5, Zenon DEF t, x, y, z
  <2> QED
    BY <2>2, <2>3, Zenon
<1>2. g = h
  BY <1>1, Zenon
<1> HIDE DEF g
<1> QED
  BY <1>2, Zenon DEF SumsTo

\* And the sum is the difference of the totals.
LEMMA Telescope ==
    ASSUME NEW total \in [Nat -> Nat], NEW b \in Nat, NEW n \in Nat, NEW f, Steps(f, total, b, n),
           NEW g, SumsTo(g, f, n)
    PROVE  Adds(total, b, n, g[n])
<1> DEFINE Good(k) == k <= n => g[k] \in Nat /\ total[b + k] = total[b] + g[k]
           S == {k \in Nat : Good(k)}
<1>1. \A k \in 0 .. n : g[k] = IF k = 0 THEN 0 ELSE g[k - 1] + f[k]
  <2> DEFINE h == [k \in 0 .. n |-> IF k = 0 THEN 0 ELSE g[k - 1] + f[k]]
  <2>1. g = h
    BY Zenon DEF SumsTo
  <2>2. \A k \in 0 .. n : h[k] = IF k = 0 THEN 0 ELSE g[k - 1] + f[k]
    OBVIOUS
  <2> HIDE DEF h
  <2> QED
    BY <2>1, <2>2, Zenon
<1>2. 0 \in S
  <2>1. 0 \in 0 .. n /\ b + 0 = b /\ total[b] + 0 = total[b]
    OBVIOUS
  <2>2. g[0] = 0
    BY <1>1, <2>1, Zenon
  <2> QED
    BY <2>1, <2>2
<1>3. ASSUME NEW k \in Nat, k \in S PROVE k + 1 \in S
  <2> SUFFICES ASSUME k + 1 <= n PROVE g[k + 1] \in Nat /\ total[b + (k + 1)] = total[b] + g[k + 1]
    OBVIOUS
  <2>1. /\ k + 1 \in 0 .. n /\ k + 1 # 0 /\ (k + 1) - 1 = k /\ k + 1 \in 1 .. n /\ k <= n
        /\ b + k \in Nat /\ b + ((k + 1) - 1) = b + k
    OBVIOUS
  <2>2. g[k + 1] = g[k] + f[k + 1]
    BY <1>1, <2>1, Zenon
  <2>3. f[k + 1] \in Nat /\ total[b + (k + 1)] = total[b + k] + f[k + 1]
    BY <2>1, Zenon DEF Steps
  <2>4. g[k] \in Nat /\ total[b + k] = total[b] + g[k] /\ total[b] \in Nat
    BY <1>3, <2>1, Zenon
  <2> QED
    BY <2>2, <2>3, <2>4
<1>4. n \in S
  <2> HIDE DEF S
  <2> QED
    BY <1>2, <1>3, SetInduction, Zenon
<1> QED
  BY <1>4 DEF Adds

\* What is queued was sent and is not acknowledged yet.
LEMMA QueuedFits ==
    ASSUME Typed, NEW total, NEW m, Ledger(total, m)
    PROVE  Bytes(out) <= Window
<1> DEFINE f == [i \in DOMAIN out |-> IF out[i].kind = "item" THEN out[i].size ELSE 0]
           b == m + Len(down)
           n == Len(out)
<1>1. Books(total) /\ Counted(total) /\ Entries(total) /\ Chained(m)
  BY Zenon DEF Ledger
<1>2. out \in Seq(Items \cup Ends) /\ down \in Seq(Items \cup Ends) /\ Window \in Nat
      /\ credit.next \in Nat /\ credit.sent \in Nat /\ credit.acked \in Nat /\ intake.next \in Nat
      /\ intake.consumed \in Nat
  BY StreamAssumption, SMTT(60) DEF Typed, TypedOut, TypedIn, Credits, Window
<1>3. m \in Nat /\ b \in Nat /\ n \in Nat /\ DOMAIN out = 1 .. n /\ b + n \in Nat
  BY <1>1, <1>2 DEF Chained
<1>4. /\ total \in [Nat -> Nat]
      /\ \A i, j \in Nat : i <= j => total[i] <= total[j]
      /\ \A j \in Nat : j >= credit.next => total[j] = credit.sent
  BY <1>1, Zenon DEF Books
<1>5. Steps(f, total, b, n)
  <2> SUFFICES ASSUME NEW i \in 1 .. n
               PROVE  f[i] \in Nat /\ total[b + i] = total[b + (i - 1)] + f[i]
    BY Zenon DEF Steps
  <2>1. i \in DOMAIN out /\ out[i] \in Items \cup Ends
    BY <1>2, <1>3
  <2>2. Entry(out[i], total, credit.next, terminal) /\ out[i].n = m + Len(down) + i - 1
    BY <1>1, <2>1, Zenon DEF Entries, Chained
  <2>3. PICK k \in Nat : k = out[i].n /\ k = b + (i - 1) /\ k + 1 = b + i
    <3>1. out[i].n \in Nat /\ Len(down) \in Nat
      BY <1>2, <2>1, SMTT(60) DEF Items, Ends
    <3>2. out[i].n = b + (i - 1) /\ out[i].n + 1 = b + i
      BY <1>3, <2>2, <3>1
    <3> QED
      BY <3>1, <3>2, Zenon
  <2>4. total[k] \in Nat /\ total[k + 1] \in Nat
    <3>1. k + 1 \in Nat
      OBVIOUS
    <3> QED
      BY <1>4, <3>1, Zenon
  <2>5. CASE out[i].kind = "item"
    <3>1. out[i].size \in Nat
      BY <2>1, <2>5 DEF Items, Ends
    <3>2. f[i] = out[i].size
      BY <2>1, <2>5, Zenon
    <3>3. f[i] = total[k + 1] - total[k] /\ f[i] \in Nat
      BY <2>2, <2>3, <2>5, <3>1, <3>2, ZenonT(60) DEF Entry
    <3> HIDE DEF f, b, n
    <3>4. total[k + 1] = total[k] + f[i]
      BY <2>4, <3>3
    <3> QED
      BY <2>3, <3>3, <3>4, Zenon
  <2>6. CASE out[i].kind # "item"
    <3>1. f[i] = 0
      BY <2>1, <2>6, Zenon
    <3>2. out[i].kind = "end"
      BY <2>1, <2>6 DEF Items, Ends
    <3>3. k = credit.next
      BY <2>2, <2>3, <3>2, Zenon DEF Entry
    <3>4. total[k] = credit.sent /\ total[k + 1] = credit.sent
      <4>1. k + 1 \in Nat /\ k >= credit.next /\ k + 1 >= credit.next
        BY <3>3, SMTT(60)
      <4> QED
        BY <1>4, <4>1, Zenon
    <3>5. f[i] \in Nat /\ total[k + 1] = total[k] + f[i]
      BY <1>2, <3>1, <3>4, SMTT(60)
    <3> QED
      BY <2>3, <3>5, Zenon
  <2> QED
    BY <2>5, <2>6, Zenon
<1>6. \E g : SumsTo(g, f, n) /\ Bytes(out) = g[n]
  <2> DEFINE First(g) == g = [k \in 0 .. Len(out) |->
                                IF k = 0 THEN 0
                                ELSE g[k - 1] + (IF out[k].kind = "item" THEN out[k].size ELSE 0)]
             first == CHOOSE g : First(g)
  <2>1. Bytes(out) = first[Len(out)]
    BY DEF Bytes
  <2>2. \A g : First(g) <=> SumsTo(g, f, n)
    <3>1. \A k \in 0 .. n : k # 0 => f[k] = IF out[k].kind = "item" THEN out[k].size ELSE 0
      BY <1>3
    <3> TAKE g
    <3> DEFINE h == [k \in 0 .. n |-> IF k = 0 THEN 0 ELSE g[k - 1] + f[k]]
               l == [k \in 0 .. n |-> IF k = 0 THEN 0
                        ELSE g[k - 1] + (IF out[k].kind = "item" THEN out[k].size ELSE 0)]
    <3>2. h = l
      <4> HIDE DEF f, n
      <4> QED
        BY <3>1, Zenon
    <3> QED
      BY <3>2, Zenon DEF SumsTo
  <2> HIDE DEF First, f, b, n
  <2>3. \E g : First(g)
    BY <1>3, <1>4, <1>5, <2>2, SumsExist, Zenon
  <2>4. First(first)
    BY <2>3, Zenon
  <2> HIDE DEF first
  <2> QED
    BY <2>1, <2>2, <2>4, Zenon DEF n
<1> HIDE DEF f, b, n
<1>7. Bytes(out) \in Nat /\ total[b + n] = total[b] + Bytes(out)
  <2>1. PICK g : SumsTo(g, f, n) /\ Bytes(out) = g[n]
    BY <1>6, Zenon
  <2>2. total \in [Nat -> Nat] /\ b \in Nat /\ n \in Nat
    BY <1>3, <1>4, Zenon
  <2>3. Adds(total, b, n, g[n])
    BY <1>5, <2>1, <2>2, Telescope, Zenon
  <2> QED
    BY <2>1, <2>3, Zenon DEF Adds
<1>8. total[b + n] <= credit.sent
  <2>1. PICK j \in Nat : j >= credit.next /\ b + n <= j
    <3>1. \A x, y \in Nat : \E j \in Nat : j >= x /\ y <= j
      <4> SUFFICES ASSUME NEW x \in Nat, NEW y \in Nat PROVE \E j \in Nat : j >= x /\ y <= j
        BY Zenon
      <4>1. x + y \in Nat /\ x + y >= x /\ y <= x + y
        OBVIOUS
      <4> QED
        BY <4>1, Zenon
    <3> QED
      BY <1>2, <1>3, <3>1, Zenon
  <2>2. total[b + n] <= total[j] /\ total[j] = credit.sent
    BY <1>3, <1>4, <2>1, Zenon
  <2> QED
    BY <2>2, Zenon
<1>9. credit.acked <= total[b]
  <2>1. PICK c \in 0 .. intake.next : intake.consumed = total[c]
    BY <1>1, Zenon DEF Counted
  <2>2. intake.next <= m /\ c \in Nat /\ c <= b
    <3>1. intake.next <= m /\ Len(down) \in Nat
      BY <1>1, <1>2, SMTT(60) DEF Chained
    <3> QED
      BY <1>2, <1>3, <3>1, SMTT(60) DEF b
  <2>3. total[c] <= total[b] /\ total[c] \in Nat /\ total[b] \in Nat
    BY <1>3, <1>4, <2>2, Zenon
  <2>4. credit.acked <= intake.consumed
    BY <1>1, Zenon DEF Counted
  <2> QED
    BY <1>2, <2>1, <2>3, <2>4, AtMostThird, Zenon
<1>10. credit.sent - credit.acked <= Window
  BY <1>1, Zenon DEF Books
<1>11. PICK t \in Nat : t = total[b]
  BY <1>3, <1>4, Zenon
<1>12. t + Bytes(out) <= credit.sent /\ credit.acked <= t
  BY <1>7, <1>8, <1>9, <1>11, Zenon
<1> QED
  BY <1>2, <1>7, <1>10, <1>12, SMTT(60)

\* The ledger gives every counter its range.
LEMMA CountersTyped ==
    ASSUME IInv
    PROVE  TypeOK
<1>1. Typed /\ Lined /\ NeverRefused
  BY Zenon DEF IInv
<1>2. PICK total, m : Ledger(total, m)
  BY Zenon DEF IInv
<1>3. Books(total) /\ Counted(total) /\ Acks(total)
  BY <1>2, Zenon DEF Ledger
<1>4. /\ credit.window \in Nat /\ credit.sent \in Nat /\ credit.acked \in Nat /\ credit.next \in Nat
      /\ intake.next \in Nat /\ intake.received \in Nat /\ intake.consumed \in Nat
      /\ signal \in Signals /\ Window \in Nat /\ MaxCounter \in Nat
  BY <1>1, StreamAssumption DEF Typed, TypedOut, TypedBack, TypedIn, Credits, Window
<1>5. /\ credit.window <= Window /\ credit.sent <= MaxCounter /\ credit.acked <= credit.sent
      /\ total \in [Nat -> Nat]
      /\ \A i, j \in Nat : i <= j => total[i] <= total[j]
      /\ \A j \in Nat : j >= credit.next => total[j] = credit.sent
      /\ credit.boundaries = {total[j] : j \in {i \in Nat : total[i] > credit.acked}}
  BY <1>3, Zenon DEF Books
<1>6. \A j \in Nat : total[j] \in Nat /\ total[j] <= credit.sent
  <2> SUFFICES ASSUME NEW j \in Nat PROVE total[j] \in Nat /\ total[j] <= credit.sent
    BY Zenon
  <2>1. total[j] \in Nat
    BY <1>5, Zenon
  <2>2. j >= credit.next \/ j <= credit.next
    BY <1>4
  <2>3. credit.next >= credit.next /\ credit.sent <= credit.sent
    BY <1>4
  <2>4. total[credit.next] = credit.sent
    BY <1>4, <1>5, <2>3, Zenon
  <2>5. total[j] <= credit.sent
    BY <1>4, <1>5, <2>2, <2>3, <2>4, ZenonT(60)
  <2> QED
    BY <2>1, <2>5, Zenon
<1>7. credit.boundaries \subseteq (credit.acked + 1) .. credit.sent
  <2> SUFFICES ASSUME NEW x \in credit.boundaries PROVE x \in (credit.acked + 1) .. credit.sent
    BY Zenon
  <2>1. PICK j \in Nat : x = total[j] /\ total[j] > credit.acked
    BY <1>5, Zenon
  <2>2. x \in Nat /\ x <= credit.sent /\ x > credit.acked
    BY <1>6, <2>1, ZenonT(60)
  <2> QED
    BY <1>4, <2>2
<1>8. intake.received <= MaxCounter /\ intake.consumed <= intake.received
  <2>1. intake.received = total[intake.next]
    BY <1>3, Zenon DEF Counted
  <2>2. PICK c \in 0 .. intake.next : intake.consumed = total[c]
    BY <1>3, Zenon DEF Counted
  <2>3. c \in Nat /\ c <= intake.next
    BY <1>4
  <2>4. intake.received <= credit.sent
    BY <1>4, <1>6, <2>1, Zenon
  <2>5. intake.consumed <= intake.received
    BY <1>4, <1>5, <2>1, <2>2, <2>3, Zenon
  <2> QED
    BY <1>4, <1>5, <2>4, <2>5, SMTT(60)
<1>9. signal \in [kind : {"none", "ack", "cancel"}, consumed : 0 .. MaxCounter]
  <2>1. signal.kind = "ack" => signal.consumed <= intake.consumed
    BY <1>3, Zenon DEF Acks, Ack
  <2>2. signal.kind # "ack" => signal.consumed = 0
    BY <1>3, Zenon DEF Acks
  <2>3. signal.consumed \in Nat
    BY <1>4 DEF Signals
  <2>4. signal.consumed \in 0 .. MaxCounter
    <3>1. intake.consumed <= MaxCounter
      BY <1>4, <1>8, AtMostThird, Zenon
    <3>2. signal.kind = "ack" => signal.consumed <= MaxCounter
      BY <1>4, <2>1, <2>3, <3>1, AtMostThird, Zenon
    <3> QED
      BY <1>4, <2>2, <2>3, <3>2, InBound, Zenon
  <2> QED
    BY <1>4, <2>4 DEF Signals
<1>10. /\ credit.window \in 0 .. Window /\ credit.sent \in 0 .. MaxCounter
       /\ credit.acked \in 0 .. credit.sent
       /\ intake.received \in 0 .. MaxCounter /\ intake.consumed \in 0 .. intake.received
  BY <1>4, <1>5, <1>8, SMTT(60)
<1>11. refused \in {"none", "item", "end", "ack"}
  BY <1>1 DEF NeverRefused
<1>12. /\ world \in Worlds /\ handle \in {"held", "gone"} /\ credit.next \in Nat
       /\ terminal \in {"none", "ended", "protocol", "disconnected", "cancelled"}
       /\ hold \in {"core", "frame", "free"}
       /\ server \in {"open", "closed", "ended"} /\ client \in {"open", "closed", "ended"}
       /\ pending \in BOOLEAN
       /\ outcome \in {"none", "ok", "failed", "protocol", "disconnected", "malformed"}
       /\ reader \in {"run", "wait", "over", "dropped"}
  BY <1>1, <1>4, Zenon DEF Typed, TypedOut, TypedBack, TypedIn, Terminals
<1>13. /\ line \in Seq(Senders) /\ IsInjective(line)
       /\ sender \in [Senders -> [task : {"run", "wait"}, size : Sizes] \cup {Idle}]
       /\ caller \in {"idle", "run", "wait"}
  BY <1>1, Zenon DEF Lined
<1> QED
  BY <1>7, <1>9, <1>10, <1>11, <1>12, <1>13, ZenonT(60) DEF TypeOK

\* A stream that ended and still holds its share has its end in a queue.
LEMMA EndsRelease ==
    ASSUME IInv
    PROVE  EndReleases
<1> SUFFICES ASSUME terminal # "none", hold # "free"
             PROVE  \E i \in DOMAIN (out \o down) : (out \o down)[i].kind = "end"
  BY Zenon DEF EndReleases
<1>1. out \in Seq(Items \cup Ends) /\ down \in Seq(Items \cup Ends) /\ hold \in {"core", "frame", "free"}
  BY Zenon DEF IInv, Typed, TypedOut
<1>2. /\ terminal = "none" <=> hold = "core"
      /\ hold = "frame" /\ ~Local => out # <<>> /\ out[Len(out)].kind = "end"
      /\ hold = "frame" /\ Local => \E i \in DOMAIN down : down[i].kind = "end"
  BY Zenon DEF IInv, Holding
<1>3. hold = "frame"
  BY <1>1, <1>2
<1>4. CASE ~Local
  <2>1. out # <<>> /\ out[Len(out)].kind = "end"
    BY <1>2, <1>3, <1>4, Zenon
  <2>2. Len(out) \in DOMAIN (out \o down) /\ (out \o down)[Len(out)] = out[Len(out)]
    BY <1>1, <2>1
  <2> QED
    BY <2>1, <2>2, Zenon
<1>5. CASE Local
  <2>1. PICK i \in DOMAIN down : down[i].kind = "end"
    BY <1>2, <1>3, <1>5, Zenon
  <2>2. Len(out) + i \in DOMAIN (out \o down) /\ (out \o down)[Len(out) + i] = down[i]
    BY <1>1
  <2> QED
    BY <2>1, <2>2, Zenon
<1> QED
  BY <1>4, <1>5, Zenon

\* Two sides of this code never break the stream protocol towards each other:
\* no item is refused, no end miscounts, no acknowledgement is out of place
\* (Intake::accept, Intake::end, Credit::ack).
THEOREM NeverRefusedHolds == Spec => []NeverRefused
<1>1. IInv => NeverRefused
  BY Zenon DEF IInv
<1> QED
  BY <1>1, Invariance, PTL

\* The share of the session's window a stream reserved covers what it queues
\* and is released once, when it ended and nothing of it is queued
\* (WindowHold, StreamCore::stop, end_with).
THEOREM WindowHeldHolds == Spec => []WindowHeld
<1>1. ASSUME IInv PROVE WindowHeld
  <2>1. PICK total, m : Ledger(total, m)
    BY <1>1, Zenon DEF IInv
  <2>2. Typed /\ (out # <<>> => hold # "free")
    BY <1>1, Zenon DEF IInv, Holding
  <2>3. QueuedIsReserved
    BY <2>1, <2>2, QueuedFits, Zenon DEF QueuedIsReserved
  <2> QED
    BY <1>1, <2>3, CountersTyped, EndsRelease, Zenon DEF WindowHeld
<1>2. IInv => WindowHeld
  BY <1>1, Zenon
<1> QED
  BY <1>2, Invariance, PTL

\* The application takes the items in the order their credit was reserved,
\* each once, and all of them when the stream ends normally
\* (ConsumerCore::poll_next).
THEOREM InOrderHolds == Spec => []InOrder
<1>1. ASSUME IInv PROVE InOrder
  <2>1. PICK total, m : Ledger(total, m)
    BY <1>1, Zenon DEF IInv
  <2> QED
    BY <2>1, ZenonT(60) DEF Ledger, Reading, InOrder
<1>2. IInv => InOrder
  BY <1>1, Zenon
<1> QED
  BY <1>2, Invariance, PTL

\* Nobody sleeps through what it waits for: senders, ready() callers and the
\* reader are woken by every change they wait for (turn_passed, on_ack, all).
THEOREM NobodyOversleepsHolds == Spec => []NobodyOversleeps
<1>1. IInv => NobodyOversleeps
  BY Zenon DEF IInv
<1> QED
  BY <1>1, Invariance, PTL

=============================================================================
