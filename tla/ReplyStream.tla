----------------------------- MODULE ReplyStream -----------------------------
(***************************************************************************)
(* One admitted reply stream: the producer's credit and its line of        *)
(* waiting senders (stream/credit.rs, stream/producer.rs), the two         *)
(* connections that carry items one way and acknowledgements the other     *)
(* (transport/connection.rs, transport/streams.rs), and the consumer       *)
(* (stream/consumer.rs), in one runtime or in two.                         *)
(*                                                                         *)
(* An item is its sequence number and the bytes it accounts for.  A task   *)
(* that waits is asleep until something wakes it: every wakeup the code    *)
(* owes is explicit, so a forgotten one shows.                             *)
(***************************************************************************)
EXTENDS Integers, Sequences, FiniteSets, Functions

CONSTANTS
    Senders,        \* tasks that send through the producer
    Sizes,          \* accounted sizes of their items
    MaxCounter,     \* the largest value of a byte counter (u64::MAX)
    Worlds          \* the settings to explore: the route, the window announced,
                    \* the window and the item the producing side allows, the
                    \* senders, and what else happens

ASSUME StreamAssumption ==
    /\ MaxCounter \in Nat
    /\ Sizes \subseteq Nat \ {0}
    /\ \A w \in Worlds :
        /\ w.route \in {"remote", "local"}
        /\ w.window \in Nat \ {0} /\ w.max \in Nat \ {0}

VARIABLES
    world,      \* the setting of this behaviour
    handle,     \* the StreamProducer: held, or consumed by its end
    credit,     \* Credit
    terminal,   \* how the stream ended on the producing side
    hold,       \* what admission reserved: with the core, in the end frame, free
    line,       \* waiters: the senders waiting for credit, in order
    sender,     \* each sender's task (idle, runnable, asleep) and its item's size
    caller,     \* the task in ready()
    server,     \* the producing side's connection
    out,        \* stream_out: frames queued on it
    down,       \* frames on their way (local: the one being handed over)
    client,     \* the consuming side's connection
    signal,     \* signals: the coalesced acknowledgement or cancel
    up,         \* signals on their way
    pending,    \* whether the call is pending at the consuming runtime
    intake,     \* Intake
    buffer,     \* received items not yet taken
    outcome,    \* the consumer's terminal
    reader,     \* the consuming task
    taken,      \* history: the items the application took
    refused     \* history: what one side refused of the other

producing == <<handle, credit, terminal, hold, line, sender, caller>>
carrying == <<server, out, down, client, signal, up>>
consuming == <<pending, intake, buffer, outcome, reader, taken, refused>>
vars == <<world, producing, carrying, consuming>>

Local == world.route = "local"
Window == IF world.window < world.max THEN world.window ELSE world.max
Cap == IF credit.window < world.cap THEN credit.window ELSE world.cap
Idle == [task |-> "idle", size |-> 0]
NoSignal == [kind |-> "none", consumed |-> 0]
Item(n, k) == [kind |-> "item", n |-> n, size |-> k]
End(n, error) == [kind |-> "end", n |-> n, error |-> error]

TypeOK ==
    /\ world \in Worlds
    /\ handle \in {"held", "gone"}
    /\ credit.window \in 0 .. Window
    /\ credit.sent \in 0 .. MaxCounter
    /\ credit.acked \in 0 .. credit.sent
    /\ credit.next \in Nat
    /\ credit.boundaries \subseteq (credit.acked + 1) .. credit.sent
    /\ terminal \in {"none", "ended", "protocol", "disconnected", "cancelled"}
    /\ hold \in {"core", "frame", "free"}
    /\ line \in Seq(Senders) /\ IsInjective(line)
    /\ sender \in [Senders -> [task : {"run", "wait"}, size : Sizes] \cup {Idle}]
    /\ caller \in {"idle", "run", "wait"}
    /\ server \in {"open", "closed", "ended"}
    /\ client \in {"open", "closed", "ended"}
    /\ signal \in [kind : {"none", "ack", "cancel"}, consumed : 0 .. MaxCounter]
    /\ pending \in BOOLEAN
    /\ intake.received \in 0 .. MaxCounter
    /\ intake.consumed \in 0 .. intake.received
    /\ outcome \in {"none", "ok", "failed", "protocol", "disconnected", "malformed"}
    /\ reader \in {"run", "wait", "over", "dropped"}
    /\ refused \in {"none", "item", "end", "ack"}

Init ==
    /\ world \in Worlds
    /\ handle = "held"
    /\ credit = [window |-> Window, sent |-> 0, acked |-> 0, next |-> 0, boundaries |-> {}]
    /\ terminal = "none"
    /\ hold = "core"
    /\ line = <<>>
    /\ sender = [s \in Senders |-> Idle]
    /\ caller = "idle"
    /\ server = "open" /\ client = "open"
    /\ out = <<>> /\ down = <<>> /\ up = <<>>
    /\ signal = NoSignal
    /\ pending = TRUE
    /\ intake = [next |-> 0, received |-> 0, consumed |-> 0]
    /\ buffer = <<>>
    /\ outcome = "none"
    /\ reader = "run"
    /\ taken = <<>>
    /\ refused = "none"

----------------------------------------------------------------------------
(* The producer's credit and its line.                                     *)

HasRoom(c) == c.sent - c.acked < c.window

\* Mutant: the item's own size is not counted.
FitsWithoutItem(c, k) == c.sent - c.acked <= c.window

Fits(c, k) == c.sent + k - c.acked <= c.window

\* Mutant: the check lets one byte too many through.
OverflowsLate(c, k) == c.sent + k > MaxCounter + 1

Overflows(c, k) == c.sent + k > MaxCounter

Reserve(c, k) ==
    [c EXCEPT !.sent = @ + k, !.next = @ + 1, !.boundaries = @ \cup {c.sent + k}]

Acked(c, consumed) ==
    [c EXCEPT !.acked = consumed, !.boundaries = {b \in @ : b > consumed}]

\* The line without sender s, who stands in it once or not at all.
Leave(s) ==
    IF s \notin Range(line) THEN line
    ELSE LET place == CHOOSE i \in DOMAIN line : line[i] = s
         IN  [i \in 1 .. Len(line) - 1 |-> line[IF i < place THEN i ELSE i + 1]]

Heads(l) == IF l = <<>> THEN {} ELSE {Head(l)}

Woken(who) ==
    [s \in Senders |-> IF s \in who /\ sender[s].task = "wait"
                       THEN [sender[s] EXCEPT !.task = "run"] ELSE sender[s]]

WokenCaller == IF caller = "wait" THEN "run" ELSE caller

\* Sender s left the line: wake the new head, and ready() callers once
\* nobody waits and credit is free.
TurnPassed(s, l, c) ==
    /\ line' = l
    /\ sender' = [Woken(Heads(l)) EXCEPT ![s] = Idle]
    /\ caller' = IF l = <<>> /\ HasRoom(c) THEN WokenCaller ELSE caller

\* The stream is over: everybody waiting is woken, those in done are answered.
Stop(why, done) ==
    /\ terminal' = why
    /\ line' = <<>>
    /\ sender' = [s \in Senders |-> IF s \in done THEN Idle ELSE Woken(Senders)[s]]
    /\ caller' = WokenCaller

\* The emission lock: a local producer holds it while it hands a frame over.
EmitFree == ~Local \/ down = <<>>

Emit(frame) ==
    IF Local THEN down' = Append(down, frame) /\ UNCHANGED out
    ELSE out' = Append(out, frame) /\ UNCHANGED down

\* StreamCore::end_with: the end follows every queued item, needs no credit,
\* and carries what the stream held.
EndWith(why, error, done) ==
    /\ Stop(why, done)
    /\ IF Local \/ server = "open"
       THEN Emit(End(credit.next, error)) /\ hold' = "frame"
       ELSE hold' = "free" /\ UNCHANGED <<out, down>>

----------------------------------------------------------------------------
(* Sending.                                                                *)

StartSend(s, k) ==
    /\ handle = "held"
    /\ s \in world.senders
    /\ sender[s] = Idle
    /\ sender' = [sender EXCEPT ![s] = [task |-> "run", size |-> k]]
    /\ UNCHANGED <<world, handle, credit, terminal, hold, line, caller, carrying, consuming>>

Polls(s) == sender[s].task = "run" /\ EmitFree

MyTurn(s) == Heads(line) \subseteq {s}

SendAfterEnd(s) ==
    /\ Polls(s)
    /\ terminal # "none"
    /\ line' = Leave(s)
    /\ sender' = [sender EXCEPT ![s] = Idle]
    /\ UNCHANGED <<world, handle, credit, terminal, hold, caller, carrying, consuming>>

SendTooLarge(s) ==
    /\ Polls(s)
    /\ terminal = "none"
    /\ sender[s].size > Cap
    /\ TurnPassed(s, Leave(s), credit)
    /\ UNCHANGED <<world, handle, credit, terminal, hold, carrying, consuming>>

SendOverflows(s) ==
    /\ Polls(s)
    /\ terminal = "none"
    /\ sender[s].size <= Cap
    /\ MyTurn(s)
    /\ Overflows(credit, sender[s].size)
    /\ EndWith("protocol", "protocol", {s})
    /\ UNCHANGED <<world, handle, credit, server, client, signal, up, consuming>>

SendItem(s) ==
    /\ Polls(s)
    /\ terminal = "none"
    /\ sender[s].size <= Cap
    /\ MyTurn(s)
    /\ ~Overflows(credit, sender[s].size)
    /\ Fits(credit, sender[s].size)
    /\ credit' = Reserve(credit, sender[s].size)
    /\ IF Local \/ server = "open"
       THEN /\ TurnPassed(s, Leave(s), credit')
            /\ Emit(Item(credit.next, sender[s].size))
            /\ UNCHANGED <<terminal, hold>>
       ELSE /\ Stop("disconnected", {s})
            /\ hold' = "free"
            /\ UNCHANGED <<out, down>>
    /\ UNCHANGED <<world, handle, server, client, signal, up, consuming>>

SendWaits(s) ==
    /\ Polls(s)
    /\ terminal = "none"
    /\ sender[s].size <= Cap
    /\ MyTurn(s) => ~Overflows(credit, sender[s].size) /\ ~Fits(credit, sender[s].size)
    /\ line' = IF s \in Range(line) THEN line ELSE Append(line, s)
    /\ sender' = [sender EXCEPT ![s].task = "wait"]
    /\ UNCHANGED <<world, handle, credit, terminal, hold, caller, carrying, consuming>>

PollSend(s) ==
    SendAfterEnd(s) \/ SendTooLarge(s) \/ SendOverflows(s) \/ SendItem(s) \/ SendWaits(s)

\* Mutant: the place in line is given up and nobody is told.
AbandonSendQuietly(s) ==
    /\ sender[s] # Idle
    /\ line' = Leave(s)
    /\ sender' = [sender EXCEPT ![s] = Idle]
    /\ UNCHANGED <<world, handle, credit, terminal, hold, caller, carrying, consuming>>

\* The send is dropped while it waits, as try_send drops its own at once.
AbandonSend(s) ==
    /\ sender[s] # Idle
    /\ IF s \in Range(line)
       THEN TurnPassed(s, Leave(s), credit)
       ELSE sender' = [sender EXCEPT ![s] = Idle] /\ UNCHANGED <<line, caller>>
    /\ UNCHANGED <<world, handle, credit, terminal, hold, carrying, consuming>>

StartReady ==
    /\ handle = "held"
    /\ "ready" \in world.uses
    /\ caller = "idle"
    /\ caller' = "run"
    /\ UNCHANGED <<world, handle, credit, terminal, hold, line, sender, carrying, consuming>>

PollReady ==
    /\ caller = "run"
    /\ caller' = IF terminal # "none" \/ (HasRoom(credit) /\ line = <<>>)
                 THEN "idle" ELSE "wait"
    /\ UNCHANGED <<world, handle, credit, terminal, hold, line, sender, carrying, consuming>>

\* A limit of zero, which stops the stream for good, is left out: a send would
\* then wait for the consumer to leave.
LimitWindow(limit) ==
    /\ handle = "held"
    /\ "limit" \in world.uses
    /\ limit < credit.window
    /\ credit' = [credit EXCEPT !.window = limit]
    /\ UNCHANGED <<world, handle, terminal, hold, line, sender, caller, carrying, consuming>>

\* finish, fail, or the drop of the producer; no send borrows it any more.
Finish(error) ==
    /\ handle = "held"
    /\ EmitFree
    /\ caller = "idle" /\ \A s \in Senders : sender[s] = Idle
    /\ handle' = "gone"
    /\ IF terminal = "none" THEN EndWith("ended", error, {})
       ELSE UNCHANGED <<terminal, hold, line, sender, caller, out, down>>
    /\ UNCHANGED <<world, credit, server, client, signal, up, consuming>>

----------------------------------------------------------------------------
(* What the consumer tells the producer.                                   *)

\* StreamCore::on_ack: a boundary of the items in flight returns their credit
\* and wakes the head of the line and every ready() caller.
OnAck(consumed) ==
    IF terminal # "none" \/ consumed = credit.acked
    THEN UNCHANGED <<credit, terminal, hold, line, sender, caller, out, down, refused>>
    ELSE IF consumed \in credit.boundaries
    THEN /\ credit' = Acked(credit, consumed)
         /\ sender' = Woken(Heads(line))
         /\ caller' = WokenCaller
         /\ UNCHANGED <<terminal, hold, line, out, down, refused>>
    ELSE EndWith("protocol", "protocol", {}) /\ refused' = "ack" /\ UNCHANGED credit

\* Mutant: frames queued for a cancelled stream stay queued.
OnCancelKeepsFrames ==
    IF terminal # "none"
    THEN UNCHANGED <<terminal, hold, line, sender, caller, out>>
    ELSE Stop("cancelled", {}) /\ hold' = "free" /\ UNCHANGED out

\* Mutant: a cancelled stream keeps what it held.
OnCancelKeepsHold ==
    IF terminal # "none"
    THEN UNCHANGED <<terminal, hold, line, sender, caller, out>>
    ELSE Stop("cancelled", {}) /\ out' = <<>> /\ UNCHANGED hold

\* StreamCore::cancel: what was not written is dropped.
OnCancel ==
    IF terminal # "none"
    THEN UNCHANGED <<terminal, hold, line, sender, caller, out>>
    ELSE /\ Stop("cancelled", {})
         /\ hold' = "free"
         /\ out' = <<>>

\* Connection::signal_ack: coalesced with what was not yet written.
SignalAck(consumed) ==
    signal' = IF client # "open" \/ signal.kind = "cancel" THEN signal
              ELSE [kind |-> "ack",
                    consumed |-> IF signal.consumed > consumed THEN signal.consumed
                                 ELSE consumed]

\* The consumer abandons the stream: the producer is told to stop.
Abandon ==
    IF Local THEN OnCancel /\ UNCHANGED signal
    ELSE /\ signal' = IF client = "open" THEN [kind |-> "cancel", consumed |-> 0] ELSE signal
         /\ UNCHANGED <<terminal, hold, line, sender, caller, out>>

\* The acknowledgement of consumed bytes takes its route.
Acknowledge(consumed) ==
    IF Local THEN OnAck(consumed) /\ UNCHANGED signal
    ELSE SignalAck(consumed)
         /\ UNCHANGED <<credit, terminal, hold, line, sender, caller, out, down, refused>>

WriteSignal ==
    /\ client = "open"
    /\ signal # NoSignal
    /\ up' = Append(up, signal)
    /\ signal' = NoSignal
    /\ UNCHANGED <<world, producing, server, out, down, client, consuming>>

StreamAck ==
    /\ server # "ended"
    /\ up # <<>> /\ Head(up).kind = "ack"
    /\ up' = Tail(up)
    /\ OnAck(Head(up).consumed)
    /\ UNCHANGED <<world, handle, server, client, signal,
                   pending, intake, buffer, outcome, reader, taken>>

StreamCancel ==
    /\ server # "ended"
    /\ up # <<>> /\ Head(up).kind = "cancel"
    /\ up' = Tail(up)
    /\ OnCancel
    /\ UNCHANGED <<world, handle, credit, server, down, client, signal, consuming>>

----------------------------------------------------------------------------
(* What the producer tells the consumer.                                   *)

\* The writer takes the next frame; a written end releases what it carried.
WriteFrame ==
    /\ server = "open"
    /\ out # <<>>
    /\ down' = Append(down, Head(out))
    /\ out' = Tail(out)
    /\ hold' = IF Head(out).kind = "end" THEN "free" ELSE hold
    /\ UNCHANGED <<world, handle, credit, terminal, line, sender, caller,
                   server, client, signal, up, consuming>>

WokenReader == IF reader = "wait" THEN "run" ELSE reader

Accepts(frame) ==
    /\ frame.n = intake.next
    /\ intake.received + frame.size <= MaxCounter
    /\ intake.received + frame.size - intake.consumed <= world.window

\* An item arrives; one that comes late is discarded, one that breaks the
\* protocol ends the stream and stops the producer.
StreamItem ==
    /\ client # "ended"
    /\ down # <<>> /\ Head(down).kind = "item"
    /\ down' = Tail(down)
    /\ IF ~pending \/ outcome # "none"
       THEN UNCHANGED <<pending, intake, buffer, outcome, reader, refused,
                        terminal, hold, line, sender, caller, out, signal>>
       ELSE IF Accepts(Head(down))
       THEN /\ intake' = [intake EXCEPT !.next = @ + 1, !.received = @ + Head(down).size]
            /\ buffer' = Append(buffer, Head(down))
            /\ reader' = WokenReader
            /\ UNCHANGED <<pending, outcome, refused,
                           terminal, hold, line, sender, caller, out, signal>>
       ELSE /\ outcome' = "protocol"
            /\ refused' = "item"
            /\ pending' = FALSE
            /\ reader' = WokenReader
            /\ Abandon
            /\ UNCHANGED <<intake, buffer>>
    /\ UNCHANGED <<world, handle, credit, server, client, up, taken>>

\* Mutant: a stream that ended takes its buffered items with it.
StreamEndAtOnce ==
    /\ client # "ended"
    /\ down # <<>> /\ Head(down).kind = "end"
    /\ down' = Tail(down)
    /\ hold' = IF Local THEN "free" ELSE hold
    /\ pending' = FALSE
    /\ outcome' = IF ~pending THEN outcome ELSE "ok"
    /\ buffer' = <<>>
    /\ reader' = WokenReader
    /\ UNCHANGED <<world, handle, credit, terminal, line, sender, caller,
                   server, out, client, signal, up, intake, taken, refused>>

\* The end arrives: it must count the items received.
StreamEnd ==
    /\ client # "ended"
    /\ down # <<>> /\ Head(down).kind = "end"
    /\ down' = Tail(down)
    /\ hold' = IF Local THEN "free" ELSE hold
    /\ pending' = FALSE
    /\ IF ~pending THEN UNCHANGED <<outcome, reader, refused>>
       ELSE /\ refused' = IF Head(down).n = intake.next THEN refused ELSE "end"
            /\ outcome' = CASE outcome # "none" -> outcome
                            [] outcome = "none" /\ Head(down).n # intake.next -> "protocol"
                            [] outcome = "none" /\ Head(down).n = intake.next -> Head(down).error
            /\ reader' = WokenReader
    /\ UNCHANGED <<world, handle, credit, terminal, line, sender, caller,
                   server, out, client, signal, up, intake, buffer, taken>>

----------------------------------------------------------------------------
(* The consumer.                                                           *)

\* The application takes an item.  Its acknowledgement may be left to the
\* next one's when that one is already buffered.
ReadItem ==
    /\ reader = "run"
    /\ buffer # <<>>
    /\ buffer' = Tail(buffer)
    /\ taken' = Append(taken, Head(buffer).n)
    /\ intake' = [intake EXCEPT !.consumed = @ + Head(buffer).size]
    /\ \/ Acknowledge(intake'.consumed)
       \/ /\ Tail(buffer) # <<>>
          /\ UNCHANGED <<credit, terminal, hold, line, sender, caller, out, down, signal,
                         refused>>
    /\ UNCHANGED <<world, handle, server, client, up, pending, outcome, reader>>

\* An item that does not decode ends the stream on this side.
ReadMalformed ==
    /\ reader = "run"
    /\ buffer # <<>>
    /\ buffer' = <<>>
    /\ intake' = [intake EXCEPT !.consumed = @ + Head(buffer).size]
    /\ outcome' = "malformed"
    /\ reader' = "over"
    /\ pending' = FALSE
    /\ IF pending THEN Abandon /\ UNCHANGED <<credit, down, refused>>
       ELSE Acknowledge(intake'.consumed)
    /\ UNCHANGED <<world, handle, server, client, up, taken>>

ReadOutcome ==
    /\ reader = "run"
    /\ buffer = <<>>
    /\ outcome # "none"
    /\ reader' = "over"
    /\ UNCHANGED <<world, producing, carrying, pending, intake, buffer, outcome, taken, refused>>

ReadWaits ==
    /\ reader = "run"
    /\ buffer = <<>>
    /\ outcome = "none"
    /\ reader' = "wait"
    /\ UNCHANGED <<world, producing, carrying, pending, intake, buffer, outcome, taken, refused>>

DropReader ==
    /\ reader \in {"run", "wait"}
    /\ reader' = "dropped"
    /\ buffer' = <<>>
    /\ pending' = FALSE
    /\ IF pending THEN Abandon
       ELSE UNCHANGED <<terminal, hold, line, sender, caller, out, signal>>
    /\ UNCHANGED <<world, handle, credit, server, down, client, up,
                   intake, outcome, taken, refused>>

----------------------------------------------------------------------------
(* The sessions end, each side on its own: the queue closes, then the      *)
(* runtime ends what the connection carried.                               *)

CloseServer ==
    /\ "cut" \in world.uses
    /\ server = "open"
    /\ server' = "closed"
    /\ out' = <<>>
    /\ hold' = IF hold = "frame" THEN "free" ELSE hold
    /\ UNCHANGED <<world, handle, credit, terminal, line, sender, caller,
                   down, client, signal, up, consuming>>

\* Mutant: the streams of an ended connection are forgotten.
EndServerQuietly ==
    /\ server = "closed"
    /\ server' = "ended"
    /\ UNCHANGED <<world, producing, out, down, client, signal, up, consuming>>

EndServer ==
    /\ server = "closed"
    /\ server' = "ended"
    /\ IF terminal = "none" THEN Stop("disconnected", {}) /\ hold' = "free"
       ELSE UNCHANGED <<terminal, hold, line, sender, caller>>
    /\ UNCHANGED <<world, handle, credit, out, down, client, signal, up, consuming>>

CloseClient ==
    /\ "cut" \in world.uses
    /\ client = "open"
    /\ client' = "closed"
    /\ signal' = NoSignal
    /\ UNCHANGED <<world, producing, server, out, down, up, consuming>>

\* Mutant: the calls of an ended connection are dropped unanswered.
EndClientQuietly ==
    /\ client = "closed"
    /\ client' = "ended"
    /\ pending' = FALSE
    /\ UNCHANGED <<world, producing, server, out, down, signal, up,
                   intake, buffer, outcome, reader, taken, refused>>

EndClient ==
    /\ client = "closed"
    /\ client' = "ended"
    /\ pending' = FALSE
    /\ outcome' = IF pending /\ outcome = "none" THEN "disconnected" ELSE outcome
    /\ reader' = IF pending THEN WokenReader ELSE reader
    /\ UNCHANGED <<world, producing, server, out, down, signal, up, intake, buffer, taken, refused>>

Next ==
    \/ \E s \in Senders : PollSend(s) \/ AbandonSend(s) \/ \E k \in Sizes : StartSend(s, k)
    \/ StartReady \/ PollReady
    \/ \E limit \in Sizes : LimitWindow(limit)
    \/ \E error \in {"ok", "failed"} : Finish(error)
    \/ WriteFrame \/ StreamItem \/ StreamEnd
    \/ WriteSignal \/ StreamAck \/ StreamCancel
    \/ ReadItem \/ ReadMalformed \/ ReadOutcome \/ ReadWaits \/ DropReader
    \/ CloseServer \/ EndServer \/ CloseClient \/ EndClient

\* Woken tasks are polled, the writers and readers of open sessions run, and a
\* side learns that its peer closed.
Fairness ==
    /\ \A s \in Senders : WF_vars(PollSend(s))
    /\ WF_vars(PollReady)
    /\ WF_vars(WriteFrame) /\ WF_vars(StreamItem \/ StreamEnd)
    /\ WF_vars(WriteSignal) /\ WF_vars(StreamAck \/ StreamCancel)
    /\ WF_vars(ReadItem \/ ReadMalformed \/ ReadOutcome \/ ReadWaits)
    /\ WF_vars(EndServer \/ (client # "open" /\ CloseServer))
    /\ WF_vars(EndClient \/ (server # "open" /\ CloseClient))

Spec == Init /\ [][Next]_vars /\ Fairness

----------------------------------------------------------------------------
(* Properties.                                                             *)

Bytes(frames) ==
    LET first[n \in 0 .. Len(frames)] ==
            IF n = 0 THEN 0
            ELSE first[n - 1] + (IF frames[n].kind = "item" THEN frames[n].size ELSE 0)
    IN  first[Len(frames)]

\* Two sides of this code never break the stream protocol towards each other:
\* no item is refused (sequence, window, overflow), no end miscounts, and no
\* acknowledgement regresses, exceeds what was sent or misses an item boundary
\* (Intake::accept, Intake::end, Credit::ack), whatever is deferred, coalesced,
\* cancelled or cut.
NeverRefused == refused = "none"

\* What is queued for the stream never exceeds the window its admission
\* reserved, and what was reserved is released only once nothing is queued
\* (push_stream_frame is never refused; WindowHold moves into the end frame).
QueuedIsReserved ==
    /\ Bytes(out) <= Window
    /\ out # <<>> => hold # "free"

\* What was reserved for a stream that ended is released: by the writer when
\* its end is still queued, at once otherwise (StreamCore::stop, end_with).
EndReleases == terminal # "none" /\ hold # "free" =>
    \E i \in DOMAIN (out \o down) : (out \o down)[i].kind = "end"

\* The application takes the items in the order their credit was reserved,
\* each once, and a stream that ends normally delivered every one of them
\* (ConsumerCore::poll_next: items stay observable before the outcome).
InOrder ==
    /\ taken = [i \in 1 .. Len(taken) |-> i - 1]
    /\ reader = "over" /\ outcome \in {"ok", "failed"} => Len(taken) = credit.next

\* Nobody sleeps through what it waits for: the head of the line is awake once
\* its item fits, a ready() caller once credit is free and nobody waits, every
\* waiter once the stream ended (turn_passed, on_ack, all), and the reader once
\* there is something to read.
NobodyOversleeps ==
    /\ \A s \in Senders : sender[s].task = "wait" =>
        /\ terminal = "none"
        /\ s \in Range(line)
        /\ Head(line) = s => ~Fits(credit, sender[s].size)
    /\ caller = "wait" => terminal = "none" /\ ~(HasRoom(credit) /\ line = <<>>)
    /\ reader = "wait" => buffer = <<>> /\ outcome = "none"

\* While the consumer keeps reading, every send resolves, and a ready() does
\* unless sends keep standing in line (credit is delayed, never lost).
SendsResolve ==
    /\ \A s \in Senders : sender[s] # Idle ~> sender[s] = Idle
    /\ caller # "idle" ~> caller = "idle" \/ line # <<>>

\* Once the producer ended the stream, or its session ended, the consumer
\* learns an outcome.
OutcomeArrives == terminal # "none" ~> reader \in {"over", "dropped"}

\* The share of the session's window a stream reserved covers all it queues, and
\* comes back once, when it ended and nothing of it is queued
\* (WindowHold, StreamCore::stop, end_with).
WindowHeld == TypeOK /\ QueuedIsReserved /\ EndReleases

\* Nobody on either end waits for ever: sends, ready() and the reader of a
\* stream that ended (turn_passed, on_ack, EndServer and EndClient).
EverybodyServed == SendsResolve /\ OutcomeArrives

=============================================================================
