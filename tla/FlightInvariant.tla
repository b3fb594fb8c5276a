-------------------------- MODULE FlightInvariant ---------------------------
(***************************************************************************)
(* The inductive invariant of Flight's windows and streams, and the facts  *)
(* about its steps that FlightProofs states and proves.                    *)
(***************************************************************************)
EXTENDS Flight

\* The bytes of a direction that are under way: in flight, then in the queue.
Data(flight) == [i \in DOMAIN flight |-> flight[i].data]
Fly(c) == FlattenSeq(Data(c.flight))
Way(c) == Fly(c) \o FlattenSeq(c.queue)

Item(S) == [seq : Nat, at : Int, data : Seq(S), owed : Nat]

\* A connection whose end writes the bytes S and reads the bytes R.  No chunk of
\* its queue is empty.
Conn(S, R) ==
    [queue : Seq(Seq(S) \ {<<>>}), flight : Seq(Item(S)), held : Int, next : Nat, last : Int,
     inbox : Seq(R), window : Int, closed : {"no", "graceful", "aborted"}, sendClosed : BOOLEAN,
     recvClosed : BOOLEAN, finPending : BOOLEAN, finReceived : BOOLEAN,
     sending : BOOLEAN, stalled : BOOLEAN, holed : BOOLEAN]

\* The window of a direction: c sends, p receives, and v bytes vanished.
Accounts(c, p, v) ==
    /\ c.window = Len(Way(c)) + Len(p.inbox) + v
    /\ c.window <= Capacity

\* The bytes of a sequence are numbered from b on.
Numbered(s, b) == \A i \in DOMAIN s : s[i] = b + i

\* The end takes what lands.
Reads(p) == p.closed = "no" /\ ~p.recvClosed

\* What is under way starts behind the first b bytes, and ends with the last
\* byte written unless a random close came between.
Starts(c, p, w, g, lost, b) ==
    /\ Numbered(Way(c), b)
    /\ Reads(p) => b = g + Len(p.inbox)
    /\ ~lost /\ c.closed # "aborted" => b + Len(Way(c)) = w

\* The stream of a direction, of which w bytes were written and g read: what is
\* unread continues what was read, what is under way continues that, and the
\* end of the stream comes behind everything.
Stream(c, p, w, g, lost) ==
    /\ Numbered(p.inbox, g)
    /\ ~Reads(p) => p.inbox = <<>>
    /\ ~c.holed => \E b \in Nat : Starts(c, p, w, g, lost, b)
    /\ p.finReceived /\ ~lost /\ Reads(p) => g + Len(p.inbox) = w

\* A direction that has said everything: its FIN is on the wire, or landed.
Said(c) == c.queue = <<>> /\ c.sendClosed /\ ~c.finPending

\* Among chunks that are in flight, the FIN, which is empty, can only be the last.
FinLast(s) == \A i \in DOMAIN s : s[i] = <<>> => i = Len(s)

\* There is none.
Clean(s) == \A i \in DOMAIN s : s[i] # <<>>

\* The FIN of a direction is behind everything else of it, and nothing follows.
Finished(c, p, lost) ==
    /\ FinLast(Data(c.flight)) /\ (~Clean(Data(c.flight)) => Said(c))
    /\ p.finReceived => Data(c.flight) = <<>> /\ Said(c)
    /\ c.finPending \/ lost \/ c.closed # "no" => c.sendClosed
    /\ c.queue # <<>> /\ c.sendClosed => c.finPending
    /\ c.closed = "aborted" => Data(c.flight) = <<>> /\ c.queue = <<>> /\ ~c.finPending /\ ~Reads(p)

\* What the invariant says of one direction: c sends, p receives.
Direction(c, p, w, g, v, lost) ==
    Accounts(c, p, v) /\ Stream(c, p, w, g, lost) /\ Finished(c, p, lost)

ReaderStates == {"running", "parked", "clogged", "eof", "reset", "gone"}
WriterStates == {"running", "parked", "clogged", "ended", "gone"}

\* Every event has the fields of one, and those of an end name it.
Addressed(E) ==
    \A ev \in E : \E what, x, n, t :
        ev = Event(what, x, n, t) /\ (what \in {"Delivery", "Process"} => x \in Ends)

\* The history has its types, and at most what there is was written.
Counted(w, g, v) ==
    /\ w \in [Ends -> Nat] /\ \A x \in Ends : w[x] <= world.bytes[x]
    /\ g \in [Ends -> Nat] /\ v \in [Ends -> Nat]

\* Everything but the connections.
Tidy ==
    /\ world \in Worlds /\ faults \in 0 .. world.faults
    /\ reader \in [Ends -> ReaderStates] /\ writer \in [Ends -> WriterStates]
    /\ Counted(written, got, vanished) /\ Addressed(events)

\* One end, and the direction it sends.
Sound(x) ==
    /\ conn[x] \in Conn(Bytes(x), Bytes(Peer(x)))
    /\ Direction(conn[x], conn[Peer(x)], written[x], got[x], vanished[x], x \in broken)

\* The inductive invariant.
IInv == Tidy /\ conn = [x \in Ends |-> conn[x]] /\ \A x \in Ends : Sound(x)

-----------------------------------------------------------------------------
(* What the lemmas establish.                                              *)

\* f holds what the first chunks of s are together, up to k of them.
FlatTo(f, s, k) == f = [i \in 1 .. k |-> IF i = 1 THEN s[i] ELSE f[i - 1] \o s[i]]

\* So it grows by one chunk at a time.
Grows(f, s, n) ==
    /\ n >= 1 => f[1] = s[1]
    /\ \A i \in 1 .. n : i + 1 \in 1 .. n => f[i + 1] = f[i] \o s[i + 1]

Agree(f, g, k) == \A i \in 1 .. k : f[i] = g[i]

\* Sequences that are parts of others.
Together(s, t, u) == (s \o t) \o u = s \o (t \o u)
Joins(s, t, u) == s = t \o u
Joined(s, t, u, b) ==
    /\ Len(s) = Len(t) + Len(u) /\ Len(t) \in Nat /\ Len(u) \in Nat
    /\ Numbered(s, b) <=> Numbered(t, b) /\ Numbered(u, b + Len(t))

\* The types of the fields of a connection.
FieldTypes(c, S, R) ==
    /\ c.queue \in Seq(Seq(S) \ {<<>>}) /\ c.flight \in Seq(Item(S))
    /\ c.held \in Int /\ c.next \in Nat /\ c.last \in Int
    /\ c.inbox \in Seq(R) /\ c.window \in Int
    /\ c.closed \in {"no", "graceful", "aborted"}
    /\ c.sendClosed \in BOOLEAN /\ c.recvClosed \in BOOLEAN
    /\ c.finPending \in BOOLEAN /\ c.finReceived \in BOOLEAN
    /\ c.sending \in BOOLEAN /\ c.stalled \in BOOLEAN /\ c.holed \in BOOLEAN

SameReceiver(p, q) ==
    q.inbox = p.inbox /\ q.closed = p.closed /\ q.recvClosed = p.recvClosed
    /\ q.finReceived = p.finReceived

SameQueue(c, d) ==
    d.queue = c.queue /\ d.finPending = c.finPending /\ d.sendClosed = c.sendClosed

SameSender(c, d) ==
    /\ Data(d.flight) = Data(c.flight) /\ SameQueue(c, d)
    /\ d.window = c.window /\ d.closed = c.closed /\ (~d.holed => ~c.holed)

\* d is c after bytes went from its queue to its flight, or a FIN did, or it was
\* closed.
Moved(c, d) ==
    /\ Way(d) = Way(c) /\ d.window = c.window /\ d.holed = c.holed
    /\ (c.closed = "aborted" => d.closed = "aborted")

\* q is p, which has nothing unread, after it was closed.
Stopped(p, q) ==
    /\ p.inbox = <<>> /\ q.inbox = <<>> /\ q.finReceived = p.finReceived
    /\ (Reads(q) => Reads(p))

\* c with the bytes x behind its queue.
Writes(c, d, x) ==
    /\ d.queue = Append(c.queue, x) /\ d.flight = c.flight /\ d.window = c.window + Len(x)
    /\ d.closed = c.closed /\ d.sendClosed = c.sendClosed /\ d.finPending = c.finPending
    /\ d.holed = c.holed

\* The rest of a sequence.
Behead(q, r, n) ==
    /\ Len(q) \in Nat /\ DOMAIN q = 1 .. Len(q)
    /\ Len(r) = Len(q) - n /\ DOMAIN r = 1 .. (Len(q) - n)
    /\ \A i \in DOMAIN r : r[i] = q[n + i] /\ n + i \in DOMAIN q

\* The end p becomes r when n bytes of its inbox are read, and c, which sent
\* them, becomes d.
ReadBy(c, d, p, r, n) ==
    /\ r.inbox = SubSeq(p.inbox, n + 1, Len(p.inbox))
    /\ r.closed = p.closed /\ r.recvClosed = p.recvClosed /\ r.finReceived = p.finReceived
    /\ d.window = c.window - n
    /\ d.flight = c.flight /\ SameQueue(c, d) /\ d.closed = c.closed /\ d.holed = c.holed

\* d is c after it dropped its queue.
DropsQueue(c, d) ==
    /\ d.queue = <<>> /\ d.sendClosed = TRUE /\ d.finPending = c.finPending
    /\ d.window = c.window - Queued(c)
    /\ d.flight = c.flight /\ d.closed = c.closed /\ d.holed = c.holed

\* c becomes d when p, which becomes r, drops what it has unread.
DropsInbox(c, d, p, r) ==
    /\ r.inbox = <<>> /\ ~Reads(r) /\ r.finReceived = p.finReceived
    /\ d.window = c.window - Len(p.inbox)
    /\ d.flight = c.flight /\ SameQueue(c, d) /\ d.closed = c.closed /\ d.holed = c.holed

\* What a random close leaves of the end whose sides it shuts, and of its peer.
ShutFor(c, send) == IF send THEN [Discarded(c) EXCEPT !.sendClosed = TRUE] ELSE c
Unread(p, recv) == IF recv THEN Len(p.inbox) ELSE 0
ShutSender(c, p, send, recv) == [ShutFor(c, send) EXCEPT !.window = @ - Unread(p, recv)]
ShutReceiver(p, recv) == [p EXCEPT !.recvClosed = @ \/ recv, !.inbox = IF recv THEN <<>> ELSE @]

\* The chunks z at the head of the flight of c land.
Flown(c, d, z) ==
    /\ Data(c.flight) = z \o Data(d.flight) /\ Joins(Way(c), FlattenSeq(z), Way(d))
    /\ SameQueue(c, d) /\ d.closed = c.closed /\ d.holed = c.holed

\* The bytes of z are the first part of what was under way from c.
Parts(c, d, z) ==
    /\ Len(Way(c)) = Len(FlattenSeq(z)) + Len(Way(d))
    /\ Len(FlattenSeq(z)) \in Nat /\ Len(Way(d)) \in Nat
    /\ \A b \in Int : Joined(Way(c), FlattenSeq(z), Way(d), b)

\* What is said of the FIN among chunks z and others, y, behind them.
Heads(z, y) ==
    /\ FinLast(z \o y) => FinLast(y)
    /\ Clean(z \o y) => Clean(y) /\ Clean(z)
    /\ FinLast(z \o y) /\ ~Clean(z) => y = <<>>
    /\ z \o y = <<>> => y = <<>> /\ z = <<>>

\* p becomes q when the chunks z land: their FIN does.
Told(p, q, z) ==
    /\ q.closed = p.closed /\ q.recvClosed = p.recvClosed
    /\ q.finReceived => p.finReceived \/ ~Clean(z)

\* A reset of the direction in which c, now d, sends to p, now r.
Resets(c, d, p, r) ==
    /\ d.queue = <<>> /\ d.flight = <<>> /\ d.closed = "aborted"
    /\ d.sendClosed = TRUE /\ d.finPending = FALSE
    /\ d.window = c.window - Queued(c) - Flying(c) - Len(p.inbox)
    /\ r.inbox = <<>> /\ r.closed = "aborted"

\* What a reset leaves of an end, with k bytes in its window.
Cleared(c, k) ==
    [c EXCEPT !.closed = "aborted", !.sendClosed = TRUE, !.recvClosed = TRUE,
              !.sending = FALSE, !.stalled = FALSE, !.finPending = FALSE,
              !.queue = <<>>, !.flight = <<>>, !.held = None, !.inbox = <<>>, !.window = k]

Emptied(d, k) ==
    /\ d.closed = "aborted" /\ d.sendClosed = TRUE /\ d.finPending = FALSE
    /\ d.queue = <<>> /\ d.flight = <<>> /\ d.inbox = <<>> /\ d.window = k

\* d is c with data behind its flight.
PutGone(c, d, data, S, R) ==
    /\ d \in Conn(S, R) /\ Data(d.flight) = Append(Data(c.flight), data)
    /\ Joins(Fly(d), Fly(c), data)
    /\ SameReceiver(c, d) /\ SameQueue(c, d) /\ d.window = c.window /\ d.holed = c.holed

\* d is c after its FIN was put in flight, or after it was told to wait for the
\* queue.
FinSent(c, d) ==
    /\ Data(d.flight) = Append(Data(c.flight), <<>>) /\ Joins(Fly(d), Fly(c), <<>>)
    /\ c.queue = <<>> /\ d.finPending = FALSE
FinWaits(c, d) == Data(d.flight) = Data(c.flight) /\ d.finPending = TRUE

\* d is c, whose send side is shut, and its FIN is on its way.
Closing(c, d) ==
    /\ d.queue = c.queue /\ d.sendClosed = TRUE /\ d.closed # "aborted"
    /\ d.window = c.window /\ d.holed = c.holed
    /\ FinSent(c, d) \/ FinWaits(c, d)

FinGone(c, f, S, R) ==
    /\ f \in Conn(S, R) /\ SameReceiver(c, f)
    /\ f.queue = c.queue /\ f.window = c.window /\ f.holed = c.holed
    /\ ~c.finPending => FinSent(c, f) \/ FinWaits(c, f)

\* c after n bytes of its first chunk were put in flight.
Sent(c, e, n, delay) ==
    Put([c EXCEPT !.queue = Rest(c.queue, n)], e, SubSeq(Head(c.queue), 1, n), delay)

\* d is c after a part of its queue was put in flight.
ChunkGone(c, d, data, S, R) ==
    /\ d \in Conn(S, R) /\ Data(d.flight) = Append(Data(c.flight), data)
    /\ data \in Seq(S) \ {<<>>} /\ Moved(c, d)
    /\ SameReceiver(c, d) /\ d.sendClosed = c.sendClosed /\ d.finPending = c.finPending

\* What the invariant says of an end e and its peer p.
Pair(e, p) ==
    /\ e \in Ends /\ p \in Ends /\ p # e /\ Peer(p) = e /\ Peer(e) = p /\ \A x \in Ends : x = e \/ x = p
    /\ conn = [x \in Ends |-> conn[x]]
    /\ conn[e] \in Conn(Bytes(e), Bytes(p)) /\ conn[p] \in Conn(Bytes(p), Bytes(e))
    /\ conn[e].inbox \in Seq(Bytes(p)) /\ conn[p].inbox \in Seq(Bytes(e))
    /\ Direction(conn[e], conn[p], written[e], got[e], vanished[e], e \in broken)
    /\ Direction(conn[p], conn[e], written[p], got[p], vanished[p], p \in broken)
    /\ written[e] \in Nat /\ got[e] \in Nat /\ vanished[e] \in Nat
    /\ written[p] \in Nat /\ got[p] \in Nat /\ vanished[p] \in Nat

\* A step leaves the ends d and q.
Leaves(e, d, p, q) == conn' = [x \in Ends |-> conn'[x]] /\ conn'[e] = d /\ conn'[p] = q

\* A step changes the connections only.
SameHistory == written' = written /\ got' = got /\ vanished' = vanished /\ broken' = broken

\* d is c, but for what the schedule of its flight and its queue is about.
Quiet(c, d, S, R) == d \in Conn(S, R) /\ SameSender(c, d) /\ SameReceiver(c, d)

\* The tasks, the faults and the events stay what they may be.
Orderly ==
    /\ world' = world /\ faults' \in 0 .. world.faults
    /\ reader' \in [Ends -> ReaderStates] /\ writer' \in [Ends -> WriterStates]
    /\ Addressed(events')

=============================================================================
