----------------------------- MODULE JournalLog -----------------------------
(***************************************************************************)
(* The log of a journal inside one segment: committing a batch (the write  *)
(* protocol of journal.rs) and opening the log again (the scan of          *)
(* recover.rs and the repairs of Journal::open).                           *)
(*                                                                         *)
(* A segment holds a persist log, one block of records per batch, and an   *)
(* entry log.  A record (its sector) and an entry (its blocks) each tear   *)
(* on their own, so each is a unit of the file.  Batches never repeat a    *)
(* number, so a write is known by its batch and its index in it, which     *)
(* stand for its position, id and payload.  Rolling to another segment is  *)
(* module Segments; the metainfo is written atomically, which module       *)
(* MetaFile shows.                                                         *)
(***************************************************************************)
EXTENDS Naturals, Sequences, FiniteSets, SequencesExt, Blocks

CONSTANTS
    Slots,          \* persist-log blocks of the segment: a batch each
    Room,           \* entry-log blocks of the segment: an entry each
    MaxCount,       \* bound: the writes of a batch
    Worlds          \* the settings the log may run in, one per behaviour

\* A setting: the durabilities an open may be configured with, what a batch may
\* be, how many units may rot or fail one open's reads, whether the segment was
\* a spare that held other batches, and whether a failed sync may strand its
\* units (fsyncgate).  Its bound is the last open generation.
ASSUME JournalLogAssumption ==
    /\ {Slots, Room, MaxCount} \subseteq Nat
    /\ \A w \in Worlds :
        /\ w.modes \subseteq {"ordered", "batched"}
        /\ \A s \in w.shapes : s \in Seq({"put", "clear"}) /\ Len(s) \in 1 .. MaxCount
        /\ {w.faults, w.opens} \subseteq Nat
        /\ {w.recycled, w.writeback} \subseteq BOOLEAN

VARIABLES
    world,      \* the setting this behaviour runs in
    file,       \* the units of the segment file
    meta,       \* the journal's own fields of the durable metainfo
    pc,         \* what the journal is doing
    mem,        \* what it knows in memory
    batch,      \* the batch it is committing
    index,      \* the writes it locates
    kept,       \* the records an open will write again, in order
    written,    \* history: every write of a batch that was begun
    acked,      \* history: the writes a commit returned with
    reported,   \* history: the writes of its last batch an open returned with
    gone,       \* history: the writes an open did not find
    misled,     \* history: an open took stranded units for durable ones
    faults        \* history: how many units rotted or were not read

vars == <<world, file, meta, pc, mem, batch, index, kept, written, acked, reported, gone, misled, faults>>

RecordUnit(s, i) == <<s, i>>
EntryUnit(e) == <<0, e>>
RecordUnits == (1 .. Slots) \X (1 .. MaxCount)
EntryUnits == {0} \X (1 .. Room)
Units == RecordUnits \cup EntryUnits
Logs == {RecordUnits, EntryUnits}

\* Batch numbers carry the open generation in their high bits.
Width == 2 * Slots + 1
GenerationOf(b) == b \div Width
FirstBatchOf(g) == g * Width + 1

\* The segment's header: its first batch, and the last batch before it.  A
\* recycled file still holds the batches 1 .. Slots of the first generation.
PrevBatch == IF world.recycled THEN FirstBatchOf(1) + Slots - 1 ELSE 0
FirstBatch == IF world.recycled THEN PrevBatch + 1 ELSE FirstBatchOf(1)

RecordOf(seq, shape, i, room, mode) ==
    [batch |-> seq, index |-> i, count |-> Len(shape), kind |-> shape[i],
     at |-> room + i - 1, ordered |-> mode = "ordered"]

EntryOf(seq, shape, i, mode) ==
    [batch |-> seq, index |-> i, count |-> Len(shape), kind |-> shape[i],
     ordered |-> mode = "ordered"]

Void(seq, i, count) ==
    [batch |-> seq, index |-> i, count |-> count, kind |-> "void", at |-> 0,
     ordered |-> FALSE]

\* The record an intact entry stands for.
Rebuild(e, at) ==
    [batch |-> e.batch, index |-> e.index, count |-> e.count, kind |-> e.kind,
     at |-> at, ordered |-> e.ordered]

Matches(r, e) == e # Damaged /\ Rebuild(e, r.at) = r

WriteIds == Nat \X (1 .. MaxCount)
IdOf(x) == <<x.batch, x.index>>
Ids(located) == {IdOf(x) : x \in located}

----------------------------------------------------------------------------
(* Opening's scan, pass 1: the batches of the persist log, slot by slot.   *)

\* What reads return when the medium fails to read some units: zeros there.
Reading(unread) == [u \in Units |-> IF u \in unread THEN Damaged ELSE file[u].cache]

\* Mutant: what an open declared absent is not told apart.
IsStaleNever(m, b) == FALSE

\* Declared absent by an open: beyond its last batch, from before it.
IsStale(m, b) == GenerationOf(b) < m.generation /\ b > m.last

\* Or older than the segment: a recycled file's old batch.
IsStaleIn(m, b) == b < FirstBatch \/ IsStale(m, b)

RecordAt(v, m, s, i) ==
    LET r == v[RecordUnit(s, i)]
    IN  IF r # Damaged /\ ~IsStaleIn(m, r.batch) THEN r ELSE Damaged

EntryAt(v, e) == IF e \in 1 .. Room THEN v[EntryUnit(e)] ELSE Damaged

\* The first of some record units; <<0, 0>> when there is none.
FirstOf(valid) ==
    IF valid = {} THEN <<0, 0>>
    ELSE CHOOSE u \in valid :
            \A w \in valid : u[1] < w[1] \/ (u[1] = w[1] /\ u[2] <= w[2])

\* The first valid record at or after slot s.
FirstValid(v, m, s) ==
    FirstOf({u \in RecordUnits : u[1] >= s /\ RecordAt(v, m, u[1], u[2]) # Damaged})

\* The batch at slot s, where u is the first valid record and r what it holds,
\* and e is the first entry: from the record if it belongs there, else from the
\* entry; nothing while something valid follows is a lost batch.
JudgeSlot(m, s, last, u, r, e) ==
    LET ByRecord == u[1] = s /\ u[2] = r.index
        ByEntry == /\ e # Damaged
                   /\ e.index = 1
                   /\ e.batch > last
                   /\ e.batch >= FirstBatch
                   /\ ~IsStale(m, e.batch)
        Found(x) == [is |-> "batch", seq |-> x.batch, count |-> x.count]
        Not(what) == [is |-> what, seq |-> 0, count |-> 0]
    IN  IF ByRecord
        THEN IF r.batch <= last THEN Not("lost") ELSE Found(r)
        ELSE IF ByEntry THEN Found(e)
        ELSE IF u = <<0, 0>> THEN Not("end") ELSE Not("lost")

BatchAt(v, m, s, room, last) ==
    LET u == FirstValid(v, m, s)
    IN  JudgeSlot(m, s, last, u, IF u[1] = s THEN v[u] ELSE Damaged, EntryAt(v, room))

\* Mutant: a damaged record is not rebuilt from its entry.
FoundByRecord(v, m, s, room, seq, count) ==
    [found |-> [i \in 1 .. count |->
                 LET r == RecordAt(v, m, s, i) IN
                 IF r # Damaged /\ r.batch = seq /\ r.index = i /\ r.count = count
                 THEN [how |-> "record", record |-> r]
                 ELSE [how |-> "lost", record |-> Void(seq, i, count)]],
     walk |-> 0, end |-> room + count]

\* Mutant: the entries of a batch are not counted in.
FoundWithoutEnd(v, m, s, room, seq, count) ==
    [FoundByRecord(v, m, s, room, seq, count) EXCEPT !.end = room]

\* How record i of batch seq is found: r is the record in its place, and e the
\* entry the walk has reached, at walk.
FindRecord(r, e, walk, seq, i, count) ==
    IF r # Damaged /\ r.batch = seq /\ r.index = i /\ r.count = count
    THEN [how |-> "record", record |-> r]
    ELSE IF e # Damaged /\ e.batch = seq /\ e.index = i /\ e.count = count
    THEN [how |-> "rebuilt", record |-> Rebuild(e, walk)]
    ELSE [how |-> "lost", record |-> Void(seq, i, count)]

\* The walk goes on after a record that has an entry.
AddFound(acc, here) ==
    IF here.record.kind = "void"
    THEN [acc EXCEPT !.found = Append(@, here), !.walk = 0]
    ELSE [found |-> Append(acc.found, here), walk |-> here.record.at + 1,
          end |-> Max({acc.end, here.record.at + 1})]

\* The records of the batch at slot s, a damaged one rebuilt by walking the
\* entries from room on; and where the entries of the batch end.
FoundAt(v, m, s, room, seq, count) ==
    FoldLeft(LAMBDA acc, i :
                AddFound(acc, FindRecord(RecordAt(v, m, s, i), EntryAt(v, acc.walk),
                                         acc.walk, seq, i, count)),
             [found |-> <<>>, walk |-> room, end |-> room],
             [i \in 1 .. count |-> i])

AddBatch(acc, s, seq, in) ==
    [is |-> "batch", slot |-> s + 1, room |-> in.end, last |-> seq,
     batches |-> Append(acc.batches, in.found)]

ScanSlot(v, m, acc, s, at) ==
    IF at.is # "batch" THEN [acc EXCEPT !.is = at.is]
    ELSE AddBatch(acc, s, at.seq, FoundAt(v, m, s, acc.room, at.seq, at.count))

ScanSegment(v, m) ==
    FoldLeft(LAMBDA acc, s :
                IF acc.is # "batch" THEN acc
                ELSE ScanSlot(v, m, acc, s, BatchAt(v, m, s, acc.room, acc.last)),
             [is |-> "batch", slot |-> 1, room |-> 1, last |-> PrevBatch, batches |-> <<>>],
             [s \in 1 .. Slots |-> s])

----------------------------------------------------------------------------
(* Pass 2: the verdict on every record.                                    *)

\* A damaged entry beside a valid record in the last batch is corruption if
\* the record proves its entry was synced, else it is ambiguous.
StateOf(v, found, isLast) ==
    IF /\ isLast
       /\ found.how = "record"
       /\ found.record.kind = "put"
       /\ ~Matches(found.record, EntryAt(v, found.record.at))
    THEN IF found.record.ordered THEN "corrupt" ELSE "ambiguous"
    ELSE "live"

LocatedIn(v, found, isLast) ==
    {[batch |-> f.record.batch, index |-> f.record.index, kind |-> f.record.kind,
      count |-> f.record.count, at |-> f.record.at, ordered |-> f.record.ordered,
      state |-> StateOf(v, f, isLast)] :
     f \in {g \in ToSet(found) : g.record.kind # "void"}}

HasLost(found) == \E f \in ToSet(found) : f.how = "lost"
HasDamage(found) == \E f \in ToSet(found) : f.how # "record"

\* The verdict on a scanned segment s: refused, or what an open locates and must
\* rewrite.
Judge(v, m, s, n) ==
    [verdict |->
        IF s.is = "lost" THEN "lost"
        ELSE IF \E b \in 1 .. n - 1 : HasLost(s.batches[b]) THEN "double"
        ELSE IF s.last < m.batch THEN "lost"
        ELSE "sound",
     slot |-> s.slot, room |-> s.room, last |-> s.last,
     index |-> UNION {LocatedIn(v, s.batches[b], b = n) : b \in 1 .. n},
     kept |-> IF n > 0 /\ HasDamage(s.batches[n])
              THEN [i \in 1 .. Len(s.batches[n]) |-> s.batches[n][i].record]
              ELSE <<>>]

\* Opening with the metainfo m.
Scan(v, m) == LET s == ScanSegment(v, m) IN Judge(v, m, s, Len(s.batches))

----------------------------------------------------------------------------
(* The journal.                                                            *)

Down == pc \in {"down", "lost", "double"}

\* The journal is open, or commits: it answers from its index.
Serving == pc \in {"open", "entries", "records", "metainfo"}

\* Whatever was in memory is dropped.
Forget ==
    /\ mem' = [generation |-> 0, mode |-> "none", last |-> 0, slot |-> 0, room |-> 0]
    /\ batch' = [seq |-> 0, shape |-> <<>>, meta |-> "no", syncs |-> 0]
    /\ index' = {}
    /\ kept' = <<>>

\* What a recycled file still holds: a batch of one entry in every slot.
OldContent(u) ==
    LET seq == FirstBatchOf(1) + (IF u[1] > 0 THEN u[1] ELSE u[2]) - 1 IN
    IF u[1] > 0 /\ u[2] = 1 THEN RecordOf(seq, <<"put">>, 1, u[1], "ordered")
    ELSE IF u[1] = 0 /\ u[2] <= Slots THEN EntryOf(seq, <<"put">>, 1, "ordered")
    ELSE Damaged

\* The segment was just rolled to, by an open of the first generation.
Init ==
    /\ world \in Worlds
    /\ file = [u \in Units |-> Rest(IF world.recycled THEN OldContent(u) ELSE Damaged)]
    /\ meta = [generation |-> 1, last |-> 0, batch |-> 0]
    /\ pc = "open"
    /\ \E mode \in world.modes :
        mem = [generation |-> 1, mode |-> mode, last |-> PrevBatch, slot |-> 1, room |-> 1]
    /\ batch = [seq |-> 0, shape |-> <<>>, meta |-> "no", syncs |-> 0]
    /\ index = {}
    /\ kept = <<>>
    /\ written = {} /\ acked = {} /\ reported = {} /\ gone = {}
    /\ misled = FALSE
    /\ faults = 0

----------------------------------------------------------------------------
(* Journal::open.                                                          *)

\* A read error lasts for this open only.
OpenScan(unread) ==
    /\ Down
    /\ faults + Cardinality(unread) <= world.faults
    /\ faults' = faults + Cardinality(unread)
    /\ \E scan \in {Scan(Reading(unread), meta)} :
        \/ /\ scan.verdict # "sound"
           /\ pc' = scan.verdict
           /\ Forget
        \/ /\ scan.verdict = "sound"
           /\ \E mode \in world.modes :
                mem' = [generation |-> meta.generation, mode |-> mode,
                        last |-> scan.last, slot |-> scan.slot, room |-> scan.room]
           /\ index' = scan.index
           /\ kept' = scan.kept
           /\ pc' = IF scan.kept = <<>> THEN "sync" ELSE "rewrite"
           /\ UNCHANGED batch
    /\ UNCHANGED <<file, meta, written, acked, reported, gone, misled>>

\* The persist block of the last batch, rewritten: its records, then zeros.
KeptBlock ==
    [u \in {RecordUnit(mem.slot - 1, i) : i \in 1 .. MaxCount} |->
        IF u[2] <= Len(kept) THEN kept[u[2]] ELSE Damaged]

\* Some of what the scan found in these units is stranded: the sync of the open
\* succeeds and does not flush it.
Misleading(units) ==
    \E u \in units : /\ file[u].state = "stranded"
                      /\ file[u].cache # Damaged
                      /\ file[u].cache.batch <= mem.last
                      /\ ~IsStaleIn(meta, file[u].cache.batch)

\* Mutant: the rebuilt records are written before their entries are synced.
OpenRewriteFirst ==
    /\ pc = "rewrite"
    /\ file' = WriteUnits(file, KeptBlock)
    /\ pc' = "sync"
    /\ UNCHANGED <<meta, mem, batch, index, kept, written, acked, reported, gone, misled, faults>>

\* A rebuilt record's entry reaches the disk before the record is written.
OpenRewrite ==
    /\ pc = "rewrite"
    /\ file' = WriteUnits(SyncUnits(file, Units), KeptBlock)
    /\ misled' = (misled \/ Misleading(Units \ DOMAIN KeptBlock))
    /\ pc' = "sync"
    /\ UNCHANGED <<meta, mem, batch, index, kept, written, acked, reported, gone, faults>>

\* Mutant: what a predecessor left unsynced is kept as it is.
OpenWithoutSync ==
    /\ pc = "sync"
    /\ pc' = "begin"
    /\ UNCHANGED <<file, meta, mem, batch, index, kept, written, acked, reported, gone, misled, faults>>

OpenSync ==
    /\ pc = "sync"
    /\ file' = SyncUnits(file, Units)
    /\ misled' = (misled \/ Misleading(Units))
    /\ pc' = "begin"
    /\ UNCHANGED <<meta, mem, batch, index, kept, written, acked, reported, gone, faults>>

\* The metainfo of the generation this open begins.
NextGeneration ==
    [generation |-> meta.generation + 1, last |-> mem.last, batch |-> mem.last]

\* What was found is the log from now on; opening returns.
BeginGeneration ==
    /\ pc = "begin"
    /\ meta.generation < world.opens
    /\ meta' = NextGeneration
    /\ mem' = [mem EXCEPT !.generation = @ + 1]
    /\ kept' = <<>>
    /\ reported' = reported \cup Ids({x \in index : x.batch = mem.last /\ x.state = "live"})
    /\ gone' = gone \cup (written \ Ids(index))
    /\ pc' = "open"
    /\ UNCHANGED <<file, batch, index, written, acked, misled, faults>>

\* A sync or a metainfo write of the open fails: the caller opens again.
OpenFails ==
    /\ \/ /\ pc \in {"rewrite", "sync"}
          /\ file' \in FailedSyncs(file, Logs, world.writeback)
          /\ UNCHANGED meta
       \/ /\ pc = "begin"
          /\ meta.generation < world.opens
          /\ meta' \in {meta, NextGeneration}
          /\ UNCHANGED file
    /\ pc' = "down"
    /\ Forget
    /\ UNCHANGED <<written, acked, reported, gone, misled, faults>>

----------------------------------------------------------------------------
(* Journal::commit.                                                        *)

\* Mutant: off by one.
FitsLoosely(count) == mem.slot <= Slots + 1 /\ mem.room + count - 1 <= Room

Fits(count) == mem.slot <= Slots /\ mem.room + count - 1 <= Room

NextSeq ==
    IF GenerationOf(mem.last) = mem.generation THEN mem.last + 1
    ELSE FirstBatchOf(mem.generation)

BatchIds(b) == {b.seq} \X DOMAIN b.shape

BatchEntries(b) ==
    [u \in {EntryUnit(mem.room + i - 1) : i \in DOMAIN b.shape} |->
        EntryOf(b.seq, b.shape, u[2] - mem.room + 1, mem.mode)]

BatchRecords(b) ==
    [u \in {RecordUnit(mem.slot, i) : i \in 1 .. MaxCount} |->
        IF u[2] \in DOMAIN b.shape
        THEN RecordOf(b.seq, b.shape, u[2], mem.room, mem.mode) ELSE Damaged]

\* The batch is prepared and its entries written, not yet durable.
Commit(shape, changes) ==
    /\ pc = "open"
    /\ Fits(Len(shape))
    /\ batch' = [seq |-> NextSeq, shape |-> shape, meta |-> changes, syncs |-> 1]
    /\ file' = WriteUnits(file, BatchEntries(batch'))
    /\ written' = written \cup BatchIds(batch')
    /\ pc' = "entries"
    /\ UNCHANGED <<meta, mem, index, kept, acked, reported, gone, misled, faults>>

\* Ordered: the entries are durable, alone, before the records are written.
WriteRecords ==
    /\ pc = "entries"
    /\ LET durable == IF mem.mode = "ordered" THEN DOMAIN BatchEntries(batch) ELSE {}
       IN  file' = WriteUnits(SyncUnits(file, durable), BatchRecords(batch))
    /\ pc' = "records"
    /\ UNCHANGED <<meta, mem, batch, index, kept, written, acked, reported, gone, misled, faults>>

\* Memory follows, and the commit returns.
Acknowledge ==
    /\ index' = {[x EXCEPT !.state = IF @ = "ambiguous" THEN "corrupt" ELSE @] : x \in index}
                \cup LocatedIn(Reading({}), [i \in DOMAIN batch.shape |->
                        [how |-> "record",
                         record |-> RecordOf(batch.seq, batch.shape, i, mem.room, mem.mode)]],
                        FALSE)
    /\ mem' = [mem EXCEPT !.last = batch.seq, !.slot = @ + 1,
                          !.room = @ + Len(batch.shape)]
    /\ acked' = acked \cup BatchIds(batch)
    /\ pc' = "open"

\* Ordered: the records are durable.  Batched: one sync covers both logs.
SyncBatch ==
    /\ pc = "records"
    /\ file' = SyncUnits(file, IF mem.mode = "ordered" THEN DOMAIN BatchRecords(batch)
                               ELSE Units)
    /\ \/ batch.meta = "no" /\ Acknowledge
       \/ batch.meta = "yes" /\ pc' = "metainfo" /\ UNCHANGED <<index, mem, acked>>
    /\ UNCHANGED <<meta, batch, kept, written, reported, gone, misled, faults>>

\* Mutant: the sync is tried again, the batch not written again.
RetrySyncAlone ==
    /\ pc = "records"
    /\ mem.mode = "batched"
    /\ batch.syncs < 3
    /\ file' \in FailedSyncs(file, Logs, world.writeback)
    /\ batch' = [batch EXCEPT !.syncs = @ + 1]
    /\ UNCHANGED <<meta, pc, mem, index, kept, written, acked, reported, gone, misled, faults>>

\* A batched sync failed: the batch is written again before the next try.
RetrySync ==
    /\ pc = "records"
    /\ mem.mode = "batched"
    /\ batch.syncs < 3
    /\ \E after \in FailedSyncs(file, Logs, world.writeback) :
        file' = WriteUnits(WriteUnits(after, BatchEntries(batch)), BatchRecords(batch))
    /\ batch' = [batch EXCEPT !.syncs = @ + 1]
    /\ UNCHANGED <<meta, pc, mem, index, kept, written, acked, reported, gone, misled, faults>>

\* The metainfo names the batch before the one it was committed with.
NextMeta == [meta EXCEPT !.batch = mem.last]

UpdateMeta ==
    /\ pc = "metainfo"
    /\ meta' = NextMeta
    /\ Acknowledge
    /\ UNCHANGED <<file, batch, kept, written, reported, gone, misled, faults>>

\* A write of the commit fails, and the journal is poisoned: the caller opens
\* it again.  Ordered: a durable write.  Batched: a write of either log, the
\* first or a repeated one, or the last sync.
CommitFails ==
    /\ \/ /\ pc = "entries"
          /\ \/ file' \in FailFiles(file, DOMAIN BatchEntries(batch),
                                    world.writeback /\ mem.mode = "ordered")
             \/ /\ mem.mode = "batched"
                /\ file' \in FailedWrites(file, BatchRecords(batch))
          /\ UNCHANGED meta
       \/ /\ pc = "records"
          /\ mem.mode = "ordered"
          /\ file' \in FailFiles(file, DOMAIN BatchRecords(batch), world.writeback)
          /\ UNCHANGED meta
       \/ /\ pc = "records"
          /\ mem.mode = "batched"
          /\ \E after \in FailedSyncs(file, Logs, world.writeback) :
                IF batch.syncs = 3 THEN file' = after
                ELSE file' \in FailedWrites(after, BatchEntries(batch))
                               \cup FailedWrites(WriteUnits(after, BatchEntries(batch)),
                                                BatchRecords(batch))
          /\ UNCHANGED meta
       \/ /\ pc = "metainfo"
          /\ meta' \in {meta, NextMeta}
          /\ UNCHANGED file
    /\ pc' = "down"
    /\ Forget
    /\ UNCHANGED <<written, acked, reported, gone, misled, faults>>

----------------------------------------------------------------------------
(* What may go wrong.                                                      *)

\* The process dies and the machine does not, or it drops the journal.
Restart ==
    /\ ~Down
    /\ file' \in {file, [u \in Units |-> KeepCache(file[u])]}
    /\ pc' = "down"
    /\ Forget
    /\ UNCHANGED <<meta, written, acked, reported, gone, misled, faults>>

\* A power loss; an update of the metainfo in flight lands or does not.
PowerLoss ==
    /\ Down => Unsynced(file) # {}
    /\ file' \in CrashFiles(file)
    /\ meta' \in {meta} \cup (IF pc = "metainfo" THEN {NextMeta} ELSE {})
                        \cup (IF pc = "begin" /\ meta.generation < world.opens
                              THEN {NextGeneration} ELSE {})
    /\ pc' = "down"
    /\ Forget
    /\ UNCHANGED <<written, acked, reported, gone, misled, faults>>

\* A unit at rest faults.
RotUnit(u) ==
    /\ faults < world.faults
    /\ file[u].state = "clean"
    /\ file[u].disk # Damaged
    /\ file' = [file EXCEPT ![u] = Rest(Damaged)]
    /\ faults' = faults + 1
    /\ UNCHANGED <<meta, pc, mem, batch, index, kept, written, acked, reported, gone, misled>>

Step ==
    \/ \E unread \in {{}} \cup {{u} : u \in Units} : OpenScan(unread)
    \/ OpenRewrite \/ OpenSync \/ BeginGeneration \/ OpenFails
    \/ \E shape \in world.shapes, changes \in {"no", "yes"} : Commit(shape, changes)
    \/ WriteRecords \/ SyncBatch \/ RetrySync \/ UpdateMeta \/ CommitFails
    \/ Restart
    \/ PowerLoss
    \/ \E u \in Units : RotUnit(u)

Next == Step /\ UNCHANGED world

Spec == Init /\ [][Next]_vars

----------------------------------------------------------------------------
(* Properties.                                                             *)

Contents == [batch : Nat, index : 1 .. MaxCount, count : 1 .. MaxCount,
             kind : {"put", "clear", "void"}, at : 0 .. Room, ordered : BOOLEAN]
            \cup [batch : Nat, index : 1 .. MaxCount, count : 1 .. MaxCount,
                  kind : {"put", "clear"}, ordered : BOOLEAN]

TypeOK ==
    /\ \A u \in Units :
        /\ {file[u].disk, file[u].cache} \subseteq Contents \cup {Damaged}
        /\ file[u].state \in {"clean", "dirty", "stranded"}
    /\ meta \in [generation : 1 .. world.opens, last : Nat, batch : Nat]
    /\ pc \in {"down", "lost", "double", "rewrite", "sync", "begin", "open",
               "entries", "records", "metainfo"}
    /\ mem.slot \in 0 .. Slots + 1 /\ mem.room \in 0 .. Room + 1
    /\ written \cup acked \cup reported \cup gone \subseteq WriteIds
    /\ Ids(index) \subseteq written
    /\ misled \in BOOLEAN
    /\ faults \in 0 .. world.faults

\* A write the journal answers a read of with its bytes.
Readable(id) ==
    \E x \in index :
        /\ IdOf(x) = id
        /\ x.state = "live"
        /\ x.kind = "put" =>
             LET e == EntryAt(Reading({}), x.at) IN
                e # Damaged /\ <<e.batch, e.index>> = id

\* An open was refused: the log is not what the metainfo says it is.
Refused == pc \in {"lost", "double"}

\* Nothing rotted, and no open took stranded units for durable ones.
Sound == faults = 0 /\ ~misled

\* Nothing acknowledged is lost or damaged: what a commit returned with reads
\* back after every crash, restart, failed write and failed writeback that
\* follows, and no open is refused (write_protocol, sync_batch), until an open
\* takes stranded units for durable ones; even then nothing is lost without a
\* refusal.
AckedReadable ==
    /\ Sound => ~Refused
    /\ Serving /\ faults = 0 => \A id \in acked : Readable(id)

\* Everything opening reports is durable before it returns, unless its syncs
\* had stranded units to flush: what an open found in its last batch reads back
\* in every later one (Journal::open).
ReportedReadable == Serving /\ Sound => \A id \in reported : Readable(id)

\* Everything opening reports is durable before it returns, failed writebacks
\* included (the documentation of Journal::open): what an open found in its last
\* batch reads back in every later one, and none is refused for the loss of it.
ReportedDurable ==
    faults = 0 =>
      /\ pc = "lost" => \A id \in reported : id[1] # meta.batch
      /\ Serving => \A id \in reported : Readable(id)

\* Neither a crash nor a failed writeback is ever taken for corruption: no open
\* is refused, and no write of an ordered batch is reported corrupt or ambiguous
\* (recover::judge_batch).
CrashIsNotCorruption ==
    Sound =>
      /\ ~Refused
      /\ Serving => \A x \in index : x.ordered => x.state = "live"

\* What an open declared the end stays the end: a write an open did not find
\* is never found by a later one (Stale::is_stale, begin_generation).
GoneStaysGone == Serving => gone \cap Ids(index) = {}

\* No write touches a unit that holds something acknowledged.
AckedUntouched ==
    Sound => \A u \in Units :
        file[u].state # "clean" => file[u].disk = Damaged \/ IdOf(file[u].disk) \notin acked \cup reported

\* One rotted unit is never a silent loss: an acknowledged write is still
\* located, if only by its identity, or the open is refused.
NoSilentLoss == Serving /\ ~misled => acked \cup reported \subseteq Ids(index)

\* Whatever a commit returned with or an open reported reads back ever after,
\* and no later write touches its sectors (write_protocol, Journal::open).
StaysReadable == TypeOK /\ AckedReadable /\ ReportedReadable /\ AckedUntouched

=============================================================================
