------------------------------ MODULE Segments ------------------------------
(***************************************************************************)
(* The chain of segments of a journal: rolling to a new segment or onto    *)
(* the spare, retiring dead segments, and opening the chain again          *)
(* (journal.rs, segment.rs, spare.rs and the chain of recover.rs::scan).   *)
(*                                                                         *)
(* A directory has the names processes see and the names a power loss      *)
(* keeps; a rename or an unlink changes the first, a directory sync copies *)
(* them to the second, and each name that differs resolves on its own in a *)
(* power loss, so a rename may leave either name, both, or neither.        *)
(*                                                                         *)
(* A batch holds one write, a put or a clear of a range of positions, and  *)
(* may raise the floor.  It lands whole or not at all (module JournalLog), *)
(* and so does the metainfo (module MetaFile).  Sizes, the journal id and  *)
(* the temporary name a segment is created under are left out: a segment   *)
(* is renamed into place only once it is whole.                            *)
(***************************************************************************)
EXTENDS Naturals, Sequences, FiniteSets, SequencesExt, Blocks

CONSTANTS
    Positions,      \* the positions of the journal
    MaxFloor,       \* bound: the highest floor
    MaxBatches,     \* bound: the batches of one open generation
    MaxOpens,       \* bound: the last open generation
    Worlds          \* the settings the journal may run in, one per behaviour

\* A setting: the positions a batch may put, the ranges it may clear, and how
\* many batches a segment has room for; its bounds are the last open generation
\* and the header copies that rot.
ASSUME SegmentsAssumption ==
    /\ Positions \subseteq Nat \ {0}
    /\ IsFiniteSet(Positions)
    /\ {MaxFloor, MaxBatches, MaxOpens} \subseteq Nat
    /\ \A w \in Worlds :
        /\ w.puts \subseteq Positions
        /\ w.clears \subseteq Nat \X Nat
        /\ w.slots \in Nat \ {0}
        /\ w.opens \in 0 .. MaxOpens
        /\ w.rots \in Nat

VARIABLES
    world,      \* the setting this behaviour runs in
    visible,    \* the names of the directory and their files, as processes see them
    durable,    \* the same, as a power loss keeps them
    files,      \* what every file holds
    meta,       \* the journal's own fields of the durable metainfo
    pc,         \* what the journal is doing
    mem,        \* what it knows in memory
    index,      \* for every position, the batch it holds, or 0
    batch,      \* the batch it is committing
    rots        \* how many header copies rotted

vars == <<world, visible, durable, files, meta, pc, mem, index, batch, rots>>

Width == MaxBatches + 1
GenerationOf(b) == b \div Width
FirstBatchOf(g) == g * Width + 1

SegmentName(first) == <<"seg", first, 0>>
SpareName(generation, number) == <<"spare", generation, number>>
NoSpare == <<"none", 0, 0>>

\* Nothing, written where a write could be.
NoWrite == [kind |-> "none", from |-> 1, to |-> 0, floor |-> 0, seq |-> 0]

Copies == {1, 2}
Blank == [header |-> [c \in Copies |-> Damaged], slots |-> [i \in 1 .. world.slots |-> NoWrite]]
HeaderOf(first, prev) == [c \in Copies |-> [first |-> first, prev |-> prev]]

\* A file is never found by more names than there are batches: enough ids.
FileIds == 1 .. (MaxOpens * MaxBatches + 2)

NewFile(v, d) ==
    CHOOSE f \in FileIds :
        /\ f \notin Range(v) \cup Range(d)
        /\ \A g \in FileIds \ (Range(v) \cup Range(d)) : f <= g

\* A file no name reaches is gone.
Collect(fs, v, d) ==
    [f \in FileIds |-> IF f \in Range(v) \cup Range(d) THEN fs[f] ELSE Blank]

Unlink(v, names) == [n \in DOMAIN v \ names |-> v[n]]
Link(v, name, f) == [n \in DOMAIN v \cup {name} |-> IF n = name THEN f ELSE v[n]]
Rename(v, from, to) == Link(Unlink(v, {from}), to, v[from])

Spares == {n \in DOMAIN visible : n[1] = "spare"}
Firsts == {n[2] : n \in {m \in DOMAIN visible : m[1] = "seg"}}
FileOf(first) == files[visible[SegmentName(first)]]

----------------------------------------------------------------------------
(* The index and the live counts of the segments.                          *)

\* The open segment that holds a batch.
SegmentIndex(segs, seq) == Max({s \in DOMAIN segs : segs[s].first <= seq})

\* Mutant: the live counts keep what the index gives up.
ReleaseIndexOnly(at, gone) ==
    [at EXCEPT !.index = [p \in Positions |-> IF p \in gone THEN 0 ELSE at.index[p]]]

\* Give up some positions, and the live counts they held.
Release(at, gone) ==
    [index |-> [p \in Positions |-> IF p \in gone THEN 0 ELSE at.index[p]],
     segs |-> [s \in DOMAIN at.segs |->
        [at.segs[s] EXCEPT !.live =
            @ - Cardinality({p \in gone : /\ at.index[p] # 0
                                          /\ SegmentIndex(at.segs, at.index[p]) = s})]]]

ApplyWrite(at, w) ==
    LET released == Release(at, (w.from .. w.to) \cap Positions)
        new == SegmentIndex(at.segs, w.seq)
    IN  IF w.kind = "clear" THEN released
        ELSE [index |-> [released.index EXCEPT ![w.from] = w.seq],
              segs |-> [released.segs EXCEPT ![new].live = @ + 1]]

\* Mutant: the floor does not reach the index.
DropBelowFloorNever(at, floor) == at

DropBelowFloor(at, floor) == Release(at, {p \in Positions : p < floor})

----------------------------------------------------------------------------
(* What a scan of the chain finds (recover.rs).                            *)

IsStaleIn(m, first, seq) ==
    seq < first \/ (GenerationOf(seq) < m.generation /\ seq > m.openLast)

\* Mutant: the second header copy is never read.
HeaderInFirstCopy(first, file) ==
    LET h == file.header[1] IN IF h # Damaged /\ h.first = first THEN h ELSE Damaged

\* The header copy an open believes; Damaged when it refuses the segment.
HeaderIn(first, file) ==
    LET a == file.header[1]
        b == file.header[2]
        h == IF a = Damaged THEN b ELSE IF b \in {Damaged, a} THEN a ELSE Damaged
    IN  IF h # Damaged /\ h.first = first THEN h ELSE Damaged

\* The batches of one segment: its slots up to the first that holds none.
ScanSegment(acc, first, file) ==
    LET valid == {i \in 1 .. world.slots : ~IsStaleIn(meta, first, file.slots[i].seq)}
        used == Cardinality(valid)
        prev == HeaderIn(first, file).prev
        start == IF acc.segs = <<>> THEN prev ELSE acc.last
        found == [i \in 1 .. used |-> file.slots[i]]
        grows == \A i \in 1 .. used :
                    found[i].seq > (IF i = 1 THEN start ELSE found[i - 1].seq)
    IN  IF ~acc.ok \/ HeaderIn(first, file) = Damaged \/ prev # start \/ valid # 1 .. used \/ ~grows
        THEN [acc EXCEPT !.ok = FALSE]
        ELSE [ok |-> TRUE,
              last |-> IF used = 0 THEN start ELSE found[used].seq,
              writes |-> acc.writes \o found,
              segs |-> Append(acc.segs, [first |-> first, used |-> used, live |-> 0])]

Scan ==
    LET firsts == SetToSortSeq(Firsts, <)
    IN  FoldLeft(LAMBDA acc, first : ScanSegment(acc, first, FileOf(first)),
                 [ok |-> TRUE, last |-> 0, writes |-> <<>>, segs |-> <<>>], firsts)

\* The index an open builds: every write in order, then the floor.
Replayed(scan) ==
    DropBelowFloor(
        FoldLeft(ApplyWrite, [index |-> [p \in Positions |-> 0], segs |-> scan.segs],
                 scan.writes),
        meta.floor)
----------------------------------------------------------------------------
(* Opening.                                                                *)

NoMem == [segs |-> <<>>, spare |-> NoSpare, last |-> 0, named |-> 0]
Forget ==
    /\ mem' = NoMem
    /\ index' = [p \in Positions |-> 0]
    /\ batch' = NoWrite

Init ==
    /\ world \in Worlds
    /\ visible = <<>>
    /\ durable = <<>>
    /\ files = [f \in FileIds |-> Blank]
    /\ meta = [floor |-> 0, last |-> 0, generation |-> 0, openLast |-> 0]
    /\ pc = "down"
    /\ mem = NoMem
    /\ index = [p \in Positions |-> 0]
    /\ batch = NoWrite
    /\ rots = 0

\* Make the names of the directory durable.
SyncDir ==
    /\ durable' = visible
    /\ files' = Collect(files, visible, visible)
    /\ UNCHANGED visible

OpenList ==
    /\ pc = "down"
    /\ meta.generation < world.opens
    /\ SyncDir
    /\ pc' = "listed"
    /\ UNCHANGED <<meta, mem, index, batch, rots>>

\* Mutant: one header copy is believed.
AliasedByFirstCopy(name) ==
    LET h == files[visible[name]].header[1] IN h # Damaged /\ h.first \in Firsts

\* A second name of a live segment: a header copy names a segment listed.
Aliased(name) ==
    \E c \in Copies : LET h == files[visible[name]].header[c]
                       IN  h # Damaged /\ h.first \in Firsts

Before(m, n) == m[2] < n[2] \/ (m[2] = n[2] /\ m[3] < n[3])

\* Keep the first spare that is none, and delete the others.
KeepOneSpare ==
    /\ pc = "listed"
    /\ LET whole == {n \in Spares : ~Aliased(n)}
           kept == IF whole = {} THEN NoSpare
                   ELSE CHOOSE n \in whole : \A m \in whole \ {n} : Before(n, m)
       IN  /\ visible' = Unlink(visible, Spares \ {kept})
           /\ mem' = [mem EXCEPT !.spare = kept]
           /\ pc' = IF Spares \subseteq {kept} THEN "headers" ELSE "unlinked"
    /\ UNCHANGED <<durable, files, meta, index, batch, rots>>

SparesSync ==
    /\ pc = "unlinked"
    /\ SyncDir
    /\ pc' = "headers"
    /\ UNCHANGED <<meta, mem, index, batch, rots>>

\* Segment::open of every segment: a damaged header copy is written again
\* from its twin.
OpenSegments ==
    /\ pc = "headers"
    /\ IF \E first \in Firsts : HeaderIn(first, FileOf(first)) = Damaged
       THEN pc' = "bad" /\ UNCHANGED files
       ELSE /\ files' = [f \in FileIds |->
                   IF \E first \in Firsts : visible[SegmentName(first)] = f
                   THEN LET first == CHOOSE g \in Firsts : visible[SegmentName(g)] = f
                            h == HeaderIn(first, files[f])
                        IN  [files[f] EXCEPT !.header = [c \in Copies |-> h]]
                   ELSE files[f]]
            /\ pc' = "scan"
    /\ UNCHANGED <<visible, durable, meta, mem, index, batch, rots>>

\* The scan, then begin_generation and the replay.
OpenScan ==
    /\ pc = "scan"
    /\ LET scan == Scan
           replayed == Replayed(scan)
       IN  IF ~scan.ok \/ scan.last < meta.last
           THEN pc' = "lost" /\ UNCHANGED <<meta, mem, index>>
           ELSE /\ meta' = [meta EXCEPT !.last = scan.last, !.openLast = scan.last,
                                        !.generation = @ + 1]
                /\ mem' = [mem EXCEPT !.segs = replayed.segs, !.last = scan.last]
                /\ index' = replayed.index
                /\ pc' = "reap"
    /\ UNCHANGED <<visible, durable, files, batch, rots>>

----------------------------------------------------------------------------
(* Retiring dead segments, from the front: the end of an open and of a     *)
(* commit.                                                                 *)

Reap ==
    /\ pc = "reap"
    /\ IF Len(mem.segs) > 1 /\ mem.segs[1].live = 0
       THEN LET name == SegmentName(mem.segs[1].first) IN
            /\ visible' = IF mem.spare = NoSpare
                          THEN Rename(visible, name, SpareName(meta.generation, mem.named))
                          ELSE Unlink(visible, {name})
            /\ pc' = "reaping"
            /\ UNCHANGED batch
       ELSE /\ pc' = "open"
            /\ batch' = NoWrite
            /\ UNCHANGED visible
    /\ UNCHANGED <<durable, files, meta, mem, index, rots>>

ReapSync ==
    /\ pc = "reaping"
    /\ SyncDir
    /\ mem' = [mem EXCEPT !.segs = Tail(@),
                  !.spare = IF @ = NoSpare THEN SpareName(meta.generation, mem.named) ELSE @,
                  !.named = IF mem.spare = NoSpare THEN @ + 1 ELSE @]
    /\ pc' = "reap"
    /\ UNCHANGED <<meta, index, batch, rots>>

----------------------------------------------------------------------------
(* A commit: a segment for the batch, the batch, the metainfo, the memory. *)

NextSeq ==
    IF GenerationOf(mem.last) = meta.generation THEN mem.last + 1
    ELSE FirstBatchOf(meta.generation)

\* Mutant: off by one.
FitsLoosely == mem.segs # <<>> /\ mem.segs[Len(mem.segs)].used <= world.slots

Fits == mem.segs # <<>> /\ mem.segs[Len(mem.segs)].used < world.slots

Commit(kind, from, to, floor) ==
    /\ pc = "open"
    /\ kind = "put" => from >= floor
    /\ kind # "none" \/ floor # meta.floor
    /\ NextSeq < FirstBatchOf(meta.generation) + MaxBatches
    /\ batch' = [kind |-> kind, from |-> from, to |-> to, floor |-> floor, seq |-> NextSeq]
    /\ pc' = IF kind = "none" THEN "meta"
             ELSE IF Fits THEN "write"
             ELSE IF mem.spare # NoSpare THEN "adopt" ELSE "create"
    /\ UNCHANGED <<visible, durable, files, meta, mem, index, rots>>

\* Segment::adopt: the headers of the spare, durable, then its name.
AdoptHeaders ==
    /\ pc = "adopt"
    /\ files' = [files EXCEPT ![visible[mem.spare]].header = HeaderOf(batch.seq, mem.last)]
    /\ pc' = "renaming"
    /\ UNCHANGED <<visible, durable, meta, mem, index, batch, rots>>

\* The write of the headers fails, or a power loss tears it.
AdoptTorn ==
    /\ pc = "adopt"
    /\ \E torn \in [Copies -> {"old", "new", "damaged"}] :
        LET f == visible[mem.spare] IN
        files' = [files EXCEPT ![f].header =
                    [c \in Copies |->
                        CASE torn[c] = "old" -> files[f].header[c]
                          [] torn[c] = "new" -> HeaderOf(batch.seq, mem.last)[c]
                          [] torn[c] = "damaged" -> Damaged]]
    /\ pc' = "down"
    /\ Forget
    /\ UNCHANGED <<visible, durable, meta, rots>>

AdoptRename ==
    /\ pc = "renaming"
    /\ visible' = Rename(visible, mem.spare, SegmentName(batch.seq))
    /\ pc' = "rolled"
    /\ UNCHANGED <<durable, files, meta, mem, index, batch, rots>>

\* Segment::create: a whole file, renamed into place.
Create ==
    /\ pc = "create"
    /\ LET f == NewFile(visible, durable) IN
        /\ files' = [files EXCEPT ![f] = [Blank EXCEPT !.header = HeaderOf(batch.seq, mem.last)]]
        /\ visible' = Link(visible, SegmentName(batch.seq), f)
    /\ pc' = "rolled"
    /\ UNCHANGED <<durable, meta, mem, index, batch, rots>>

\* Mutant: the batch is written before the segment's name is durable.
RollWithoutSync ==
    /\ pc = "rolled"
    /\ mem' = [mem EXCEPT !.segs = Append(@, [first |-> batch.seq, used |-> 0, live |-> 0]),
                          !.spare = NoSpare]
    /\ pc' = "write"
    /\ UNCHANGED <<visible, durable, files, meta, index, batch, rots>>

RollSync ==
    /\ pc = "rolled"
    /\ SyncDir
    /\ mem' = [mem EXCEPT !.segs = Append(@, [first |-> batch.seq, used |-> 0, live |-> 0]),
                          !.spare = NoSpare]
    /\ pc' = "write"
    /\ UNCHANGED <<meta, index, batch, rots>>

Active == mem.segs[Len(mem.segs)]

WriteBatch ==
    /\ pc = "write"
    /\ files' = [files EXCEPT ![visible[SegmentName(Active.first)]].slots[Active.used + 1] = batch]
    /\ pc' = IF batch.floor = meta.floor THEN "apply" ELSE "meta"
    /\ UNCHANGED <<visible, durable, meta, mem, index, batch, rots>>

UpdateMeta ==
    /\ pc = "meta"
    /\ meta' = [meta EXCEPT !.floor = batch.floor, !.last = mem.last]
    /\ pc' = "apply"
    /\ UNCHANGED <<visible, durable, files, mem, index, batch, rots>>

\* Durable: now memory follows.
Apply ==
    /\ pc = "apply"
    /\ LET at == [index |-> index, segs |-> mem.segs]
           written == IF batch.kind = "none" THEN at
                      ELSE ApplyWrite([at EXCEPT !.segs[Len(mem.segs)].used = @ + 1], batch)
           dropped == DropBelowFloor(written, meta.floor)
       IN  /\ index' = dropped.index
           /\ mem' = [mem EXCEPT !.segs = dropped.segs,
                                 !.last = IF batch.kind = "none" THEN @ ELSE batch.seq]
    /\ pc' = "reap"
    /\ UNCHANGED <<visible, durable, files, meta, batch, rots>>

----------------------------------------------------------------------------
(* What may go wrong.                                                      *)

\* The process dies, or a step fails and poisons the journal: it is opened
\* again, and the names stay as they are.
Restart ==
    /\ pc # "down"
    /\ pc' = "down"
    /\ Forget
    /\ UNCHANGED <<visible, durable, files, meta, rots>>

\* A power loss: each name that is not synced is there, or is not, or is what
\* it was.
PowerLoss ==
    /\ LET names == DOMAIN visible \cup DOMAIN durable
           At(v, n) == IF n \in DOMAIN v THEN {v[n]} ELSE {}
           unsynced == {n \in names : At(visible, n) # At(durable, n)}
       IN  \E lost \in SUBSET unsynced :
            LET after(n) == IF n \in lost THEN At(durable, n) ELSE At(visible, n)
                v == [n \in {m \in names : after(m) # {}} |-> CHOOSE f \in after(n) : TRUE]
            IN  /\ visible' = v
                /\ durable' = v
                /\ files' = Collect(files, v, v)
    /\ pc' = "down"
    /\ Forget
    /\ UNCHANGED <<meta, rots>>

\* A header copy at rest rots.
RotHeader(f, c) ==
    /\ rots < world.rots
    /\ f \in Range(visible)
    /\ files' = [files EXCEPT ![f].header[c] = Damaged]
    /\ rots' = rots + 1
    /\ UNCHANGED <<visible, durable, meta, pc, mem, index, batch>>

Floors == meta.floor .. MaxFloor

Step ==
    \/ OpenList \/ KeepOneSpare \/ SparesSync \/ OpenSegments \/ OpenScan
    \/ Reap \/ ReapSync
    \/ \E p \in world.puts, floor \in Floors : Commit("put", p, p, floor)
    \/ \E r \in world.clears, floor \in Floors : Commit("clear", r[1], r[2], floor)
    \/ \E floor \in Floors : Commit("none", 1, 0, floor)
    \/ AdoptHeaders \/ AdoptTorn \/ AdoptRename \/ Create \/ RollSync
    \/ WriteBatch \/ UpdateMeta \/ Apply
    \/ Restart \/ PowerLoss
    \/ \E f \in FileIds, c \in Copies : RotHeader(f, c)

Next == Step /\ UNCHANGED world

Spec == Init /\ [][Next]_vars

----------------------------------------------------------------------------
(* Properties.                                                             *)

Writes ==
    [kind : {"none", "put", "clear"}, from : Nat, to : Nat, floor : Nat, seq : Nat]
Headers == [first : Nat, prev : Nat] \cup {Damaged}

TypeOK ==
    /\ \A v \in {visible, durable} :
        /\ \A n \in DOMAIN v : n[1] \in {"seg", "spare"}
        /\ Range(v) \subseteq FileIds
    /\ files \in [FileIds -> [header : [Copies -> Headers], slots : [1 .. world.slots -> Writes]]]
    /\ meta \in [floor : Nat, last : Nat, generation : 0 .. MaxOpens, openLast : Nat]
    /\ pc \in {"down", "listed", "unlinked", "headers", "scan", "bad", "lost", "reap",
              "reaping", "open", "adopt", "renaming", "create", "rolled", "write", "meta", "apply"}
    /\ \A s \in DOMAIN mem.segs : mem.segs[s] \in [first : Nat, used : 0 .. world.slots, live : Nat]
    /\ mem.last \in Nat /\ mem.named \in Nat
    /\ index \in [Positions -> Nat]
    /\ batch \in Writes
    /\ rots \in 0 .. world.rots

\* Crashes, failed steps and one rotted header copy never make an open refuse
\* the journal: no hole in the chain, no lost batch, no segment with a bad
\* header (remove_dead_segments retires from the front only, each unlink
\* durable before the next; Segment::adopt syncs the headers before the name).
ChainHolds == pc \notin {"lost", "bad"}

\* What the directory, as processes see it, says of every position: the last
\* write of it that is not stale, unless it is a clear or below the floor.
Recovered ==
    LET writes == UNION {{w \in Range(FileOf(first).slots) : ~IsStaleIn(meta, first, w.seq)} :
                            first \in Firsts}
        over(p) == {w \in writes : p \in w.from .. w.to}
    IN  [p \in Positions |->
            IF p < meta.floor \/ over(p) = {} THEN 0
            ELSE LET w == CHOOSE w \in over(p) : \A x \in over(p) : x.seq <= w.seq
                 IN  IF w.kind = "put" THEN w.seq ELSE 0]

\* What the journal serves is what the next open would recover
\* (Journal::apply follows the disk, and replaying the chain gives it again).
MemoryFollows == pc = "open" => index = Recovered

\* Every segment's live count is the number of positions whose batch it holds
\* (Journal::apply and release, assert_invariants).
LiveCovers ==
    pc = "open" =>
        \A s \in DOMAIN mem.segs :
            mem.segs[s].live = Cardinality({p \in Positions :
                index[p] # 0 /\ SegmentIndex(mem.segs, index[p]) = s})

\* A spare that is about to be written is the file of no segment, as processes
\* see the directory and as a power loss would bring it back (keep_one_spare,
\* remove_dead_segments).
SpareIsNoSegment ==
    pc \in {"adopt", "renaming"} =>
        \A v \in {visible, durable} :
            \A n \in DOMAIN v : n[1] = "seg" => v[n] # visible[mem.spare]

\* The files: the chain of segments opens after every crash and rotted header,
\* and no spare that is about to be written is one of them (remove_dead_segments,
\* keep_one_spare, Segment::adopt).
ChainSound == TypeOK /\ ChainHolds /\ SpareIsNoSegment

\* The memory: the index and the live counts are what the files would give back
\* (Journal::apply, release, drop_below_floor).
MemoryTrue == MemoryFollows /\ LiveCovers

\* How much of the commit in flight has landed, as DurableIndex counts it.
Stage ==
    IF pc = "open" THEN "idle"
    ELSE IF batch = NoWrite THEN "down"
    ELSE CASE pc \in {"adopt", "renaming", "create", "rolled", "write"} -> "begun"
           [] pc = "meta" -> IF batch.kind = "none" THEN "begun" ELSE "landed"
           [] pc \in {"apply", "reap", "reaping"} -> "done"

Promise == INSTANCE DurableIndex
    WITH entries <- Recovered, floor <- meta.floor, stage <- Stage, Batches <- Writes

\* The chain implements DurableIndex: whatever is rolled, recycled, retired,
\* crashed and opened again, the index recovery finds moves only when the
\* batch in flight lands and when its floor does, and a commit returns only
\* once both have.
KeepsPromise == Promise!Spec
=============================================================================
