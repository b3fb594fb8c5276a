------------------------------ MODULE MetaFile ------------------------------
(***************************************************************************)
(* The meta file of a journal (meta.rs): the metainfo in two checksummed   *)
(* copies, written one after the other, each durable before the next.      *)
(* The journal that owns it is the one caller: it opens the file, updates  *)
(* it, and after any error is poisoned until it opens the file again.      *)
(*                                                                         *)
(* A metainfo value is its sequence number and the bytes it carries; two   *)
(* updates may carry the same sequence number, when a crash lost the first *)
(* of them.                                                                *)
(***************************************************************************)
EXTENDS Naturals, Blocks

CONSTANTS
    Bytes,          \* what a metainfo value may carry
    MaxSeq          \* bound: the last sequence number written

ASSUME MetaFileAssumption ==
    /\ Damaged \notin [seq : Nat, bytes : Bytes]
    /\ MaxSeq \in Nat

VARIABLES
    name,       \* the meta name: absent, visible, or durable
    file,       \* the two copies
    pc,         \* what the journal is doing with the file
    meta,       \* the value the journal works on
    acked,      \* history: the last value an open or a commit returned with
    harm        \* history: whether a writeback was lost, or a block rotted

vars == <<name, file, pc, meta, acked, harm>>

Copy == {"A", "B"}
Meta == [seq : 0 .. MaxSeq, bytes : Bytes]

\* A failed writeback or rot, remembered; rot outranks a writeback.
Harmed(what) == harm' = IF harm = "rot" THEN harm ELSE what

\* No journal is open: an open that found the metainfo lost ended as well.
Down == pc \in {"down", "lost"}

\* The journal is inside the durable write of copy c.
Repairing(c) == IF c = "A" THEN "repairA" ELSE "repairB"
Updating(c) == IF c = "A" THEN "updateA" ELSE "updateB"

TypeOK ==
    /\ name \in {"absent", "visible", "durable"}
    /\ file \in [Copy -> BlockType(Meta)]
    /\ pc \in {"down", "lost", "renamed", "opened", "synced", "chosen", "ready",
              "repairA", "repairB", "updateA", "updateB"}
    /\ meta \in Meta
    /\ acked \in Meta
    /\ harm \in {"none", "writeback", "rot"}

Init ==
    /\ name = "absent"
    /\ \E b \in Bytes : meta = [seq |-> 0, bytes |-> b]
    /\ acked = meta
    /\ file = [c \in Copy |-> Rest(Damaged)]
    /\ pc = "down"
    /\ harm = "none"

----------------------------------------------------------------------------
(* Creation: both copies written and synced under a temporary name, which  *)
(* a rename and a directory sync publish.                                  *)

Create(b) ==
    /\ Down
    /\ name = "absent"
    /\ MaxSeq > 0
    /\ meta' = [seq |-> 1, bytes |-> b]
    /\ file' = [c \in Copy |-> Rest(meta')]
    /\ name' = "visible"
    /\ pc' = "renamed"
    /\ UNCHANGED <<acked, harm>>

CreateSyncDir ==
    /\ pc = "renamed"
    /\ name' = "durable"
    /\ pc' = "ready"
    /\ acked' = meta
    /\ UNCHANGED <<file, meta, harm>>

----------------------------------------------------------------------------
(* Opening: the journal syncs the names of its directory, then the meta    *)
(* file is synced, its current value chosen, and a stale copy rewritten.   *)

Open ==
    /\ Down
    /\ name # "absent"
    /\ name' = "durable"
    /\ pc' = "opened"
    /\ UNCHANGED <<file, meta, acked, harm>>

\* Mutant: a predecessor's unsynced copy is not flushed first.
OpenWithoutSync ==
    /\ pc = "opened"
    /\ pc' = "synced"
    /\ UNCHANGED <<name, file, meta, acked, harm>>

OpenSync ==
    /\ pc = "opened"
    /\ file' = [c \in Copy |-> Sync(file[c])]
    /\ pc' = "synced"
    /\ UNCHANGED <<name, meta, acked, harm>>

\* The first sync fails: the blocks stay dirty, or are stranded.
OpenSyncFails ==
    /\ pc = "opened"
    /\ \/ UNCHANGED <<file, harm>>
       \/ /\ file' = [c \in Copy |-> Strand(file[c])]
          /\ Harmed("writeback")
    /\ pc' = "down"
    /\ UNCHANGED <<name, meta, acked>>

\* What a read of both copies tells: the value and the copy that is stale
\* ("none" when they agree), or that the metainfo is lost.
Lost == [value |-> Damaged, stale |-> "none"]

Choose(a, b) ==
    IF a = Damaged /\ b = Damaged THEN Lost
    ELSE IF b = Damaged THEN [value |-> a, stale |-> "B"]
    ELSE IF a = Damaged THEN [value |-> b, stale |-> "A"]
    ELSE IF a = b THEN [value |-> a, stale |-> "none"]
    ELSE IF a.seq = b.seq THEN Lost
    ELSE IF a.seq > b.seq THEN [value |-> a, stale |-> "B"]
    ELSE [value |-> b, stale |-> "A"]

\* Mutant: copies that fail their checksums are taken for a metainfo.
OpenChooseUnchecked ==
    /\ pc = "synced"
    /\ meta' = Choose(file["A"].cache, file["B"].cache).value
    /\ pc' = "chosen"
    /\ UNCHANGED <<name, file, acked, harm>>

OpenChoose ==
    /\ pc = "synced"
    /\ LET chosen == Choose(file["A"].cache, file["B"].cache) IN
        \/ /\ chosen.value = Damaged
           /\ pc' = "lost"
           /\ UNCHANGED <<file, meta, acked>>
        \/ /\ chosen.value # Damaged
           /\ chosen.stale = "none"
           /\ meta' = chosen.value
           /\ pc' = "chosen"
           /\ UNCHANGED <<file, acked>>
        \/ /\ chosen.value # Damaged
           /\ chosen.stale \in Copy
           /\ meta' = chosen.value
           /\ file' = [file EXCEPT ![chosen.stale] = Write(@, chosen.value)]
           /\ pc' = Repairing(chosen.stale)
           /\ UNCHANGED acked
    /\ UNCHANGED <<name, harm>>

RepairSync(c) ==
    /\ pc = Repairing(c)
    /\ file' = [file EXCEPT ![c] = Sync(@)]
    /\ pc' = "chosen"
    /\ UNCHANGED <<name, meta, acked, harm>>

----------------------------------------------------------------------------
(* An update: copy A durable, then copy B durable.  Opening the journal    *)
(* ends with one (begin_generation), which keeps the bytes it found and    *)
(* syncs the file first; a commit or a change of the floor makes the rest. *)

\* The guard on the number is the model's bound.  The code refuses to begin a
\* generation beyond the last one; of the sequence number it checks nothing.
BeginGeneration ==
    /\ pc = "chosen"
    /\ meta.seq < MaxSeq
    /\ meta' = [meta EXCEPT !.seq = @ + 1]
    /\ file' = [A |-> Write(Sync(file["A"]), meta'), B |-> Sync(file["B"])]
    /\ pc' = Updating("A")
    /\ UNCHANGED <<name, acked, harm>>

UpdateWriteA(b) ==
    /\ pc = "ready"
    /\ meta.seq < MaxSeq
    /\ meta' = [seq |-> meta.seq + 1, bytes |-> b]
    /\ file' = [file EXCEPT !["A"] = Write(@, meta')]
    /\ pc' = Updating("A")
    /\ UNCHANGED <<name, acked, harm>>

\* Mutant: one copy is enough, as where copies alternate.
UpdateOneCopy ==
    /\ pc = Updating("A")
    /\ file' = [file EXCEPT !["A"] = Sync(@)]
    /\ acked' = meta
    /\ pc' = "ready"
    /\ UNCHANGED <<name, meta, harm>>

UpdateSyncA ==
    /\ pc = Updating("A")
    /\ file' = [file EXCEPT !["A"] = Sync(@), !["B"] = Write(@, meta)]
    /\ pc' = Updating("B")
    /\ UNCHANGED <<name, meta, acked, harm>>

UpdateSyncB ==
    /\ pc = Updating("B")
    /\ file' = [file EXCEPT !["B"] = Sync(@)]
    /\ acked' = meta
    /\ pc' = "ready"
    /\ UNCHANGED <<name, meta, harm>>

----------------------------------------------------------------------------
(* What may go wrong.                                                      *)

\* The durable write of copy c fails: the bytes landed or not, or landed in
\* part, and stay dirty or are stranded by the failed writeback.  The journal
\* is poisoned, and nothing is written until it opens the file again.
WriteFails(c) ==
    /\ pc \in {Repairing(c), Updating(c)}
    /\ \/ /\ file' \in {file, [file EXCEPT ![c] = Revert(@)],
                         [file EXCEPT ![c] = Write(@, Damaged)]}
          /\ UNCHANGED harm
       \/ /\ file' = [file EXCEPT ![c] = Strand(@)]
          /\ Harmed("writeback")
    /\ pc' = "down"
    /\ UNCHANGED <<name, meta, acked>>

\* The process dies and the machine does not, or it drops the journal.
Restart ==
    /\ ~Down
    /\ \/ UNCHANGED file
       \/ file' = [c \in Copy |-> KeepCache(file[c])]
    /\ pc' = "down"
    /\ UNCHANGED <<name, meta, acked, harm>>

\* A power loss: every dirty block resolves on its own, and a name that no
\* directory sync covers is there or gone.
PowerLoss ==
    /\ \E a \in CrashOutcomes(file["A"]), b \in CrashOutcomes(file["B"]) :
        file' = [c \in Copy |-> IF c = "A" THEN a ELSE b]
    /\ \/ name' = "durable" /\ name # "absent"
       \/ name' = "absent" /\ name # "durable"
    /\ pc' = "down"
    /\ UNCHANGED <<meta, acked, harm>>

\* A block at rest rots.
RotBlock(c) ==
    /\ name # "absent"
    /\ file[c].state = "clean"
    /\ file' = [file EXCEPT ![c] = Rest(Damaged)]
    /\ Harmed("rot")
    /\ UNCHANGED <<name, pc, meta, acked>>

Next ==
    \/ \E b \in Bytes : Create(b) \/ UpdateWriteA(b)
    \/ CreateSyncDir
    \/ Open \/ OpenSync \/ OpenSyncFails \/ OpenChoose
    \/ BeginGeneration \/ UpdateSyncA \/ UpdateSyncB
    \/ \E c \in Copy : RepairSync(c) \/ WriteFails(c) \/ RotBlock(c)
    \/ Restart
    \/ PowerLoss

Spec == Init /\ [][Next]_vars

----------------------------------------------------------------------------
(* Properties.                                                             *)

\* What opening the journal or committing to it returned with is never rolled
\* back: the next value an open or a commit returns with is the same or has
\* a higher sequence number, whatever crashes, failed writes, failed writebacks
\* and rotted blocks came between (MetaFile::choose, MetaFile::update).
NeverRollsBack == [][acked' = acked \/ acked'.seq > acked.seq]_vars

\* Crashes, restarts and failed writes alone never lose the metainfo: an open
\* always finds a usable copy (MetaFile::open syncs a predecessor's unsynced
\* copy before it touches the other one).
NeverLost == pc = "lost" => harm # "none"

\* At most one copy is in flight: a power loss tears at most the one being
\* written (MetaFile::update and open).
AtMostOneInFlight == harm = "none" => \E c \in Copy : file[c].state = "clean"

\* The metainfo survives: an open finds it, because no power loss can tear more
\* than the one copy in flight (MetaFile::open, update).
MetaSurvives == NeverLost /\ AtMostOneInFlight
=============================================================================
