--------------------------- MODULE MetaFileProofs ---------------------------
(***************************************************************************)
(* Proofs about the meta file, for every set of bytes and every number of  *)
(* updates: the metainfo a journal returned with is never rolled back,     *)
(* whatever fails; and crashes, restarts and failed writes alone never     *)
(* lose it.                                                                *)
(***************************************************************************)
EXTENDS MetaFile, TLAPS

\* The value is no older than sequence number s, or damaged.
Since(v, s) == v = Damaged \/ v.seq >= s

\* Both what the disk holds and what reads observe are no older than s.
BlockSince(b, s) == Since(b.disk, s) /\ Since(b.cache, s)

\* The inductive invariant behind NeverRollsBack: no copy holds a value older
\* than the acknowledged one, on disk or in the cache, and the value the
\* journal works on is on its way to be newer than it.
Fresh ==
    /\ \A c \in Copy : BlockSince(file[c], acked.seq)
    /\ name # "durable" => acked.seq = 0
    /\ name = "absent" => Down
    /\ Down \/ pc = "renamed" \/ name = "durable"
    /\ pc \in {"chosen", "ready", "repairA", "repairB"} => meta.seq >= acked.seq
    /\ pc \in {"renamed", "updateA", "updateB"} => meta.seq > acked.seq
    /\ pc = "renamed" => \A c \in Copy : BlockSince(file[c], meta.seq)
    /\ pc \in {"updateA", "repairA"} =>
        file["A"].cache = meta /\ file["A"].state = "dirty"
    /\ pc \in {"updateB", "repairB"} =>
        file["B"].cache = meta /\ file["B"].state = "dirty"
    /\ pc = "updateB" => BlockSince(file["A"], meta.seq)

\* A value that Choose returns is one of the two it was given.
LEMMA ChooseReturns ==
    ASSUME NEW a, NEW b, Choose(a, b).value # Damaged
    PROVE  /\ Choose(a, b).value \in {a, b}
           /\ Choose(a, b).stale \in {"none", "A", "B"}
BY Zenon DEF Choose, Lost

\* The type invariant holds in every reachable state (meta.rs, all of it).
THEOREM TypeCorrect == Spec => []TypeOK
<1>1. Init => TypeOK
  BY MetaFileAssumption DEF Init, TypeOK, Meta, Copy, BlockType, Rest
<1>2. TypeOK /\ [Next]_vars => TypeOK'
  <2> SUFFICES ASSUME TypeOK, [Next]_vars
               PROVE  TypeOK'
    OBVIOUS
  <2> USE MetaFileAssumption DEF TypeOK, Meta, Copy, BlockType
  <2>1. ASSUME NEW b \in Bytes, Create(b)
        PROVE  TypeOK'
    BY <2>1 DEF Create, Rest, Down
  <2>2. CASE CreateSyncDir
    BY <2>2, Zenon DEF CreateSyncDir
  <2>3. CASE Open
    BY <2>3, Zenon DEF Open, Down
  <2>4. CASE OpenSync
    BY <2>4, Zenon DEF OpenSync, Sync, Rest
  <2>5. CASE OpenSyncFails
    BY <2>5 DEF OpenSyncFails, Strand, Harmed
  <2>6. CASE OpenChoose
    <3>1. Choose(file["A"].cache, file["B"].cache).value # Damaged =>
            Choose(file["A"].cache, file["B"].cache).value \in Meta
      BY ChooseReturns
    <3>2. QED BY <2>6, <3>1 DEF OpenChoose, Write, Repairing
  <2>7. CASE BeginGeneration
    BY <2>7 DEF BeginGeneration, Write, Sync, Rest, Updating
  <2>8. ASSUME NEW b \in Bytes, UpdateWriteA(b)
        PROVE  TypeOK'
    BY <2>8 DEF UpdateWriteA, Write, Updating
  <2>9. CASE UpdateSyncA
    BY <2>9, Zenon DEF UpdateSyncA, Write, Sync, Rest, Updating
  <2>10. CASE UpdateSyncB
    BY <2>10, Zenon DEF UpdateSyncB, Sync, Rest, Updating
  <2>11. ASSUME NEW c \in Copy, RepairSync(c)
         PROVE  TypeOK'
    BY <2>11, Zenon DEF RepairSync, Sync, Rest, Repairing
  <2>12. ASSUME NEW c \in Copy, WriteFails(c)
         PROVE  TypeOK'
    BY <2>12 DEF WriteFails, Write, Strand, Revert, Rest, Harmed
  <2>13. ASSUME NEW c \in Copy, RotBlock(c)
         PROVE  TypeOK'
    BY <2>13, Zenon DEF RotBlock, Rest, Harmed
  <2>14. CASE Restart
    BY <2>14 DEF Restart, KeepCache, Sync, Rest
  <2>15. CASE PowerLoss
    BY <2>15 DEF PowerLoss, CrashOutcomes, Rest
  <2>16. CASE UNCHANGED vars
    BY <2>16, Zenon DEF vars
  <2> QED
    BY <2>1, <2>2, <2>3, <2>4, <2>5, <2>6, <2>7, <2>8, <2>9, <2>10, <2>11,
       <2>12, <2>13, <2>14, <2>15, <2>16, Zenon DEF Next
<1> QED
  BY <1>1, <1>2, PTL DEF Spec

----------------------------------------------------------------------------

\* Before the file exists nothing is acknowledged.
LEMMA FreshInit == Init => Fresh
BY MetaFileAssumption
DEF Init, Fresh, BlockSince, Since, Rest, Copy, Down

\* No step leaves a copy older than what was acknowledged (MetaFile::update,
\* the repair of open, a crash in between).
LEMMA FreshStep == TypeOK /\ Fresh /\ [Next]_vars => Fresh'
<1> SUFFICES ASSUME TypeOK, Fresh, [Next]_vars
             PROVE  Fresh'
  OBVIOUS
<1> USE MetaFileAssumption DEF TypeOK, Meta, BlockType, Fresh, BlockSince, Since
<1>1. ASSUME NEW b \in Bytes, Create(b)
      PROVE  Fresh'
  BY <1>1 DEF Create, Rest, Copy, Down
<1>2. CASE CreateSyncDir
  BY <1>2 DEF CreateSyncDir, Copy, Down
<1>3. CASE Open
  BY <1>3, Zenon DEF Open, Copy, Down
<1>4. CASE OpenSync
  BY <1>4, Zenon DEF OpenSync, Sync, Rest, Copy, Down
<1>5. CASE OpenSyncFails
  BY <1>5 DEF OpenSyncFails, Strand, Copy, Down
<1>6. CASE OpenChoose
  <2> DEFINE chosen == Choose(file["A"].cache, file["B"].cache)
  <2>1. CASE chosen.value = Damaged
    BY <1>6, <2>1, Zenon DEF OpenChoose, Down
  <2>2. CASE chosen.value # Damaged
    <3>1. /\ chosen.value \in {file["A"].cache, file["B"].cache}
          /\ chosen.stale \in {"none", "A", "B"}
      BY <2>2, ChooseReturns, Zenon
    <3>2. chosen.value \in Meta /\ chosen.value.seq >= acked.seq
      BY <2>2, <3>1, Zenon DEF Copy
    <3>3. CASE chosen.stale = "none"
      BY <1>6, <2>2, <3>2, <3>3, Zenon DEF OpenChoose, Down, Copy
    <3>4. CASE chosen.stale = "A"
      BY <1>6, <2>2, <3>2, <3>4 DEF OpenChoose, Write, Repairing, Down, Copy
    <3>5. CASE chosen.stale = "B"
      BY <1>6, <2>2, <3>2, <3>5 DEF OpenChoose, Write, Repairing, Down, Copy
    <3> QED BY <3>1, <3>3, <3>4, <3>5, Zenon
  <2> QED BY <2>1, <2>2, Zenon
<1>7. CASE BeginGeneration
  BY <1>7 DEF BeginGeneration, Write, Sync, Rest, Updating, Copy, Down
<1>8. ASSUME NEW b \in Bytes, UpdateWriteA(b)
      PROVE  Fresh'
  BY <1>8 DEF UpdateWriteA, Write, Updating, Copy, Down
<1>9. CASE UpdateSyncA
  BY <1>9 DEF UpdateSyncA, Write, Sync, Rest, Updating, Copy, Down
<1>10. CASE UpdateSyncB
  BY <1>10 DEF UpdateSyncB, Sync, Rest, Updating, Copy, Down
<1>11. ASSUME NEW c \in Copy, RepairSync(c)
       PROVE  Fresh'
  BY <1>11 DEF RepairSync, Sync, Rest, Repairing, Copy, Down
<1>12. ASSUME NEW c \in Copy, WriteFails(c)
       PROVE  Fresh'
  BY <1>12 DEF WriteFails, Write, Strand, Revert, Rest, Repairing, Updating,
               Copy, Down
<1>13. ASSUME NEW c \in Copy, RotBlock(c)
       PROVE  Fresh'
  BY <1>13 DEF RotBlock, Rest, Copy, Down
<1>14. CASE Restart
  BY <1>14 DEF Restart, KeepCache, Sync, Rest, Copy, Down
<1>15. CASE PowerLoss
  BY <1>15 DEF PowerLoss, CrashOutcomes, Rest, Copy, Down
<1>16. CASE UNCHANGED vars
  BY <1>16 DEF vars, Down
<1> QED
  BY <1>1, <1>2, <1>3, <1>4, <1>5, <1>6, <1>7, <1>8, <1>9, <1>10, <1>11,
     <1>12, <1>13, <1>14, <1>15, <1>16, Zenon DEF Next

\* NeverRollsBack for every set of bytes, every number of updates, and every
\* mix of crashes, failed writes, failed writebacks and rot: what a journal
\* returned with is never followed by an older metainfo value
\* (MetaFile::open, choose, update and Journal's begin_generation).
THEOREM MetaNeverRollsBack == Spec => NeverRollsBack
<1>1. TypeOK /\ Fresh /\ [Next]_vars
        => [acked' = acked \/ acked'.seq > acked.seq]_vars
  BY MetaFileAssumption, Zenon
  DEF Next, vars, TypeOK, Meta, Fresh, Create, CreateSyncDir, Open, OpenSync,
      OpenSyncFails, OpenChoose, BeginGeneration, UpdateWriteA, UpdateSyncA,
      UpdateSyncB, RepairSync, WriteFails, RotBlock, Restart, PowerLoss, Updating
<1> QED
  BY <1>1, TypeCorrect, FreshInit, FreshStep, PTL DEF Spec, NeverRollsBack

----------------------------------------------------------------------------

\* Two valid copies of one sequence number are equal.
Agree(x, y) == x # Damaged /\ y # Damaged /\ x.seq = y.seq => x = y

\* The inductive invariant behind NeverLost, until a writeback is lost or a
\* block rots: one copy is always at rest and valid, the one in flight is the
\* one the journal is writing, and no two values of one sequence number meet.
Sound ==
    /\ \A c \in Copy : /\ file[c].state # "stranded"
                       /\ file[c].state = "clean" => file[c].disk = file[c].cache
    /\ name # "absent" =>
        \E c \in Copy : file[c].state = "clean" /\ file[c].disk # Damaged
    /\ \E c \in Copy : file[c].state = "clean"
    /\ /\ Agree(file["A"].disk, file["B"].disk)
       /\ Agree(file["A"].disk, file["B"].cache)
       /\ Agree(file["A"].cache, file["B"].disk)
       /\ Agree(file["A"].cache, file["B"].cache)
    /\ pc = "synced" => \A c \in Copy : file[c].state = "clean"
    /\ pc \in {"renamed", "chosen", "ready"} =>
        \A c \in Copy : file[c] = Rest(meta)
    /\ pc = "repairA" => file["B"] = Rest(meta)
    /\ pc \in {"repairB", "updateB"} => file["A"] = Rest(meta)
    /\ pc = "updateA" => /\ file["A"].disk = file["B"].disk
                         /\ file["B"].state = "clean"
                         /\ file["B"].disk # Damaged
                         /\ file["B"].disk.seq < meta.seq
    /\ pc # "lost"

\* Sound holds until something worse than a crash or a failed write happened.
SoundUntilHarm == harm = "none" => Sound

\* Before the file exists its copies agree.
LEMMA SoundInit == Init => SoundUntilHarm
BY DEF Init, SoundUntilHarm, Sound, Agree, Rest, Copy

\* Every step keeps the copies sound until their bytes are harmed.
LEMMA SoundStep ==
    TypeOK /\ Fresh /\ SoundUntilHarm /\ [Next]_vars => SoundUntilHarm'
<1> SUFFICES ASSUME TypeOK, Fresh, SoundUntilHarm, [Next]_vars, harm' = "none"
             PROVE  Sound'
  BY Zenon DEF SoundUntilHarm
<1>a. harm = "none"
  BY Zenon DEF Next, vars, Harmed, Create, CreateSyncDir, Open, OpenSync,
         OpenSyncFails, OpenChoose, BeginGeneration, UpdateWriteA, UpdateSyncA,
         UpdateSyncB, RepairSync, WriteFails, RotBlock, Restart, PowerLoss
<1>b. Sound
  BY <1>a, Zenon DEF SoundUntilHarm
<1> USE <1>b
<1> USE MetaFileAssumption DEF TypeOK, Meta, BlockType, Fresh, Sound, Agree
<1>1. ASSUME NEW b \in Bytes, Create(b)
      PROVE  Sound'
  BY <1>1 DEF Create, Rest, Copy, Down
<1>2. CASE CreateSyncDir
  BY <1>2 DEF CreateSyncDir, Copy, Down
<1>3. CASE Open
  BY <1>3 DEF Open, Copy, Down
<1>4. CASE OpenSync
  BY <1>4 DEF OpenSync, Sync, Rest, Copy, Down
<1>5. CASE OpenSyncFails
  BY <1>5 DEF OpenSyncFails, Harmed, Copy, Down
<1>6. CASE OpenChoose
  <2> DEFINE chosen == Choose(file["A"].cache, file["B"].cache)
  <2>1. chosen.value # Damaged
    BY <1>6, ZenonT(60) DEF OpenChoose, Choose, Lost, Copy, Down
  <2>2. chosen.stale \in {"none", "A", "B"}
    BY <2>1, ChooseReturns, Zenon
  <2>3. CASE chosen.stale = "none"
    <3>1. file["A"].cache = chosen.value /\ file["B"].cache = chosen.value
      BY <2>1, <2>3, ZenonT(60) DEF Choose, Lost
    <3> QED BY <1>6, <2>1, <2>3, <3>1 DEF OpenChoose, Rest, Copy, Down
  <2>4. CASE chosen.stale = "A"
    <3>1. file["B"].cache = chosen.value
      BY <2>1, <2>4, ZenonT(60) DEF Choose, Lost
    <3> QED BY <1>6, <2>1, <2>4, <3>1 DEF OpenChoose, Write, Rest, Repairing, Copy, Down
  <2>5. CASE chosen.stale = "B"
    <3>1. file["A"].cache = chosen.value
      BY <2>1, <2>5, Zenon DEF Choose, Lost
    <3> QED BY <1>6, <2>1, <2>5, <3>1 DEF OpenChoose, Write, Rest, Repairing, Copy, Down
  <2> QED BY <2>2, <2>3, <2>4, <2>5, ZenonT(60)
<1>7. CASE BeginGeneration
  BY <1>7, SMTT(60) DEF BeginGeneration, Write, Sync, Rest, Updating, Copy, Down
<1>8. ASSUME NEW b \in Bytes, UpdateWriteA(b)
      PROVE  Sound'
  BY <1>8, SMTT(60) DEF UpdateWriteA, Write, Rest, Updating, Copy, Down
<1>9. CASE UpdateSyncA
  BY <1>9, SMTT(60) DEF UpdateSyncA, Write, Sync, Rest, Updating, Copy, Down
<1>10. CASE UpdateSyncB
  BY <1>10, SMTT(60) DEF UpdateSyncB, Sync, Rest, Updating, Copy, Down
<1>11. ASSUME NEW c \in Copy, RepairSync(c)
       PROVE  Sound'
  BY <1>11, SMTT(60) DEF RepairSync, Sync, Rest, Repairing, Copy, Down
<1>12. ASSUME NEW c \in Copy, WriteFails(c)
       PROVE  Sound'
  BY <1>12 DEF WriteFails, Harmed, Write, Revert, Rest, Repairing, Updating,
               Copy, Down
<1>13. ASSUME NEW c \in Copy, RotBlock(c)
       PROVE  Sound'
  BY <1>13, Zenon DEF RotBlock, Harmed
<1>14. CASE Restart
  BY <1>14, SMTT(60) DEF Restart, KeepCache, Sync, Rest, Copy, Down
<1>15. CASE PowerLoss
  BY <1>15, SMTT(60) DEF PowerLoss, CrashOutcomes, Rest, Copy, Down
<1>16. CASE UNCHANGED vars
  BY <1>16 DEF vars, Down
<1> QED
  BY <1>1, <1>2, <1>3, <1>4, <1>5, <1>6, <1>7, <1>8, <1>9, <1>10, <1>11,
     <1>12, <1>13, <1>14, <1>15, <1>16, Zenon DEF Next

\* NeverLost for every set of bytes and every number of updates: as long as a
\* sync that reports success flushed what it covers and no block rots, no
\* sequence of crashes, restarts and failed writes loses both copies
\* (MetaFile::open and update).
THEOREM MetaNeverLost == Spec => []NeverLost
<1>1. SoundUntilHarm => NeverLost
  BY Zenon DEF Sound, SoundUntilHarm, NeverLost
<1> QED
  BY <1>1, TypeCorrect, FreshInit, FreshStep, SoundInit, SoundStep, PTL DEF Spec

\* AtMostOneInFlight under the same assumptions: the two copies are never both
\* at the mercy of one power loss (MetaFile::update).
THEOREM MetaOneInFlight == Spec => []AtMostOneInFlight
<1>1. SoundUntilHarm => AtMostOneInFlight
  BY Zenon DEF Sound, SoundUntilHarm, AtMostOneInFlight
<1> QED
  BY <1>1, TypeCorrect, FreshInit, FreshStep, SoundInit, SoundStep, PTL DEF Spec

\* MetaSurvives: both of the above.
THEOREM MetaSurvivesHolds == Spec => []MetaSurvives
BY MetaNeverLost, MetaOneInFlight, PTL DEF MetaSurvives

=============================================================================
