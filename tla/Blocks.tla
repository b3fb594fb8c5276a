------------------------------- MODULE Blocks -------------------------------
(***************************************************************************)
(* One checksummed block of a file on the simulated disk.  A file keeps    *)
(* the bytes of the last successful sync (disk) and the bytes reads        *)
(* observe (cache).  A write dirties the block; a sync flushes it; a       *)
(* failed writeback strands it: clean for every later sync, still lost by  *)
(* a power loss.  Content is what the block decodes to, and a block whose  *)
(* sectors are torn, lost, or rotted decodes to Damaged: its checksum      *)
(* fails.                                                                  *)
(***************************************************************************)

CONSTANT Damaged

BlockType(C) ==
    [disk : C \cup {Damaged}, cache : C \cup {Damaged},
     state : {"clean", "dirty", "stranded"}]

\* A block at rest: what reads observe is what a power loss keeps.
Rest(v) == [disk |-> v, cache |-> v, state |-> "clean"]

\* FileImage::write: visible at once, dirty, no longer stranded.
Write(b, v) == [disk |-> b.disk, cache |-> v, state |-> "dirty"]

\* FileImage::sync: every flushable block (dirty and not stranded) lands.
Sync(b) == IF b.state = "dirty" THEN Rest(b.cache) ELSE b

\* FileImage::fail_writeback without the revert: the block is clean for every
\* later sync, and its new bytes stay in the cache only.
Strand(b) == IF b.state = "dirty" THEN [b EXCEPT !.state = "stranded"] ELSE b

\* FileImage::fail_writeback with the revert: the cache drops the new bytes.
Revert(b) == IF b.state = "dirty" THEN Rest(b.disk) ELSE b

\* FileImage::crash: a dirty or stranded block lands old, new, or damaged
\* (lost, latent or shorn sectors, or a mix of old and new ones); a clean one
\* is untouched.
CrashOutcomes(b) ==
    IF b.state = "clean" THEN {b} ELSE {Rest(v) : v \in {b.disk, b.cache, Damaged}}

\* FileImage::keep_cache: the process is killed and the machine stays up.
\* What was dirty lands; a stranded block, whose writeback failed, does not.
KeepCache(b) == IF b.state = "stranded" THEN Rest(b.disk) ELSE Sync(b)

----------------------------------------------------------------------------
(* A file is a function from units (the blocks, or the parts of one that   *)
(* tear on their own) to block states.                                     *)

WriteUnits(file, new) ==
    [u \in DOMAIN file |->
        IF u \in DOMAIN new THEN Write(file[u], new[u]) ELSE file[u]]

SyncUnits(file, units) ==
    [u \in DOMAIN file |-> IF u \in units THEN Sync(file[u]) ELSE file[u]]

Unsynced(file) == {u \in DOMAIN file : file[u].state # "clean"}

\* Every way the unsynced units of a file resolve in a power loss, each on its
\* own.
CrashFiles(file) ==
    {[u \in DOMAIN file |->
        IF u \notin DOMAIN lands THEN file[u]
        ELSE CASE lands[u] = "old" -> Rest(file[u].disk)
               [] lands[u] = "new" -> Rest(file[u].cache)
               [] lands[u] = "torn" -> Rest(Damaged)] :
     lands \in [Unsynced(file) -> {"old", "new", "torn"}]}

\* Every way a failed write or sync of some units leaves them: the bytes did
\* not land, landed in part, or landed; and, where writeback fails, are
\* stranded.
FailFiles(file, units, writeback) ==
    {[u \in DOMAIN file |->
        IF u \notin units THEN file[u]
        ELSE CASE fate[u] = "old" -> Revert(file[u])
               [] fate[u] = "part" -> Write(file[u], Damaged)
               [] fate[u] = "new" -> file[u]
               [] fate[u] = "stranded" -> Strand(file[u])] :
     fate \in [units -> {"old", "part", "new"}
                        \cup (IF writeback THEN {"stranded"} ELSE {})]}

\* Every way a write of new units that fails leaves them, each on its own.
FailedWrites(file, new) ==
    {[u \in DOMAIN file |->
        IF u \notin DOMAIN fate \/ fate[u] = "old" THEN file[u]
        ELSE Write(file[u], IF fate[u] = "part" THEN Damaged ELSE new[u])] :
     fate \in [DOMAIN new -> {"old", "part", "new"}]}

\* Every way a sync that fails leaves what it was to flush: dirty still; and,
\* where writeback fails, stranded or reverted, each of some parts as a whole.
FailedSyncs(file, parts, writeback) ==
    {[u \in DOMAIN file |->
        IF \E p \in parts : u \in p /\ fate[p] = "stranded" THEN Strand(file[u])
        ELSE IF \E p \in parts : u \in p /\ fate[p] = "reverted" THEN Revert(file[u])
        ELSE file[u]] :
     fate \in [parts -> {"dirty"} \cup (IF writeback THEN {"stranded", "reverted"}
                                       ELSE {})]}
=============================================================================
