----------------------------- MODULE BlockCache -----------------------------
(***************************************************************************)
(* The write-back cache of disk blocks: easy-fs/src/block_cache.rs.         *)
(*                                                                         *)
(* The file system calls it with its own lock held, one operation at a      *)
(* time.  An operation nests: inside the closure of one block's read or      *)
(* modify it opens the next.  held is that stack of BlockCache handles, each *)
(* of them a second Arc and a locked Mutex.  block_cache_sync_all runs with  *)
(* no handle open and takes a step per block, so that a crash can fall       *)
(* between two writes to the device; a write of one block is atomic.        *)
(***************************************************************************)
EXTENDS Integers, Sequences

CONSTANTS Block, Val,
          CacheSize,   \* BLOCK_CACHE_SIZE
          MaxNest      \* handles an operation holds at most

ASSUME CacheAssumption ==
  /\ CacheSize \in Nat
  /\ MaxNest \in 0..CacheSize

VARIABLES disk,     \* the block device
          queue,    \* BlockCacheManager.queue
          held,     \* the open handles, outermost first
          syncing,  \* 0, or the place block_cache_sync_all has come to
          recent    \* history: each block's value at the last sync, and since

vars == <<disk, queue, held, syncing, recent>>

Idx == 1..Len(queue)

Mode == {"read", "modify"}   \* what a handle is opened for

TypeOK ==
  /\ disk \in [Block -> Val]
  /\ queue \in Seq([id : Block, data : Val, modified : BOOLEAN])
  /\ Len(queue) <= CacheSize
  /\ held \in Seq([id : Block, mode : Mode])
  /\ Len(held) <= MaxNest
  /\ syncing \in 0..(Len(queue) + 1)
  /\ recent \in [Block -> SUBSET Val]

Init ==
  /\ disk \in [Block -> Val]
  /\ queue = <<>>
  /\ held = <<>>
  /\ syncing = 0
  /\ recent = [b \in Block |-> {disk[b]}]

-----------------------------------------------------------------------------
\* The entry that queue.iter().find(|pair| pair.0 == block_id) stops at.
IsFound(i, b) == queue[i].id = b /\ \A j \in 1..(i - 1) : queue[j].id # b

Cached(b) == \E i \in Idx : queue[i].id = b

(* Mutant of Full: the test comes one block late.                           *)
MutantFullLate == Len(queue) > CacheSize

Full == Len(queue) = CacheSize

\* Arc::strong_count > 1: a handle is open besides the manager's own.
Pinned(b) == \E k \in 1..Len(held) : held[k].id = b

(* Mutant of IsVictim: the oldest block goes, held or not.                  *)
MutantIsVictimHeld(i) == i = 1

(* Mutant of IsVictim: only a clean block is taken.                         *)
MutantIsVictimClean(i) ==
  /\ ~Pinned(queue[i].id) /\ ~queue[i].modified
  /\ \A j \in 1..(i - 1) : Pinned(queue[j].id) \/ queue[j].modified

\* The entry the eviction takes: the first one nobody holds.
IsVictim(i) ==
  /\ ~Pinned(queue[i].id)
  /\ \A j \in 1..(i - 1) : Pinned(queue[j].id)

Without(s, i) == [j \in 1..(Len(s) - 1) |-> IF j < i THEN s[j] ELSE s[j + 1]]

\* BlockCache::sync: the device after it.
Synced(e) == IF e.modified THEN [disk EXCEPT ![e.id] = e.data] ELSE disk

(* Mutant of Loaded: get_mut forgets to mark the block modified.            *)
MutantLoadedClean(d, b, mode) == [id |-> b, data |-> d[b], modified |-> FALSE]

\* BlockCache::new, then get_mut if the handle is for modify.
Loaded(d, b, mode) == [id |-> b, data |-> d[b], modified |-> mode = "modify"]

Handle(b, mode) == held' = Append(held, [id |-> b, mode |-> mode])

OpenHit(b, mode) ==
  /\ \E i \in Idx :
       /\ IsFound(i, b)
       /\ queue' = IF mode = "modify" THEN [queue EXCEPT ![i].modified = TRUE] ELSE queue
  /\ UNCHANGED disk

OpenRoom(b, mode) ==
  /\ ~Cached(b)
  /\ ~Full
  /\ queue' = Append(queue, Loaded(disk, b, mode))
  /\ UNCHANGED disk

\* The victim's Drop writes it back before the new block is read.
OpenEvict(b, mode) ==
  /\ ~Cached(b)
  /\ Full
  /\ \E i \in Idx :
       /\ IsVictim(i)
       /\ disk' = Synced(queue[i])
       /\ queue' = Append(Without(queue, i), Loaded(disk', b, mode))

\* get_block_cache(b).lock() and the start of read or modify.
Open(b, mode) ==
  /\ syncing = 0
  /\ Len(held) < MaxNest
  /\ ~Pinned(b)   \* the file system opens no block twice: its lock would spin
  /\ OpenHit(b, mode) \/ OpenRoom(b, mode) \/ OpenEvict(b, mode)
  /\ Handle(b, mode)
  /\ UNCHANGED <<syncing, recent>>

\* The closure of modify stores through its &mut, nested handles open or not.
Write(k, v) ==
  /\ held[k].mode = "modify"
  /\ \E i \in Idx :
       /\ IsFound(i, held[k].id)
       /\ queue' = [queue EXCEPT ![i].data = v]
  /\ recent' = [recent EXCEPT ![held[k].id] = @ \union {v}]
  /\ UNCHANGED <<disk, held, syncing>>

\* The innermost closure returns; guard and Arc are dropped.
Close ==
  /\ held # <<>>
  /\ held' = SubSeq(held, 1, Len(held) - 1)
  /\ UNCHANGED <<disk, queue, syncing, recent>>

SyncAll ==
  /\ held = <<>>
  /\ syncing = 0
  /\ syncing' = 1
  /\ UNCHANGED <<disk, queue, held, recent>>

SyncOne ==
  /\ syncing \in Idx
  /\ disk' = Synced(queue[syncing])
  /\ queue' = [queue EXCEPT ![syncing].modified = FALSE]
  /\ syncing' = syncing + 1
  /\ UNCHANGED <<held, recent>>

\* What a read of b returns.
Contents(b) ==
  IF Cached(b) THEN queue[CHOOSE i \in Idx : queue[i].id = b].data ELSE disk[b]

SyncReturns ==
  /\ syncing = Len(queue) + 1
  /\ syncing' = 0
  /\ recent' = [b \in Block |-> {Contents(b)}]
  /\ UNCHANGED <<disk, queue, held>>

\* The machine stops and boots again: only the device is left.
Crash ==
  /\ queue' = <<>>
  /\ held' = <<>>
  /\ syncing' = 0
  /\ recent' = [b \in Block |-> {disk[b]}]
  /\ UNCHANGED disk

Next ==
  \/ \E b \in Block, mode \in Mode : Open(b, mode)
  \/ \E k \in 1..Len(held), v \in Val : Write(k, v)
  \/ Close
  \/ SyncAll
  \/ SyncOne
  \/ SyncReturns
  \/ Crash

Spec == Init /\ [][Next]_vars

-----------------------------------------------------------------------------
(* No block is cached twice, a block with an open handle is in the queue,   *)
(* and a block not marked modified equals the device: what find, the        *)
(* strong_count test and the modified flag are for.  Were it false, two     *)
(* copies of a block could diverge, or a write be lost at eviction.         *)
CacheCoherent ==
  /\ \A i, j \in Idx : queue[i].id = queue[j].id => i = j
  /\ \A k \in 1..Len(held) : Cached(held[k].id)
  /\ \A i \in Idx : queue[i].modified \/ queue[i].data = disk[queue[i].id]

(* "Run out of BlockCache!" is never reached: while an operation may still  *)
(* open a block, a full queue has an entry to evict.                       *)
NeverRunsOut ==
  Len(held) < MaxNest /\ Full => \E i \in Idx : IsVictim(i)

(* The cache is memory over the device: a read returns the last write,      *)
(* whatever was evicted and loaded in between; once block_cache_sync_all     *)
(* has returned a crash loses nothing, and before that each block is left   *)
(* with the synced value or one written since.                             *)
Disk == INSTANCE AbstractDisk WITH store <- [b \in Block |-> Contents(b)]

ImplementsDisk == Disk!Spec
=============================================================================
