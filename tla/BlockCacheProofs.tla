-------------------------- MODULE BlockCacheProofs --------------------------
(***************************************************************************)
(* The block cache keeps its promise for every number of blocks, every       *)
(* cache size and every nesting of the file system's accesses.             *)
(***************************************************************************)
EXTENDS BlockCache, SequenceTheorems, FiniteSetTheorems, WellFoundedInduction, TLAPS

Entry == [id : Block, data : Val, modified : BOOLEAN]

(* No block has two open handles, and one opened for modify has its block   *)
(* marked: what makes a store through it safe from eviction and sync.       *)
HandlesOK ==
  /\ \A k, l \in 1..Len(held) : held[k].id = held[l].id => k = l
  /\ \A k \in 1..Len(held), i \in Idx :
       held[k].mode = "modify" /\ queue[i].id = held[k].id => queue[i].modified

(* While block_cache_sync_all runs no handle is open, and the entries it     *)
(* has passed are clean.                                                   *)
SyncOK ==
  syncing # 0 =>
    /\ held = <<>>
    /\ \A i \in Idx : i < syncing => ~queue[i].modified

(* What a crash would leave, and what a read returns, are both recent.      *)
RecentOK ==
  /\ \A b \in Block : disk[b] \in recent[b]
  /\ \A i \in Idx : queue[i].data \in recent[queue[i].id]

CacheInv == TypeOK /\ CacheCoherent /\ HandlesOK /\ SyncOK /\ RecentOK

-----------------------------------------------------------------------------
(* What drain(idx..=idx) leaves of a queue.                                 *)
LEMMA WithoutProperties ==
  ASSUME NEW S, NEW s \in Seq(S), NEW i \in 1..Len(s)
  PROVE  /\ Without(s, i) \in Seq(S)
         /\ Len(Without(s, i)) = Len(s) - 1
         /\ \A j \in 1..(Len(s) - 1) :
              Without(s, i)[j] = IF j < i THEN s[j] ELSE s[j + 1]
BY DEF Without

(* The queue with one more entry at its end.                                *)
LEMMA PushProperties ==
  ASSUME NEW S, NEW s \in Seq(S), NEW e \in S
  PROVE  /\ Append(s, e) \in Seq(S)
         /\ Len(Append(s, e)) = Len(s) + 1
         /\ \A j \in 1..Len(s) : Append(s, e)[j] = s[j]
         /\ Append(s, e)[Len(s) + 1] = e
BY AppendProperties

(* The handles without the innermost one.                                   *)
LEMMA PopProperties ==
  ASSUME NEW S, NEW s \in Seq(S), s # <<>>
  PROVE  /\ SubSeq(s, 1, Len(s) - 1) \in Seq(S)
         /\ Len(s) \in Nat \ {0}
         /\ Len(SubSeq(s, 1, Len(s) - 1)) = Len(s) - 1
         /\ \A k \in 1..(Len(s) - 1) : SubSeq(s, 1, Len(s) - 1)[k] = s[k]
<1>1. Len(s) \in Nat \ {0}
  BY EmptySeq, LenProperties
<1>2. ASSUME NEW k \in 1..(Len(s) - 1) PROVE s[k] \in S
  <2>1. k \in 1..Len(s)
    BY <1>1
  <2> QED
    BY <2>1, ElementOfSeq
<1>3. 1 \in Int /\ Len(s) - 1 \in Int
  BY <1>1
<1>4. /\ SubSeq(s, 1, Len(s) - 1) \in Seq(S)
      /\ Len(SubSeq(s, 1, Len(s) - 1))
           = IF 1 <= Len(s) - 1 THEN (Len(s) - 1) - 1 + 1 ELSE 0
      /\ \A k \in 1..((Len(s) - 1) - 1 + 1) : SubSeq(s, 1, Len(s) - 1)[k] = s[1 + k - 1]
  BY <1>2, <1>3, SubSeqProperties
<1> DEFINE f == SubSeq(s, 1, Len(s) - 1)
           n == Len(s)
<1>5. /\ f \in Seq(S)
      /\ Len(f) = IF 1 <= n - 1 THEN (n - 1) - 1 + 1 ELSE 0
      /\ \A k \in 1..((n - 1) - 1 + 1) : f[k] = s[1 + k - 1]
      /\ n \in Nat \ {0}
  BY <1>1, <1>4
<1> HIDE DEF f, n
<1>6. Len(f) = n - 1 /\ \A k \in 1..(n - 1) : f[k] = s[k]
  BY <1>5
<1> QED
  BY <1>5, <1>6 DEF f, n

(* An entry with its flag replaced is an entry with the rest as it was.     *)
LEMMA MarkedEntry ==
  ASSUME NEW e \in Entry, NEW m \in BOOLEAN
  PROVE  /\ [e EXCEPT !.modified = m] \in Entry
         /\ [e EXCEPT !.modified = m].id = e.id
         /\ [e EXCEPT !.modified = m].data = e.data
         /\ [e EXCEPT !.modified = m].modified = m
BY DEF Entry

(* An entry with its data replaced is an entry with the rest as it was.     *)
LEMMA StoredEntry ==
  ASSUME NEW e \in Entry, NEW v \in Val
  PROVE  /\ [e EXCEPT !.data = v] \in Entry
         /\ [e EXCEPT !.data = v].id = e.id
         /\ [e EXCEPT !.data = v].data = v
         /\ [e EXCEPT !.data = v].modified = e.modified
BY DEF Entry

(* BlockCache::sync changes the device at its own block only, to its data,   *)
(* and afterwards that block agrees with the cache.                        *)
LEMMA SyncedProperties ==
  ASSUME NEW e \in Entry, disk \in [Block -> Val],
         e.modified \/ e.data = disk[e.id]
  PROVE  /\ Synced(e) \in [Block -> Val]
         /\ \A c \in Block : c # e.id => Synced(e)[c] = disk[c]
         /\ Synced(e)[e.id] = e.data
<1>1. /\ e.id \in Block /\ e.data \in Val
  BY DEF Entry
<1> DEFINE d == [disk EXCEPT ![e.id] = e.data]
<1>2. /\ d \in [Block -> Val]
      /\ \A c \in Block : c # e.id => d[c] = disk[c]
      /\ d[e.id] = e.data
  BY <1>1
<1> HIDE DEF d
<1>3. Synced(e) = IF e.modified THEN d ELSE disk
  BY Zenon DEF Synced, d
<1> QED
  BY <1>2, <1>3, Zenon

(* What BlockCache::new and get_mut make of a block.                        *)
LEMMA LoadedProperties ==
  ASSUME NEW d \in [Block -> Val], NEW b \in Block, NEW mode \in Mode
  PROVE  /\ Loaded(d, b, mode) \in Entry
         /\ Loaded(d, b, mode).id = b
         /\ Loaded(d, b, mode).data = d[b]
         /\ mode = "modify" => Loaded(d, b, mode).modified
<1>1. Loaded(d, b, mode) \in Entry
  BY DEF Loaded, Entry
<1>2. Loaded(d, b, mode).id = b /\ Loaded(d, b, mode).data = d[b]
  BY DEF Loaded
<1>3. Loaded(d, b, mode).modified = (mode = "modify")
  BY DEF Loaded
<1> QED
  BY <1>1, <1>2, <1>3, Zenon

(* With no block cached twice, a read of a cached block returns its entry.  *)
LEMMA ContentsOfEntry ==
  ASSUME \A i, j \in Idx : queue[i].id = queue[j].id => i = j,
         NEW i \in Idx
  PROVE  Contents(queue[i].id) = queue[i].data
BY DEF Contents, Cached

-----------------------------------------------------------------------------
(* Opening a block that is cached only marks it, if it is to be modified.   *)
LEMMA OpenHitKeeps ==
  ASSUME CacheInv, NEW b \in Block, NEW mode \in Mode,
         Open(b, mode), OpenHit(b, mode)
  PROVE  CacheInv'
<1> USE DEF CacheInv, Idx
<1>1. PICK i \in Idx :
        /\ IsFound(i, b)
        /\ queue' = IF mode = "modify" THEN [queue EXCEPT ![i].modified = TRUE] ELSE queue
  BY Zenon DEF OpenHit
<1>2. queue \in Seq(Entry) /\ queue[i] \in Entry /\ queue[i].id = b /\ i \in 1..Len(queue)
  BY <1>1, ElementOfSeq, Zenon DEF TypeOK, Entry, IsFound
<1>a. /\ queue' \in Seq(Entry) /\ Len(queue') = Len(queue)
      /\ \A j \in Idx : queue'[j].id = queue[j].id
      /\ \A j \in Idx : queue'[j].data = queue[j].data
      /\ \A j \in Idx : queue[j].modified => queue'[j].modified
      /\ mode = "modify" => queue'[i].modified
  <2>1. CASE mode = "modify"
    <3> DEFINE e == [queue[i] EXCEPT !.modified = TRUE]
    <3>1. e \in Entry /\ e.id = queue[i].id /\ e.data = queue[i].data /\ e.modified = TRUE
      BY <1>2, MarkedEntry, Zenon
    <3>2. queue' = [queue EXCEPT ![i] = e]
      BY <1>1, <2>1
    <3> HIDE DEF e
    <3> QED
      BY <1>2, <3>1, <3>2, ExceptSeq
  <2>2. CASE mode # "modify"
    BY <1>1, <1>2, <2>2
  <2> QED
    BY <2>1, <2>2
<1>3. /\ held \in Seq([id : Block, mode : Mode])
      /\ held' = Append(held, [id |-> b, mode |-> mode])
      /\ Len(held) < MaxNest /\ ~Pinned(b) /\ syncing = 0
      /\ UNCHANGED <<disk, syncing, recent>>
  BY DEF TypeOK, Open, Handle, OpenHit
<1>4. /\ held' \in Seq([id : Block, mode : Mode])
      /\ Len(held') = Len(held) + 1
      /\ \A k \in 1..Len(held) : held'[k] = held[k]
      /\ held'[Len(held) + 1] = [id |-> b, mode |-> mode]
  BY <1>3, PushProperties
<1>5. TypeOK'
  BY <1>2, <1>a, <1>3, <1>4, CacheAssumption DEF TypeOK, Entry
<1>6. CacheCoherent'
  <2>1. \A j, l \in 1..Len(queue') : queue'[j].id = queue'[l].id => j = l
    BY <1>a DEF CacheCoherent
  <2>2. ASSUME NEW k \in 1..Len(held')
        PROVE  \E j \in 1..Len(queue') : queue'[j].id = held'[k].id
    <3>1. CASE k = Len(held) + 1
      BY <1>2, <1>a, <1>4, <3>1
    <3>2. CASE k \in 1..Len(held)
      <4>1. \E j \in 1..Len(queue) : queue[j].id = held[k].id
        BY <3>2 DEF CacheCoherent, Cached
      <4> QED
        BY <1>a, <1>4, <3>2, <4>1
    <3> QED
      BY <1>3, <1>4, <3>1, <3>2
  <2>3. \A j \in 1..Len(queue') : queue'[j].modified \/ queue'[j].data = disk'[queue'[j].id]
    BY <1>a, <1>3 DEF CacheCoherent
  <2> QED
    BY <2>1, <2>2, <2>3, Zenon DEF CacheCoherent, Cached
<1>7. HandlesOK'
  <2>1. \A k, l \in 1..Len(held') : held'[k].id = held'[l].id => k = l
    BY <1>3, <1>4 DEF HandlesOK, Pinned
  <2>2. ASSUME NEW k \in 1..Len(held'), NEW j \in 1..Len(queue'),
               held'[k].mode = "modify", queue'[j].id = held'[k].id
        PROVE  queue'[j].modified
    <3>1. CASE k = Len(held) + 1
      BY <1>2, <1>a, <1>4, <2>2, <3>1 DEF CacheCoherent
    <3>2. CASE k \in 1..Len(held)
      BY <1>a, <1>4, <2>2, <3>2 DEF HandlesOK
    <3> QED
      BY <1>3, <1>4, <3>1, <3>2
  <2> QED
    BY <2>1, <2>2, Zenon DEF HandlesOK
<1>8. SyncOK' /\ RecentOK'
  BY <1>a, <1>3 DEF SyncOK, RecentOK
<1> QED
  BY <1>5, <1>6, <1>7, <1>8

(* A block loaded from the device into a queue in which it is not yet: the   *)
(* common part of a load with room and a load after an eviction.            *)
LEMMA LoadKeeps ==
  ASSUME CacheInv, NEW b \in Block, NEW mode \in Mode, Open(b, mode),
         NEW q \in Seq(Entry), Len(q) < CacheSize,
         queue' = Append(q, Loaded(disk', b, mode)),
         disk' \in [Block -> Val],
         \A c \in Block : disk'[c] \in recent[c],
         \A j \in 1..Len(q) : q[j].id # b,
         \A i, j \in 1..Len(q) : q[i].id = q[j].id => i = j,
         \A j \in 1..Len(q) : q[j].modified \/ q[j].data = disk'[q[j].id],
         \A j \in 1..Len(q) : q[j].data \in recent[q[j].id],
         \A j \in 1..Len(q) : \E i \in Idx : queue[i] = q[j],
         \A k \in 1..Len(held) : \E j \in 1..Len(q) : q[j].id = held[k].id
  PROVE  CacheInv'
<1> USE DEF CacheInv, Idx
<1> DEFINE e == Loaded(disk', b, mode)
<1>1. /\ e \in Entry /\ e.id = b /\ e.data = disk'[b]
      /\ mode = "modify" => e.modified
  BY LoadedProperties
<1> HIDE DEF e
<1>2. /\ queue' \in Seq(Entry) /\ Len(queue') = Len(q) + 1
      /\ \A j \in 1..Len(q) : queue'[j] = q[j]
      /\ queue'[Len(q) + 1] = e
      /\ Len(q) \in Nat
  BY <1>1, PushProperties DEF e
<1>3. /\ held \in Seq([id : Block, mode : Mode])
      /\ held' = Append(held, [id |-> b, mode |-> mode])
      /\ Len(held) < MaxNest /\ ~Pinned(b) /\ syncing = 0
      /\ UNCHANGED <<syncing, recent>>
  BY DEF TypeOK, Open, Handle
<1>4. /\ held' \in Seq([id : Block, mode : Mode])
      /\ Len(held') = Len(held) + 1
      /\ \A k \in 1..Len(held) : held'[k] = held[k]
      /\ held'[Len(held) + 1] = [id |-> b, mode |-> mode]
  BY <1>3, PushProperties
<1>5. TypeOK'
  BY <1>2, <1>3, <1>4, CacheAssumption DEF TypeOK, Entry
<1>6. CacheCoherent'
  <2>1. \A i, j \in 1..Len(queue') : queue'[i].id = queue'[j].id => i = j
    BY <1>1, <1>2
  <2>2. ASSUME NEW k \in 1..Len(held')
        PROVE  \E j \in 1..Len(queue') : queue'[j].id = held'[k].id
    <3>1. CASE k = Len(held) + 1
      BY <1>1, <1>2, <1>4, <3>1
    <3>2. CASE k \in 1..Len(held)
      <4>1. PICK j \in 1..Len(q) : q[j].id = held[k].id
        BY <3>2, Zenon
      <4>2. j \in 1..Len(queue') /\ queue'[j] = q[j] /\ held'[k] = held[k]
        BY <1>2, <1>4, <3>2
      <4> QED
        BY <4>1, <4>2
    <3> QED
      BY <1>3, <1>4, <3>1, <3>2
  <2>3. ASSUME NEW j \in 1..Len(queue')
        PROVE  queue'[j].modified \/ queue'[j].data = disk'[queue'[j].id]
    <3>1. CASE j = Len(q) + 1
      <4>1. queue'[j].data = disk'[queue'[j].id]
        BY <1>1, <1>2, <3>1, Zenon
      <4> QED
        BY <4>1
    <3>2. CASE j \in 1..Len(q)
      BY <1>2, <3>2
    <3> QED
      BY <1>2, <3>1, <3>2
  <2> QED
    BY <2>1, <2>2, <2>3, Zenon DEF CacheCoherent, Cached
<1>7. HandlesOK'
  <2>1. \A k, l \in 1..Len(held') : held'[k].id = held'[l].id => k = l
    BY <1>3, <1>4 DEF HandlesOK, Pinned
  <2>2. ASSUME NEW k \in 1..Len(held'), NEW i \in 1..Len(queue'),
               held'[k].mode = "modify", queue'[i].id = held'[k].id
        PROVE  queue'[i].modified
    <3>1. CASE i = Len(q) + 1
      <4>1. held'[k].id = b
        BY <1>1, <1>2, <2>2, <3>1
      <4>2. k = Len(held) + 1
        BY <1>3, <1>4, <4>1 DEF Pinned
      <4> QED
        BY <1>1, <1>2, <1>4, <2>2, <3>1, <4>2
    <3>2. CASE i \in 1..Len(q)
      <4>1. held'[k].id # b /\ k \in 1..Len(held)
        BY <1>2, <1>3, <1>4, <2>2, <3>2
      <4>2. PICK j \in Idx : queue[j] = q[i]
        BY <3>2
      <4>3. held'[k] = held[k] /\ queue'[i] = q[i]
        BY <1>2, <1>4, <3>2, <4>1
      <4>4. held[k].mode = "modify" /\ queue[j].id = held[k].id
        BY <2>2, <4>2, <4>3
      <4>5. queue[j].modified
        BY <4>1, <4>4 DEF HandlesOK
      <4> QED
        BY <4>2, <4>3, <4>5
    <3> QED
      BY <1>2, <3>1, <3>2
  <2> QED
    BY <2>1, <2>2 DEF HandlesOK
<1>8. SyncOK' /\ RecentOK'
  BY <1>1, <1>2, <1>3 DEF SyncOK, RecentOK
<1> QED
  BY <1>5, <1>6, <1>7, <1>8

(* Loading a block where the queue has room.                                *)
LEMMA OpenRoomKeeps ==
  ASSUME CacheInv, NEW b \in Block, NEW mode \in Mode,
         Open(b, mode), OpenRoom(b, mode)
  PROVE  CacheInv'
<1>1. /\ queue \in Seq(Entry) /\ Len(queue) < CacheSize
      /\ queue' = Append(queue, Loaded(disk', b, mode))
      /\ disk' \in [Block -> Val]
      /\ \A c \in Block : disk'[c] \in recent[c]
  BY CacheAssumption DEF CacheInv, TypeOK, Entry, OpenRoom, Full, RecentOK
<1>2. \A j \in 1..Len(queue) : queue[j].id # b
  BY DEF OpenRoom, Cached, Idx
<1>3. \A i, j \in 1..Len(queue) : queue[i].id = queue[j].id => i = j
  BY DEF CacheInv, CacheCoherent, Idx
<1>4. /\ \A j \in 1..Len(queue) : queue[j].modified \/ queue[j].data = disk'[queue[j].id]
      /\ \A j \in 1..Len(queue) : queue[j].data \in recent[queue[j].id]
      /\ \A j \in 1..Len(queue) : \E i \in Idx : queue[i] = queue[j]
  BY DEF CacheInv, CacheCoherent, RecentOK, Idx, OpenRoom
<1>5. \A k \in 1..Len(held) : \E j \in 1..Len(queue) : queue[j].id = held[k].id
  BY DEF CacheInv, CacheCoherent, Cached, Idx
<1> QED
  BY <1>1, <1>2, <1>3, <1>4, <1>5, LoadKeeps

(* Loading a block in place of one nobody holds, written back if modified.  *)
LEMMA OpenEvictKeeps ==
  ASSUME CacheInv, NEW b \in Block, NEW mode \in Mode,
         Open(b, mode), OpenEvict(b, mode)
  PROVE  CacheInv'
<1>1. PICK v \in Idx : /\ IsVictim(v)
                       /\ disk' = Synced(queue[v])
                       /\ queue' = Append(Without(queue, v), Loaded(disk', b, mode))
  BY DEF OpenEvict
<1> DEFINE q == Without(queue, v)
<1>2. queue \in Seq(Entry) /\ v \in 1..Len(queue) /\ Len(queue) = CacheSize
  BY DEF CacheInv, TypeOK, Entry, OpenEvict, Full, Idx
<1>3. /\ q \in Seq(Entry)
      /\ Len(q) = Len(queue) - 1
      /\ \A j \in 1..Len(q) : q[j] = IF j < v THEN queue[j] ELSE queue[j + 1]
  BY <1>2, WithoutProperties, Zenon
<1> HIDE DEF q
<1>4. \A j \in 1..Len(q) : \E i \in Idx : i # v /\ queue[i] = q[j]
  BY <1>2, <1>3 DEF Idx
<1>5. \A i \in Idx : i # v => \E j \in 1..Len(q) : queue[i] = q[j]
  <2> SUFFICES ASSUME NEW i \in Idx, i # v PROVE \E j \in 1..Len(q) : queue[i] = q[j]
    OBVIOUS
  <2>1. CASE i < v
    BY <1>2, <1>3, <2>1 DEF Idx
  <2>2. CASE i > v
    <3>1. i - 1 \in 1..Len(q) /\ q[i - 1] = queue[i]
      BY <1>2, <1>3, <2>2 DEF Idx
    <3> QED
      BY <3>1
  <2> QED
    BY <1>2, <2>1, <2>2 DEF Idx
<1>6. \A i, j \in 1..Len(q) : q[i].id = q[j].id => i = j
  BY <1>2, <1>3 DEF CacheInv, CacheCoherent, Idx
<1>7. /\ queue[v] \in Entry
      /\ disk' \in [Block -> Val]
      /\ \A c \in Block : c # queue[v].id => disk'[c] = disk[c]
      /\ \A c \in Block : disk'[c] \in recent[c]
  <2>1. /\ queue[v] \in Entry /\ disk \in [Block -> Val]
        /\ queue[v].id \in Block
        /\ queue[v].modified \/ queue[v].data = disk[queue[v].id]
        /\ queue[v].data \in recent[queue[v].id]
    <3>1. queue[v] \in Entry
      BY <1>2, ElementOfSeq
    <3>2. queue[v].id \in Block
      BY <3>1 DEF Entry
    <3>3. queue[v].modified \/ queue[v].data = disk[queue[v].id]
      BY DEF CacheInv, CacheCoherent
    <3>4. queue[v].data \in recent[queue[v].id] /\ disk \in [Block -> Val]
      BY DEF CacheInv, RecentOK, TypeOK
    <3> QED
      BY <3>1, <3>2, <3>3, <3>4, Zenon
  <2> QED
    BY <1>1, <2>1, SyncedProperties DEF CacheInv, RecentOK
<1>8. ASSUME NEW j \in 1..Len(q)
      PROVE  /\ q[j].modified \/ q[j].data = disk'[q[j].id]
             /\ q[j].data \in recent[q[j].id]
             /\ \E i \in Idx : queue[i] = q[j]
  <2>1. PICK i \in Idx : i # v /\ queue[i] = q[j]
    BY <1>4
  <2>2. queue[i].id # queue[v].id
    BY <2>1 DEF CacheInv, CacheCoherent
  <2>3. queue[i].id \in Block
    <3>1. queue[i] \in Entry
      BY <1>2, ElementOfSeq DEF Idx
    <3> QED
      BY <3>1 DEF Entry
  <2>4. queue[i].modified \/ queue[i].data = disk[queue[i].id]
    BY DEF CacheInv, CacheCoherent
  <2>5. queue[i].data \in recent[queue[i].id]
    BY DEF CacheInv, RecentOK
  <2> QED
    BY <1>7, <2>1, <2>2, <2>3, <2>4, <2>5
<1>9. \A j \in 1..Len(q) : q[j].id # b
  BY <1>4 DEF OpenEvict, Cached
<1>10. \A k \in 1..Len(held) : \E j \in 1..Len(q) : q[j].id = held[k].id
  BY <1>1, <1>5 DEF CacheInv, CacheCoherent, Cached, IsVictim, Pinned
<1> QED
  <2>1. queue' = Append(q, Loaded(disk', b, mode)) /\ Len(q) < CacheSize
    BY <1>1, <1>2, <1>3, CacheAssumption DEF q
  <2> QED
    BY <1>3, <1>6, <1>7, <1>8, <1>9, <1>10, <2>1, LoadKeeps, Zenon

(* A store goes to a block that is marked, so the device may fall behind.   *)
LEMMA WriteKeeps ==
  ASSUME CacheInv, NEW k \in 1..Len(held), NEW v \in Val, Write(k, v)
  PROVE  CacheInv'
<1> USE DEF CacheInv, Idx
<1>1. PICK i \in Idx : /\ IsFound(i, held[k].id)
                       /\ queue' = [queue EXCEPT ![i].data = v]
  BY Zenon DEF Write
<1>2. /\ queue \in Seq(Entry) /\ queue[i] \in Entry /\ i \in 1..Len(queue)
      /\ queue[i].id = held[k].id /\ held[k].mode = "modify"
      /\ queue[i].id \in Block
  <2>1. queue \in Seq(Entry) /\ queue[i] \in Entry
    BY ElementOfSeq, Zenon DEF TypeOK, Entry
  <2> QED
    BY <1>1, <2>1 DEF Write, IsFound, Entry
<1>3. /\ recent' = [recent EXCEPT ![queue[i].id] = @ \union {v}]
      /\ disk' = disk /\ held' = held /\ syncing' = syncing
  BY <1>2 DEF Write
<1>4. /\ recent' \in [Block -> SUBSET Val]
      /\ \A b \in Block : recent[b] \subseteq recent'[b]
      /\ v \in recent'[queue[i].id]
  BY <1>2, <1>3 DEF TypeOK
<1> DEFINE e == [queue[i] EXCEPT !.data = v]
<1>5. e \in Entry /\ e.id = queue[i].id /\ e.data = v /\ e.modified = queue[i].modified
  BY <1>2, StoredEntry
<1>6. queue' = [queue EXCEPT ![i] = e]
  BY <1>1
<1> HIDE DEF e
<1>7. /\ queue' \in Seq(Entry) /\ Len(queue') = Len(queue)
      /\ \A j \in 1..Len(queue) : j # i => queue'[j] = queue[j]
      /\ queue'[i] = e
  BY <1>2, <1>5, <1>6, ExceptSeq
<1>8. /\ \A j \in 1..Len(queue) : queue'[j].id = queue[j].id
      /\ \A j \in 1..Len(queue) : queue'[j].modified = queue[j].modified
  BY <1>5, <1>7
<1>9. queue[i].modified
  BY <1>2 DEF HandlesOK
<1>10. syncing = 0
  BY DEF SyncOK
<1>11. TypeOK'
  BY <1>3, <1>4, <1>7 DEF TypeOK, Entry
<1>12. CacheCoherent'
  <2>1. \A j, l \in 1..Len(queue') : queue'[j].id = queue'[l].id => j = l
    BY <1>7, <1>8 DEF CacheCoherent
  <2>2. ASSUME NEW l \in 1..Len(held')
        PROVE  \E j \in 1..Len(queue') : queue'[j].id = held'[l].id
    <3>1. \E j \in 1..Len(queue) : queue[j].id = held[l].id
      BY <1>3 DEF CacheCoherent, Cached
    <3> QED
      BY <1>3, <1>7, <1>8, <3>1
  <2>3. ASSUME NEW j \in 1..Len(queue')
        PROVE  queue'[j].modified \/ queue'[j].data = disk'[queue'[j].id]
    <3>1. queue[j].modified \/ queue[j].data = disk[queue[j].id]
      BY <1>7 DEF CacheCoherent
    <3> QED
      BY <1>3, <1>7, <1>8, <1>9, <3>1, Zenon
  <2> QED
    BY <2>1, <2>2, <2>3, Zenon DEF CacheCoherent, Cached
<1>13. HandlesOK'
  BY <1>3, <1>7, <1>8 DEF HandlesOK
<1>14. SyncOK'
  BY <1>3, <1>10 DEF SyncOK
<1>15. RecentOK'
  <2>1. \A b \in Block : disk'[b] \in recent'[b]
    BY <1>3, <1>4 DEF RecentOK
  <2>2. ASSUME NEW j \in 1..Len(queue') PROVE queue'[j].data \in recent'[queue'[j].id]
    <3>1. CASE j = i
      BY <1>4, <1>5, <1>7, <3>1
    <3>2. CASE j # i
      <4>1. queue[j].data \in recent[queue[j].id]
        BY <1>7 DEF RecentOK
      <4>2. queue[j] \in Entry
        BY <1>2, <1>7, ElementOfSeq
      <4>3. queue[j].id \in Block
        BY <4>2 DEF Entry
      <4> QED
        BY <1>4, <1>7, <3>2, <4>1, <4>3
    <3> QED
      BY <3>1, <3>2
  <2> QED
    BY <2>1, <2>2 DEF RecentOK
<1> QED
  BY <1>11, <1>12, <1>13, <1>14, <1>15

(* Dropping the innermost handle.                                           *)
LEMMA CloseKeeps == ASSUME CacheInv, Close PROVE CacheInv'
<1> USE DEF CacheInv, Idx
<1>1. /\ held \in Seq([id : Block, mode : Mode]) /\ held # <<>>
      /\ held' = SubSeq(held, 1, Len(held) - 1)
      /\ disk' = disk /\ queue' = queue /\ syncing' = syncing /\ recent' = recent
  BY DEF TypeOK, Close
<1>2. /\ held' \in Seq([id : Block, mode : Mode])
      /\ Len(held') = Len(held) - 1
      /\ \A k \in 1..Len(held') : held'[k] = held[k]
      /\ Len(held) \in Nat \ {0}
  BY <1>1, PopProperties, Zenon
<1>3. syncing = 0
  BY <1>1 DEF SyncOK
<1>4. TypeOK'
  BY <1>1, <1>2, CacheAssumption DEF TypeOK
<1>5. CacheCoherent'
  <2>1. \A k \in 1..Len(held') : \E j \in 1..Len(queue') : queue'[j].id = held'[k].id
    BY <1>1, <1>2 DEF CacheCoherent, Cached
  <2> QED
    BY <1>1, <2>1, Zenon DEF CacheCoherent, Cached
<1>6. HandlesOK'
  <2>1. \A k \in 1..Len(held') : k \in 1..Len(held) /\ held'[k] = held[k]
    BY <1>2
  <2>2. \A k, l \in 1..Len(held') : held'[k].id = held'[l].id => k = l
    BY <2>1 DEF HandlesOK
  <2>3. ASSUME NEW k \in 1..Len(held'), NEW i \in 1..Len(queue'),
               held'[k].mode = "modify", queue'[i].id = held'[k].id
        PROVE  queue'[i].modified
    <3>1. k \in 1..Len(held) /\ held[k].mode = "modify" /\ queue[i].id = held[k].id
      BY <1>1, <2>1, <2>3
    <3>2. queue[i].modified
      BY <1>1, <3>1 DEF HandlesOK
    <3> QED
      BY <1>1, <3>2
  <2> QED
    BY <2>2, <2>3 DEF HandlesOK
<1>7. SyncOK' /\ RecentOK'
  BY <1>1, <1>3 DEF SyncOK, RecentOK
<1> QED
  BY <1>4, <1>5, <1>6, <1>7

(* One turn of the loop of block_cache_sync_all.                            *)
LEMMA SyncOneKeeps == ASSUME CacheInv, SyncOne PROVE CacheInv'
<1> USE DEF CacheInv, Idx
<1> DEFINE i == syncing
           e == [queue[i] EXCEPT !.modified = FALSE]
<1>1. /\ i \in 1..Len(queue) /\ held = <<>>
      /\ disk' = Synced(queue[i])
      /\ queue' = [queue EXCEPT ![i] = e]
      /\ syncing' = i + 1 /\ held' = held /\ recent' = recent
  BY DEF SyncOne, SyncOK
<1>2. queue \in Seq(Entry) /\ queue[i] \in Entry /\ queue[i].id \in Block
  <2>1. queue \in Seq(Entry) /\ queue[i] \in Entry
    BY <1>1, ElementOfSeq, Zenon DEF TypeOK, Entry
  <2> QED
    BY <2>1 DEF Entry
<1>3. /\ e \in Entry /\ e.id = queue[i].id /\ e.data = queue[i].data
      /\ e.modified = FALSE
  BY <1>2, MarkedEntry, Zenon
<1>4. /\ queue[i].modified \/ queue[i].data = disk[queue[i].id]
      /\ queue[i].data \in recent[queue[i].id]
      /\ disk \in [Block -> Val]
  BY <1>1 DEF CacheCoherent, RecentOK, TypeOK
<1> HIDE DEF e, i
<1>5. /\ disk' \in [Block -> Val]
      /\ \A c \in Block : c # queue[i].id => disk'[c] = disk[c]
      /\ disk'[queue[i].id] = queue[i].data
  BY <1>1, <1>2, <1>4, SyncedProperties
<1>6. /\ queue' \in Seq(Entry) /\ Len(queue') = Len(queue)
      /\ \A j \in 1..Len(queue) : j # i => queue'[j] = queue[j]
      /\ queue'[i] = e
  BY <1>1, <1>2, <1>3, ExceptSeq
<1>7. /\ \A j \in 1..Len(queue) : queue'[j].id = queue[j].id
      /\ \A j \in 1..Len(queue) : queue'[j].data = queue[j].data
  BY <1>3, <1>6
<1>8. TypeOK'
  BY <1>1, <1>5, <1>6 DEF TypeOK, Entry
<1>9. CacheCoherent'
  <2>1. \A j, l \in 1..Len(queue') : queue'[j].id = queue'[l].id => j = l
    BY <1>6, <1>7 DEF CacheCoherent
  <2>2. ASSUME NEW j \in 1..Len(queue')
        PROVE  queue'[j].modified \/ queue'[j].data = disk'[queue'[j].id]
    <3>1. CASE j = i
      <4>1. queue'[j].data = disk'[queue'[j].id]
        BY <1>3, <1>5, <1>6, <3>1, Zenon
      <4> QED
        BY <4>1
    <3>2. CASE j # i
      <4>1. j \in 1..Len(queue) /\ queue'[j] = queue[j]
        BY <1>6, <3>2
      <4>2. queue[j].id # queue[i].id
        BY <1>1, <3>2, <4>1 DEF CacheCoherent
      <4>3. queue[j] \in Entry
        BY <1>2, <4>1, ElementOfSeq
      <4>4. disk'[queue[j].id] = disk[queue[j].id]
        BY <1>5, <4>2, <4>3 DEF Entry
      <4>5. queue[j].modified \/ queue[j].data = disk[queue[j].id]
        BY <4>1 DEF CacheCoherent
      <4> QED
        BY <4>1, <4>4, <4>5, Zenon
    <3> QED
      BY <3>1, <3>2
  <2>3. Len(held') = 0
    BY <1>1
  <2> QED
    BY <2>1, <2>2, <2>3 DEF CacheCoherent
<1>10. HandlesOK'
  BY <1>1 DEF HandlesOK
<1>11. SyncOK'
  <2>1. ASSUME NEW j \in 1..Len(queue'), j < syncing' PROVE ~queue'[j].modified
    <3>1. CASE j = i
      BY <1>3, <1>6, <3>1, Zenon
    <3>2. CASE j # i
      <4>1. j \in 1..Len(queue) /\ j < i /\ queue'[j] = queue[j]
        BY <1>1, <1>6, <2>1, <3>2
      <4> QED
        BY <1>1, <4>1 DEF SyncOK, i
    <3> QED
      BY <3>1, <3>2
  <2> QED
    BY <1>1, <2>1 DEF SyncOK
<1>12. RecentOK'
  <2>1. ASSUME NEW c \in Block PROVE disk'[c] \in recent'[c]
    BY <1>1, <1>4, <1>5 DEF RecentOK
  <2>2. \A j \in 1..Len(queue') : queue'[j].data \in recent'[queue'[j].id]
    BY <1>1, <1>6, <1>7 DEF RecentOK
  <2> QED
    BY <2>1, <2>2 DEF RecentOK
<1> QED
  BY <1>8, <1>9, <1>10, <1>11, <1>12

(* When the loop has passed every entry, the device holds what reads return. *)
LEMMA SyncedAll ==
  ASSUME CacheInv, syncing = Len(queue) + 1, NEW b \in Block
  PROVE  Contents(b) = disk[b]
<1>1. CASE Cached(b)
  <2>1. PICK i \in Idx : queue[i].id = b
    BY <1>1 DEF Cached
  <2>2. Len(queue) \in Nat
    BY LenProperties DEF CacheInv, TypeOK
  <2>3. i < syncing /\ syncing # 0
    BY <2>1, <2>2 DEF Idx
  <2>4. ~queue[i].modified
    BY <2>3 DEF CacheInv, SyncOK
  <2>5. queue[i].data = disk[b]
    BY <2>1, <2>4 DEF CacheInv, CacheCoherent
  <2>6. Contents(queue[i].id) = queue[i].data
    BY ContentsOfEntry DEF CacheInv, CacheCoherent
  <2> QED
    BY <2>1, <2>5, <2>6
<1>2. CASE ~Cached(b)
  BY <1>2 DEF Contents
<1> QED
  BY <1>1, <1>2

(* block_cache_sync_all returns.                                            *)
LEMMA SyncReturnsKeeps == ASSUME CacheInv, SyncReturns PROVE CacheInv'
<1> USE DEF CacheInv, Idx
<1>1. /\ syncing = Len(queue) + 1 /\ syncing' = 0
      /\ disk' = disk /\ queue' = queue /\ held' = held
      /\ recent' = [b \in Block |-> {Contents(b)}]
  BY DEF SyncReturns
<1>2. recent' = [b \in Block |-> {disk[b]}]
  BY <1>1, SyncedAll
<1>3. TypeOK'
  <2>1. recent' \in [Block -> SUBSET Val]
    BY <1>2 DEF TypeOK
  <2>2. syncing' \in 0..(Len(queue') + 1)
    BY <1>1 DEF TypeOK
  <2> QED
    BY <1>1, <2>1, <2>2 DEF TypeOK
<1>4. ASSUME NEW i \in 1..Len(queue) PROVE queue[i].data \in recent'[queue[i].id]
  <2>1. queue[i] \in Entry
    BY ElementOfSeq, Zenon DEF TypeOK, Entry
  <2>2. queue[i].id \in Block
    BY <2>1 DEF Entry
  <2>3. Contents(queue[i].id) = queue[i].data
    BY ContentsOfEntry DEF CacheCoherent
  <2> QED
    BY <1>1, <2>2, <2>3
<1>5. CacheCoherent' /\ HandlesOK'
  BY <1>1, Zenon DEF CacheCoherent, Cached, HandlesOK
<1>6. SyncOK' /\ RecentOK'
  BY <1>1, <1>2, <1>4, Zenon DEF SyncOK, RecentOK
<1> QED
  BY <1>3, <1>5, <1>6

(* A crash leaves the device and an empty cache.                            *)
LEMMA CrashKeeps == ASSUME CacheInv, Crash PROVE CacheInv'
<1>1. /\ queue' = <<>> /\ held' = <<>> /\ syncing' = 0 /\ disk' = disk
      /\ recent' = [b \in Block |-> {disk[b]}]
      /\ disk \in [Block -> Val]
  BY DEF Crash, CacheInv, TypeOK
<1>2. Len(queue') = 0 /\ Len(held') = 0
  BY <1>1
<1>3. TypeOK'
  BY <1>1, <1>2, CacheAssumption DEF TypeOK
<1>4. CacheCoherent' /\ HandlesOK'
  BY <1>2 DEF CacheCoherent, HandlesOK, Idx
<1>5. SyncOK' /\ RecentOK'
  BY <1>1, <1>2 DEF SyncOK, RecentOK, Idx
<1> QED
  BY <1>3, <1>4, <1>5 DEF CacheInv

(* The start of block_cache_sync_all.                                       *)
LEMMA SyncAllKeeps == ASSUME CacheInv, SyncAll PROVE CacheInv'
<1>1. /\ queue' = queue /\ held' = held /\ disk' = disk /\ recent' = recent
      /\ held = <<>> /\ syncing' = 1
  BY DEF SyncAll
<1>2. Len(queue) \in Nat
  BY LenProperties DEF CacheInv, TypeOK
<1>3. TypeOK'
  BY <1>1, <1>2 DEF TypeOK, CacheInv
<1>4. CacheCoherent' /\ HandlesOK' /\ RecentOK'
  BY <1>1, ZenonT(30) DEF CacheInv, CacheCoherent, Cached, HandlesOK, RecentOK, Idx
<1>5. SyncOK'
  BY <1>1, <1>2 DEF SyncOK, Idx
<1> QED
  BY <1>3, <1>4, <1>5 DEF CacheInv

(* The invariant holds from the empty cache on.                             *)
THEOREM CacheInvariant == Spec => []CacheInv
<1>1. Init => CacheInv
  <2> SUFFICES ASSUME Init PROVE CacheInv
    OBVIOUS
  <2>1. Len(queue) = 0 /\ Len(held) = 0
    BY DEF Init
  <2>2. TypeOK
    BY <2>1, CacheAssumption DEF Init, TypeOK
  <2>3. CacheCoherent /\ HandlesOK /\ SyncOK /\ RecentOK
    BY <2>1 DEF Init, CacheCoherent, HandlesOK, SyncOK, RecentOK, Idx
  <2> QED
    BY <2>2, <2>3 DEF CacheInv
<1>2. CacheInv /\ [Next]_vars => CacheInv'
  <2> SUFFICES ASSUME CacheInv, [Next]_vars PROVE CacheInv'
    OBVIOUS
  <2>1. ASSUME NEW b \in Block, NEW mode \in Mode, Open(b, mode) PROVE CacheInv'
    BY <2>1, OpenHitKeeps, OpenRoomKeeps, OpenEvictKeeps DEF Open
  <2>2. CASE UNCHANGED vars
    BY <2>2, Zenon DEF vars, CacheInv, TypeOK, CacheCoherent, Cached, HandlesOK, SyncOK,
                       RecentOK, Idx
  <2> QED
    BY <2>1, <2>2, WriteKeeps, CloseKeeps, SyncAllKeeps, SyncOneKeeps,
       SyncReturnsKeeps, CrashKeeps DEF Next
<1> QED
  BY <1>1, <1>2, PTL DEF Spec

(* The queue never grows past its size, and queue, handles and device keep   *)
(* their types.                                                            *)
THEOREM CacheTypes == Spec => []TypeOK
<1>1. CacheInv => TypeOK
  BY DEF CacheInv
<1> QED
  BY <1>1, CacheInvariant, PTL

(* No block is cached twice, a block with an open handle is in the queue,   *)
(* and a block not marked modified equals the device: always, for every     *)
(* number of blocks and every cache size.                                  *)
THEOREM CacheStaysCoherent == Spec => []CacheCoherent
<1>1. CacheInv => CacheCoherent
  BY DEF CacheInv
<1> QED
  BY <1>1, CacheInvariant, PTL

(* A full queue has fewer blocks held than it has entries, by counting, so   *)
(* the first entry nobody holds exists and get_block_cache does not panic   *)
(* as long as the file system holds fewer than BLOCK_CACHE_SIZE blocks.     *)
THEOREM CacheNeverRunsOut == Spec => []NeverRunsOut
<1>1. CacheInv => NeverRunsOut
  <2> SUFFICES ASSUME CacheInv, Len(held) < MaxNest, Full
               PROVE  \E i \in Idx : IsVictim(i)
    BY DEF NeverRunsOut
  <2>1. /\ Len(held) \in Nat /\ Len(queue) \in Nat /\ Len(held) < Len(queue)
    BY CacheAssumption, LenProperties DEF CacheInv, TypeOK, Full
  <2>2. \E i \in Idx : ~Pinned(queue[i].id)
    <3> SUFFICES ASSUME \A i \in Idx : Pinned(queue[i].id) PROVE FALSE
      OBVIOUS
    <3> DEFINE f == [i \in Idx |-> CHOOSE k \in 1..Len(held) : held[k].id = queue[i].id]
    <3>1. ASSUME NEW i \in Idx
          PROVE  f[i] \in 1..Len(held) /\ held[f[i]].id = queue[i].id
      BY DEF Pinned
    <3>2. f \in Injection(Idx, 1..Len(held))
      <4>1. f \in [Idx -> 1..Len(held)]
        BY <3>1
      <4>2. \A i, j \in Idx : f[i] = f[j] => i = j
        BY <3>1 DEF CacheInv, CacheCoherent
      <4> QED
        BY <4>1, <4>2 DEF Injection, IsInjective
    <3>3. /\ IsFiniteSet(1..Len(held)) /\ Cardinality(1..Len(held)) = Len(held)
          /\ Cardinality(Idx) = Len(queue)
      <4>1. ASSUME NEW n \in Nat PROVE IsFiniteSet(1..n) /\ Cardinality(1..n) = n
        <5>1. Cardinality(1..n) = IF 1 > n THEN 0 ELSE n - 1 + 1
          BY FS_Interval
        <5> QED
          BY <5>1, FS_Interval
      <4> QED
        BY <2>1, <4>1 DEF Idx
    <3>4. Cardinality(Idx) <= Cardinality(1..Len(held))
      BY <3>2, <3>3, FS_Injection
    <3> QED
      BY <2>1, <3>3, <3>4
  <2> DEFINE T == {i \in Idx : ~Pinned(queue[i].id)}
  <2>3. T \subseteq Nat /\ T # {}
    BY <2>2 DEF Idx
  <2>4. PICK i \in T : \A j \in T : ~(<<j, i>> \in OpToRel(<, Nat))
    BY <2>3, NatLessThanWellFounded, WFMin, Zenon
  <2>5. \A j \in T : ~(j < i)
    BY <2>3, <2>4, Zenon DEF OpToRel
  <2>6. IsVictim(i) /\ i \in Idx
    BY <2>1, <2>5 DEF IsVictim, Idx
  <2> QED
    BY <2>6
<1> QED
  BY <1>1, CacheInvariant, PTL

-----------------------------------------------------------------------------
(* What a read returns is recent: a cached value, or the device's.          *)
LEMMA ContentsRecent ==
  ASSUME CacheInv, NEW b \in Block PROVE Contents(b) \in recent[b]
<1>1. CASE Cached(b)
  <2>1. PICK i \in Idx : queue[i].id = b
    BY <1>1 DEF Cached
  <2>2. Contents(queue[i].id) = queue[i].data
    BY ContentsOfEntry DEF CacheInv, CacheCoherent
  <2> QED
    BY <2>1, <2>2 DEF CacheInv, RecentOK
<1>2. CASE ~Cached(b)
  BY <1>2 DEF Contents, CacheInv, RecentOK
<1> QED
  BY <1>1, <1>2

(* The same after a step, for a block that is cached then ...               *)
LEMMA ContentsCachedNext ==
  ASSUME CacheInv', NEW b, NEW i \in 1..Len(queue'), queue'[i].id = b
  PROVE  Contents(b)' = queue'[i].data
<1>1. \A j \in 1..Len(queue') : queue'[j].id = b => j = i
  BY DEF CacheInv, CacheCoherent, Idx
<1>2. (CHOOSE j \in 1..Len(queue') : queue'[j].id = b) = i
  BY <1>1
<1> QED
  BY <1>2, Zenon DEF Contents, Cached, Idx

(* ... and for one that is not.                                             *)
LEMMA ContentsUncachedNext ==
  ASSUME NEW b, \A i \in 1..Len(queue') : queue'[i].id # b
  PROVE  Contents(b)' = disk'[b]
BY DEF Contents, Cached, Idx

(* A block cached before a step reads as its entry, any other as the device. *)
LEMMA ContentsNow ==
  ASSUME CacheInv, NEW b
  PROVE  /\ \A i \in 1..Len(queue) : queue[i].id = b => Contents(b) = queue[i].data
         /\ (\A i \in 1..Len(queue) : queue[i].id # b) => Contents(b) = disk[b]
<1>1. \A i \in 1..Len(queue) : queue[i].id = b => Contents(b) = queue[i].data
  <2> SUFFICES ASSUME NEW i \in 1..Len(queue), queue[i].id = b
               PROVE  Contents(b) = queue[i].data
    OBVIOUS
  <2>1. Contents(queue[i].id) = queue[i].data
    BY ContentsOfEntry DEF CacheInv, CacheCoherent, Idx
  <2> QED
    BY <2>1
<1>2. (\A i \in 1..Len(queue) : queue[i].id # b) => Contents(b) = disk[b]
  BY DEF Contents, Cached, Idx
<1> QED
  BY <1>1, <1>2

(* A block loaded into a queue q reads as the device then does, and changes  *)
(* nothing about the others.                                               *)
LEMMA LoadReads ==
  ASSUME CacheInv', NEW b \in Block, NEW mode \in Mode, NEW c \in Block, NEW x,
         NEW q \in Seq(Entry), disk' \in [Block -> Val],
         queue' = Append(q, Loaded(disk', b, mode)),
         \/ \E i \in 1..Len(q) : q[i].id = c /\ q[i].data = x
         \/ (\A i \in 1..Len(q) : q[i].id # c) /\ disk'[c] = x
  PROVE  Contents(c)' = x
<1> DEFINE e == Loaded(disk', b, mode)
<1>1. e \in Entry /\ e.id = b /\ e.data = disk'[b]
  BY LoadedProperties
<1> HIDE DEF e
<1>2. /\ Len(queue') = Len(q) + 1
      /\ \A j \in 1..Len(q) : queue'[j] = q[j]
      /\ queue'[Len(q) + 1] = e
      /\ Len(q) \in Nat
  BY <1>1, PushProperties DEF e
<1>3. CASE \E i \in 1..Len(q) : q[i].id = c /\ q[i].data = x
  <2>1. PICK i \in 1..Len(q) : q[i].id = c /\ q[i].data = x
    BY <1>3
  <2>2. i \in 1..Len(queue') /\ queue'[i].id = c /\ queue'[i].data = x
    BY <1>2, <2>1
  <2> QED
    BY <2>2, ContentsCachedNext
<1>4. CASE (\A i \in 1..Len(q) : q[i].id # c) /\ disk'[c] = x
  <2>1. CASE c = b
    <3>1. /\ Len(q) + 1 \in 1..Len(queue')
          /\ queue'[Len(q) + 1].id = c /\ queue'[Len(q) + 1].data = x
      BY <1>1, <1>2, <1>4, <2>1
    <3> QED
      BY <3>1, ContentsCachedNext
  <2>2. CASE c # b
    <3>1. \A i \in 1..Len(queue') : queue'[i].id # c
      BY <1>1, <1>2, <1>4, <2>2
    <3> QED
      BY <1>4, <3>1, ContentsUncachedNext
  <2> QED
    BY <2>1, <2>2
<1> QED
  BY <1>3, <1>4

(* An entry replaced by one for the same block changes what that block      *)
(* reads as, to the new entry's data, and no other.                        *)
LEMMA ReplaceReads ==
  ASSUME CacheInv, CacheInv', NEW i \in 1..Len(queue), NEW e \in Entry,
         e.id = queue[i].id, queue' = [queue EXCEPT ![i] = e],
         NEW c \in Block, c = e.id \/ disk'[c] = disk[c]
  PROVE  Contents(c)' = IF c = e.id THEN e.data ELSE Contents(c)
<1>1. /\ Len(queue') = Len(queue)
      /\ \A j \in 1..Len(queue) : j # i => queue'[j] = queue[j]
      /\ queue'[i] = e
  BY ExceptSeq DEF CacheInv, TypeOK, Entry
<1>2. CASE c = e.id
  BY <1>1, <1>2, ContentsCachedNext
<1>3. CASE c # e.id /\ \E j \in 1..Len(queue) : queue[j].id = c
  <2>1. PICK j \in 1..Len(queue) : queue[j].id = c
    BY <1>3
  <2>2. j \in 1..Len(queue') /\ queue'[j] = queue[j]
    BY <1>1, <1>3, <2>1
  <2>3. Contents(c)' = queue[j].data
    BY <2>1, <2>2, ContentsCachedNext
  <2> QED
    BY <1>3, <2>1, <2>3, ContentsNow
<1>4. CASE c # e.id /\ \A j \in 1..Len(queue) : queue[j].id # c
  <2>1. \A j \in 1..Len(queue') : queue'[j].id # c
    BY <1>1, <1>4
  <2>2. Contents(c)' = disk'[c]
    BY <2>1, ContentsUncachedNext
  <2> QED
    BY <1>4, <2>2, ContentsNow
<1> QED
  BY <1>2, <1>3, <1>4

(* Hits, loads and evictions change no block's contents.                    *)
LEMMA OpenReads ==
  ASSUME CacheInv, CacheInv', NEW b \in Block, NEW mode \in Mode, Open(b, mode),
         NEW c \in Block
  PROVE  Contents(c)' = Contents(c)
<1>0. queue \in Seq(Entry) /\ disk \in [Block -> Val] /\ disk' \in [Block -> Val]
  BY DEF CacheInv, TypeOK, Entry
<1>1. CASE OpenHit(b, mode)
  <2>1. PICK i \in 1..Len(queue) :
          queue' = IF mode = "modify" THEN [queue EXCEPT ![i].modified = TRUE] ELSE queue
    BY <1>1, Zenon DEF OpenHit, Idx
  <2>2. queue[i] \in Entry /\ disk' = disk
    BY <1>0, <1>1, ElementOfSeq DEF OpenHit
  <2>3. CASE mode = "modify"
    <3> DEFINE e == [queue[i] EXCEPT !.modified = TRUE]
    <3>1. e \in Entry /\ e.id = queue[i].id /\ e.data = queue[i].data
      BY <2>2, MarkedEntry, Zenon
    <3>2. queue' = [queue EXCEPT ![i] = e]
      BY <2>1, <2>3
    <3> HIDE DEF e
    <3>3. Contents(c)' = IF c = e.id THEN e.data ELSE Contents(c)
      BY <2>2, <3>1, <3>2, ReplaceReads, Zenon
    <3> QED
      BY <3>1, <3>3, ContentsNow
  <2>4. CASE mode # "modify"
    BY <2>1, <2>2, <2>4, Zenon DEF Contents, Cached, Idx
  <2> QED
    BY <2>3, <2>4
<1>2. CASE OpenRoom(b, mode)
  <2>1. queue' = Append(queue, Loaded(disk', b, mode)) /\ disk' = disk
    BY <1>2 DEF OpenRoom
  <2>2. \/ \E i \in 1..Len(queue) : queue[i].id = c /\ queue[i].data = Contents(c)
        \/ (\A i \in 1..Len(queue) : queue[i].id # c) /\ disk'[c] = Contents(c)
    BY <2>1, ContentsNow
  <2> QED
    BY <1>0, <2>1, <2>2, LoadReads, Zenon
<1>3. CASE OpenEvict(b, mode)
  <2>1. PICK v \in 1..Len(queue) :
          /\ disk' = Synced(queue[v])
          /\ queue' = Append(Without(queue, v), Loaded(disk', b, mode))
    BY <1>3 DEF OpenEvict, Idx
  <2> DEFINE q == Without(queue, v)
  <2>2. /\ q \in Seq(Entry) /\ Len(q) = Len(queue) - 1 /\ Len(queue) \in Nat
        /\ \A j \in 1..Len(q) : q[j] = IF j < v THEN queue[j] ELSE queue[j + 1]
    BY <1>0, LenProperties, WithoutProperties
  <2>3. queue' = Append(q, Loaded(disk', b, mode))
    BY <2>1
  <2> HIDE DEF q
  <2>4. /\ \A c1 \in Block : c1 # queue[v].id => disk'[c1] = disk[c1]
        /\ disk'[queue[v].id] = queue[v].data
    <3>1. queue[v] \in Entry
      BY <1>0, ElementOfSeq
    <3>2. queue[v].modified \/ queue[v].data = disk[queue[v].id]
      BY DEF CacheInv, CacheCoherent, Idx
    <3> QED
      BY <1>0, <2>1, <3>1, <3>2, SyncedProperties
  <2>5. \A j \in 1..Len(q) : \E i \in 1..Len(queue) : i # v /\ queue[i] = q[j]
    BY <2>2
  <2>6. \/ \E i \in 1..Len(q) : q[i].id = c /\ q[i].data = Contents(c)
        \/ (\A i \in 1..Len(q) : q[i].id # c) /\ disk'[c] = Contents(c)
    <3>1. CASE c = queue[v].id
      <4>1. \A i \in 1..Len(q) : q[i].id # c
        BY <2>5, <3>1 DEF CacheInv, CacheCoherent, Idx
      <4> QED
        BY <2>4, <3>1, <4>1, ContentsNow
    <3>2. CASE c # queue[v].id /\ \E i \in 1..Len(queue) : queue[i].id = c
      <4>1. PICK i \in 1..Len(queue) : queue[i].id = c /\ i # v
        BY <3>2
      <4>2. \E j \in 1..Len(q) : q[j] = queue[i]
        <5>1. CASE i < v
          BY <2>2, <5>1
        <5>2. CASE i > v
          <6>1. i - 1 \in 1..Len(q) /\ q[i - 1] = queue[i]
            BY <2>2, <5>2
          <6> QED
            BY <6>1
        <5> QED
          BY <2>2, <4>1, <5>1, <5>2
      <4> QED
        BY <4>1, <4>2, ContentsNow
    <3>3. CASE \A i \in 1..Len(queue) : queue[i].id # c
      <4>1. \A i \in 1..Len(q) : q[i].id # c
        BY <2>5, <3>3
      <4> QED
        BY <2>4, <3>3, <4>1, ContentsNow
    <3> QED
      BY <3>1, <3>2, <3>3
  <2> QED
    BY <1>0, <2>2, <2>3, <2>6, LoadReads, Zenon
<1> QED
  BY <1>1, <1>2, <1>3 DEF Open

(* The block cache is memory over the device, crashes included: every step   *)
(* that moves blocks between queue and device is invisible, a store is a    *)
(* Put, the end of block_cache_sync_all a Sync, and a crash leaves each      *)
(* block at a recent value.                                                *)
THEOREM CacheIsDisk == Spec => ImplementsDisk
<1> DEFINE store == [b \in Block |-> Contents(b)]
<1>1. Init => Disk!Init
  <2> SUFFICES ASSUME Init PROVE Disk!Init
    OBVIOUS
  <2>1. Len(queue) = 0 /\ disk \in [Block -> Val]
    BY DEF Init
  <2>2. \A b \in Block : Contents(b) = disk[b]
    BY <2>1 DEF Contents, Cached, Idx
  <2> QED
    BY <2>1, <2>2 DEF Init, Disk!Init
<1>2. CacheInv /\ CacheInv' /\ [Next]_vars => [Disk!Next]_<<store, recent>>
  <2> SUFFICES ASSUME CacheInv, CacheInv', [Next]_vars
               PROVE  Disk!Next \/ (store' = store /\ recent' = recent)
    OBVIOUS
  <2>0. queue \in Seq(Entry) /\ recent \in [Block -> SUBSET Val]
    BY DEF CacheInv, TypeOK, Entry
  <2>1. ASSUME NEW b \in Block, NEW mode \in Mode, Open(b, mode)
        PROVE  store' = store /\ recent' = recent
    <3>1. \A c \in Block : Contents(c)' = Contents(c)
      BY <2>1, OpenReads
    <3> QED
      BY <2>1, <3>1 DEF Open
  <2>2. ASSUME NEW k \in 1..Len(held), NEW v \in Val, Write(k, v)
        PROVE  Disk!Next
    <3>1. PICK i \in 1..Len(queue) : /\ queue[i].id = held[k].id
                                     /\ queue' = [queue EXCEPT ![i].data = v]
      BY <2>2, Zenon DEF Write, IsFound, Idx
    <3> DEFINE e == [queue[i] EXCEPT !.data = v]
    <3>2. queue[i] \in Entry
      BY <2>0, ElementOfSeq
    <3>3. e \in Entry /\ e.id = queue[i].id /\ e.data = v /\ e.id \in Block
      BY <3>2, StoredEntry DEF Entry
    <3>4. queue' = [queue EXCEPT ![i] = e] /\ disk' = disk
      BY <2>2, <3>1, Zenon DEF Write
    <3> HIDE DEF e
    <3>5. \A c \in Block : Contents(c)' = IF c = e.id THEN v ELSE Contents(c)
      BY <3>3, <3>4, ReplaceReads, Zenon
    <3>6. store' = [store EXCEPT ![e.id] = v]
      BY <3>3, <3>5, Zenon
    <3>7. recent' = [recent EXCEPT ![e.id] = @ \union {v}]
      BY <2>2, <3>1, <3>3 DEF Write
    <3> QED
      BY <3>3, <3>6, <3>7, Zenon DEF Disk!Next, Disk!Put
  <2>3. CASE Close \/ SyncAll \/ UNCHANGED vars
    <3>1. queue' = queue /\ disk' = disk /\ recent' = recent
      BY <2>3 DEF Close, SyncAll, vars
    <3>2. \A c \in Block : Contents(c)' = Contents(c)
      BY <3>1, Zenon DEF Contents, Cached, Idx
    <3> QED
      BY <3>1, <3>2
  <2>4. CASE SyncOne
    <3> DEFINE i == syncing
               e == [queue[i] EXCEPT !.modified = FALSE]
    <3>1. /\ i \in 1..Len(queue) /\ disk' = Synced(queue[i])
          /\ queue' = [queue EXCEPT ![i] = e] /\ recent' = recent
      BY <2>4 DEF SyncOne, Idx
    <3>2. queue[i] \in Entry
      BY <2>0, <3>1, ElementOfSeq
    <3>3. e \in Entry /\ e.id = queue[i].id /\ e.data = queue[i].data
      BY <3>2, MarkedEntry, Zenon
    <3>4. queue[i].modified \/ queue[i].data = disk[queue[i].id]
      BY <3>1 DEF CacheInv, CacheCoherent, Idx
    <3> HIDE DEF e, i
    <3>5. \A c \in Block : c # queue[i].id => disk'[c] = disk[c]
      BY <3>1, <3>2, <3>4, SyncedProperties DEF CacheInv, TypeOK
    <3>6. ASSUME NEW c \in Block PROVE Contents(c)' = Contents(c)
      <4>1. Contents(c)' = IF c = e.id THEN e.data ELSE Contents(c)
        BY <3>1, <3>3, <3>5, ReplaceReads, Zenon
      <4>2. c = queue[i].id => Contents(c) = queue[i].data
        BY <3>1, ContentsNow
      <4> QED
        BY <3>3, <4>1, <4>2
    <3> QED
      BY <3>1, <3>6
  <2>5. CASE SyncReturns
    <3>1. queue' = queue /\ disk' = disk
      BY <2>5 DEF SyncReturns
    <3>2. \A c \in Block : Contents(c)' = Contents(c)
      BY <3>1, Zenon DEF Contents, Cached, Idx
    <3>3. store' = store /\ recent' = [b \in Block |-> {store[b]}]
      BY <2>5, <3>2 DEF SyncReturns
    <3> QED
      BY <3>3 DEF Disk!Next, Disk!Sync
  <2>6. CASE Crash
    <3>1. /\ Len(queue') = 0 /\ disk' = disk /\ disk \in [Block -> Val]
          /\ recent' = [b \in Block |-> {disk[b]}]
          /\ \A b \in Block : disk[b] \in recent[b]
      BY <2>6 DEF Crash, CacheInv, TypeOK, RecentOK
    <3>2. \A c \in Block : Contents(c)' = disk[c]
      BY <3>1, ContentsUncachedNext
    <3>3. /\ store' \in [Block -> Val]
          /\ \A b \in Block : store'[b] \in recent[b]
          /\ recent' = [b \in Block |-> {store'[b]}]
      BY <3>1, <3>2
    <3> QED
      BY <3>3 DEF Disk!Next, Disk!Crash
  <2> QED
    BY <2>1, <2>2, <2>3, <2>4, <2>5, <2>6 DEF Next
<1> QED
  BY <1>1, <1>2, CacheInvariant, PTL DEF Spec, ImplementsDisk, Disk!Spec
=============================================================================
