---------------------------- MODULE AbstractDisk ----------------------------
(***************************************************************************)
(* What the block cache promises the file system: the blocks behave as      *)
(* memory, and a crash undoes at most what was written since the last       *)
(* block_cache_sync_all, each block on its own.                            *)
(***************************************************************************)
CONSTANTS Block, Val

VARIABLES store,    \* what a read of each block returns
          recent    \* what each block held at the last sync, or since

Init ==
  /\ store \in [Block -> Val]
  /\ recent = [b \in Block |-> {store[b]}]

Put(b, v) ==
  /\ store' = [store EXCEPT ![b] = v]
  /\ recent' = [recent EXCEPT ![b] = @ \union {v}]

Sync ==
  /\ recent' = [b \in Block |-> {store[b]}]
  /\ UNCHANGED store

Crash ==
  /\ store' \in [Block -> Val]
  /\ \A b \in Block : store'[b] \in recent[b]
  /\ recent' = [b \in Block |-> {store'[b]}]

Next ==
  \/ \E b \in Block, v \in Val : Put(b, v)
  \/ Sync
  \/ Crash

Spec == Init /\ [][Next]_<<store, recent>>
=============================================================================
