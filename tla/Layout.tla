------------------------------- MODULE Layout -------------------------------
(***************************************************************************)
(* How a file's blocks hang off its DiskInode, and the bitmaps:             *)
(* easy-fs/src/layout.rs and bitmap.rs, as operators on a map from block    *)
(* ids to blocks.                                                          *)
(*                                                                         *)
(* The unit of data is a word (u32): a block is BLOCK_SZ words, and so an    *)
(* index block has BLOCK_SZ entries.  A directory entry is two words, the   *)
(* name (a number, 0 where there is none) and the inode id.                *)
(***************************************************************************)
EXTENDS Integers, Sequences, SequencesExt, FiniteSetsExt

CONSTANTS BLOCK_SZ, INODE_DIRECT_COUNT

INODE_INDIRECT1_COUNT == BLOCK_SZ
INODE_INDIRECT2_COUNT == INODE_INDIRECT1_COUNT * INODE_INDIRECT1_COUNT
INDIRECT1_BOUND == INODE_DIRECT_COUNT + INODE_INDIRECT1_COUNT
DIRENT_SZ == 2

\* A loop: Step for k = a, a + 1, ..., b - 1.
For(a, b, Step(_, _), r) ==
  LET After[k \in a..b] == IF k = a THEN r ELSE Step(After[k - 1], k - 1)
  IN  IF a < b THEN After[b] ELSE r

ZeroBlock == [w \in 0..(BLOCK_SZ - 1) |-> 0]

\* DiskInode::initialize
initialize(type) ==
  [size |-> 0, direct |-> [i \in 0..(INODE_DIRECT_COUNT - 1) |-> 0],
   indirect1 |-> 0, indirect2 |-> 0, type |-> type]

data_blocks(size) == (size + BLOCK_SZ - 1) \div BLOCK_SZ

\* With the index blocks.
total_blocks(size) ==
  LET n == data_blocks(size) IN
  n + (IF n > INODE_DIRECT_COUNT THEN 1 ELSE 0)
    + (IF n > INDIRECT1_BOUND
       THEN 1 + (n - INDIRECT1_BOUND + INODE_INDIRECT1_COUNT - 1)
                  \div INODE_INDIRECT1_COUNT
       ELSE 0)

blocks_num_needed(inode, new_size) == total_blocks(new_size) - total_blocks(inode.size)

get_block_id(data, inode, k) ==
  LET last == k - INDIRECT1_BOUND IN
  CASE k < INODE_DIRECT_COUNT -> inode.direct[k]
    [] k \in INODE_DIRECT_COUNT..(INDIRECT1_BOUND - 1) ->
         data[inode.indirect1][k - INODE_DIRECT_COUNT]
    [] k >= INDIRECT1_BOUND ->
         data[data[inode.indirect2][last \div INODE_INDIRECT1_COUNT]]
             [last % INODE_INDIRECT1_COUNT]

-----------------------------------------------------------------------------
(* The three loops of increase_size.  r is [inode, data, new]: the inode,   *)
(* the blocks, and the iterator over the new block ids.  An index block is  *)
(* taken from the iterator just before the first entry that goes into it.   *)

FillDirect(r, k) ==
  [r EXCEPT !.inode.direct[k] = Head(r.new), !.new = Tail(r.new)]

FillIndirect1(r0, k) ==
  LET r == IF k = INODE_DIRECT_COUNT
           THEN [r0 EXCEPT !.inode.indirect1 = Head(r0.new), !.new = Tail(r0.new)]
           ELSE r0
  IN  [r EXCEPT !.data[r.inode.indirect1][k - INODE_DIRECT_COUNT] = Head(r.new),
                !.new = Tail(r.new)]

FillIndirect2(r0, k) ==
  LET r1 == IF k = INDIRECT1_BOUND
            THEN [r0 EXCEPT !.inode.indirect2 = Head(r0.new), !.new = Tail(r0.new)]
            ELSE r0
      i2 == r1.inode.indirect2
      a0 == (k - INDIRECT1_BOUND) \div INODE_INDIRECT1_COUNT
      b0 == (k - INDIRECT1_BOUND) % INODE_INDIRECT1_COUNT
      r  == IF b0 = 0
            THEN [r1 EXCEPT !.data[i2][a0] = Head(r1.new), !.new = Tail(r1.new)]
            ELSE r1
  IN  [r EXCEPT !.data[r.data[i2][a0]][b0] = Head(r.new), !.new = Tail(r.new)]

FillNext(r, k) ==
  CASE k < INODE_DIRECT_COUNT -> FillDirect(r, k)
    [] k \in INODE_DIRECT_COUNT..(INDIRECT1_BOUND - 1) -> FillIndirect1(r, k)
    [] k >= INDIRECT1_BOUND -> FillIndirect2(r, k)

increase_size(data, inode, new_size, new_blocks) ==
  For(data_blocks(inode.size), data_blocks(new_size), FillNext,
      [inode |-> [inode EXCEPT !.size = new_size], data |-> data, new |-> new_blocks])

-----------------------------------------------------------------------------
\* The first n ids of an index block.
Entries(data, b, n) == [i \in 1..n |-> data[b][i - 1]]

ClearedDirect(inode, n) ==
  [i \in 1..Min({n, INODE_DIRECT_COUNT}) |-> inode.direct[i - 1]]

ClearedIndirect1(data, inode, n) ==
  IF n > INODE_DIRECT_COUNT
  THEN <<inode.indirect1>> \o
       Entries(data, inode.indirect1,
               Min({n - INODE_DIRECT_COUNT, INODE_INDIRECT1_COUNT}))
  ELSE <<>>

ClearedIndirect2(data, inode, n) ==
  LET m  == n - INDIRECT1_BOUND
      a1 == m \div INODE_INDIRECT1_COUNT
      b1 == m % INODE_INDIRECT1_COUNT
      Sub(a, len) == LET b == data[inode.indirect2][a] IN
                     <<b>> \o Entries(data, b, len)
  IN  IF m > 0
      THEN <<inode.indirect2>>
           \o FlattenSeq([a \in 1..a1 |-> Sub(a - 1, INODE_INDIRECT1_COUNT)])
           \o (IF b1 > 0 THEN Sub(a1, b1) ELSE <<>>)
      ELSE <<>>

(* Mutant of clear_size: the index block itself is not returned.            *)
Mutant_clear_size_keeps_index(data, inode) ==
  LET n == data_blocks(inode.size) IN
  [inode |-> [initialize(inode.type) EXCEPT
                !.direct = [i \in DOMAIN @ |-> IF i < n THEN 0 ELSE inode.direct[i]]],
   freed |-> ClearedDirect(inode, n)
             \o (IF n > INODE_DIRECT_COUNT
                 THEN Tail(ClearedIndirect1(data, inode, n)) ELSE <<>>)
             \o ClearedIndirect2(data, inode, n)]

\* The inode after it, and the block ids to deallocate.
clear_size(data, inode) ==
  LET n == data_blocks(inode.size) IN
  [inode |-> [inode EXCEPT
                !.size = 0,
                !.direct = [i \in DOMAIN @ |-> IF i < n THEN 0 ELSE @[i]],
                !.indirect1 = IF n > INODE_DIRECT_COUNT THEN 0 ELSE @,
                !.indirect2 = IF n > INDIRECT1_BOUND THEN 0 ELSE @],
   freed |-> ClearedDirect(inode, n) \o ClearedIndirect1(data, inode, n)
             \o ClearedIndirect2(data, inode, n)]

-----------------------------------------------------------------------------
\* The words from offset on: fewer than len at the end of the file.
read_at(data, inode, offset, len) ==
  LET end == Min({offset + len, inode.size}) IN
  [i \in 1..(end - offset) |->
     LET p == offset + i - 1 IN
     data[get_block_id(data, inode, p \div BLOCK_SZ)][p % BLOCK_SZ]]

(* Mutant of write_at: each block's copy starts at the head of the buffer.  *)
Mutant_write_at_restarts(data, inode, offset, buf) ==
  LET end == Min({offset + Len(buf), inode.size})
      Block(d, k) ==
        [d EXCEPT ![get_block_id(data, inode, k)] =
           [w \in DOMAIN @ |-> LET p == k * BLOCK_SZ + w IN
                               IF p \in offset..(end - 1) THEN buf[w + 1] ELSE @[w]]]
  IN  For(offset \div BLOCK_SZ, data_blocks(end), Block, data)

\* One turn per block; p is a word's place in the file.
write_at(data, inode, offset, buf) ==
  LET end == Min({offset + Len(buf), inode.size})
      Block(d, k) ==
        [d EXCEPT ![get_block_id(data, inode, k)] =
           [w \in DOMAIN @ |-> LET p == k * BLOCK_SZ + w IN
                               IF p \in offset..(end - 1) THEN buf[p - offset + 1] ELSE @[w]]]
  IN  For(offset \div BLOCK_SZ, data_blocks(end), Block, data)

-----------------------------------------------------------------------------
\* A bitmap is the set of its bits that are 1.

\* maximum: how many bits the bitmap's blocks hold.
maximum(blocks, BLOCK_BITS) == blocks * BLOCK_BITS

\* Bitmap::alloc takes the lowest bit that is 0.
alloc(bits, max) == Min((0..(max - 1)) \ bits)

\* Bitmap::dealloc; its assertion that the bit is 1 is part of ClearFreesAll.
dealloc(bits, bit) == bits \ {bit}
=============================================================================
