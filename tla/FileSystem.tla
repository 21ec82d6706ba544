----------------------------- MODULE FileSystem -----------------------------
(***************************************************************************)
(* easy-fs above its block cache, and the kernel's files on top of it:      *)
(* efs.rs, vfs.rs and os/src/fs/inode.rs.                                   *)
(*                                                                         *)
(* An operation runs under the file system's lock and nothing in the kernel  *)
(* switches tasks while it does, so each system call is one step; the block *)
(* cache is the memory it refines (BlockCache, AbstractDisk), synced by the  *)
(* end of every operation that writes.  The disk is a record with one field *)
(* per region; data blocks keep their absolute block ids.                   *)
(***************************************************************************)
EXTENDS Layout

CONSTANTS BLOCK_BITS,          \* bits of a bitmap block
          InodesPerBlock,      \* DiskInodes in a block
          TotalBlocks,         \* the sizes of device to make a file system on
          Name,                \* file names, numbers above 0
          Desc,                \* open file descriptions (OSInode objects)
          Flags,               \* OpenFlags: sets of WRONLY, RDWR, CREATE, TRUNC
          Bufs,                \* user buffers: the lengths of their slices
          MaxSize, SmallSize   \* the first file grows up to MaxSize, the others less

ASSUME FsAssumption ==
  /\ BLOCK_SZ % DIRENT_SZ = 0
  /\ SmallSize <= MaxSize
  /\ MaxSize <= BLOCK_SZ * (INDIRECT1_BOUND + INODE_INDIRECT2_COUNT)
  /\ Flags \subseteq SUBSET {"WRONLY", "RDWR", "CREATE", "TRUNC"}
  /\ \A buf \in Bufs : \A i \in DOMAIN buf : buf[i] > 0

VARIABLES disk,   \* [super, ibits, inodes, dbits, data]
          efs,    \* EasyFileSystem: where the regions are
          open,   \* [Desc -> OSInode]
          view    \* what a user can find and read, always View(disk)

vars == <<disk, efs, open, view>>

-----------------------------------------------------------------------------
inode_area_blocks == (maximum(1, BLOCK_BITS) + InodesPerBlock - 1) \div InodesPerBlock

\* The places of the inode area.
InodePos == [block_id : 2..(1 + inode_area_blocks), block_offset : 0..(InodesPerBlock - 1)]

(* Mutant of Geometry: the bitmap is rounded down.                          *)
MutantGeometryFloor(total) ==
  LET data_total == total - 1 - (1 + inode_area_blocks)
      data_bitmap == data_total \div (BLOCK_BITS + 1)
  IN  [total_blocks |-> total, inode_bitmap_blocks |-> 1,
       inode_area_blocks |-> inode_area_blocks, data_bitmap_blocks |-> data_bitmap,
       data_area_blocks |-> data_total - data_bitmap]

\* EasyFileSystem::create with one block of inode bitmap.
Geometry(total) ==
  LET data_total == total - 1 - (1 + inode_area_blocks)
      data_bitmap == (data_total + BLOCK_BITS) \div (BLOCK_BITS + 1)
  IN  [total_blocks |-> total, inode_bitmap_blocks |-> 1,
       inode_area_blocks |-> inode_area_blocks, data_bitmap_blocks |-> data_bitmap,
       data_area_blocks |-> data_total - data_bitmap]

\* The structure EasyFileSystem::create returns.
Created(total) ==
  LET g == Geometry(total)
      inode_total_blocks == 1 + g.inode_area_blocks
  IN  [inode_bitmap |-> [start |-> 1, blocks |-> 1],
       data_bitmap |-> [start |-> 1 + 1 + g.inode_area_blocks,
                        blocks |-> g.data_bitmap_blocks],
       inode_area_start_block |-> 1 + 1,
       data_area_start_block |-> 1 + inode_total_blocks + g.data_bitmap_blocks]

\* EasyFileSystem::open: the in-memory structure from a super block.
Opened(super) ==
  LET inode_total == super.inode_bitmap_blocks + super.inode_area_blocks IN
  [inode_bitmap |-> [start |-> 1, blocks |-> super.inode_bitmap_blocks],
   data_bitmap |-> [start |-> 1 + inode_total, blocks |-> super.data_bitmap_blocks],
   inode_area_start_block |-> 1 + super.inode_bitmap_blocks,
   data_area_start_block |-> 1 + inode_total + super.data_bitmap_blocks]

get_disk_inode_pos(id) ==
  [block_id |-> efs.inode_area_start_block + id \div InodesPerBlock,
   block_offset |-> id % InodesPerBlock]

Root == get_disk_inode_pos(0)

\* alloc_inode
AllocInode(d) == alloc(d.ibits, maximum(efs.inode_bitmap.blocks, BLOCK_BITS))

(* Mutant of AllocData: the bit is found but not set.                       *)
MutantAllocDataUnmarked(r, i) ==
  LET b == alloc(r.disk.dbits, maximum(efs.data_bitmap.blocks, BLOCK_BITS)) IN
  [disk |-> r.disk, new |-> Append(r.new, b + efs.data_area_start_block)]

\* alloc_data, r.new is the vector the block id is pushed to.
AllocData(r, i) ==
  LET b == alloc(r.disk.dbits, maximum(efs.data_bitmap.blocks, BLOCK_BITS)) IN
  [disk |-> [r.disk EXCEPT !.dbits = @ \union {b}],
   new |-> Append(r.new, b + efs.data_area_start_block)]

(* Mutant of DeallocData: the block keeps its old contents.                 *)
MutantDeallocDataDirty(d, b) ==
  [d EXCEPT !.dbits = dealloc(@, b - efs.data_area_start_block)]

\* dealloc_data
DeallocData(d, b) ==
  [d EXCEPT !.data[b] = ZeroBlock, !.dbits = dealloc(@, b - efs.data_area_start_block)]

-----------------------------------------------------------------------------
\* vfs.rs.  An Inode is the position pos of its DiskInode.

ReadAt(d, pos, offset, len) == read_at(d.data, d.inodes[pos], offset, len)

\* Inode::increase_size
Grown(d, pos, new_size) ==
  IF new_size < d.inodes[pos].size THEN d
  ELSE LET a == For(0, blocks_num_needed(d.inodes[pos], new_size), AllocData,
                    [disk |-> d, new |-> <<>>])
           g == increase_size(a.disk.data, d.inodes[pos], new_size, a.new)
       IN  [a.disk EXCEPT !.inodes[pos] = g.inode, !.data = g.data]

\* Inode::write_at
WriteAt(d, pos, offset, buf) ==
  LET g == Grown(d, pos, offset + Len(buf)) IN
  [g EXCEPT !.data = write_at(@, g.inodes[pos], offset, buf)]

\* Inode::clear
Clear(d, pos) ==
  LET c == clear_size(d.data, d.inodes[pos]) IN
  FoldLeft(DeallocData, [d EXCEPT !.inodes[pos] = c.inode], c.freed)

file_count(d) == d.inodes[Root].size \div DIRENT_SZ

DirEntry(d, i) == ReadAt(d, Root, i * DIRENT_SZ, DIRENT_SZ)

ls(d) == [i \in 1..file_count(d) |-> DirEntry(d, i - 1)[1]]

\* find_inode_id, the first entry with that name
Found(d, name) == {i \in 0..(file_count(d) - 1) : DirEntry(d, i)[1] = name}

find(d, name) == get_disk_inode_pos(DirEntry(d, Min(Found(d, name)))[2])

(* Mutant of Create: the entry is written over the last one.                *)
MutantCreateOverLast(d, name) ==
  LET id   == AllocInode(d)
      init == [d EXCEPT !.ibits = @ \union {id},
                        !.inodes[get_disk_inode_pos(id)] = initialize("File")]
      size == (file_count(d) + 1) * DIRENT_SZ
      g    == Grown(init, Root, size)
  IN  [g EXCEPT !.data = write_at(@, g.inodes[Root],
                                  Max({0, file_count(d) - 1}) * DIRENT_SZ, <<name, id>>)]

\* Inode::create, for a name that is not there.
Create(d, name) ==
  LET id   == AllocInode(d)
      init == [d EXCEPT !.ibits = @ \union {id},
                        !.inodes[get_disk_inode_pos(id)] = initialize("File")]
      size == (file_count(d) + 1) * DIRENT_SZ
      g    == Grown(init, Root, size)
  IN  [g EXCEPT !.data = write_at(@, g.inodes[Root], file_count(d) * DIRENT_SZ,
                                  <<name, id>>)]

-----------------------------------------------------------------------------
\* fs/inode.rs

Closed == [pos |-> [block_id |-> 0, block_offset |-> 0], offset |-> 0,
           readable |-> FALSE, writable |-> FALSE]

\* OpenFlags::read_write and OSInode::new
OSInode(pos, flags) ==
  [pos |-> pos, offset |-> 0,
   readable |-> flags = {} \/ "WRONLY" \notin flags, writable |-> flags # {}]

\* OSInode::read_all of a fresh description, a buffer of one block at a time.
read_all(d, pos) ==
  LET From[offset \in 0..MaxSize] ==
        LET got == ReadAt(d, pos, offset, BLOCK_SZ) IN
        IF got = <<>> THEN <<>> ELSE got \o From[offset + Len(got)]
  IN  From[0]

View(d) ==
  LET dir == [n \in ToSet(ls(d)) |-> find(d, n)] IN
  [dir |-> dir, files |-> [pos \in Range(dir) |-> read_all(d, pos)]]

\* The kernel panics when the disk is full; no step leads on from there.
HasRoom(n) == Cardinality(disk.dbits) + n <= disk.super.data_area_blocks

OpenExisting(o, name, flags) ==
  /\ Found(disk, name) # {}
  /\ LET pos == find(disk, name) IN
     /\ disk' = IF {"CREATE", "TRUNC"} \intersect flags # {} THEN Clear(disk, pos) ELSE disk
     /\ open' = [open EXCEPT ![o] = OSInode(pos, flags)]

OpenNew(o, name, flags) ==
  /\ Found(disk, name) = {}
  /\ "CREATE" \in flags
  /\ HasRoom(blocks_num_needed(disk.inodes[Root], disk.inodes[Root].size + DIRENT_SZ))
  /\ disk' = Create(disk, name)
  /\ open' = [open EXCEPT ![o] = OSInode(get_disk_inode_pos(AllocInode(disk)), flags)]

Open(o, name, flags) ==
  /\ open[o] = Closed
  /\ OpenExisting(o, name, flags) \/ OpenNew(o, name, flags)
  /\ view' = View(disk')
  /\ UNCHANGED efs

\* OSInode::read, slice by slice.
Read(o, buf) ==
  /\ open[o].readable
  /\ LET Slice(offset, n) == offset + Len(ReadAt(disk, open[o].pos, offset, n)) IN
     open' = [open EXCEPT ![o].offset = FoldLeft(Slice, @, buf)]
  /\ UNCHANGED <<disk, efs, view>>

\* What the user of a description writes: words that tell it and their place.
Content(o, offset, len) == [i \in 1..len |-> 2 * (offset + i) + o]

Total(buf) == FoldLeft(+, 0, buf)

SizeBound(pos) == IF pos = get_disk_inode_pos(1) THEN MaxSize ELSE SmallSize

\* OSInode::write, slice by slice.
Write(o, buf) ==
  LET f   == open[o]
      all == Content(o, f.offset, Total(buf))
      Slice(r, n) == [disk |-> WriteAt(r.disk, f.pos, f.offset + r.done,
                                       SubSeq(all, r.done + 1, r.done + n)),
                      done |-> r.done + n]
  IN  /\ f.writable
      /\ f.offset + Total(buf) <= SizeBound(f.pos)
      /\ HasRoom(blocks_num_needed(disk.inodes[f.pos], f.offset + Total(buf)))
      /\ disk' = FoldLeft(Slice, [disk |-> disk, done |-> 0], buf).disk
      /\ open' = [open EXCEPT ![o].offset = @ + Total(buf)]
      /\ view' = View(disk')
      /\ UNCHANGED efs

\* The last Arc of the OSInode is dropped.
Close(o) ==
  /\ open[o] # Closed
  /\ open' = [open EXCEPT ![o] = Closed]
  /\ UNCHANGED <<disk, efs, view>>

\* The machine stops between two operations, and ROOT_INODE opens the disk.
\* (FsTypeOK says that efs' is efs, so View may use either.)
Reboot ==
  /\ UNCHANGED disk
  /\ efs' = Opened(disk.super)
  /\ open' = [o \in Desc |-> Closed]
  /\ view' = View(disk')

\* EasyFileSystem::create: all blocks zero, the root directory in inode 0.
Init ==
  \E total \in TotalBlocks :
    /\ efs = Created(total)
    /\ disk =
         LET g == Geometry(total) IN
         [super |-> g, ibits |-> {0}, dbits |-> {},
          inodes |-> [pos \in InodePos |->
                        initialize(IF pos = Root THEN "Directory" ELSE "File")],
          data |-> [b \in efs.data_area_start_block..(total - 1) |-> ZeroBlock]]
    /\ open = [o \in Desc |-> Closed]
    /\ view = View(disk)

Next ==
  \/ \E o \in Desc, name \in Name, flags \in Flags : Open(o, name, flags)
  \/ \E o \in Desc, buf \in Bufs : Read(o, buf) \/ Write(o, buf)
  \/ \E o \in Desc : Close(o)
  \/ Reboot

Spec == Init /\ [][Next]_vars

-----------------------------------------------------------------------------
(* The state has its types, and the regions tile the device: what open      *)
(* reads back from the super block is what create laid out.                *)
FsTypeOK ==
  /\ efs = Opened(disk.super)
  /\ efs.data_area_start_block + disk.super.data_area_blocks = disk.super.total_blocks
  /\ disk.super.data_area_blocks <= maximum(efs.data_bitmap.blocks, BLOCK_BITS)
  /\ disk.ibits \subseteq 0..(maximum(efs.inode_bitmap.blocks, BLOCK_BITS) - 1)
  /\ disk.dbits \subseteq 0..(disk.super.data_area_blocks - 1)
  /\ \A pos \in InodePos : disk.inodes[pos].size \in 0..MaxSize
  /\ \A o \in Desc : open[o].offset \in 0..MaxSize

\* The blocks of a file, through get_block_id and the index blocks.
FileBlocks(pos) ==
  LET i == disk.inodes[pos]
      n == data_blocks(i.size)
  IN  {get_block_id(disk.data, i, k) : k \in 0..(n - 1)}
      \union (IF n > INODE_DIRECT_COUNT THEN {i.indirect1} ELSE {})
      \union (IF n > INDIRECT1_BOUND
              THEN {i.indirect2} \union
                   {disk.data[i.indirect2][a] :
                      a \in 0..((n - 1 - INDIRECT1_BOUND) \div INODE_INDIRECT1_COUNT)}
              ELSE {})

(* Every data block marked in the bitmap belongs to exactly one file, in one *)
(* place, and no file has a block that is not marked: no leak, no sharing,   *)
(* whatever was written, truncated under another descriptor's offset, and   *)
(* written again.                                                          *)
BlocksOwnedOnce ==
  /\ \A pos \in InodePos :
       Cardinality(FileBlocks(pos)) = total_blocks(disk.inodes[pos].size)
  /\ \A p, q \in InodePos : p # q => FileBlocks(p) \intersect FileBlocks(q) = {}
  /\ UNION {FileBlocks(pos) : pos \in InodePos}
       = {b + efs.data_area_start_block : b \in disk.dbits}

(* Inode::clear would return every block of the file once, as its assertion  *)
(* on total_blocks demands, and so deallocate no bit that is not set.       *)
ClearFreesAll ==
  \A pos \in InodePos :
    LET freed == clear_size(disk.data, disk.inodes[pos]).freed IN
    /\ Len(freed) = total_blocks(disk.inodes[pos].size)
    /\ ToSet(freed) = FileBlocks(pos)
    /\ IsInjective(freed)

(* A block that is not allocated is all zero, and so is the rest of a       *)
(* file's last block: what a hole reads as depends on it, since              *)
(* increase_size clears nothing.                                           *)
FreeSpaceZero ==
  /\ \A b \in DOMAIN disk.data :
       b - efs.data_area_start_block \notin disk.dbits => disk.data[b] = ZeroBlock
  /\ \A pos \in InodePos :
       LET i == disk.inodes[pos] IN
       \A p \in i.size..(data_blocks(i.size) * BLOCK_SZ - 1) :
         disk.data[get_block_id(disk.data, i, p \div BLOCK_SZ)][p % BLOCK_SZ] = 0

(* No name is in the directory twice, every entry names an inode of its      *)
(* own, and the inodes marked in the bitmap are the root's and theirs.      *)
DirectoryOK ==
  LET ids == [i \in 1..file_count(disk) |-> DirEntry(disk, i - 1)[2]] IN
  /\ IsInjective(ls(disk))
  /\ IsInjective(ids)
  /\ 0 \notin ToSet(ids)
  /\ disk.ibits = {0} \union ToSet(ids)

(* The files are what AbstractFiles says: what list_apps, find and read_all  *)
(* show is what was written through every description, holes are zero, a    *)
(* truncation through one description is seen by the others, a reboot       *)
(* changes nothing.                                                        *)
Files == INSTANCE AbstractFiles WITH
  File  <- InodePos,
  Lens  <- {Total(buf) : buf \in Bufs},
  dir   <- view.dir,
  files <- view.files,
  descs <- open

ImplementsFiles == Files!Spec
=============================================================================
