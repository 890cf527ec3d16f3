------------------------------ MODULE FileStore ------------------------------
(***************************************************************************)
(* The files of a mounted InitraFS (src/fs/initrafs.c): the block and      *)
(* inode bitmaps with their counters, the pair of inodes of each file, the *)
(* integrity checksum, and reading and writing through a block device      *)
(* whose calls may fail.                                                   *)
(*                                                                         *)
(* A call runs to completion; the file structures are the caller's and     *)
(* belong to a file from initrafs_file_create until it is released or the  *)
(* instance is unmounted.                                                  *)
(***************************************************************************)
EXTENDS Integers, FiniteSets

CONSTANTS INITRAFS_BLOCK_SIZE,          \* 512
          INITRAFS_DIRECT_BLOCK_COUNT,  \* 8
          DATA_START,                   \* first data block, the root directory's
          INITRAFS_INSTANCE_MAX_BLOCKS, \* 32768
          INODE_COUNT,                  \* INITRAFS_DEFAULT_INODE_COUNT, 128
          DeviceSizes,                  \* block counts of the devices mounted
          Files,                        \* the callers' pairs of inode structures
          Bytes                         \* what is written: a buffer of equal bytes

ASSUME StoreAssumption ==
    /\ INITRAFS_BLOCK_SIZE \in Nat \ {0} /\ INITRAFS_DIRECT_BLOCK_COUNT \in Nat \ {0}
    /\ DATA_START \in Nat \ {0} /\ INITRAFS_INSTANCE_MAX_BLOCKS \in Nat \ {0}
    /\ INODE_COUNT \in Nat /\ INODE_COUNT > 1
    /\ DeviceSizes \subseteq Nat
    /\ Bytes \subseteq Nat

INITRAFS_ROOT_INODE == 1
MAX_FILE_SIZE == INITRAFS_DIRECT_BLOCK_COUNT * INITRAFS_BLOCK_SIZE
Logical == 0 .. INITRAFS_DIRECT_BLOCK_COUNT - 1
Blocks == 0 .. INITRAFS_INSTANCE_MAX_BLOCKS - 1
Inodes == 0 .. INODE_COUNT - 1
Offsets == 0 .. INITRAFS_BLOCK_SIZE - 1

VARIABLES mounted, total_blocks,
          block_bitmap,      \* the blocks marked used
          free_blocks,       \* counter of the block allocator
          free_block_count,  \* counter of the superblock
          inode_bitmap, free_inodes,
          files,             \* the files of the instance
          inode,             \* in-memory inode: number and size
          disk_inode,        \* disk inode: number, size, direct blocks
          checksum,          \* what the stored checksum was computed from
          disk               \* contents of the device

allocatorVars == <<total_blocks, block_bitmap, free_blocks, free_block_count>>
inodeVars == <<inode_bitmap, free_inodes>>
storeVars == <<mounted, allocatorVars, inodeVars, files, inode, disk_inode, checksum, disk>>

NoBlocks == [l \in Logical |-> 0]

StoreInit ==
    /\ mounted = FALSE /\ total_blocks = 0
    /\ block_bitmap = {} /\ free_blocks = 0 /\ free_block_count = 0
    /\ inode_bitmap = {} /\ free_inodes = 0
    /\ files = {}
    /\ inode = [f \in Files |-> [number |-> 0, size |-> 0]]
    /\ disk_inode = [f \in Files |-> [number |-> 0, size |-> 0, direct_blocks |-> NoBlocks]]
    /\ checksum = disk_inode
    /\ disk = [b \in Blocks |-> [o \in Offsets |-> 0]]

-----------------------------------------------------------------------------
(* Mounting, of an instance that is not mounted (initrafs_vfs_mount).  The superblock
   is sized by the device, so that every block the allocator returns is one of it. *)

initrafs_superblock_init(block_count) ==
    /\ block_count > DATA_START
    /\ total_blocks' = block_count

(* The root directory's block is in use from the start. *)
initrafs_block_allocator_init(block_count) ==
    /\ block_bitmap' = {DATA_START}
    /\ free_blocks' = block_count - DATA_START - 1
    /\ free_block_count' = block_count - DATA_START - 1

(* Inode 0 does not exist, and the root has inode 1. *)
initrafs_inode_allocator_init ==
    /\ inode_bitmap' = {0, INITRAFS_ROOT_INODE}
    /\ free_inodes' = INODE_COUNT - (INITRAFS_ROOT_INODE + 1)

initrafs_instance_init(block_count) ==
    /\ ~ mounted
    /\ block_count <= INITRAFS_INSTANCE_MAX_BLOCKS
    /\ initrafs_superblock_init(block_count)
    /\ initrafs_block_allocator_init(block_count)
    /\ initrafs_inode_allocator_init
    /\ mounted' = TRUE
    /\ files' = {}
    /\ UNCHANGED <<inode, disk_inode, checksum, disk>>

initrafs_instance_unmount ==
    /\ mounted
    /\ mounted' = FALSE /\ total_blocks' = 0
    /\ block_bitmap' = {} /\ free_blocks' = 0 /\ free_block_count' = 0
    /\ inode_bitmap' = {} /\ free_inodes' = 0
    /\ files' = {}
    /\ UNCHANGED <<inode, disk_inode, checksum, disk>>

-----------------------------------------------------------------------------
(* Inodes. *)

(* Mutant: the checksum is computed before the new size is stored. *)
update_before_size(f) ==
    checksum' = [checksum EXCEPT ![f] = [disk_inode'[f] EXCEPT !.size = disk_inode[f].size]]

initrafs_inode_integrity_update(f) ==
    checksum' = [checksum EXCEPT ![f] = disk_inode'[f]]

FreeInodes == (INITRAFS_ROOT_INODE + 1 .. INODE_COUNT - 1) \ inode_bitmap

(* A number that is reserved, out of range or free already is refused. *)
initrafs_inode_free(number) ==
    IF number \in INITRAFS_ROOT_INODE + 1 .. INODE_COUNT - 1 /\ number \in inode_bitmap
    THEN inode_bitmap' = inode_bitmap \ {number} /\ free_inodes' = free_inodes + 1
    ELSE UNCHANGED inodeVars

(* The blocks initrafs_block_free accepts: marked ones of the device behind the root
   directory's. *)
Accepted(marked, blocks) == {b \in blocks : DATA_START < b /\ b < total_blocks /\ b \in marked}

(* Mutant: freeing a block does not count it. *)
counted_without_returned(free, taken, returned) == free - Cardinality(taken)

(* The counter of the allocator: one down for each block taken, one up for each block
   accepted back. *)
Counted(free, taken, returned) == free - Cardinality(taken) + Cardinality(returned)

(* initrafs_block_free, of several blocks.  The superblock follows the counter whenever
   a block is taken or accepted. *)
BlocksFreed(blocks) ==
    LET accepted == Accepted(block_bitmap, blocks)
    IN  /\ block_bitmap' = block_bitmap \ accepted
        /\ free_blocks' = Counted(free_blocks, {}, accepted)
        /\ free_block_count' = IF accepted = {} THEN free_block_count ELSE free_blocks'

(* initrafs_file_create: the lowest free inode number; without one, nothing. *)
initrafs_file_create(f) ==
    /\ mounted /\ f \notin files
    /\ \E number \in FreeInodes :
          /\ \A n \in FreeInodes : number <= n
          /\ inode_bitmap' = inode_bitmap \cup {number}
          /\ free_inodes' = free_inodes - 1
          /\ inode' = [inode EXCEPT ![f] = [number |-> number, size |-> 0]]
          /\ disk_inode' = [disk_inode EXCEPT ![f] =
                 [number |-> number, size |-> 0, direct_blocks |-> NoBlocks]]
          /\ initrafs_inode_integrity_update(f)
    /\ files' = files \cup {f}
    /\ UNCHANGED <<mounted, allocatorVars, disk>>

MappedBlocks(blocks) == {blocks[l] : l \in Logical} \ {0}

(* A file is released as initrafs_file_io_test does it: each mapped block is
   unmapped and freed, then the inode number is freed. *)
ReleaseFile(f) ==
    /\ f \in files
    /\ BlocksFreed(MappedBlocks(disk_inode[f].direct_blocks))
    /\ disk_inode' = [disk_inode EXCEPT ![f].direct_blocks = NoBlocks]
    /\ initrafs_inode_integrity_update(f)
    /\ initrafs_inode_free(inode[f].number)
    /\ files' = files \ {f}
    /\ UNCHANGED <<mounted, total_blocks, inode, disk>>

-----------------------------------------------------------------------------
(* Reading and writing. *)

(* initrafs_file_inode_pair_valid, with the verification of the checksum. *)
PairValid(f) ==
    /\ inode[f].number = disk_inode[f].number
    /\ inode[f].size = disk_inode[f].size
    /\ checksum[f] = disk_inode[f]

BlockOf(position) == position \div INITRAFS_BLOCK_SIZE

(* The bytes initrafs_file_read copies out when the device does not fail: those of
   the range below the end of the file.  A block that is not mapped ends the call
   with -1, here {}. *)
initrafs_file_read(f, offset, size) ==
    LET available == disk_inode[f].size - offset
        count == IF available < 0 THEN 0 ELSE IF size > available THEN available ELSE size
        block(i) == disk_inode[f].direct_blocks[BlockOf(offset + i)]
    IN  IF PairValid(f) /\ \A i \in 0 .. count - 1 : block(i) \in 1 .. total_blocks - 1
        THEN {[i \in 0 .. count - 1 |-> disk[block(i)][(offset + i) % INITRAFS_BLOCK_SIZE]]}
        ELSE {}

(* Mutant: the scan goes one block too far. *)
free_past_end == (DATA_START .. total_blocks) \ block_bitmap

FreeBlocks == (DATA_START .. total_blocks - 1) \ block_bitmap

(* The blocks the allocation loop has obtained for the logical blocks it reached:
   both are taken in ascending order.  It stops early only when no block is free. *)
Allocated(needed) ==
    {run \in UNION {[reached -> FreeBlocks] : reached \in SUBSET needed} :
        /\ \A l \in DOMAIN run, m \in needed :
              m < l => m \in DOMAIN run /\ run[m] < run[l]
        /\ \A l \in DOMAIN run, b \in FreeBlocks :
              (\A m \in DOMAIN run : run[m] # b) => run[l] < b
        /\ DOMAIN run = needed \/ \A b \in FreeBlocks : \E m \in DOMAIN run : run[m] = b}

RangeOf(run) == {run[l] : l \in DOMAIN run}

(* initrafs_inode_map_block for every block obtained. *)
Map(blocks, run) == [l \in Logical |-> IF l \in DOMAIN run THEN run[l] ELSE blocks[l]]

(* Mutants: the blocks of a failed write are only freed, or only unmapped. *)
unmap_none(blocks, run) == blocks
free_none(marked, run) == marked

(* initrafs_file_rollback_blocks: unmap and free every block of this write. *)
UnmapAll(blocks, run) == [l \in Logical |-> IF l \in DOMAIN run THEN 0 ELSE blocks[l]]
FreeAll(marked, run) == marked \ Accepted(marked, RangeOf(run))

(* Mutant: an old block is not read before part of it is replaced. *)
written_without_read(old, new, l, from, upto, v) ==
    [o \in Offsets |->
        LET position == l * INITRAFS_BLOCK_SIZE + o
        IN  IF from <= position /\ position < upto THEN v ELSE 0]

(* Block l after the bytes from .. upto - 1 of the file became v: a new block is
   zeroed first, an old one read first. *)
WrittenBlock(old, new, l, from, upto, v) ==
    [o \in Offsets |->
        LET position == l * INITRAFS_BLOCK_SIZE + o
        IN  IF from <= position /\ position < upto THEN v
            ELSE IF new THEN 0 ELSE old[o]]

FirstBlock(offset) == BlockOf(offset)
LastBlock(offset, size) == BlockOf(offset + size - 1)

(* The places of the range without a block. *)
Needed(f, offset, size) ==
    {l \in FirstBlock(offset) .. LastBlock(offset, size) : disk_inode[f].direct_blocks[l] = 0}

(* The device once the blocks at first .. stop - 1 are written. *)
DiskAfter(blocks, needed, first, stop, from, upto, v) ==
    [b \in Blocks |->
        IF \E l \in first .. stop - 1 : blocks[l] = b
        THEN LET l == CHOOSE l \in first .. stop - 1 : blocks[l] = b
             IN  WrittenBlock(disk[b], l \in needed, l, from, upto, v)
        ELSE disk[b]]

(* With the blocks of run obtained, the device fails at block stop, or not at all when
   stop is past the last one.  Anything but a complete write is rolled back. *)
WriteUntil(f, offset, size, v, run, stop) ==
    LET d == disk_inode[f]
        obtained == DOMAIN run = Needed(f, offset, size)
        success == obtained /\ stop = LastBlock(offset, size) + 1
        blocks == Map(d.direct_blocks, run)
        marked == block_bitmap \cup RangeOf(run)
        returned == IF success THEN {} ELSE Accepted(marked, RangeOf(run))
        length == IF success /\ offset + size > d.size THEN offset + size ELSE d.size
    IN  /\ obtained \/ stop = FirstBlock(offset)
        /\ disk' = DiskAfter(blocks, Needed(f, offset, size), FirstBlock(offset), stop,
                             offset, offset + size, v)
        /\ block_bitmap' = IF success THEN marked ELSE FreeAll(marked, run)
        /\ free_blocks' = Counted(free_blocks, DOMAIN run, returned)
        /\ free_block_count' = IF DOMAIN run = {} THEN free_block_count ELSE free_blocks'
        /\ disk_inode' = [disk_inode EXCEPT ![f] =
              [number |-> d.number, size |-> length,
               direct_blocks |-> IF success THEN blocks ELSE UnmapAll(blocks, run)]]
        /\ inode' = [inode EXCEPT ![f] = [number |-> inode[f].number, size |-> length]]
        /\ initrafs_inode_integrity_update(f)

(* A write of size bytes v.  All missing blocks are allocated first; then the blocks
   are written in order. *)
initrafs_file_write(f, offset, size, v) ==
    /\ f \in files /\ PairValid(f)
    /\ size # 0 /\ offset <= disk_inode[f].size
    /\ disk_inode[f].size <= MAX_FILE_SIZE /\ size <= MAX_FILE_SIZE - offset
    /\ \E run \in Allocated(Needed(f, offset, size)),
          stop \in FirstBlock(offset) .. LastBlock(offset, size) + 1 :
              WriteUntil(f, offset, size, v, run, stop)
    /\ UNCHANGED <<mounted, total_blocks, inodeVars, files>>

StoreNext ==
    \/ \E block_count \in DeviceSizes : initrafs_instance_init(block_count)
    \/ initrafs_instance_unmount
    \/ \E f \in Files : initrafs_file_create(f) \/ ReleaseFile(f)
    \/ \E f \in Files, offset \in 0 .. MAX_FILE_SIZE, size \in 1 .. MAX_FILE_SIZE + 1,
          v \in Bytes : initrafs_file_write(f, offset, size, v)

StoreSpec == StoreInit /\ [][StoreNext]_storeVars

-----------------------------------------------------------------------------
(* Type invariant. *)
StoreTypeOK ==
    /\ mounted \in BOOLEAN /\ total_blocks \in 0 .. INITRAFS_INSTANCE_MAX_BLOCKS
    /\ block_bitmap \subseteq Blocks /\ free_blocks \in Int /\ free_block_count \in Int
    /\ inode_bitmap \subseteq Inodes /\ free_inodes \in Int
    /\ files \subseteq Files
    /\ inode \in [Files -> [number : Inodes, size : 0 .. MAX_FILE_SIZE]]
    /\ disk_inode \in [Files -> [number : Inodes, size : 0 .. MAX_FILE_SIZE,
                                 direct_blocks : [Logical -> Blocks]]]
    /\ checksum \in [Files -> [number : Inodes, size : 0 .. MAX_FILE_SIZE,
                               direct_blocks : [Logical -> Blocks]]]
    /\ disk \in [Blocks -> [Offsets -> Bytes \cup {0}]]

Block(f, l) == disk_inode[f].direct_blocks[l]

(* Whatever writes succeed, run out of blocks or fail halfway: a mapped block is a
   marked data block that is not the root directory's, and belongs to one place of
   one file; inode numbers are used once. *)
BlocksOwned ==
    \A f \in files :
        /\ inode[f].number \in inode_bitmap /\ inode[f].number > INITRAFS_ROOT_INODE
        /\ \A g \in files : inode[f].number = inode[g].number => f = g
        /\ \A l \in Logical : Block(f, l) # 0 =>
              /\ Block(f, l) \in block_bitmap
              /\ DATA_START < Block(f, l) /\ Block(f, l) < total_blocks
              /\ \A g \in files, m \in Logical :
                    Block(g, m) = Block(f, l) => g = f /\ m = l

(* Every marked block is the root directory's or mapped by a file, and every marked
   inode number reserved or a file's: failed writes and released files leave nothing
   behind. *)
NothingLeaked ==
    /\ \A b \in block_bitmap :
          b # DATA_START => b # 0 /\ \E f \in files, l \in Logical : Block(f, l) = b
    /\ \A n \in inode_bitmap : n <= INITRAFS_ROOT_INODE \/ \E f \in files : inode[f].number = n

(* The counters, stepped by every block taken and every block given back, by the roll-back
   of a failed write and by a release too, equal the number of free bits of the bitmaps;
   the superblock's copy is never left behind. *)
CountersAgree ==
    mounted => /\ free_blocks = Cardinality(FreeBlocks)
               /\ free_block_count = free_blocks
               /\ free_inodes = Cardinality(FreeInodes)

(* A file never becomes unusable: its two inodes agree, its checksum verifies, and the
   blocks it has are exactly those its size needs. *)
FilesUsable ==
    \A f \in files :
        /\ PairValid(f)
        /\ \A l \in Logical :
              Block(f, l) # 0 <=> l * INITRAFS_BLOCK_SIZE < disk_inode[f].size

(* What reading a whole file returns. *)
Read(f) ==
    CHOOSE bytes \in initrafs_file_read(f, 0, disk_inode[f].size) : TRUE

Contents == [f \in Files |-> IF f \in files THEN Read(f) ELSE [i \in {} |-> 0]]

Abstract == INSTANCE ByteFiles WITH
    MaxSize <- MAX_FILE_SIZE, exists <- files, contents <- Contents

(* The files read back as the bytes written to them, and to nothing else. *)
ImplementsByteFiles == Abstract!Spec
=============================================================================
