--------------------------- MODULE FileStoreProofs ---------------------------
(***************************************************************************)
(* Proofs about the files of InitraFS, for every block size, number of     *)
(* direct blocks, device and set of files.                                 *)
(***************************************************************************)
EXTENDS FileStore, FiniteSetTheorems, TLAPS

B == INITRAFS_BLOCK_SIZE

(* Dividing a position by the block size gives the block it lies in. *)
LEMMA BlockBound ==
    ASSUME NEW a \in Nat, NEW l \in Nat
    PROVE  /\ BlockOf(a) \in Nat
           /\ l <= BlockOf(a) <=> l * B <= a
<1> DEFINE q == a \div B
<1> DEFINE r == a % B
<1>1. q \in Nat /\ r \in 0 .. B - 1 /\ a = q * B + r /\ B \in Nat /\ B > 0
  BY StoreAssumption DEF B
<1>2. ASSUME l <= q PROVE l * B <= q * B
  BY <1>1, <1>2
<1>3. ASSUME q + 1 <= l PROVE (q + 1) * B <= l * B
  BY <1>1, <1>3
<1>4. (q + 1) * B = q * B + B
  BY <1>1
<1>5. q * B \in Nat /\ l * B \in Nat
  BY <1>1
<1> HIDE DEF q, r
<1>6. BlockOf(a) = q
  BY DEF BlockOf, q, B
<1> QED
  BY <1>1, <1>2, <1>3, <1>4, <1>5, <1>6

-----------------------------------------------------------------------------
(* The parts of the invariant that speak of the whole instance. *)
InstanceInv ==
    /\ mounted => /\ DATA_START \in block_bitmap /\ {0, INITRAFS_ROOT_INODE} \subseteq inode_bitmap
                  /\ DATA_START < total_blocks
    /\ ~ mounted => files = {} /\ block_bitmap = {} /\ inode_bitmap = {}

(* Inductive: what the allocators hand out is exactly what the files hold. *)
StoreInv == StoreTypeOK /\ InstanceInv /\ BlocksOwned /\ NothingLeaked /\ FilesUsable

(* run gives different free blocks to some of the needed places. *)
FreshBlocks(run, needed) ==
    /\ DOMAIN run \subseteq needed
    /\ run \in [DOMAIN run -> FreeBlocks]
    /\ \A l, m \in DOMAIN run : run[l] = run[m] => l = m

(* A write that fails changes the device only. *)
WriteFailed(f, offset, size, v) ==
    \E run, stop :
        /\ FreshBlocks(run, Needed(f, offset, size))
        /\ stop \in FirstBlock(offset) .. LastBlock(offset, size) + 1
        /\ stop = FirstBlock(offset) \/ DOMAIN run = Needed(f, offset, size)
        /\ disk' = DiskAfter(Map(disk_inode[f].direct_blocks, run), Needed(f, offset, size),
                             FirstBlock(offset), stop, offset, offset + size, v)
        /\ UNCHANGED <<mounted, total_blocks, block_bitmap, free_blocks, inodeVars, files,
                       inode, disk_inode, checksum>>
        /\ free_block_count' \in {free_block_count, free_blocks}

WriteSucceeded(f, offset, size, v) ==
    \E run :
        /\ FreshBlocks(run, Needed(f, offset, size))
        /\ DOMAIN run = Needed(f, offset, size)
        /\ disk' = DiskAfter(Map(disk_inode[f].direct_blocks, run), Needed(f, offset, size),
                             FirstBlock(offset), LastBlock(offset, size) + 1,
                             offset, offset + size, v)
        /\ block_bitmap' = block_bitmap \cup RangeOf(run)
        /\ free_blocks' = free_blocks - Cardinality(DOMAIN run)
        /\ free_block_count' = IF DOMAIN run = {} THEN free_block_count ELSE free_blocks'
        /\ disk_inode' = [disk_inode EXCEPT ![f] =
               [number |-> disk_inode[f].number,
                size |-> IF offset + size > disk_inode[f].size THEN offset + size
                         ELSE disk_inode[f].size,
                direct_blocks |-> Map(disk_inode[f].direct_blocks, run)]]
        /\ inode' = [inode EXCEPT ![f] =
               [number |-> inode[f].number,
                size |-> IF offset + size > disk_inode[f].size THEN offset + size
                         ELSE disk_inode[f].size]]
        /\ checksum' = [checksum EXCEPT ![f] = disk_inode'[f]]
        /\ UNCHANGED <<mounted, total_blocks, inodeVars, files>>

(* The range of a write lies in the direct blocks. *)
LEMMA RangeInFile ==
    ASSUME NEW offset \in Nat, NEW size \in Nat, size # 0, offset + size <= MAX_FILE_SIZE
    PROVE  /\ FirstBlock(offset) \in Nat /\ LastBlock(offset, size) \in Nat
           /\ FirstBlock(offset) <= LastBlock(offset, size)
           /\ FirstBlock(offset) .. LastBlock(offset, size) \subseteq Logical
           /\ \A l \in Nat : /\ l <= LastBlock(offset, size) <=> l * B < offset + size
                             /\ l < FirstBlock(offset) => l * B < offset
                             /\ l > FirstBlock(offset) => l * B > offset
<1>1. offset + size - 1 \in Nat /\ offset <= offset + size - 1
  OBVIOUS
<1>2. /\ LastBlock(offset, size) \in Nat
      /\ \A l \in Nat : l <= LastBlock(offset, size) <=> l * B <= offset + size - 1
  BY <1>1, BlockBound DEF LastBlock
<1>3. /\ FirstBlock(offset) \in Nat
      /\ \A l \in Nat : l <= FirstBlock(offset) <=> l * B <= offset
  BY BlockBound DEF FirstBlock
<1>4. \A l \in Nat : l * B \in Nat
  BY StoreAssumption DEF B
<1>5. FirstBlock(offset) * B <= offset
  BY <1>3
<1>6. FirstBlock(offset) <= LastBlock(offset, size)
  BY <1>1, <1>2, <1>3, <1>4, <1>5
<1>7. INITRAFS_DIRECT_BLOCK_COUNT \in Nat /\ INITRAFS_DIRECT_BLOCK_COUNT * B = MAX_FILE_SIZE
  BY StoreAssumption DEF MAX_FILE_SIZE, B
<1>8. LastBlock(offset, size) < INITRAFS_DIRECT_BLOCK_COUNT
  <2>1. INITRAFS_DIRECT_BLOCK_COUNT <= LastBlock(offset, size)
            <=> INITRAFS_DIRECT_BLOCK_COUNT * B <= offset + size - 1
    BY <1>2, <1>7
  <2>2. ~ (MAX_FILE_SIZE <= offset + size - 1)
    <3>1. MAX_FILE_SIZE \in Int
      BY <1>4, <1>7
    <3> QED
      BY <3>1
  <2> QED
    BY <1>2, <1>7, <2>1, <2>2
<1>9. FirstBlock(offset) .. LastBlock(offset, size) \subseteq Logical
  BY <1>2, <1>3, <1>7, <1>8 DEF Logical
<1>10. ASSUME NEW l \in Nat, l < FirstBlock(offset) PROVE l * B < offset
  <2>1. l + 1 <= FirstBlock(offset)
    BY <1>10, <1>3
  <2>2. (l + 1) * B <= offset
    BY <1>3, <2>1
  <2>3. (l + 1) * B = l * B + B /\ B > 0 /\ B \in Nat /\ l * B \in Nat
    BY StoreAssumption DEF B
  <2> QED
    BY <2>2, <2>3
<1>11. ASSUME NEW l \in Nat, l > FirstBlock(offset) PROVE l * B > offset
  BY <1>3, <1>4, <1>11
<1> QED
  BY <1>1, <1>2, <1>3, <1>4, <1>6, <1>9, <1>10, <1>11

(* There are finitely many free blocks and inode numbers. *)
LEMMA FreeSetsFinite ==
    ASSUME StoreTypeOK
    PROVE  IsFiniteSet(FreeBlocks) /\ IsFiniteSet(FreeInodes)
<1>1. total_blocks - 1 \in Int /\ DATA_START \in Int
  BY StoreAssumption DEF StoreTypeOK
<1>2. IsFiniteSet(DATA_START .. total_blocks - 1)
  BY <1>1, FS_Interval
<1>3. INITRAFS_ROOT_INODE + 1 \in Int /\ INODE_COUNT - 1 \in Int
  BY StoreAssumption DEF INITRAFS_ROOT_INODE
<1>4. IsFiniteSet(INITRAFS_ROOT_INODE + 1 .. INODE_COUNT - 1)
  BY <1>3, FS_Interval
<1> QED
  BY <1>2, <1>4, FS_Difference DEF FreeBlocks, FreeInodes

(* A write obtains one block for each place. *)
LEMMA RunCounted ==
    ASSUME NEW run, NEW needed, FreshBlocks(run, needed), IsFiniteSet(FreeBlocks)
    PROVE  /\ RangeOf(run) \subseteq FreeBlocks
           /\ Cardinality(RangeOf(run)) = Cardinality(DOMAIN run)
<1>1. RangeOf(run) \subseteq FreeBlocks
  BY DEF FreshBlocks, RangeOf
<1>2. IsFiniteSet(RangeOf(run))
  BY <1>1, FS_Subset
<1>3. run \in Injection(DOMAIN run, RangeOf(run)) /\ run \in Surjection(DOMAIN run, RangeOf(run))
  BY DEF FreshBlocks, RangeOf, Injection, Surjection, IsInjective
<1> QED
  BY <1>1, <1>2, <1>3, FS_Injection

(* Every block a write obtained is accepted back by initrafs_block_free, so that the
   roll-back leaves the bitmap and the counter as they were. *)
LEMMA RollbackExact ==
    ASSUME StoreTypeOK, InstanceInv, mounted, NEW run, NEW needed, FreshBlocks(run, needed)
    PROVE  /\ Accepted(block_bitmap \cup RangeOf(run), RangeOf(run)) = RangeOf(run)
           /\ FreeAll(block_bitmap \cup RangeOf(run), run) = block_bitmap
           /\ Counted(free_blocks, DOMAIN run, RangeOf(run)) = free_blocks
           /\ Counted(free_blocks, DOMAIN run, {}) = free_blocks - Cardinality(DOMAIN run)
           /\ Cardinality(DOMAIN run) \in Nat
<1>1. IsFiniteSet(FreeBlocks)
  BY FreeSetsFinite
<1>2. RangeOf(run) \subseteq FreeBlocks /\ Cardinality(RangeOf(run)) = Cardinality(DOMAIN run)
  BY <1>1, RunCounted
<1>3. ASSUME NEW b \in FreeBlocks
      PROVE  DATA_START < b /\ b < total_blocks /\ b \notin block_bitmap
  <2>1. DATA_START \in Nat /\ total_blocks \in Nat /\ DATA_START \in block_bitmap
    BY StoreAssumption DEF StoreTypeOK, InstanceInv
  <2>2. b \in DATA_START .. total_blocks - 1 /\ b \notin block_bitmap /\ b # DATA_START
    BY <2>1 DEF FreeBlocks
  <2> QED
    BY <2>1, <2>2
<1>4. Accepted(block_bitmap \cup RangeOf(run), RangeOf(run)) = RangeOf(run)
  BY <1>2, <1>3 DEF Accepted
<1>5. FreeAll(block_bitmap \cup RangeOf(run), run) = block_bitmap
  BY <1>2, <1>3, <1>4 DEF FreeAll
<1>6. Cardinality(RangeOf(run)) \in Nat
  BY <1>1, <1>2, FS_Subset, FS_CardinalityType
<1>7. free_blocks \in Int /\ Cardinality({}) = 0
  BY FS_EmptySet DEF StoreTypeOK
<1> QED
  BY <1>2, <1>4, <1>5, <1>6, <1>7 DEF Counted

(* A write either leaves everything but the device as it was, or maps fresh blocks
   and grows the file. *)
LEMMA WriteCases ==
    ASSUME StoreTypeOK, InstanceInv,
           NEW f \in Files, NEW offset \in Nat, NEW size \in Nat, NEW v,
           initrafs_file_write(f, offset, size, v)
    PROVE  /\ f \in files /\ PairValid(f)
           /\ size # 0 /\ offset <= disk_inode[f].size /\ offset + size <= MAX_FILE_SIZE
           /\ WriteFailed(f, offset, size, v) \/ WriteSucceeded(f, offset, size, v)
<1> DEFINE d == disk_inode[f]
<1> DEFINE first == FirstBlock(offset)
<1> DEFINE last == LastBlock(offset, size)
<1> DEFINE needed == Needed(f, offset, size)
<1>1. /\ f \in files /\ PairValid(f) /\ size # 0 /\ offset <= d.size
      /\ size <= MAX_FILE_SIZE - offset
      /\ UNCHANGED <<mounted, total_blocks, inodeVars, files>>
  BY DEF initrafs_file_write
<1>2. offset + size <= MAX_FILE_SIZE /\ MAX_FILE_SIZE \in Nat
  BY <1>1, StoreAssumption DEF MAX_FILE_SIZE
<1>3. PICK run \in Allocated(needed), stop \in first .. last + 1 :
         WriteUntil(f, offset, size, v, run, stop)
  BY DEF initrafs_file_write
<1>4. needed \subseteq Logical /\ needed \subseteq Int
  BY <1>1, <1>2, RangeInFile DEF Needed, Logical
<1>5. FreshBlocks(run, needed)
  <2>1. DOMAIN run \subseteq needed /\ run \in [DOMAIN run -> FreeBlocks]
    BY <1>3 DEF Allocated
  <2>2. \A l, m \in DOMAIN run : m < l => run[m] < run[l]
    BY <1>3, <2>1 DEF Allocated
  <2>3. FreeBlocks \subseteq Int
    BY StoreAssumption DEF FreeBlocks, StoreTypeOK
  <2>4. ASSUME NEW l \in DOMAIN run, NEW m \in DOMAIN run, run[l] = run[m] PROVE l = m
    <3>1. l \in Int /\ m \in Int /\ run[l] \in Int /\ run[m] \in Int
      BY <1>4, <2>1, <2>3
    <3> QED
      BY <2>2, <2>4, <3>1
  <2> QED
    BY <2>1, <2>4 DEF FreshBlocks
<1>50. mounted
  BY <1>1 DEF InstanceInv
<1>51. /\ Accepted(block_bitmap \cup RangeOf(run), RangeOf(run)) = RangeOf(run)
       /\ FreeAll(block_bitmap \cup RangeOf(run), run) = block_bitmap
       /\ Counted(free_blocks, DOMAIN run, RangeOf(run)) = free_blocks
       /\ Counted(free_blocks, DOMAIN run, {}) = free_blocks - Cardinality(DOMAIN run)
  BY <1>5, <1>50, RollbackExact
<1> DEFINE success == DOMAIN run = needed /\ stop = last + 1
<1>6. CASE success
  <2>1. WriteSucceeded(f, offset, size, v)
    BY <1>1, <1>3, <1>5, <1>51, <1>6
       DEF WriteSucceeded, WriteUntil, initrafs_inode_integrity_update
  <2> QED
    BY <1>1, <1>2, <2>1
<1>7. CASE ~ success
  <2>1. block_bitmap' = block_bitmap
    BY <1>3, <1>51, <1>7 DEF WriteUntil
  <2>2. /\ disk_inode[f].direct_blocks \in [Logical -> Blocks]
        /\ disk_inode[f] = [number |-> disk_inode[f].number, size |-> disk_inode[f].size,
                           direct_blocks |-> disk_inode[f].direct_blocks]
        /\ disk_inode \in [Files -> [number : Inodes, size : 0 .. MAX_FILE_SIZE,
                                 direct_blocks : [Logical -> Blocks]]]
    BY DEF StoreTypeOK
  <2>3. UnmapAll(Map(d.direct_blocks, run), run) = d.direct_blocks
    <3>1. \A l \in DOMAIN run : d.direct_blocks[l] = 0
      BY <1>5 DEF FreshBlocks, Needed
    <3> QED
      BY <2>2, <3>1 DEF UnmapAll, Map
  <2>4. disk_inode' = disk_inode
    BY <1>3, <1>7, <2>2, <2>3 DEF WriteUntil
  <2>5. inode' = inode
    <3>1. inode[f] = [number |-> inode[f].number, size |-> disk_inode[f].size]
      BY <1>1 DEF StoreTypeOK, PairValid
    <3>2. inode' = [inode EXCEPT ![f] = inode[f]]
      BY <1>3, <1>7, <3>1 DEF WriteUntil
    <3> QED
      BY <3>2 DEF StoreTypeOK
  <2>6. checksum' = checksum
    BY <1>1, <1>3, <2>4 DEF StoreTypeOK, PairValid, WriteUntil, initrafs_inode_integrity_update
  <2>7. free_blocks' = free_blocks /\ free_block_count' \in {free_block_count, free_blocks}
    BY <1>3, <1>51, <1>7 DEF WriteUntil
  <2>8. /\ stop = first \/ DOMAIN run = needed
        /\ disk' = DiskAfter(Map(d.direct_blocks, run), needed, first, stop,
                             offset, offset + size, v)
    BY <1>3 DEF WriteUntil
  <2>9. UNCHANGED <<mounted, total_blocks, block_bitmap, free_blocks, inodeVars, files,
                    inode, disk_inode, checksum>>
    BY <1>1, <2>1, <2>4, <2>5, <2>6, <2>7
  <2>10. WriteFailed(f, offset, size, v)
    BY <1>5, <2>7, <2>8, <2>9 DEF WriteFailed
  <2> QED
    BY <1>1, <1>2, <2>10
<1> QED
  BY <1>6, <1>7

-----------------------------------------------------------------------------
LEMMA StoreInvInitial == StoreInit => StoreInv
<1> SUFFICES ASSUME StoreInit PROVE StoreInv
  OBVIOUS
<1>0. 0 \in Inodes /\ 0 \in 0 .. MAX_FILE_SIZE /\ 0 \in Int
  BY StoreAssumption DEF Inodes, MAX_FILE_SIZE
<1>1. NoBlocks \in [Logical -> Blocks]
  BY StoreAssumption DEF NoBlocks, Blocks
<1>2. StoreTypeOK
  <2>1. /\ mounted \in BOOLEAN /\ total_blocks \in 0 .. INITRAFS_INSTANCE_MAX_BLOCKS
        /\ block_bitmap \subseteq Blocks /\ free_blocks \in Int /\ free_block_count \in Int
        /\ inode_bitmap \subseteq Inodes /\ free_inodes \in Int /\ files \subseteq Files
    <3>1. total_blocks \in 0 .. INITRAFS_INSTANCE_MAX_BLOCKS
      BY StoreAssumption DEF StoreInit
    <3>2. free_blocks \in Int /\ free_block_count \in Int /\ free_inodes \in Int
      BY DEF StoreInit
    <3>3. block_bitmap \subseteq Blocks /\ inode_bitmap \subseteq Inodes /\ files \subseteq Files
      BY DEF StoreInit
    <3>4. mounted \in BOOLEAN
      BY DEF StoreInit
    <3> QED
      BY <3>1, <3>2, <3>3, <3>4
  <2>2. inode \in [Files -> [number : Inodes, size : 0 .. MAX_FILE_SIZE]]
    BY <1>0 DEF StoreInit
  <2>3. disk_inode \in [Files -> [number : Inodes, size : 0 .. MAX_FILE_SIZE,
                                  direct_blocks : [Logical -> Blocks]]]
    BY <1>0, <1>1 DEF StoreInit
  <2>4. checksum \in [Files -> [number : Inodes, size : 0 .. MAX_FILE_SIZE,
                                direct_blocks : [Logical -> Blocks]]]
    BY <2>3 DEF StoreInit
  <2>5. disk \in [Blocks -> [Offsets -> Bytes \cup {0}]]
    BY DEF StoreInit
  <2> QED
    BY <2>1, <2>2, <2>3, <2>4, <2>5 DEF StoreTypeOK
<1> QED
  BY <1>2 DEF StoreInit, StoreInv, InstanceInv, BlocksOwned, NothingLeaked, FilesUsable

(* Mounting and unmounting. *)
LEMMA MountPreserves ==
    ASSUME StoreInv, NEW block_count \in DeviceSizes, initrafs_instance_init(block_count)
    PROVE  StoreInv'
<1> USE DEF initrafs_superblock_init, initrafs_block_allocator_init,
            initrafs_inode_allocator_init
<1>0. StoreTypeOK
  BY DEF StoreInv
<1>1. StoreTypeOK'
  <2>1. /\ mounted' \in BOOLEAN /\ free_blocks' \in Int /\ free_block_count' \in Int
        /\ free_inodes' \in Int /\ files' \subseteq Files
    BY StoreAssumption DEF initrafs_instance_init, INITRAFS_ROOT_INODE
  <2>2. total_blocks' \in 0 .. INITRAFS_INSTANCE_MAX_BLOCKS
    BY StoreAssumption DEF initrafs_instance_init
  <2>3. block_bitmap' \subseteq Blocks
    BY StoreAssumption DEF initrafs_instance_init, Blocks
  <2>4. inode_bitmap' \subseteq Inodes
    BY StoreAssumption DEF initrafs_instance_init, Inodes, INITRAFS_ROOT_INODE
  <2> QED
    BY <1>0, <2>1, <2>2, <2>3, <2>4 DEF StoreTypeOK, initrafs_instance_init
<1>2. InstanceInv'
  BY DEF initrafs_instance_init, InstanceInv
<1>3. BlocksOwned' /\ NothingLeaked' /\ FilesUsable'
  BY DEF initrafs_instance_init, BlocksOwned, NothingLeaked, FilesUsable, INITRAFS_ROOT_INODE
<1> QED
  BY <1>1, <1>2, <1>3 DEF StoreInv

LEMMA UnmountPreserves ==
    ASSUME StoreInv, initrafs_instance_unmount
    PROVE  StoreInv'
<1>0. StoreTypeOK
  BY DEF StoreInv
<1>1. StoreTypeOK'
  <2>1. total_blocks' \in 0 .. INITRAFS_INSTANCE_MAX_BLOCKS
    BY StoreAssumption DEF initrafs_instance_unmount
  <2>2. free_blocks' \in Int /\ free_block_count' \in Int /\ free_inodes' \in Int
    BY DEF initrafs_instance_unmount
  <2>3. files' \subseteq Files /\ block_bitmap' \subseteq Blocks /\ inode_bitmap' \subseteq Inodes
    BY DEF initrafs_instance_unmount
  <2>4. mounted' \in BOOLEAN
    BY DEF initrafs_instance_unmount
  <2> QED
    BY <1>0, <2>1, <2>2, <2>3, <2>4 DEF StoreTypeOK, initrafs_instance_unmount
<1> QED
  BY <1>1 DEF initrafs_instance_unmount, StoreInv, InstanceInv, BlocksOwned, NothingLeaked,
              FilesUsable

(* Creating a file. *)
LEMMA CreatePreserves ==
    ASSUME StoreInv, NEW f \in Files, initrafs_file_create(f)
    PROVE  StoreInv'
<1>1. PICK number \in FreeInodes :
         /\ inode_bitmap' = inode_bitmap \cup {number}
         /\ free_inodes' = free_inodes - 1
         /\ inode' = [inode EXCEPT ![f] = [number |-> number, size |-> 0]]
         /\ disk_inode' = [disk_inode EXCEPT ![f] =
                [number |-> number, size |-> 0, direct_blocks |-> NoBlocks]]
         /\ checksum' = [checksum EXCEPT ![f] = disk_inode'[f]]
  BY DEF initrafs_file_create, initrafs_inode_integrity_update
<1>2. /\ mounted /\ f \notin files /\ files' = files \cup {f}
      /\ UNCHANGED <<mounted, total_blocks, block_bitmap, free_blocks, free_block_count, disk>>
  BY DEF initrafs_file_create, allocatorVars
<1>3. number \in Inodes /\ number > INITRAFS_ROOT_INODE /\ number \notin inode_bitmap
      /\ number \in Nat
  BY StoreAssumption DEF FreeInodes, Inodes, INITRAFS_ROOT_INODE
<1>4. StoreTypeOK
  BY DEF StoreInv
<1>5. 0 \in 0 .. MAX_FILE_SIZE /\ NoBlocks \in [Logical -> Blocks]
  BY StoreAssumption DEF MAX_FILE_SIZE, NoBlocks, Blocks
<1>6. /\ inode'[f] = [number |-> number, size |-> 0]
      /\ disk_inode'[f] = [number |-> number, size |-> 0, direct_blocks |-> NoBlocks]
      /\ checksum'[f] = disk_inode'[f]
      /\ \A g \in Files : g # f => /\ inode'[g] = inode[g] /\ disk_inode'[g] = disk_inode[g]
                                  /\ checksum'[g] = checksum[g]
  BY <1>1, <1>4 DEF StoreTypeOK
<1>7. StoreTypeOK'
  <2>1. disk_inode' \in [Files -> [number : Inodes, size : 0 .. MAX_FILE_SIZE,
                                  direct_blocks : [Logical -> Blocks]]]
    BY <1>1, <1>3, <1>4, <1>5 DEF StoreTypeOK
  <2> QED
    BY <1>1, <1>2, <1>3, <1>4, <1>5, <2>1 DEF StoreTypeOK
<1>8. InstanceInv'
  BY <1>1, <1>2 DEF StoreInv, InstanceInv
<1>9. \A l \in Logical : Block(f, l)' = 0
  BY <1>6 DEF Block, NoBlocks
<1>10. \A g \in files : g # f /\ g \in Files /\ inode'[g] = inode[g]
                       /\ \A l \in Logical : Block(g, l)' = Block(g, l)
  BY <1>2, <1>4, <1>6 DEF Block, StoreTypeOK
<1>11. BlocksOwned'
  <2> SUFFICES ASSUME NEW g \in files'
               PROVE  /\ inode'[g].number \in inode_bitmap'
                      /\ inode'[g].number > INITRAFS_ROOT_INODE
                      /\ \A h \in files' : inode'[g].number = inode'[h].number => g = h
                      /\ \A l \in Logical : Block(g, l)' # 0 =>
                            /\ Block(g, l)' \in block_bitmap'
                            /\ DATA_START < Block(g, l)' /\ Block(g, l)' < total_blocks'
                            /\ \A h \in files', m \in Logical :
                                  Block(h, m)' = Block(g, l)' => h = g /\ m = l
    BY DEF BlocksOwned
  <2>1. \A h \in files : /\ inode[h].number \in inode_bitmap /\ inode[h].number # number
                         /\ inode[h].number > INITRAFS_ROOT_INODE
    BY <1>3 DEF StoreInv, BlocksOwned
  <2>2. CASE g = f
    BY <1>1, <1>2, <1>3, <1>6, <1>9, <1>10, <2>1, <2>2
  <2>3. CASE g \in files
    <3>1. /\ inode'[g].number \in inode_bitmap'
          /\ inode'[g].number > INITRAFS_ROOT_INODE
      BY <1>1, <1>10, <2>1, <2>3
    <3>2. \A h \in files' : inode'[g].number = inode'[h].number => g = h
      BY <1>2, <1>6, <1>10, <2>1, <2>3 DEF StoreInv, BlocksOwned
    <3>3. ASSUME NEW l \in Logical, Block(g, l)' # 0
          PROVE  /\ Block(g, l)' \in block_bitmap'
                 /\ DATA_START < Block(g, l)' /\ Block(g, l)' < total_blocks'
                 /\ \A h \in files', m \in Logical :
                       Block(h, m)' = Block(g, l)' => h = g /\ m = l
      BY <1>2, <1>9, <1>10, <2>3, <3>3 DEF StoreInv, BlocksOwned
    <3> QED
      BY <3>1, <3>2, <3>3
  <2> QED
    BY <1>2, <2>2, <2>3
<1>12. NothingLeaked'
  <2>1. ASSUME NEW b \in block_bitmap'
        PROVE  b # DATA_START =>
                 b # 0 /\ \E g \in files', l \in Logical : Block(g, l)' = b
    BY <1>2, <1>10 DEF StoreInv, NothingLeaked
  <2>2. ASSUME NEW n \in inode_bitmap'
        PROVE  n <= INITRAFS_ROOT_INODE \/ \E g \in files' : inode'[g].number = n
    BY <1>1, <1>2, <1>6, <1>10 DEF StoreInv, NothingLeaked
  <2> QED
    BY <2>1, <2>2 DEF NothingLeaked
<1>13. FilesUsable'
  <2> SUFFICES ASSUME NEW g \in files'
               PROVE  /\ PairValid(g)'
                      /\ \A l \in Logical : Block(g, l)' # 0
                            <=> l * INITRAFS_BLOCK_SIZE < disk_inode'[g].size
    BY DEF FilesUsable
  <2>1. CASE g = f
    <3>1. \A l \in Logical : ~ (l * INITRAFS_BLOCK_SIZE < 0)
      BY StoreAssumption DEF Logical
    <3> QED
      BY <1>6, <1>9, <2>1, <3>1 DEF PairValid
  <2>2. CASE g \in files
    BY <1>6, <1>10, <2>2 DEF StoreInv, FilesUsable, PairValid
  <2> QED
    BY <1>2, <2>1, <2>2
<1> QED
  BY <1>7, <1>8, <1>11, <1>12, <1>13 DEF StoreInv
-----------------------------------------------------------------------------
(* Releasing a file: every block it has and its number are accepted back. *)
LEMMA ReleaseExact ==
    ASSUME StoreInv, NEW f \in Files, ReleaseFile(f)
    PROVE  LET own == MappedBlocks(disk_inode[f].direct_blocks)
           IN  /\ block_bitmap' = block_bitmap \ own
               /\ free_blocks' = free_blocks + Cardinality(own)
               /\ free_block_count' = IF own = {} THEN free_block_count ELSE free_blocks'
               /\ inode_bitmap' = inode_bitmap \ {inode[f].number}
               /\ free_inodes' = free_inodes + 1
               /\ Cardinality(own) \in Nat
<1> DEFINE own == MappedBlocks(disk_inode[f].direct_blocks)
<1>1. f \in files /\ BlocksFreed(own) /\ initrafs_inode_free(inode[f].number)
  BY DEF ReleaseFile
<1>2. StoreTypeOK /\ BlocksOwned
  BY DEF StoreInv
<1>3. ASSUME NEW b \in own
      PROVE  b \in Blocks /\ b \in block_bitmap /\ DATA_START < b /\ b < total_blocks
  <2>1. PICK l \in Logical : Block(f, l) = b /\ b # 0
    BY DEF MappedBlocks, Block
  <2> QED
    BY <1>1, <1>2, <2>1 DEF BlocksOwned, StoreTypeOK
<1> HIDE DEF own
<1>4. Accepted(block_bitmap, own) = own
  BY <1>3 DEF Accepted
<1>5. IsFiniteSet(own)
  <2>1. IsFiniteSet(Blocks)
    BY FS_Interval, StoreAssumption DEF Blocks
  <2> QED
    BY <1>3, <2>1, FS_Subset
<1>6. Cardinality(own) \in Nat /\ Cardinality({}) = 0 /\ free_blocks \in Int
  BY <1>2, <1>5, FS_CardinalityType, FS_EmptySet DEF StoreTypeOK
<1>7. /\ block_bitmap' = block_bitmap \ own
      /\ free_blocks' = free_blocks + Cardinality(own)
      /\ free_block_count' = IF own = {} THEN free_block_count ELSE free_blocks'
  BY <1>1, <1>4, <1>6 DEF BlocksFreed, Counted
<1>8. inode[f].number \in INITRAFS_ROOT_INODE + 1 .. INODE_COUNT - 1
      /\ inode[f].number \in inode_bitmap
  <2>1. inode[f].number \in inode_bitmap /\ inode[f].number > INITRAFS_ROOT_INODE
    BY <1>1, <1>2 DEF BlocksOwned
  <2>2. inode[f].number \in 0 .. INODE_COUNT - 1
    BY <1>2, <2>1 DEF StoreTypeOK, Inodes
  <2> QED
    BY <2>1, <2>2, StoreAssumption DEF INITRAFS_ROOT_INODE
<1>9. inode_bitmap' = inode_bitmap \ {inode[f].number} /\ free_inodes' = free_inodes + 1
  BY <1>1, <1>8 DEF initrafs_inode_free
<1> QED
  BY <1>6, <1>7, <1>9 DEF own

LEMMA ReleasePreserves ==
    ASSUME StoreInv, NEW f \in Files, ReleaseFile(f)
    PROVE  StoreInv'
<1> DEFINE own == MappedBlocks(disk_inode[f].direct_blocks)
<1>1. /\ f \in files /\ files' = files \ {f}
      /\ block_bitmap' = block_bitmap \ own
      /\ disk_inode' = [disk_inode EXCEPT ![f].direct_blocks = NoBlocks]
      /\ checksum' = [checksum EXCEPT ![f] = disk_inode'[f]]
      /\ inode_bitmap' = inode_bitmap \ {inode[f].number}
      /\ UNCHANGED <<mounted, total_blocks, inode, disk>>
  BY ReleaseExact DEF ReleaseFile, initrafs_inode_integrity_update
<1>2. StoreTypeOK
  BY DEF StoreInv
<1>3. \A l \in Logical : Block(f, l) # 0 => Block(f, l) \in own
  BY DEF MappedBlocks, Block
<1>4. \A b \in own : b # 0 /\ \E l \in Logical : Block(f, l) = b
  BY DEF MappedBlocks, Block
<1>5. \A g \in Files : g # f => /\ disk_inode'[g] = disk_inode[g] /\ checksum'[g] = checksum[g]
                               /\ \A l \in Logical : Block(g, l)' = Block(g, l)
  BY <1>1, <1>2 DEF StoreTypeOK, Block
<1>6. \A g \in files' : g \in files /\ g # f /\ g \in Files
  BY <1>1, <1>2 DEF StoreTypeOK
<1>7. StoreTypeOK'
  <2>2. free_blocks' \in Int /\ free_block_count' \in Int /\ free_inodes' \in Int
    <3>1. /\ free_blocks' = free_blocks + Cardinality(own) /\ Cardinality(own) \in Nat
          /\ free_block_count' = IF own = {} THEN free_block_count ELSE free_blocks'
          /\ free_inodes' = free_inodes + 1
      BY ReleaseExact
    <3>2. free_blocks \in Int /\ free_block_count \in Int /\ free_inodes \in Int
      BY <1>2 DEF StoreTypeOK
    <3> HIDE DEF own
    <3> QED
      BY <3>1, <3>2
  <2>3. NoBlocks \in [Logical -> Blocks]
    BY StoreAssumption DEF NoBlocks, Blocks
  <2>4. disk_inode' \in [Files -> [number : Inodes, size : 0 .. MAX_FILE_SIZE,
                                  direct_blocks : [Logical -> Blocks]]]
    BY <1>1, <1>2, <2>3 DEF StoreTypeOK
  <2>5. checksum' \in [Files -> [number : Inodes, size : 0 .. MAX_FILE_SIZE,
                                direct_blocks : [Logical -> Blocks]]]
    BY <1>1, <1>2, <2>4 DEF StoreTypeOK
  <2> QED
    BY <1>1, <1>2, <2>2, <2>4, <2>5 DEF StoreTypeOK
<1>8. \A g \in files', l \in Logical : Block(g, l)' # 0 => Block(g, l)' \notin own
  <2> SUFFICES ASSUME NEW g \in files', NEW l \in Logical, Block(g, l)' # 0,
                      Block(g, l)' \in own
               PROVE  FALSE
    OBVIOUS
  <2>1. PICK m \in Logical : Block(f, m) = Block(g, l)
    BY <1>4, <1>5, <1>6
  <2>2. Block(f, m) # 0 /\ g \in files /\ g # f
    BY <1>5, <1>6, <2>1
  <2> QED
    BY <1>1, <2>1, <2>2 DEF StoreInv, BlocksOwned
<1>9. InstanceInv'
  <2>1. DATA_START \notin own
    BY <1>1, <1>4, StoreAssumption DEF StoreInv, BlocksOwned
  <2>2. inode[f].number > INITRAFS_ROOT_INODE
    BY <1>1 DEF StoreInv, BlocksOwned
  <2>3. 0 # inode[f].number /\ INITRAFS_ROOT_INODE # inode[f].number
    BY <2>2 DEF INITRAFS_ROOT_INODE
  <2> QED
    BY <1>1, <2>1, <2>3 DEF StoreInv, InstanceInv
<1>10. BlocksOwned'
  <2>1. ASSUME NEW g \in files'
        PROVE  /\ inode'[g].number \in inode_bitmap'
               /\ inode'[g].number > INITRAFS_ROOT_INODE
               /\ \A h \in files' : inode'[g].number = inode'[h].number => g = h
    BY <1>1, <1>6 DEF StoreInv, BlocksOwned
  <2>2. ASSUME NEW g \in files', NEW l \in Logical, Block(g, l)' # 0
        PROVE  /\ Block(g, l)' \in block_bitmap'
               /\ DATA_START < Block(g, l)' /\ Block(g, l)' < total_blocks'
               /\ \A h \in files', m \in Logical :
                     Block(h, m)' = Block(g, l)' => h = g /\ m = l
    BY <1>1, <1>5, <1>6, <1>8, <2>2 DEF StoreInv, BlocksOwned
  <2> QED
    BY <2>1, <2>2 DEF BlocksOwned
<1>11. NothingLeaked'
  <2>1. ASSUME NEW b \in block_bitmap', b # DATA_START
        PROVE  b # 0 /\ \E g \in files', l \in Logical : Block(g, l)' = b
    <3>1. PICK g \in files, l \in Logical : Block(g, l) = b
      BY <1>1, <2>1 DEF StoreInv, NothingLeaked
    <3>2. b # 0
      BY <1>1, <2>1 DEF StoreInv, NothingLeaked
    <3>3. g # f
      BY <1>1, <1>3, <3>1, <3>2
    <3> QED
      BY <1>1, <1>2, <1>5, <3>1, <3>2, <3>3 DEF StoreTypeOK
  <2>2. ASSUME NEW n \in inode_bitmap', ~ (n <= INITRAFS_ROOT_INODE)
        PROVE  \E g \in files' : inode'[g].number = n
    BY <1>1, <2>2 DEF StoreInv, NothingLeaked
  <2> QED
    BY <2>1, <2>2 DEF NothingLeaked
<1>12. FilesUsable'
  <2> SUFFICES ASSUME NEW g \in files'
               PROVE  /\ PairValid(g)'
                      /\ \A l \in Logical : Block(g, l)' # 0
                            <=> l * INITRAFS_BLOCK_SIZE < disk_inode'[g].size
    BY DEF FilesUsable
  <2> QED
    BY <1>1, <1>5, <1>6 DEF StoreInv, FilesUsable, PairValid
<1> QED
  BY <1>7, <1>9, <1>10, <1>11, <1>12 DEF StoreInv
-----------------------------------------------------------------------------
(* What a write puts on the device is bytes. *)
LEMMA DiskTyped ==
    ASSUME NEW D \in [Blocks -> [Offsets -> Bytes \cup {0}]], disk = D,
           NEW blocks, NEW needed, NEW first, NEW stop, NEW from, NEW upto, NEW v \in Bytes
    PROVE  DiskAfter(blocks, needed, first, stop, from, upto, v)
               \in [Blocks -> [Offsets -> Bytes \cup {0}]]
<1>1. \A b \in Blocks : \A new, l :
         WrittenBlock(disk[b], new, l, from, upto, v) \in [Offsets -> Bytes \cup {0}]
  BY DEF WrittenBlock
<1>2. \A b \in Blocks : disk[b] \in [Offsets -> Bytes \cup {0}]
  OBVIOUS
<1> QED
  BY <1>1, <1>2 DEF DiskAfter

(* A write that fails changes nothing the invariant speaks of. *)
LEMMA WriteFailedPreserves ==
    ASSUME StoreInv, NEW f, NEW offset, NEW size, NEW v \in Bytes,
           WriteFailed(f, offset, size, v)
    PROVE  StoreInv'
<1>1. PICK run, stop :
        /\ disk' = DiskAfter(Map(disk_inode[f].direct_blocks, run), Needed(f, offset, size),
                             FirstBlock(offset), stop, offset, offset + size, v)
        /\ UNCHANGED <<mounted, total_blocks, block_bitmap, free_blocks, inodeVars, files,
                       inode, disk_inode, checksum>>
        /\ free_block_count' \in {free_block_count, free_blocks}
  BY DEF WriteFailed
<1>2. StoreTypeOK
  BY DEF StoreInv
<1>3. disk' \in [Blocks -> [Offsets -> Bytes \cup {0}]]
  BY <1>1, <1>2, DiskTyped DEF StoreTypeOK
<1>4. StoreTypeOK'
  BY <1>1, <1>2, <1>3 DEF StoreTypeOK, inodeVars
<1>5. InstanceInv' /\ BlocksOwned' /\ NothingLeaked' /\ FilesUsable'
  BY <1>1 DEF StoreInv, InstanceInv, BlocksOwned, NothingLeaked, FilesUsable, Block, PairValid,
              inodeVars
<1> QED
  BY <1>4, <1>5 DEF StoreInv
(* A write that succeeds gives free blocks to places without one, up to the end of
   the range; the file had every block before it. *)
LEMMA WriteSucceededPreserves ==
    ASSUME StoreInv, NEW f \in Files, f \in files, PairValid(f),
           NEW offset \in Nat, NEW size \in Nat, NEW v \in Bytes,
           size # 0, offset <= disk_inode[f].size, offset + size <= MAX_FILE_SIZE,
           WriteSucceeded(f, offset, size, v)
    PROVE  StoreInv'
<1> DEFINE needed == Needed(f, offset, size)
<1> DEFINE old == disk_inode[f].size
<1> DEFINE length == IF offset + size > old THEN offset + size ELSE old
<1>1. PICK run :
        /\ FreshBlocks(run, needed)
        /\ DOMAIN run = needed
        /\ disk' = DiskAfter(Map(disk_inode[f].direct_blocks, run), needed,
                             FirstBlock(offset), LastBlock(offset, size) + 1,
                             offset, offset + size, v)
        /\ block_bitmap' = block_bitmap \cup RangeOf(run)
        /\ free_blocks' = free_blocks - Cardinality(DOMAIN run)
        /\ free_block_count' = IF DOMAIN run = {} THEN free_block_count ELSE free_blocks'
        /\ disk_inode' = [disk_inode EXCEPT ![f] =
               [number |-> disk_inode[f].number, size |-> length,
                direct_blocks |-> Map(disk_inode[f].direct_blocks, run)]]
        /\ inode' = [inode EXCEPT ![f] = [number |-> inode[f].number, size |-> length]]
        /\ checksum' = [checksum EXCEPT ![f] = disk_inode'[f]]
        /\ UNCHANGED <<mounted, total_blocks, inodeVars, files>>
  BY DEF WriteSucceeded
<1>2. StoreTypeOK
  BY DEF StoreInv
<1>3. /\ FirstBlock(offset) \in Nat /\ LastBlock(offset, size) \in Nat
      /\ FirstBlock(offset) .. LastBlock(offset, size) \subseteq Logical
      /\ \A l \in Nat : /\ l <= LastBlock(offset, size) <=> l * B < offset + size
                        /\ l < FirstBlock(offset) => l * B < offset
  BY RangeInFile
<1>4. needed \subseteq Logical /\ \A l \in needed : Block(f, l) = 0
  BY <1>3 DEF Needed, Block
<1>5. \A l \in needed : run[l] \in FreeBlocks
  BY <1>1 DEF FreshBlocks
<1>6. \A l, m \in needed : run[l] = run[m] => l = m
  BY <1>1 DEF FreshBlocks
<1>7. \A b \in FreeBlocks : /\ b \in Blocks /\ b \in Nat /\ b # 0 /\ DATA_START <= b
                            /\ b < total_blocks /\ b \notin block_bitmap
  BY <1>2, StoreAssumption DEF StoreTypeOK, FreeBlocks, Blocks
<1>8. DATA_START \in block_bitmap
  <2>1. mounted
    BY DEF StoreInv, InstanceInv
  <2> QED
    BY <2>1 DEF StoreInv, InstanceInv
<1>9. \A b \in FreeBlocks : DATA_START < b
  BY <1>7, <1>8, StoreAssumption
<1>10. MAX_FILE_SIZE \in Nat /\ old \in 0 .. MAX_FILE_SIZE
  BY <1>2, StoreAssumption DEF StoreTypeOK, MAX_FILE_SIZE
<1>11. length \in 0 .. MAX_FILE_SIZE /\ length \in Nat
  BY <1>10
<1>12. Map(disk_inode[f].direct_blocks, run) \in [Logical -> Blocks]
  BY <1>1, <1>2, <1>5, <1>7 DEF Map, StoreTypeOK
<1> HIDE DEF length, old, needed
<1>13. /\ disk_inode'[f] = [number |-> disk_inode[f].number, size |-> length,
                            direct_blocks |-> Map(disk_inode[f].direct_blocks, run)]
       /\ inode'[f] = [number |-> inode[f].number, size |-> length]
       /\ checksum'[f] = disk_inode'[f]
       /\ \A g \in Files : g # f => /\ disk_inode'[g] = disk_inode[g] /\ checksum'[g] = checksum[g]
                                   /\ inode'[g] = inode[g]
  BY <1>1, <1>2 DEF StoreTypeOK
<1>14. \A l \in Logical : Block(f, l)' = IF l \in needed THEN run[l] ELSE Block(f, l)
  BY <1>1, <1>13 DEF Block, Map
<1>15. \A g \in files : g \in Files /\ (g # f => \A l \in Logical : Block(g, l)' = Block(g, l))
  BY <1>2, <1>13 DEF StoreTypeOK, Block
<1>16. \A g \in files : inode'[g].number = inode[g].number
  BY <1>13, <1>15
<1>17. StoreTypeOK'
  <2>1. disk' \in [Blocks -> [Offsets -> Bytes \cup {0}]]
    BY <1>1, <1>2, DiskTyped DEF StoreTypeOK
  <2>2. disk_inode' \in [Files -> [number : Inodes, size : 0 .. MAX_FILE_SIZE,
                                  direct_blocks : [Logical -> Blocks]]]
    BY <1>1, <1>2, <1>11, <1>12 DEF StoreTypeOK
  <2>3. inode' \in [Files -> [number : Inodes, size : 0 .. MAX_FILE_SIZE]]
    BY <1>1, <1>2, <1>11 DEF StoreTypeOK
  <2>4. checksum' \in [Files -> [number : Inodes, size : 0 .. MAX_FILE_SIZE,
                                direct_blocks : [Logical -> Blocks]]]
    BY <1>1, <1>2, <2>2 DEF StoreTypeOK
  <2>5. block_bitmap' \subseteq Blocks
    BY <1>1, <1>2, <1>5, <1>7 DEF StoreTypeOK, RangeOf
  <2>6. Cardinality(needed) \in Nat
    <3>1. IsFiniteSet(Logical)
      BY FS_Interval, StoreAssumption DEF Logical
    <3> QED
      BY <1>4, <3>1, FS_Subset, FS_CardinalityType
  <2>7. free_blocks' \in Int /\ free_block_count' \in Int
    BY <1>1, <1>2, <2>6 DEF StoreTypeOK
  <2> QED
    BY <1>1, <1>2, <2>1, <2>2, <2>3, <2>4, <2>5, <2>7 DEF StoreTypeOK, inodeVars
<1>18. InstanceInv'
  BY <1>1 DEF StoreInv, InstanceInv, inodeVars
<1>19. \A l \in needed : run[l] \in block_bitmap'
  BY <1>1 DEF RangeOf
<1>20. \A g \in files, l \in Logical, m \in needed : Block(g, l) # run[m]
  BY <1>5, <1>7 DEF StoreInv, BlocksOwned
<1>21. BlocksOwned'
  <2>1. ASSUME NEW g \in files'
        PROVE  /\ inode'[g].number \in inode_bitmap'
               /\ inode'[g].number > INITRAFS_ROOT_INODE
               /\ \A h \in files' : inode'[g].number = inode'[h].number => g = h
    BY <1>1, <1>16 DEF StoreInv, BlocksOwned, inodeVars
  <2>2. ASSUME NEW g \in files', NEW l \in Logical, Block(g, l)' # 0
        PROVE  /\ Block(g, l)' \in block_bitmap'
               /\ DATA_START < Block(g, l)' /\ Block(g, l)' < total_blocks'
               /\ \A h \in files', m \in Logical :
                     Block(h, m)' = Block(g, l)' => h = g /\ m = l
    <3>1. g \in files /\ files' = files /\ total_blocks' = total_blocks
      BY <1>1
    <3>2. CASE g = f /\ l \in needed
      <4>1. Block(g, l)' = run[l]
        BY <1>14, <3>2
      <4>2. \A h \in files', m \in Logical : Block(h, m)' = Block(g, l)' => h = g /\ m = l
        BY <1>6, <1>14, <1>15, <1>20, <3>1, <3>2, <4>1
      <4> QED
        BY <1>5, <1>7, <1>9, <1>19, <3>1, <3>2, <4>1, <4>2
    <3>3. CASE ~ (g = f /\ l \in needed)
      <4>1. Block(g, l)' = Block(g, l)
        BY <1>14, <1>15, <3>1, <3>3
      <4>2. \A h \in files', m \in Logical : Block(h, m)' = Block(g, l)' => h = g /\ m = l
        BY <1>14, <1>15, <1>20, <2>2, <3>1, <4>1 DEF StoreInv, BlocksOwned
      <4>3. /\ Block(g, l) \in block_bitmap
            /\ DATA_START < Block(g, l) /\ Block(g, l) < total_blocks
        BY <2>2, <3>1, <4>1 DEF StoreInv, BlocksOwned
      <4> QED
        BY <1>1, <3>1, <4>1, <4>2, <4>3
    <3> QED
      BY <3>2, <3>3
  <2> QED
    BY <2>1, <2>2 DEF BlocksOwned
<1>22. NothingLeaked'
  <2>1. ASSUME NEW b \in block_bitmap', b # DATA_START
        PROVE  b # 0 /\ \E g \in files', l \in Logical : Block(g, l)' = b
    <3>1. CASE b \in block_bitmap
      <4>1. b # 0
        BY <2>1, <3>1 DEF StoreInv, NothingLeaked
      <4>2. PICK g \in files, l \in Logical : Block(g, l) = b
        BY <2>1, <3>1 DEF StoreInv, NothingLeaked
      <4>3. Block(g, l)' = b
        BY <1>4, <1>14, <1>15, <4>1, <4>2
      <4> QED
        BY <1>1, <4>1, <4>3
    <3>2. CASE b \in RangeOf(run)
      <4>1. PICK l \in needed : run[l] = b
        BY <1>1, <3>2 DEF RangeOf
      <4> QED
        BY <1>1, <1>4, <1>5, <1>7, <1>14, <4>1
    <3> QED
      BY <1>1, <3>1, <3>2
  <2>2. ASSUME NEW n \in inode_bitmap', ~ (n <= INITRAFS_ROOT_INODE)
        PROVE  \E g \in files' : inode'[g].number = n
    BY <1>1, <1>16, <2>2 DEF StoreInv, NothingLeaked, inodeVars
  <2> QED
    BY <2>1, <2>2 DEF NothingLeaked
<1>23. FilesUsable'
  <2>1. PairValid(f)'
    BY <1>13 DEF PairValid
  <2>2. ASSUME NEW l \in Logical
        PROVE  Block(f, l)' # 0 <=> l * B < length
    <3>1. l \in Nat /\ l * B \in Nat
      BY StoreAssumption DEF Logical, B
    <3>2. Block(f, l) # 0 <=> l * B < old
      BY DEF StoreInv, FilesUsable, B, old
    <3>3. l \in needed <=> /\ Block(f, l) = 0
                           /\ FirstBlock(offset) <= l /\ l <= LastBlock(offset, size)
      BY <1>3, <3>1 DEF needed, Needed, Block
    <3>4. Block(f, l)' # 0 <=> l \in needed \/ Block(f, l) # 0
      BY <1>5, <1>7, <1>14
    <3>5. /\ l <= LastBlock(offset, size) <=> l * B < offset + size
          /\ l < FirstBlock(offset) => l * B < offset
      BY <1>3, <3>1
    <3>6. offset <= old /\ old \in Nat
      BY <1>10 DEF old
    <3>7. l * B < length <=> l * B < offset + size \/ l * B < old
      BY <3>1, <3>6 DEF length
    <3> QED
      BY <1>3, <3>1, <3>2, <3>3, <3>4, <3>5, <3>6, <3>7
  <2>3. ASSUME NEW g \in files'
        PROVE  /\ PairValid(g)'
               /\ \A l \in Logical : Block(g, l)' # 0
                     <=> l * INITRAFS_BLOCK_SIZE < disk_inode'[g].size
    <3>1. CASE g = f
      BY <1>13, <2>1, <2>2, <3>1 DEF B
    <3>2. CASE g # f
      BY <1>1, <1>13, <1>15, <3>2 DEF StoreInv, FilesUsable, PairValid
    <3> QED
      BY <3>1, <3>2
  <2> QED
    BY <2>3 DEF FilesUsable
<1> QED
  BY <1>17, <1>18, <1>21, <1>22, <1>23 DEF StoreInv
-----------------------------------------------------------------------------
LEMMA StoreInvInductive == StoreInv /\ [StoreNext]_storeVars => StoreInv'
<1> SUFFICES ASSUME StoreInv, [StoreNext]_storeVars PROVE StoreInv'
  OBVIOUS
<1>1. CASE \E block_count \in DeviceSizes : initrafs_instance_init(block_count)
  BY <1>1, MountPreserves
<1>2. CASE initrafs_instance_unmount
  BY <1>2, UnmountPreserves
<1>3. CASE \E f \in Files : initrafs_file_create(f) \/ ReleaseFile(f)
  BY <1>3, CreatePreserves, ReleasePreserves
<1>4. ASSUME NEW f \in Files, NEW offset \in 0 .. MAX_FILE_SIZE,
             NEW size \in 1 .. MAX_FILE_SIZE + 1, NEW v \in Bytes,
             initrafs_file_write(f, offset, size, v)
      PROVE  StoreInv'
  <2>1. offset \in Nat /\ size \in Nat /\ StoreTypeOK /\ InstanceInv
    BY StoreAssumption DEF MAX_FILE_SIZE, StoreInv
  <2>2. /\ f \in files /\ PairValid(f)
        /\ size # 0 /\ offset <= disk_inode[f].size /\ offset + size <= MAX_FILE_SIZE
        /\ WriteFailed(f, offset, size, v) \/ WriteSucceeded(f, offset, size, v)
    BY <1>4, <2>1, WriteCases
  <2>3. CASE WriteFailed(f, offset, size, v)
    BY <2>3, WriteFailedPreserves
  <2>4. CASE WriteSucceeded(f, offset, size, v)
    BY <2>1, <2>2, <2>4, WriteSucceededPreserves
  <2> QED
    BY <2>2, <2>3, <2>4
<1>5. CASE UNCHANGED storeVars
  BY <1>5 DEF storeVars, allocatorVars, inodeVars, StoreInv, StoreTypeOK, InstanceInv,
              BlocksOwned, NothingLeaked, FilesUsable, Block, PairValid
<1> QED
  BY <1>1, <1>2, <1>3, <1>4, <1>5 DEF StoreNext

(* The invariant holds in every state of every behaviour. *)
THEOREM StoreInvariant == StoreSpec => []StoreInv
BY StoreInvInitial, StoreInvInductive, PTL DEF StoreSpec

(* Type correctness of the file store. *)
THEOREM StoreTypeCorrect == StoreSpec => []StoreTypeOK
<1>1. StoreInv => StoreTypeOK
  BY DEF StoreInv
<1> QED
  BY <1>1, StoreInvariant, PTL

(* No block and no inode number of initrafs_file_write and initrafs_file_create has two
   owners, after any sequence of writes that succeed, fail or are rolled back. *)
THEOREM StoreBlocksOwned == StoreSpec => []BlocksOwned
<1>1. StoreInv => BlocksOwned
  BY DEF StoreInv
<1> QED
  BY <1>1, StoreInvariant, PTL

(* The rollback of initrafs_file_write and the release of a file leave no block and no
   inode marked that nothing holds. *)
THEOREM StoreNothingLeaked == StoreSpec => []NothingLeaked
<1>1. StoreInv => NothingLeaked
  BY DEF StoreInv
<1> QED
  BY <1>1, StoreInvariant, PTL

(* Every file of the instance can be read and written: its inodes agree, its checksum
   verifies, its blocks are those its size needs. *)
THEOREM StoreFilesUsable == StoreSpec => []FilesUsable
<1>1. StoreInv => FilesUsable
  BY DEF StoreInv
<1> QED
  BY <1>1, StoreInvariant, PTL

-----------------------------------------------------------------------------
(* The counters. *)
LEMMA MountCounts ==
    ASSUME NEW block_count \in DeviceSizes, initrafs_instance_init(block_count)
    PROVE  CountersAgree'
<1> USE DEF initrafs_superblock_init, initrafs_block_allocator_init,
            initrafs_inode_allocator_init
<1>1. /\ block_count \in Nat /\ DATA_START \in Nat /\ block_count > DATA_START
      /\ INODE_COUNT \in Nat /\ INODE_COUNT > 1
  BY StoreAssumption DEF initrafs_instance_init
<1>2. /\ total_blocks' = block_count /\ block_bitmap' = {DATA_START}
      /\ free_blocks' = block_count - DATA_START - 1 /\ free_block_count' = free_blocks'
      /\ inode_bitmap' = {0, INITRAFS_ROOT_INODE} /\ free_inodes' = INODE_COUNT - 2
  BY <1>1 DEF initrafs_instance_init, INITRAFS_ROOT_INODE
<1>3. FreeBlocks' = DATA_START + 1 .. block_count - 1
  BY <1>1, <1>2 DEF FreeBlocks
<1>4. FreeInodes' = 2 .. INODE_COUNT - 1
  BY <1>1, <1>2 DEF FreeInodes, INITRAFS_ROOT_INODE
<1>5. Cardinality(DATA_START + 1 .. block_count - 1) = block_count - DATA_START - 1
  <2>1. DATA_START + 1 \in Int /\ block_count - 1 \in Int
    BY <1>1
  <2>2. Cardinality(DATA_START + 1 .. block_count - 1) =
          IF DATA_START + 1 > block_count - 1 THEN 0
          ELSE (block_count - 1) - (DATA_START + 1) + 1
    BY <2>1, FS_Interval
  <2> QED
    BY <1>1, <2>2
<1>6. Cardinality(2 .. INODE_COUNT - 1) = INODE_COUNT - 2
  <2>1. 2 \in Int /\ INODE_COUNT - 1 \in Int
    BY <1>1
  <2>2. Cardinality(2 .. INODE_COUNT - 1) =
          IF 2 > INODE_COUNT - 1 THEN 0 ELSE (INODE_COUNT - 1) - 2 + 1
    BY <2>1, FS_Interval
  <2> QED
    BY <1>1, <2>2
<1> QED
  BY <1>2, <1>3, <1>4, <1>5, <1>6 DEF CountersAgree

LEMMA CreateCounts ==
    ASSUME StoreInv, CountersAgree, NEW f \in Files, initrafs_file_create(f)
    PROVE  CountersAgree'
<1>1. PICK number \in FreeInodes :
         inode_bitmap' = inode_bitmap \cup {number} /\ free_inodes' = free_inodes - 1
  BY DEF initrafs_file_create
<1>2. mounted /\ UNCHANGED allocatorVars
  BY DEF initrafs_file_create
<1>3. FreeInodes' = FreeInodes \ {number}
  BY <1>1 DEF FreeInodes
<1>4. Cardinality(FreeInodes \ {number}) = Cardinality(FreeInodes) - 1
  <2>1. IsFiniteSet(FreeInodes)
    BY FreeSetsFinite DEF StoreInv
  <2> QED
    BY <1>1, <2>1, FS_RemoveElement
<1>5. FreeBlocks' = FreeBlocks
  BY <1>2 DEF FreeBlocks, allocatorVars
<1> QED
  BY <1>1, <1>2, <1>3, <1>4, <1>5 DEF CountersAgree, allocatorVars

LEMMA ReleaseCounts ==
    ASSUME StoreInv, CountersAgree, NEW f \in Files, ReleaseFile(f)
    PROVE  CountersAgree'
<1> DEFINE own == MappedBlocks(disk_inode[f].direct_blocks)
           number == inode[f].number
<1>1. /\ f \in files /\ block_bitmap' = block_bitmap \ own
      /\ free_blocks' = free_blocks + Cardinality(own)
      /\ free_block_count' = IF own = {} THEN free_block_count ELSE free_blocks'
      /\ inode_bitmap' = inode_bitmap \ {number} /\ free_inodes' = free_inodes + 1
      /\ mounted' = mounted /\ total_blocks' = total_blocks
  BY ReleaseExact DEF ReleaseFile
<1>2. StoreTypeOK /\ InstanceInv /\ BlocksOwned
  BY DEF StoreInv
<1>3. mounted
  BY <1>1, <1>2 DEF InstanceInv
<1>4. ASSUME NEW b \in own
      PROVE  b \in block_bitmap /\ b \in DATA_START .. total_blocks - 1
  <2>1. PICK l \in Logical : Block(f, l) = b /\ b # 0
    BY DEF MappedBlocks, Block
  <2>2. b \in block_bitmap /\ DATA_START < b /\ b < total_blocks
    BY <1>1, <1>2, <2>1 DEF BlocksOwned
  <2>3. b \in Nat /\ total_blocks \in Nat /\ DATA_START \in Nat
    BY <1>2, <2>2, StoreAssumption DEF StoreTypeOK, Blocks
  <2> QED
    BY <2>2, <2>3
<1>5. number \in inode_bitmap /\ number \in INITRAFS_ROOT_INODE + 1 .. INODE_COUNT - 1
  <2>1. number \in inode_bitmap /\ number > INITRAFS_ROOT_INODE
    BY <1>1, <1>2 DEF BlocksOwned
  <2>2. number \in 0 .. INODE_COUNT - 1
    BY <1>2, <2>1 DEF StoreTypeOK, Inodes
  <2> QED
    BY <2>1, <2>2, StoreAssumption DEF INITRAFS_ROOT_INODE
<1> HIDE DEF own, number
<1>6. IsFiniteSet(FreeBlocks) /\ IsFiniteSet(FreeInodes)
  BY <1>2, FreeSetsFinite
<1>7. FreeBlocks' = FreeBlocks \cup own /\ FreeBlocks \cap own = {}
  BY <1>1, <1>4 DEF FreeBlocks
<1>8. FreeInodes' = FreeInodes \cup {number} /\ number \notin FreeInodes
  BY <1>1, <1>5 DEF FreeInodes
<1>9. IsFiniteSet(own)
  <2>1. IsFiniteSet(DATA_START .. total_blocks - 1)
    BY <1>2, FS_Interval, StoreAssumption DEF StoreTypeOK
  <2>2. own \in SUBSET (DATA_START .. total_blocks - 1)
    BY <1>4
  <2> QED
    BY <2>1, <2>2, FS_Subset
<1>10. Cardinality(FreeBlocks \cup own) = Cardinality(FreeBlocks) + Cardinality(own)
  <2>1. Cardinality(FreeBlocks \cup own) =
           Cardinality(FreeBlocks) + Cardinality(own) - Cardinality(FreeBlocks \cap own)
    BY <1>6, <1>9, FS_Union
  <2>2. Cardinality(FreeBlocks \cap own) = 0
    BY <1>7, FS_EmptySet
  <2>3. Cardinality(FreeBlocks) \in Nat /\ Cardinality(own) \in Nat
    BY <1>6, <1>9, FS_CardinalityType
  <2> QED
    BY <2>1, <2>2, <2>3
<1>11. Cardinality(FreeInodes \cup {number}) = Cardinality(FreeInodes) + 1
  BY <1>6, <1>8, FS_AddElement
<1> QED
  BY <1>1, <1>3, <1>7, <1>8, <1>10, <1>11 DEF CountersAgree

LEMMA WriteCounts ==
    ASSUME StoreInv, CountersAgree, NEW f, NEW offset, NEW size, NEW v,
           WriteFailed(f, offset, size, v) \/ WriteSucceeded(f, offset, size, v)
    PROVE  CountersAgree'
<1>1. CASE WriteFailed(f, offset, size, v)
  <2>1. /\ UNCHANGED <<mounted, total_blocks, block_bitmap, free_blocks, inodeVars>>
        /\ free_block_count' \in {free_block_count, free_blocks}
    BY <1>1 DEF WriteFailed
  <2> QED
    BY <2>1 DEF CountersAgree, FreeBlocks, FreeInodes, inodeVars
<1>2. CASE WriteSucceeded(f, offset, size, v)
  <2>1. PICK run :
          /\ FreshBlocks(run, Needed(f, offset, size))
          /\ block_bitmap' = block_bitmap \cup RangeOf(run)
          /\ free_blocks' = free_blocks - Cardinality(DOMAIN run)
          /\ free_block_count' = IF DOMAIN run = {} THEN free_block_count ELSE free_blocks'
          /\ UNCHANGED <<mounted, total_blocks, inodeVars>>
    BY <1>2 DEF WriteSucceeded
  <2>2. IsFiniteSet(FreeBlocks)
    BY FreeSetsFinite DEF StoreInv
  <2>3. /\ RangeOf(run) \subseteq FreeBlocks
        /\ Cardinality(RangeOf(run)) = Cardinality(DOMAIN run)
    BY <2>1, <2>2, RunCounted
  <2>4. FreeBlocks' = FreeBlocks \ RangeOf(run) /\ FreeInodes' = FreeInodes
    BY <2>1 DEF FreeBlocks, FreeInodes, inodeVars
  <2>5. FreeBlocks \cap RangeOf(run) = RangeOf(run)
    BY <2>3
  <2>6. Cardinality(FreeBlocks \ RangeOf(run)) =
           Cardinality(FreeBlocks) - Cardinality(RangeOf(run))
    BY <2>2, <2>5, FS_Difference
  <2>7. DOMAIN run = {} => Cardinality(DOMAIN run) = 0
    BY FS_EmptySet
  <2>8. free_blocks \in Int
    BY DEF StoreInv, StoreTypeOK
  <2>9. mounted => free_block_count' = free_blocks'
    BY <2>1, <2>7, <2>8 DEF CountersAgree
  <2> QED
    BY <2>1, <2>3, <2>4, <2>6, <2>9 DEF CountersAgree, inodeVars
<1> QED
  BY <1>1, <1>2

(* The counters of the block and inode allocators and of the superblock equal the
   number of free bits in the bitmaps, after every mount, write, rollback and release. *)
THEOREM StoreCountersAgree == StoreSpec => []CountersAgree
<1>1. StoreInit => CountersAgree
  BY DEF StoreInit, CountersAgree
<1>2. StoreInv /\ CountersAgree /\ [StoreNext]_storeVars => CountersAgree'
  <2> SUFFICES ASSUME StoreInv, CountersAgree, [StoreNext]_storeVars PROVE CountersAgree'
    OBVIOUS
  <2>1. CASE \E block_count \in DeviceSizes : initrafs_instance_init(block_count)
    BY <2>1, MountCounts
  <2>2. CASE initrafs_instance_unmount
    BY <2>2 DEF initrafs_instance_unmount, CountersAgree
  <2>3. CASE \E f \in Files : initrafs_file_create(f) \/ ReleaseFile(f)
    BY <2>3, CreateCounts, ReleaseCounts
  <2>4. ASSUME NEW f \in Files, NEW offset \in 0 .. MAX_FILE_SIZE,
               NEW size \in 1 .. MAX_FILE_SIZE + 1, NEW v \in Bytes,
               initrafs_file_write(f, offset, size, v)
        PROVE  CountersAgree'
    <3>1. offset \in Nat /\ size \in Nat /\ StoreTypeOK /\ InstanceInv
      BY StoreAssumption DEF MAX_FILE_SIZE, StoreInv
    <3>2. WriteFailed(f, offset, size, v) \/ WriteSucceeded(f, offset, size, v)
      BY <2>4, <3>1, WriteCases
    <3> QED
      BY <3>2, WriteCounts
  <2>5. CASE UNCHANGED storeVars
    BY <2>5 DEF storeVars, allocatorVars, inodeVars, CountersAgree, FreeBlocks, FreeInodes
  <2> QED
    BY <2>1, <2>2, <2>3, <2>4, <2>5 DEF StoreNext
<1> QED
  BY <1>1, <1>2, StoreInvariant, PTL DEF StoreSpec

-----------------------------------------------------------------------------
(* The refinement.  A file of size bytes in blocks, on the device d. *)
FileBytes(blocks, size, d) ==
    [i \in 0 .. size - 1 |-> d[blocks[BlockOf(i)]][i % INITRAFS_BLOCK_SIZE]]

NoBytes == [i \in {} |-> 0]

(* What reading a whole file returns, without the checks of initrafs_file_read. *)
ContentsAre ==
    Contents = [f \in Files |->
                   IF f \in files
                   THEN FileBytes(disk_inode[f].direct_blocks, disk_inode[f].size, disk)
                   ELSE NoBytes]

(* A position is the start of its block and an offset in it. *)
LEMMA PositionSplit ==
    ASSUME NEW i \in Nat
    PROVE  /\ BlockOf(i) \in Nat /\ i % B \in Offsets
           /\ BlockOf(i) * B + (i % B) = i
           /\ \A l \in Nat : l <= BlockOf(i) <=> l * B <= i
<1>1. B \in Nat /\ B > 0
  BY StoreAssumption DEF B
<1>2. i % B \in 0 .. B - 1 /\ i = (i \div B) * B + (i % B) /\ i \div B \in Nat
  BY <1>1
<1>3. i % B \in Offsets
  BY <1>2 DEF Offsets, B
<1>4. BlockOf(i) = i \div B
  BY DEF BlockOf, B
<1>5. BlockOf(i) * B + (i % B) = i
  BY <1>2, <1>4
<1> QED
  BY <1>2, <1>3, <1>4, <1>5, BlockBound

(* A position of a file lies in one of the direct blocks. *)
LEMMA PositionInFile ==
    ASSUME NEW i \in Nat, i < MAX_FILE_SIZE
    PROVE  BlockOf(i) \in Logical
<1>1. INITRAFS_DIRECT_BLOCK_COUNT \in Nat /\ INITRAFS_DIRECT_BLOCK_COUNT * B = MAX_FILE_SIZE
      /\ MAX_FILE_SIZE \in Nat
  BY StoreAssumption DEF MAX_FILE_SIZE, B
<1>2. ~ (INITRAFS_DIRECT_BLOCK_COUNT * B <= i)
  BY <1>1
<1>3. BlockOf(i) \in Nat /\ ~ (INITRAFS_DIRECT_BLOCK_COUNT <= BlockOf(i))
  BY <1>1, <1>2, BlockBound
<1> QED
  BY <1>1, <1>3 DEF Logical

(* Every position of a file has a block of the device. *)
LEMMA PositionMapped ==
    ASSUME StoreInv, NEW f \in files, NEW i \in 0 .. disk_inode[f].size - 1
    PROVE  /\ i \in Nat /\ BlockOf(i) \in Logical
           /\ Block(f, BlockOf(i)) # 0 /\ Block(f, BlockOf(i)) \in Blocks
           /\ Block(f, BlockOf(i)) \in block_bitmap
           /\ Block(f, BlockOf(i)) \in 1 .. total_blocks - 1
<1>1. StoreTypeOK /\ BlocksOwned /\ FilesUsable /\ f \in Files
  BY DEF StoreInv, StoreTypeOK
<1>2. disk_inode[f].size \in 0 .. MAX_FILE_SIZE /\ MAX_FILE_SIZE \in Nat
  BY <1>1, StoreAssumption DEF StoreTypeOK, MAX_FILE_SIZE
<1>3. i \in Nat /\ i < MAX_FILE_SIZE /\ i < disk_inode[f].size /\ disk_inode[f].size \in Nat
  BY <1>2
<1>4. BlockOf(i) \in Logical /\ BlockOf(i) \in Nat
  BY <1>3, PositionInFile, PositionSplit
<1>5. BlockOf(i) * B <= i /\ BlockOf(i) * B \in Nat
  <2>1. BlockOf(i) * B <= i
    BY <1>3, <1>4, BlockBound
  <2>2. BlockOf(i) * B \in Nat
    BY <1>4, StoreAssumption DEF B
  <2> QED
    BY <2>1, <2>2
<1>6. BlockOf(i) * B < disk_inode[f].size
  BY <1>3, <1>5
<1>7. Block(f, BlockOf(i)) # 0
  BY <1>1, <1>4, <1>6 DEF FilesUsable, B
<1>8. /\ Block(f, BlockOf(i)) \in block_bitmap
      /\ DATA_START < Block(f, BlockOf(i)) /\ Block(f, BlockOf(i)) < total_blocks
  BY <1>1, <1>4, <1>7 DEF BlocksOwned
<1>9. Block(f, BlockOf(i)) \in Nat /\ total_blocks \in Nat /\ Block(f, BlockOf(i)) \in Blocks
  <2>1. Block(f, BlockOf(i)) \in Blocks /\ total_blocks \in 0 .. INITRAFS_INSTANCE_MAX_BLOCKS
    BY <1>1, <1>8 DEF StoreTypeOK
  <2> QED
    BY <2>1, StoreAssumption DEF Blocks
<1>10. Block(f, BlockOf(i)) \in 1 .. total_blocks - 1
  BY <1>7, <1>8, <1>9
<1> QED
  BY <1>3, <1>4, <1>7, <1>8, <1>9, <1>10

(* initrafs_file_read of a whole file succeeds and returns its bytes. *)
LEMMA ReadSucceeds ==
    ASSUME StoreInv, NEW f \in files
    PROVE  Read(f) = FileBytes(disk_inode[f].direct_blocks, disk_inode[f].size, disk)
<1> DEFINE size == disk_inode[f].size
           available == size - 0
           count == IF available < 0 THEN 0 ELSE IF size > available THEN available ELSE size
           block(i) == disk_inode[f].direct_blocks[BlockOf(0 + i)]
           bytes == [i \in 0 .. count - 1 |-> disk[block(i)][(0 + i) % INITRAFS_BLOCK_SIZE]]
<1>1. size \in Nat
  BY StoreAssumption DEF StoreInv, StoreTypeOK, MAX_FILE_SIZE
<1>2. count = size
  BY <1>1
<1>3. \A i \in 0 .. size - 1 : 0 + i = i
  BY <1>1
<1>4. \A i \in 0 .. size - 1 : block(i) \in 1 .. total_blocks - 1
  BY <1>3, PositionMapped DEF Block
<1>5. PairValid(f)
  BY DEF StoreInv, FilesUsable
<1>6. initrafs_file_read(f, 0, size) = {bytes}
  BY <1>2, <1>4, <1>5 DEF initrafs_file_read
<1>7. bytes = FileBytes(disk_inode[f].direct_blocks, size, disk)
  BY <1>2, <1>3 DEF FileBytes
<1> QED
  BY <1>6, <1>7 DEF Read

LEMMA ContentsRead == StoreInv => ContentsAre
BY ReadSucceeds DEF ContentsAre, Contents, NoBytes

(* A block that the write did not reach keeps its contents. *)
LEMMA DiskElsewhere ==
    ASSUME NEW blocks, NEW needed, NEW first, NEW stop, NEW from, NEW upto, NEW v,
           NEW b \in Blocks, \A l \in first .. stop - 1 : blocks[l] # b
    PROVE  DiskAfter(blocks, needed, first, stop, from, upto, v)[b] = disk[b]
BY DEF DiskAfter

(* A block that it reached holds the bytes of its place. *)
LEMMA DiskThere ==
    ASSUME NEW blocks, NEW needed, NEW first, NEW stop, NEW from, NEW upto, NEW v,
           NEW l \in first .. stop - 1, blocks[l] \in Blocks,
           \A m \in first .. stop - 1 : blocks[m] = blocks[l] => m = l
    PROVE  DiskAfter(blocks, needed, first, stop, from, upto, v)[blocks[l]] =
              WrittenBlock(disk[blocks[l]], l \in needed, l, from, upto, v)
<1>1. (CHOOSE m \in first .. stop - 1 : blocks[m] = blocks[l]) = l
  OBVIOUS
<1> QED
  BY <1>1 DEF DiskAfter

(* The places of a file with the blocks of a write. *)
LEMMA MapOwned ==
    ASSUME StoreInv, NEW f \in files, NEW run, NEW needed \in SUBSET Logical,
           FreshBlocks(run, needed), \A l \in needed : Block(f, l) = 0
    PROVE  LET blocks == Map(disk_inode[f].direct_blocks, run)
           IN  /\ \A l \in Logical : /\ blocks[l] \in Blocks
                                     /\ Block(f, l) # 0 => blocks[l] = Block(f, l)
                                     /\ l \in DOMAIN run => blocks[l] # 0
               /\ \A l, m \in Logical : blocks[l] # 0 /\ blocks[l] = blocks[m] => l = m
               /\ \A g \in files, l, m \in Logical :
                     g # f /\ Block(g, l) # 0 => blocks[m] # Block(g, l)
<1> DEFINE blocks == Map(disk_inode[f].direct_blocks, run)
<1>1. StoreTypeOK /\ BlocksOwned /\ f \in Files
  BY DEF StoreInv, StoreTypeOK
<1>2. \A b \in FreeBlocks : b \in Blocks /\ b # 0 /\ b \notin block_bitmap
  BY <1>1, StoreAssumption DEF StoreTypeOK, FreeBlocks, Blocks
<1>3. \A l \in Logical : blocks[l] = IF l \in DOMAIN run THEN run[l] ELSE Block(f, l)
  BY DEF Map, Block
<1>4. \A l \in DOMAIN run : l \in needed /\ run[l] \in FreeBlocks
  BY DEF FreshBlocks
<1>5. \A l \in Logical : Block(f, l) \in Blocks
  BY <1>1 DEF StoreTypeOK, Block
<1>6. \A l, m \in DOMAIN run : run[l] = run[m] => l = m
  BY DEF FreshBlocks
<1>7. \A g \in files, l \in Logical : Block(g, l) # 0 =>
         /\ Block(g, l) \in block_bitmap
         /\ \A h \in files, m \in Logical : Block(h, m) = Block(g, l) => h = g /\ m = l
  BY <1>1 DEF BlocksOwned
<1> HIDE DEF blocks
<1>8. ASSUME NEW l \in Logical
      PROVE  /\ blocks[l] \in Blocks
             /\ Block(f, l) # 0 => blocks[l] = Block(f, l)
             /\ l \in DOMAIN run => blocks[l] # 0
  BY <1>2, <1>3, <1>4, <1>5
<1>9. ASSUME NEW l \in Logical, NEW m \in Logical, blocks[l] # 0, blocks[l] = blocks[m]
      PROVE  l = m
  BY <1>2, <1>3, <1>4, <1>6, <1>7, <1>9
<1>10. ASSUME NEW g \in files, NEW l \in Logical, NEW m \in Logical, g # f, Block(g, l) # 0
       PROVE  blocks[m] # Block(g, l)
  BY <1>2, <1>3, <1>4, <1>7, <1>10
<1> QED
  BY <1>8, <1>9, <1>10 DEF blocks

(* Byte i of a file after a write of size bytes v that went up to block stop. *)
ByteWritten(f, offset, size, v, run, stop, i) ==
    LET blocks == Map(disk_inode[f].direct_blocks, run)
        after == DiskAfter(blocks, Needed(f, offset, size), FirstBlock(offset), stop,
                           offset, offset + size, v)
    IN  after[blocks[BlockOf(i)]][i % B] =
           IF offset <= i /\ i < offset + size /\ BlockOf(i) < stop THEN v
           ELSE disk[Block(f, BlockOf(i))][i % B]

(* Byte i of the file after a write of size bytes v at offset that reached the block
   stop: v if it is in the range and its block was written, else what it was. *)
LEMMA WrittenByte ==
    ASSUME StoreInv, NEW f \in files, NEW offset \in Nat, NEW size \in Nat, NEW v,
           size # 0, offset <= disk_inode[f].size, offset + size <= MAX_FILE_SIZE,
           NEW run, FreshBlocks(run, Needed(f, offset, size)),
           NEW stop \in FirstBlock(offset) .. LastBlock(offset, size) + 1,
           NEW i \in Nat,
           \/ i < disk_inode[f].size
           \/ /\ i < offset + size /\ DOMAIN run = Needed(f, offset, size)
              /\ stop = LastBlock(offset, size) + 1
    PROVE  ByteWritten(f, offset, size, v, run, stop, i)
<1> DEFINE blocks == Map(disk_inode[f].direct_blocks, run)
           needed == Needed(f, offset, size)
           first == FirstBlock(offset)
           last == LastBlock(offset, size)
           after == DiskAfter(blocks, needed, first, stop, offset, offset + size, v)
           old == disk_inode[f].size
           l == BlockOf(i)
           o == i % B
<1>1. /\ first \in Nat /\ last \in Nat /\ first <= last /\ first .. last \subseteq Logical
      /\ \A m \in Nat : m <= last <=> m * B < offset + size
  BY RangeInFile
<1>2. first = BlockOf(offset)
  BY DEF FirstBlock
<1>3. needed \in SUBSET Logical /\ \A m \in needed : Block(f, m) = 0
  BY <1>1 DEF Needed, Block
<1>4. /\ l \in Nat /\ o \in Offsets /\ l * B + o = i
      /\ \A m \in Nat : m <= l <=> m * B <= i
  BY PositionSplit
<1>5. MAX_FILE_SIZE \in Nat /\ old \in 0 .. MAX_FILE_SIZE
  BY StoreAssumption DEF StoreInv, StoreTypeOK, MAX_FILE_SIZE
<1>6. i < old \/ i < offset + size
  OBVIOUS
<1>7. l \in Logical
  <2>1. i < MAX_FILE_SIZE
    BY <1>5, <1>6
  <2> QED
    BY <2>1, PositionInFile
<1>8. i < old => Block(f, l) # 0
  <2>1. ASSUME i < old PROVE i \in 0 .. disk_inode[f].size - 1
    BY <1>5, <2>1
  <2> QED
    BY <2>1, PositionMapped
<1>9. /\ \A m \in Logical : /\ blocks[m] \in Blocks
                            /\ Block(f, m) # 0 => blocks[m] = Block(f, m)
                            /\ m \in DOMAIN run => blocks[m] # 0
      /\ \A k, m \in Logical : blocks[k] # 0 /\ blocks[k] = blocks[m] => k = m
  BY <1>3, MapOwned
<1>10. first .. stop - 1 \subseteq Logical
  BY <1>1
<1>11. l < first => i < offset
  <2>1. ASSUME offset <= i PROVE first <= l
    <3>1. first * B <= offset /\ first * B \in Nat
      BY <1>1, <1>2, BlockBound, StoreAssumption DEF B
    <3> QED
      BY <1>1, <1>4, <2>1, <3>1
  <2> QED
    BY <1>1, <1>4, <2>1
<1>12. l > last => i >= offset + size
  <2>1. l > last => l * B >= offset + size
    <3>1. l * B \in Nat
      BY <1>4, StoreAssumption DEF B
    <3> QED
      BY <1>1, <1>4, <3>1
  <2>2. l * B <= i /\ l * B \in Nat
    BY <1>4, StoreAssumption DEF B
  <2> QED
    BY <2>1, <2>2
<1>13. blocks[l] # 0
  <2>1. CASE i < old
    BY <1>7, <1>8, <1>9, <2>1
  <2>2. CASE i >= old
    <3>1. i < offset + size /\ DOMAIN run = needed /\ offset <= i
      BY <1>5, <2>2
    <3>2. l \in first .. last
      BY <1>1, <1>4, <1>11, <1>12, <3>1
    <3>3. CASE Block(f, l) = 0
      BY <1>7, <1>9, <3>1, <3>2, <3>3 DEF Needed, Block
    <3>4. CASE Block(f, l) # 0
      BY <1>7, <1>9, <3>4
    <3> QED
      BY <3>3, <3>4
  <2> QED
    BY <1>5, <2>1, <2>2
<1> HIDE DEF blocks, needed, first, last, after, old, l, o
<1>14. CASE l \in first .. stop - 1
  <2>1. \A m \in first .. stop - 1 : blocks[m] = blocks[l] => m = l
    BY <1>7, <1>9, <1>10, <1>13
  <2>2. after[blocks[l]] = WrittenBlock(disk[blocks[l]], l \in needed, l, offset, offset + size, v)
    BY <1>7, <1>9, <1>14, <2>1, DiskThere DEF after
  <2>3. after[blocks[l]][o] = IF offset <= i /\ i < offset + size THEN v
                              ELSE IF l \in needed THEN 0 ELSE disk[blocks[l]][o]
    BY <1>4, <2>2 DEF WrittenBlock, B
  <2>4. l < stop
    BY <1>1, <1>14
  <2>5. ASSUME ~ (offset <= i /\ i < offset + size)
        PROVE  l \notin needed /\ blocks[l] = Block(f, l)
    <3>1. i < old
      BY <1>5, <2>5 DEF old
    <3> QED
      BY <1>3, <1>7, <1>8, <1>9, <3>1
  <2>6. after[blocks[l]][o] = IF offset <= i /\ i < offset + size /\ l < stop THEN v
                              ELSE disk[Block(f, l)][o]
    BY <2>3, <2>4, <2>5
  <2> QED
    BY <2>6 DEF ByteWritten, after, blocks, needed, first, l, o
<1>15. CASE l \notin first .. stop - 1
  <2>1. \A m \in first .. stop - 1 : blocks[m] # blocks[l]
    BY <1>7, <1>9, <1>10, <1>13, <1>15
  <2>2. after[blocks[l]] = disk[blocks[l]]
    BY <1>7, <1>9, <2>1, DiskElsewhere DEF after
  <2>3. stop \in Nat /\ first <= stop
    BY <1>1 DEF first, last
  <2>4. l < first \/ stop <= l
    BY <1>1, <1>4, <1>15, <2>3
  <2>5. ~ (offset <= i /\ i < offset + size /\ l < stop)
    BY <1>4, <1>11, <2>3, <2>4
  <2>6. i < old
    BY <1>1, <1>4, <1>5, <1>11, <1>12, <2>3, <2>4 DEF old, last
  <2>7. blocks[l] = Block(f, l)
    BY <1>7, <1>8, <1>9, <2>6
  <2>8. after[blocks[l]][o] = IF offset <= i /\ i < offset + size /\ l < stop THEN v
                              ELSE disk[Block(f, l)][o]
    BY <2>2, <2>5, <2>7
  <2> QED
    BY <2>8 DEF ByteWritten, after, blocks, needed, first, l, o
<1> QED
  BY <1>14, <1>15

(* The bytes of another file, whose blocks the write does not reach. *)
LEMMA OtherFileKept ==
    ASSUME StoreInv, NEW f \in files, NEW g \in files, g # f,
           NEW offset \in Nat, NEW size \in Nat, NEW v, size # 0, offset + size <= MAX_FILE_SIZE,
           NEW run, FreshBlocks(run, Needed(f, offset, size)),
           NEW stop \in FirstBlock(offset) .. LastBlock(offset, size) + 1,
           NEW after, after = DiskAfter(Map(disk_inode[f].direct_blocks, run),
                                        Needed(f, offset, size), FirstBlock(offset), stop,
                                        offset, offset + size, v)
    PROVE  FileBytes(disk_inode[g].direct_blocks, disk_inode[g].size, after) =
              FileBytes(disk_inode[g].direct_blocks, disk_inode[g].size, disk)
<1> DEFINE needed == Needed(f, offset, size)
           blocks == Map(disk_inode[f].direct_blocks, run)
<1>1. /\ FirstBlock(offset) \in Nat /\ LastBlock(offset, size) \in Nat
      /\ FirstBlock(offset) .. LastBlock(offset, size) \subseteq Logical
  BY RangeInFile
<1>2. needed \in SUBSET Logical /\ \A m \in needed : Block(f, m) = 0
  BY <1>1 DEF Needed, Block
<1>3. \A l, m \in Logical : Block(g, l) # 0 => blocks[m] # Block(g, l)
  BY <1>2, MapOwned
<1>4. FirstBlock(offset) .. stop - 1 \subseteq Logical
  BY <1>1
<1>5. ASSUME NEW i \in 0 .. disk_inode[g].size - 1
      PROVE  after[Block(g, BlockOf(i))] = disk[Block(g, BlockOf(i))]
  <2>1. /\ BlockOf(i) \in Logical /\ Block(g, BlockOf(i)) # 0
        /\ Block(g, BlockOf(i)) \in Blocks
    BY PositionMapped
  <2>2. \A m \in FirstBlock(offset) .. stop - 1 : blocks[m] # Block(g, BlockOf(i))
    BY <1>3, <1>4, <2>1
  <2> QED
    BY <2>1, <2>2, DiskElsewhere
<1> QED
  BY <1>5 DEF FileBytes, Block

(* The file after a write that failed at block stop: its length, and its bytes but the
   beginning of the range. *)
LEMMA FailedWriteBytes ==
    ASSUME StoreInv, NEW f \in files, NEW offset \in Nat, NEW size \in Nat, NEW v,
           size # 0, offset <= disk_inode[f].size, offset + size <= MAX_FILE_SIZE,
           NEW run, FreshBlocks(run, Needed(f, offset, size)),
           NEW stop \in FirstBlock(offset) .. LastBlock(offset, size) + 1,
           NEW after, after = DiskAfter(Map(disk_inode[f].direct_blocks, run),
                                        Needed(f, offset, size), FirstBlock(offset), stop,
                                        offset, offset + size, v)
    PROVE  \E upto \in offset .. offset + size :
              FileBytes(disk_inode[f].direct_blocks, disk_inode[f].size, after) =
                 Abstract!Overlay(
                    FileBytes(disk_inode[f].direct_blocks, disk_inode[f].size, disk),
                    offset, upto, v, disk_inode[f].size)
<1> DEFINE end == stop * B
           upto == IF end < offset THEN offset
                   ELSE IF end < offset + size THEN end ELSE offset + size
           old == disk_inode[f].size
           blocks == Map(disk_inode[f].direct_blocks, run)
<1>1. /\ FirstBlock(offset) \in Nat /\ LastBlock(offset, size) \in Nat
      /\ FirstBlock(offset) .. LastBlock(offset, size) \subseteq Logical
  BY RangeInFile
<1>2. stop \in Nat
  BY <1>1
<1>3. end \in Nat
  BY <1>2, StoreAssumption DEF B
<1> HIDE DEF end
<1>4. upto \in offset .. offset + size
  BY <1>3
<1>5. ASSUME NEW i \in 0 .. old - 1
      PROVE  after[Block(f, BlockOf(i))][i % B] =
                IF offset <= i /\ i < upto THEN v ELSE disk[Block(f, BlockOf(i))][i % B]
  <2>1. old \in Nat
    BY StoreAssumption DEF StoreInv, StoreTypeOK, MAX_FILE_SIZE
  <2>2. i \in Nat /\ i < old
    BY <2>1
  <2>3. after[blocks[BlockOf(i)]][i % B] =
           IF offset <= i /\ i < offset + size /\ BlockOf(i) < stop THEN v
           ELSE disk[Block(f, BlockOf(i))][i % B]
    <3>1. ByteWritten(f, offset, size, v, run, stop, i)
      BY <2>2, WrittenByte
    <3> QED
      BY <3>1 DEF ByteWritten
  <2>4. blocks[BlockOf(i)] = Block(f, BlockOf(i))
    <3>1. /\ Needed(f, offset, size) \in SUBSET Logical
          /\ \A m \in Needed(f, offset, size) : Block(f, m) = 0
      BY <1>1 DEF Needed, Block
    <3>2. BlockOf(i) \in Logical /\ Block(f, BlockOf(i)) # 0
      BY PositionMapped
    <3> QED
      BY <3>1, <3>2, MapOwned
  <2>5. BlockOf(i) < stop <=> i < end
    <3>1. BlockOf(i) \in Nat /\ (stop <= BlockOf(i) <=> end <= i)
      BY <1>2, <2>2, BlockBound DEF end
    <3> QED
      BY <1>2, <1>3, <2>2, <3>1
  <2>6. offset <= i /\ i < upto <=> offset <= i /\ i < offset + size /\ BlockOf(i) < stop
    BY <1>3, <2>2, <2>5
  <2> QED
    BY <2>3, <2>4, <2>6
<1> HIDE DEF upto
<1>6. FileBytes(disk_inode[f].direct_blocks, old, after) =
         Abstract!Overlay(FileBytes(disk_inode[f].direct_blocks, old, disk), offset, upto, v, old)
  BY <1>5 DEF FileBytes, Block, B, Abstract!Overlay
<1> QED
  BY <1>4, <1>6

(* The file after a write that succeeded. *)
LEMMA WriteBytes ==
    ASSUME StoreInv, NEW f \in files, NEW offset \in Nat, NEW size \in Nat, NEW v,
           size # 0, offset <= disk_inode[f].size, offset + size <= MAX_FILE_SIZE,
           NEW run, FreshBlocks(run, Needed(f, offset, size)),
           DOMAIN run = Needed(f, offset, size),
           NEW after, after = DiskAfter(Map(disk_inode[f].direct_blocks, run),
                                        Needed(f, offset, size), FirstBlock(offset),
                                        LastBlock(offset, size) + 1, offset, offset + size, v),
           NEW length, length = IF offset + size > disk_inode[f].size THEN offset + size
                                ELSE disk_inode[f].size
    PROVE  FileBytes(Map(disk_inode[f].direct_blocks, run), length, after) =
              Abstract!Overlay(
                 FileBytes(disk_inode[f].direct_blocks, disk_inode[f].size, disk),
                 offset, offset + size, v, length)
<1> DEFINE old == disk_inode[f].size
           blocks == Map(disk_inode[f].direct_blocks, run)
           last == LastBlock(offset, size)
<1>1. /\ FirstBlock(offset) \in Nat /\ last \in Nat /\ FirstBlock(offset) <= last
      /\ \A l \in Nat : l <= last <=> l * B < offset + size
  BY RangeInFile
<1>2. last + 1 \in FirstBlock(offset) .. last + 1
  BY <1>1
<1>3. old \in Nat /\ length \in Nat
  BY StoreAssumption DEF StoreInv, StoreTypeOK, MAX_FILE_SIZE
<1>4. ASSUME NEW i \in 0 .. length - 1
      PROVE  after[blocks[BlockOf(i)]][i % B] =
                IF offset <= i /\ i < offset + size THEN v
                ELSE FileBytes(disk_inode[f].direct_blocks, old, disk)[i]
  <2>1. i \in Nat /\ (i < old \/ i < offset + size)
    BY <1>3
  <2>2. after[blocks[BlockOf(i)]][i % B] =
           IF offset <= i /\ i < offset + size /\ BlockOf(i) < last + 1 THEN v
           ELSE disk[Block(f, BlockOf(i))][i % B]
    <3> DEFINE stop == last + 1
    <3>1. stop \in FirstBlock(offset) .. LastBlock(offset, size) + 1
      BY <1>2
    <3>2. /\ i < disk_inode[f].size \/ (i < offset + size /\ stop = LastBlock(offset, size) + 1)
          /\ after = DiskAfter(blocks, Needed(f, offset, size), FirstBlock(offset), stop,
                               offset, offset + size, v)
      BY <2>1
    <3> HIDE DEF stop
    <3>3. \/ i < disk_inode[f].size
          \/ /\ i < offset + size /\ DOMAIN run = Needed(f, offset, size)
             /\ stop = LastBlock(offset, size) + 1
      BY <3>2
    <3>4. ByteWritten(f, offset, size, v, run, stop, i)
      BY <2>1, <3>1, <3>3, WrittenByte
    <3> QED
      BY <3>2, <3>4 DEF stop, ByteWritten
  <2>3. i < offset + size => BlockOf(i) < last + 1
    <3>1. BlockOf(i) \in Nat /\ BlockOf(i) * B <= i
      BY <2>1, BlockBound
    <3>2. BlockOf(i) * B \in Nat
      BY <3>1, StoreAssumption DEF B
    <3>3. i < offset + size => BlockOf(i) * B < offset + size
      BY <2>1, <3>1, <3>2
    <3> QED
      BY <1>1, <3>1, <3>3
  <2>4. ASSUME ~ (offset <= i /\ i < offset + size) PROVE i \in 0 .. old - 1
    BY <1>3, <2>1, <2>4
  <2>5. ASSUME i \in 0 .. old - 1
        PROVE  FileBytes(disk_inode[f].direct_blocks, old, disk)[i] =
                  disk[Block(f, BlockOf(i))][i % B]
    BY <2>5 DEF FileBytes, Block, B
  <2> QED
    BY <2>2, <2>3, <2>4, <2>5
<1>5. FileBytes(blocks, length, after) =
         [i \in 0 .. length - 1 |-> after[blocks[BlockOf(i)]][i % B]]
  BY DEF FileBytes, B
<1> QED
  BY <1>4, <1>5 DEF Abstract!Overlay

(* The lengths and the arguments of a write are those of the abstract one. *)
LEMMA WriteSomeBy ==
    ASSUME StoreInv, ContentsAre, NEW f \in files, NEW offset \in Nat, NEW size \in Nat,
           NEW v \in Bytes, size # 0, offset <= disk_inode[f].size,
           offset + size <= MAX_FILE_SIZE,
           Abstract!Write(f, disk_inode[f].size, offset, size, v)
    PROVE  Abstract!WriteSome(f)
<1> DEFINE length == disk_inode[f].size
<1>1. f \in Files /\ MAX_FILE_SIZE \in Nat /\ length \in 0 .. MAX_FILE_SIZE
  BY StoreAssumption DEF StoreInv, StoreTypeOK, MAX_FILE_SIZE
<1>2. DOMAIN Contents[f] = 0 .. length - 1
  BY <1>1 DEF ContentsAre, FileBytes
<1>3. offset \in 0 .. length /\ size \in 1 .. MAX_FILE_SIZE - offset
  BY <1>1
<1> HIDE DEF length
<1>4. Abstract!Write(f, length, offset, size, v)
  BY DEF length
<1> QED
  BY <1>1, <1>2, <1>3, <1>4 DEF Abstract!WriteSome

LEMMA WriteFailedRefines ==
    ASSUME StoreInv, ContentsAre, ContentsAre', NEW f \in files,
           NEW offset \in Nat, NEW size \in Nat, NEW v \in Bytes,
           size # 0, offset <= disk_inode[f].size, offset + size <= MAX_FILE_SIZE,
           WriteFailed(f, offset, size, v)
    PROVE  Abstract!WriteSome(f)
<1> DEFINE Old(g) == FileBytes(disk_inode[g].direct_blocks, disk_inode[g].size, disk)
           New(g) == FileBytes(disk_inode[g].direct_blocks, disk_inode[g].size, disk')
<1>1. PICK run, stop :
        /\ FreshBlocks(run, Needed(f, offset, size))
        /\ stop \in FirstBlock(offset) .. LastBlock(offset, size) + 1
        /\ disk' = DiskAfter(Map(disk_inode[f].direct_blocks, run), Needed(f, offset, size),
                             FirstBlock(offset), stop, offset, offset + size, v)
        /\ files' = files /\ disk_inode' = disk_inode
  BY DEF WriteFailed
<1>2. f \in Files /\ files \subseteq Files
  BY DEF StoreInv, StoreTypeOK
<1>3. \A g \in files : g # f => New(g) = Old(g)
  BY <1>1, OtherFileKept
<1>4. PICK upto \in offset .. offset + size :
         New(f) = Abstract!Overlay(Old(f), offset, upto, v, disk_inode[f].size)
  BY <1>1, FailedWriteBytes
<1>5. /\ Contents = [g \in Files |-> IF g \in files THEN Old(g) ELSE NoBytes]
      /\ Contents' = [g \in Files |-> IF g \in files THEN New(g) ELSE NoBytes]
  BY <1>1 DEF ContentsAre, NoBytes
<1> HIDE DEF Old, New
<1>6. Contents' = [Contents EXCEPT ![f] =
                      Abstract!Overlay(Contents[f], offset, upto, v, disk_inode[f].size)]
  <2>1. Contents[f] = Old(f)
    BY <1>2, <1>5
  <2> QED
    BY <1>2, <1>3, <1>4, <1>5, <2>1
<1>7. Abstract!Write(f, disk_inode[f].size, offset, size, v)
  BY <1>1, <1>6 DEF Abstract!Write
<1> QED
  BY <1>7, WriteSomeBy

LEMMA WriteSucceededRefines ==
    ASSUME StoreInv, ContentsAre, ContentsAre', NEW f \in files,
           NEW offset \in Nat, NEW size \in Nat, NEW v \in Bytes,
           size # 0, offset <= disk_inode[f].size, offset + size <= MAX_FILE_SIZE,
           WriteSucceeded(f, offset, size, v)
    PROVE  Abstract!WriteSome(f)
<1> DEFINE length == IF offset + size > disk_inode[f].size THEN offset + size
                     ELSE disk_inode[f].size
           Old(g) == FileBytes(disk_inode[g].direct_blocks, disk_inode[g].size, disk)
           New(g) == FileBytes(disk_inode'[g].direct_blocks, disk_inode'[g].size, disk')
<1>1. PICK run :
        /\ FreshBlocks(run, Needed(f, offset, size)) /\ DOMAIN run = Needed(f, offset, size)
        /\ disk' = DiskAfter(Map(disk_inode[f].direct_blocks, run), Needed(f, offset, size),
                             FirstBlock(offset), LastBlock(offset, size) + 1,
                             offset, offset + size, v)
        /\ disk_inode' = [disk_inode EXCEPT ![f] =
               [number |-> disk_inode[f].number, size |-> length,
                direct_blocks |-> Map(disk_inode[f].direct_blocks, run)]]
        /\ files' = files
  BY DEF WriteSucceeded
<1>2. f \in Files /\ files \subseteq Files
  BY DEF StoreInv, StoreTypeOK
<1>3. /\ disk_inode'[f].size = length
      /\ disk_inode'[f].direct_blocks = Map(disk_inode[f].direct_blocks, run)
      /\ \A g \in files : g # f => disk_inode'[g] = disk_inode[g]
  BY <1>1, <1>2 DEF StoreInv, StoreTypeOK
<1>4. LastBlock(offset, size) + 1 \in FirstBlock(offset) .. LastBlock(offset, size) + 1
  BY RangeInFile
<1>5. \A g \in files : g # f => New(g) = Old(g)
  BY <1>1, <1>3, <1>4, OtherFileKept
<1>6. New(f) = Abstract!Overlay(Old(f), offset, offset + size, v, length)
  BY <1>1, <1>3, WriteBytes
<1>7. /\ Contents = [g \in Files |-> IF g \in files THEN Old(g) ELSE NoBytes]
      /\ Contents' = [g \in Files |-> IF g \in files THEN New(g) ELSE NoBytes]
  BY <1>1 DEF ContentsAre, NoBytes
<1> HIDE DEF Old, New
<1>8. Contents' = [Contents EXCEPT ![f] =
                      Abstract!Overlay(Contents[f], offset, offset + size, v, length)]
  <2>1. Contents[f] = Old(f)
    BY <1>2, <1>7
  <2> QED
    BY <1>2, <1>5, <1>6, <1>7, <2>1
<1>9. Abstract!Write(f, disk_inode[f].size, offset, size, v)
  BY <1>1, <1>8 DEF Abstract!Write
<1> QED
  BY <1>9, WriteSomeBy

(* A new file has no bytes. *)
LEMMA CreateRefines ==
    ASSUME StoreInv, ContentsAre, ContentsAre', NEW f \in Files, initrafs_file_create(f)
    PROVE  Abstract!Create(f)
<1>1. /\ f \notin files /\ files' = files \cup {f} /\ disk' = disk
      /\ \E number : disk_inode' = [disk_inode EXCEPT ![f] =
                         [number |-> number, size |-> 0, direct_blocks |-> NoBlocks]]
  BY DEF initrafs_file_create
<1>2. files \subseteq Files /\ disk_inode \in [Files -> [number : Inodes, size : 0 .. MAX_FILE_SIZE,
                                  direct_blocks : [Logical -> Blocks]]]
  BY DEF StoreInv, StoreTypeOK
<1>3. /\ disk_inode'[f].size = 0
      /\ \A g \in Files : g # f => disk_inode'[g] = disk_inode[g]
  BY <1>1, <1>2
<1>4. FileBytes(disk_inode'[f].direct_blocks, disk_inode'[f].size, disk') = NoBytes
  <2>1. 0 .. 0 - 1 = {}
    OBVIOUS
  <2> QED
    BY <1>3, <2>1 DEF FileBytes, NoBytes
<1>5. Contents' = Contents
  BY <1>1, <1>2, <1>3, <1>4 DEF ContentsAre, NoBytes
<1> QED
  BY <1>1, <1>5 DEF Abstract!Create

LEMMA ReleaseRefines ==
    ASSUME StoreInv, ContentsAre, ContentsAre', NEW f \in Files, ReleaseFile(f)
    PROVE  Abstract!Remove(f)
<1>1. /\ f \in files /\ files' = files \ {f} /\ disk' = disk
      /\ disk_inode' = [disk_inode EXCEPT ![f].direct_blocks = NoBlocks]
  BY DEF ReleaseFile
<1>2. DOMAIN disk_inode = Files /\ files \subseteq Files
  BY DEF StoreInv, StoreTypeOK
<1>3. \A g \in Files : g # f => disk_inode'[g] = disk_inode[g]
  BY <1>1, <1>2
<1>4. Contents' = [Contents EXCEPT ![f] = Abstract!Empty]
  BY <1>1, <1>2, <1>3 DEF ContentsAre, NoBytes, Abstract!Empty
<1> QED
  BY <1>1, <1>4 DEF Abstract!Remove

(* Without files, nothing is stored. *)
LEMMA EmptyRefines ==
    ASSUME ContentsAre', files' = {}
    PROVE  Abstract!Unmount
BY DEF ContentsAre, NoBytes, Abstract!Unmount, Abstract!Empty

LEMMA StoreStepRefines ==
    ASSUME StoreInv, StoreInv', ContentsAre, ContentsAre', [StoreNext]_storeVars
    PROVE  [Abstract!Next]_<<files, Contents>>
<1>1. CASE \E block_count \in DeviceSizes : initrafs_instance_init(block_count)
  <2>1. files' = {}
    BY <1>1 DEF initrafs_instance_init
  <2> QED
    BY <2>1, EmptyRefines DEF Abstract!Next
<1>2. CASE initrafs_instance_unmount
  <2>1. files' = {}
    BY <1>2 DEF initrafs_instance_unmount
  <2> QED
    BY <2>1, EmptyRefines DEF Abstract!Next
<1>3. CASE \E f \in Files : initrafs_file_create(f) \/ ReleaseFile(f)
  BY <1>3, CreateRefines, ReleaseRefines DEF Abstract!Next
<1>4. ASSUME NEW f \in Files, NEW offset \in 0 .. MAX_FILE_SIZE,
             NEW size \in 1 .. MAX_FILE_SIZE + 1, NEW v \in Bytes,
             initrafs_file_write(f, offset, size, v)
      PROVE  Abstract!Next
  <2>1. offset \in Nat /\ size \in Nat /\ StoreTypeOK /\ InstanceInv
    BY StoreAssumption DEF MAX_FILE_SIZE, StoreInv
  <2>2. /\ f \in files /\ size # 0
        /\ offset <= disk_inode[f].size /\ offset + size <= MAX_FILE_SIZE
        /\ WriteFailed(f, offset, size, v) \/ WriteSucceeded(f, offset, size, v)
    BY <1>4, <2>1, WriteCases
  <2>3. Abstract!WriteSome(f)
    BY <2>1, <2>2, WriteFailedRefines, WriteSucceededRefines
  <2> QED
    BY <2>3 DEF Abstract!Next
<1>5. CASE UNCHANGED storeVars
  <2>1. files' = files /\ disk_inode' = disk_inode /\ disk' = disk
    BY <1>5 DEF storeVars
  <2>2. Contents' = Contents
    BY <2>1 DEF ContentsAre
  <2> QED
    BY <2>1, <2>2
<1> QED
  BY <1>1, <1>2, <1>3, <1>4, <1>5 DEF StoreNext

(* Refinement: whatever is mounted, created, written, released or fails halfway, reading
   a file through initrafs_file_read returns the bytes that initrafs_file_write put in
   that file, and a failed write has changed at most the beginning of its range. *)
THEOREM StoreRefinement == StoreSpec => ImplementsByteFiles
<1>1. StoreInit => Abstract!Init
  BY DEF StoreInit, Abstract!Init, Abstract!Empty, Contents
<1>2. StoreInv /\ StoreInv' /\ ContentsAre /\ ContentsAre' /\ [StoreNext]_storeVars
         => [Abstract!Next]_<<files, Contents>>
  BY StoreStepRefines
<1>3. Abstract!vars = <<files, Contents>>
  BY DEF Abstract!vars
<1> QED
  BY <1>1, <1>2, <1>3, StoreInvariant, ContentsRead, PTL
  DEF StoreSpec, ImplementsByteFiles, Abstract!Spec, Abstract!vars
=============================================================================
