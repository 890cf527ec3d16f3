------------------------------ MODULE PagedHeap ------------------------------
(***************************************************************************)
(* The kernel heap once paging is on (src/kernel.c): the table of paged    *)
(* blocks, the heap's page-table entries and the physical frame bitmap.    *)
(*                                                                         *)
(* Blocks are placed at page boundaries (plain requests) or so that the    *)
(* payload is page aligned (the page directories and tables of a process), *)
(* and every page a block touches is backed by a frame of its own.  Each   *)
(* call runs to completion: system calls enter with interrupts off and no  *)
(* interrupt handler allocates.                                            *)
(***************************************************************************)
EXTENDS Integers, FiniteSets

CONSTANTS PAGE,          \* HEAP_PAGE_SIZE, 4096
          HEADER,        \* sizeof(heap_block_t), 12
          WORD,          \* allocation granularity, 4
          UINT,          \* unsigned int arithmetic is modulo this, 2^32
          FirstPage,     \* HEAP_PAGED_BASE / PAGE
          LastPage,      \* HEAP_PAGED_LIMIT / PAGE - 1
          MaxBlocks,     \* HEAP_PAGED_MAX_BLOCKS
          Frames,        \* frames frame_alloc may hand out
          InitialPointer,\* heap_pointer when paging is switched on
          PlainSizes,    \* sizes requested from heap_alloc and heap_realloc
          AlignedSizes   \* sizes requested from heap_alloc_paged_aligned

ASSUME HeapAssumption ==
    /\ PAGE \in Nat /\ HEADER \in Nat \ {0} /\ HEADER < PAGE /\ WORD \in Nat \ {0}
    /\ FirstPage \in Nat \ {0} /\ LastPage \in Nat /\ FirstPage <= LastPage
    /\ UINT \in Nat /\ (LastPage + 3) * PAGE < UINT
    /\ MaxBlocks \in Nat
    /\ Frames \subseteq Nat /\ IsFiniteSet(Frames) /\ 0 \notin Frames
    /\ InitialPointer \in Nat \ {0} /\ InitialPointer <= (LastPage + 1) * PAGE
    /\ PlainSizes \subseteq Nat /\ AlignedSizes \subseteq Nat

HEAP_PAGED_BASE == FirstPage * PAGE
HEAP_PAGED_LIMIT == (LastPage + 1) * PAGE
Pages == FirstPage .. LastPage
Slots == 0 .. MaxBlocks - 1

UNMAPPED == 0     \* a page-table entry that is not present
IDENTITY == -1    \* the page as paging_init maps it, onto itself

VARIABLES paged_heap_blocks, \* the table of blocks; address 0: never used
          heap_pointer,      \* end of the block placed last
          page_table,        \* what each page of the region is mapped to
          frame_bitmap,      \* the frames marked used
          requested          \* history: the size each block was asked for with

heapVars == <<paged_heap_blocks, heap_pointer, page_table, frame_bitmap, requested>>

Free(i) == paged_heap_blocks[i].free = 1
Used(i) == paged_heap_blocks[i].address # 0
Live(i) == Used(i) /\ ~ Free(i)

Add(a, b) == (a + b) % UINT
align_up_4k(a) == ((a + (PAGE - 1)) \div PAGE) * PAGE

(* Mutant: the size is rounded down. *)
round_down(size) == (size \div WORD) * WORD

(* size = (size + 3) & ~3 in unsigned arithmetic. *)
RoundUp(size) == (Add(size, WORD - 1) \div WORD) * WORD

(* The pages visited by "for (page = from & ~(PAGE-1); page < to; page += PAGE)". *)
PagesOf(from, to) == {p \in Pages : p >= from \div PAGE /\ p * PAGE < to}

BlockPages(i) == PagesOf(paged_heap_blocks[i].address - HEADER,
                         Add(paged_heap_blocks[i].address, paged_heap_blocks[i].size))

HeapInit ==
    /\ paged_heap_blocks = [i \in Slots |-> [address |-> 0, size |-> 0, free |-> 0]]
    /\ heap_pointer = InitialPointer
    /\ page_table = [p \in Pages |-> IDENTITY]
    /\ frame_bitmap = {}
    /\ requested = [i \in Slots |-> 0]

-----------------------------------------------------------------------------
(* Mapping and unmapping runs of pages. *)

FreeFrames == Frames \ frame_bitmap

(* frame_alloc called for the pages in ascending order: each call returns the
   lowest frame not yet used. *)
LowestFirst(run) ==
    /\ \A p, q \in DOMAIN run : p < q => run[p] < run[q]
    /\ \A p \in DOMAIN run, f \in FreeFrames :
          (\A q \in DOMAIN run : run[q] # f) => run[p] < f

(* heap_map_page for every page of the run succeeds, whatever the page was mapped
   to before; then the pages in released, if any, are unmapped again. *)
MapThenUnmap(pages, released) ==
    \E run \in [pages -> FreeFrames] :
        /\ LowestFirst(run)
        /\ LET table == [p \in Pages |-> IF p \in pages THEN run[p] ELSE page_table[p]]
           IN  /\ page_table' = [p \in Pages |->
                                    IF p \in released THEN UNMAPPED ELSE table[p]]
               /\ frame_bitmap' = (frame_bitmap \cup {run[p] : p \in pages})
                                       \ {table[p] : p \in released}

(* Mutant: a page entry survives although its frame is given back. *)
unmap_keeps_entry(pages) ==
    /\ page_table' = page_table
    /\ frame_bitmap' = frame_bitmap \ {page_table[p] : p \in pages}

(* Mutant: giving a frame back flips its bit, whatever the entry held. *)
unmap_flips_bit(pages) ==
    /\ page_table' = [p \in Pages |-> IF p \in pages THEN UNMAPPED ELSE page_table[p]]
    /\ LET returned == {page_table[p] : p \in pages}
       IN  frame_bitmap' = (frame_bitmap \ returned) \cup (returned \ frame_bitmap)

(* heap_unmap_page on each page: drop the entry, give its frame back. *)
UnmapPages(pages) ==
    /\ page_table' = [p \in Pages |-> IF p \in pages THEN UNMAPPED ELSE page_table[p]]
    /\ frame_bitmap' = frame_bitmap \ {page_table[p] : p \in pages}

(* Mutant: the clean-up drops the entries and keeps the frames. *)
clean_up_keeps_frames(pages, extra) ==
    /\ Cardinality(FreeFrames) < Cardinality(pages)
    /\ page_table' = [p \in Pages |-> IF p \in pages THEN UNMAPPED ELSE page_table[p]]
    /\ frame_bitmap' = Frames

(* Mutant: the clean-up loop starts one page before the block. *)
clean_up_from_before(pages, extra) ==
    /\ Cardinality(FreeFrames) < Cardinality(pages)
    /\ LET before == {p \in Pages : p + 1 \in pages /\ p \notin pages}
       IN  /\ page_table' = [p \in Pages |-> IF p \in pages \cup before THEN UNMAPPED
                                             ELSE page_table[p]]
           /\ frame_bitmap' = frame_bitmap \ {page_table[p] : p \in before}

(* frame_alloc fails before the last page: the pages mapped so far took all the
   free frames and are unmapped again, which returns those frames.  The clean-up
   loop of heap_alloc_paged_aligned counts from the header, inside a page, and so
   goes one page further than was mapped: extra is 1 there and 0 elsewhere. *)
MapFails(pages, extra) ==
    /\ Cardinality(FreeFrames) < Cardinality(pages)
    /\ LET k == Cardinality(FreeFrames)
           before(p) == Cardinality({q \in pages : q < p})
           mapped == {p \in pages : before(p) < k}
           over == {p \in pages : before(p) >= k /\ before(p) < k + extra}
       IN  /\ page_table' = [p \in Pages |-> IF p \in mapped \cup over THEN UNMAPPED
                                             ELSE page_table[p]]
           /\ frame_bitmap' = frame_bitmap \ {page_table[p] : p \in over}

-----------------------------------------------------------------------------
(* Choosing a slot. *)

(* The slot a loop over the table in index order stops at. *)
First(S) == {i \in S : \A j \in S : i <= j}

(* Mutant: the end of a reused block is not compared with the limit. *)
reusable_without_limit(size) ==
    {i \in Slots : Free(i) /\ Used(i)}

(* The freed slots whose old address still fits the new size.  The size the slot
   had before plays no part. *)
Reusable(size) ==
    {i \in Slots :
        /\ Free(i) /\ Used(i)
        /\ paged_heap_blocks[i].address - HEADER >= HEAP_PAGED_BASE
        /\ Add(paged_heap_blocks[i].address, size) >= paged_heap_blocks[i].address
        /\ Add(paged_heap_blocks[i].address, size) <= HEAP_PAGED_LIMIT}

Spare == {i \in Slots : Free(i) \/ ~ Used(i)}

(* Mutant: the block heap_realloc replaces is not marked free. *)
set_block_keeps_old(i, address, size, request, doomed) ==
    /\ paged_heap_blocks' =
          [paged_heap_blocks EXCEPT ![i] = [address |-> address, size |-> size, free |-> 0]]
    /\ requested' = [requested EXCEPT ![i] = request]

(* Slot i becomes a live block; the slots in doomed are freed after it. *)
SetBlock(i, address, size, request, doomed) ==
    /\ paged_heap_blocks' = [j \in Slots |->
           IF j = i THEN [address |-> address, size |-> size, free |-> 0]
           ELSE IF j \in doomed THEN [paged_heap_blocks[j] EXCEPT !.free = 1]
           ELSE paged_heap_blocks[j]]
    /\ requested' = [requested EXCEPT ![i] = request]

DoomedPages(doomed) == UNION {BlockPages(j) : j \in doomed}

(* The first half of heap_alloc_paged: the lowest reusable slot, at its address. *)
ReuseBlock(size, request, doomed) ==
    \E i \in First(Reusable(size)) :
       LET address == paged_heap_blocks[i].address
           pages == PagesOf(address - HEADER, Add(address, size))
       IN  \/ /\ MapThenUnmap(pages, DoomedPages(doomed))
              /\ SetBlock(i, address, size, request, doomed)
              /\ UNCHANGED heap_pointer
           \/ /\ MapFails(pages, 0)
              /\ UNCHANGED <<paged_heap_blocks, heap_pointer, requested>>

(* Mutant: the end of a new block is not remembered. *)
place_pointer_stuck(size, request, aligned, doomed) ==
    \E i \in First(Spare) :
       LET start == align_up_4k(heap_pointer)
           address == (IF start < HEAP_PAGED_BASE THEN HEAP_PAGED_BASE ELSE start)
                        + HEADER
       IN  /\ Add(address, size) >= address - HEADER
           /\ Add(address, size) <= HEAP_PAGED_LIMIT
           /\ MapThenUnmap(PagesOf(address - HEADER, Add(address, size)),
                           DoomedPages(doomed))
           /\ SetBlock(i, address, size, request, doomed)
           /\ UNCHANGED heap_pointer

(* The placement beyond heap_pointer shared by heap_alloc_paged (block at a page
   boundary) and heap_alloc_paged_aligned (payload at a page boundary, header just
   before it).  An end outside the region or a full table returns 0; the overflow
   check compares the end with the start of the block in the plain case, and with
   the payload in the aligned one. *)
PlaceBlock(size, request, aligned, doomed) ==
    \E i \in First(Spare) :
       LET start == align_up_4k(heap_pointer)
           address == IF aligned THEN align_up_4k(heap_pointer + HEADER)
                      ELSE (IF start < HEAP_PAGED_BASE THEN HEAP_PAGED_BASE ELSE start)
                             + HEADER
           block_start == address - HEADER
           end == Add(address, size)
           pages == PagesOf(block_start, end)
       IN  /\ block_start >= HEAP_PAGED_BASE
           /\ end >= IF aligned THEN address ELSE block_start
           /\ end <= HEAP_PAGED_LIMIT
           /\ \/ /\ MapThenUnmap(pages, DoomedPages(doomed))
                 /\ SetBlock(i, address, size, request, doomed)
                 /\ heap_pointer' = end
              \/ /\ MapFails(pages, IF aligned THEN 1 ELSE 0)
                 /\ UNCHANGED <<paged_heap_blocks, heap_pointer, requested>>

-----------------------------------------------------------------------------
(* The operations.  A call that returns early changes nothing. *)

AllocThenFree(size, doomed) ==
    /\ size # 0
    /\ \/ ReuseBlock(RoundUp(size), size, doomed)
       \/ Reusable(RoundUp(size)) = {} /\ PlaceBlock(RoundUp(size), size, FALSE, doomed)

heap_alloc_paged(size) == AllocThenFree(size, {})

heap_alloc_paged_aligned(size) ==
    size # 0 /\ PlaceBlock(RoundUp(size), size, TRUE, {})

(* heap_free of the address of slot i; freeing it twice changes nothing. *)
heap_free(i) ==
    /\ Live(i)
    /\ paged_heap_blocks' = [paged_heap_blocks EXCEPT ![i].free = 1]
    /\ UnmapPages(BlockPages(i))
    /\ UNCHANGED <<heap_pointer, requested>>

(* heap_realloc of the block of slot i: a larger block is allocated, the contents
   are copied, the old block is freed.  Smaller sizes return the old address. *)
heap_realloc(i, size) ==
    /\ Live(i) /\ size # 0
    /\ paged_heap_blocks[i].size < RoundUp(size)
    /\ AllocThenFree(RoundUp(size), {i})

HeapNext ==
    \/ \E size \in PlainSizes : heap_alloc_paged(size)
    \/ \E size \in AlignedSizes : heap_alloc_paged_aligned(size)
    \/ \E i \in Slots : heap_free(i)
    \/ \E i \in Slots, size \in PlainSizes : heap_realloc(i, size)

(* Requests small enough for the unsigned sums of the allocator not to wrap.  The
   kernel's own requests are; SYSCALL_ALLOC passes on whatever it is given. *)
NoWrap == \A size \in PlainSizes \cup AlignedSizes : size + 2 * WORD + HEADER <= UINT

(* A block of this size takes k pages, header included. *)
Takes(size, k) == (k - 1) * PAGE < HEADER + size /\ HEADER + size <= k * PAGE

(* Requests that all take the same number of pages, none of them aligned. *)
UniformRequests(k) ==
    /\ NoWrap
    /\ AlignedSizes = {}
    /\ \A size \in PlainSizes : Takes(RoundUp(size), k)

HeapSpec == HeapInit /\ [][HeapNext]_heapVars
-----------------------------------------------------------------------------
(* Type invariant. *)
HeapTypeOK ==
    /\ paged_heap_blocks \in [Slots -> [address : Nat, size : Nat, free : {0, 1}]]
    /\ heap_pointer \in Nat
    /\ page_table \in [Pages -> Frames \cup {UNMAPPED, IDENTITY}]
    /\ frame_bitmap \subseteq Frames
    /\ requested \in [Slots -> Nat]

(* However blocks are allocated, moved, freed and rolled back, no frame backs two
   pages of the heap, and a frame that backs a page is marked used: frame_alloc
   never hands out memory that is still mapped. *)
FramesExclusive ==
    /\ \A p \in Pages : page_table[p] \in Frames => page_table[p] \in frame_bitmap
    /\ \A p, q \in Pages :
          page_table[p] \in Frames /\ page_table[p] = page_table[q] => p = q

(* Every block ever placed lies, header included, between HEAP_PAGED_BASE and
   HEAP_PAGED_LIMIT, even when it is reused with another size. *)
BlocksInRegion ==
    \A i \in Slots : Used(i) =>
        /\ paged_heap_blocks[i].address - HEADER >= HEAP_PAGED_BASE
        /\ paged_heap_blocks[i].address + paged_heap_blocks[i].size <= HEAP_PAGED_LIMIT

(* No two slots hold the same address, so paged_heap_find, which returns the first
   match, always finds the block that is meant. *)
AddressesDistinct ==
    \A i, j \in Slots :
        Used(i) /\ paged_heap_blocks[i].address = paged_heap_blocks[j].address => i = j

(* Both, through any mix of plain, aligned, reused and reallocated blocks: a slot is
   never placed past the limit its reuse is checked against, nor found by the address
   of another. *)
PlacementSound == BlocksInRegion /\ AddressesDistinct

(* No page belongs to two live blocks. *)
LiveBlocksDisjoint ==
    \A i, j \in Slots : Live(i) /\ Live(j) /\ i # j => BlockPages(i) \cap BlockPages(j) = {}

(* Every page of a live block is backed by a frame. *)
LiveBlocksMapped ==
    \A i \in Slots : Live(i) => \A p \in BlockPages(i) : page_table[p] \in Frames

(* Every used frame backs a page of a live block: freeing a block releases all of
   its frames and a failed allocation keeps none. *)
NoFrameLeaked ==
    \A f \in frame_bitmap : \E i \in Slots :
        Live(i) /\ \E p \in BlockPages(i) : page_table[p] = f

(* A block is at least as large as the request it was returned for. *)
RequestsCovered ==
    \A i \in Slots : Live(i) => paged_heap_blocks[i].size >= requested[i]

Holder(a) == CHOOSE i \in Slots : Live(i) /\ paged_heap_blocks[i].address = a

(* The allocations as callers see them. *)
LiveBlocks ==
    [a \in {paged_heap_blocks[i].address : i \in {j \in Slots : Live(j)}} |->
        [size |-> paged_heap_blocks[Holder(a)].size, request |-> requested[Holder(a)]]]

Abstract == INSTANCE Allocator WITH
    Region <- HEAP_PAGED_BASE .. HEAP_PAGED_LIMIT - 1, live <- LiveBlocks

(* As long as all requests take the same number of pages, switching paging on changes
   nothing for callers: the table of slots implements the same allocator as the boot
   heap's list. *)
PagedImplementsAllocator == Abstract!Spec

(* A call that leaves the table of blocks as it was, an allocation that ran out of
   frames after it had mapped some of its pages and cleaned them up again, leaves the
   memory of every live block as it was. *)
FailureHarmless ==
    [][paged_heap_blocks' = paged_heap_blocks =>
          \A i \in Slots : Live(i) =>
              \A p \in BlockPages(i) : page_table'[p] = page_table[p]]_heapVars
=============================================================================
