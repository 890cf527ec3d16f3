--------------------------- MODULE PagedHeapProofs ---------------------------
(***************************************************************************)
(* The paged heap for every page size, region, set of frames and stream of *)
(* requests: types, exclusive frames, placement; and, for requests that    *)
(* fit one page with their header, the full safety of the heap.            *)
(***************************************************************************)
EXTENDS PagedHeap, TLAPS

(* Unmapped and identity entries are not frames. *)
LEMMA EntriesNotFrames == UNMAPPED \notin Frames /\ IDENTITY \notin Frames
  BY HeapAssumption DEF UNMAPPED, IDENTITY

LEMMA PagesAreIntegers == Pages \subseteq Int
  BY HeapAssumption DEF Pages

(* Frames handed out lowest first are handed out once. *)
LEMMA RunInjective ==
    ASSUME NEW pages \in SUBSET Pages, NEW run \in [pages -> FreeFrames],
           LowestFirst(run), NEW p \in pages, NEW q \in pages, run[p] = run[q]
    PROVE  p = q
  <1>1. p \in Int /\ q \in Int
    BY PagesAreIntegers
  <1>2. run[p] \in Nat /\ run[q] \in Nat
    BY HeapAssumption DEF FreeFrames
  <1>3. ~ (p < q) /\ ~ (q < p)
    BY <1>2 DEF LowestFirst
  <1>4. QED
    BY <1>1, <1>3

(* A mapped run, followed by the unmapping of some pages, keeps frames exclusive. *)
LEMMA MapKeepsExclusive ==
    ASSUME HeapTypeOK, FramesExclusive, NEW pages \in SUBSET Pages,
           NEW released \in SUBSET Pages, MapThenUnmap(pages, released)
    PROVE  /\ page_table' \in [Pages -> Frames \cup {UNMAPPED, IDENTITY}]
           /\ frame_bitmap' \subseteq Frames
           /\ FramesExclusive'
  <1>1. PICK run \in [pages -> FreeFrames] :
           /\ LowestFirst(run)
           /\ LET table == [p \in Pages |-> IF p \in pages THEN run[p] ELSE page_table[p]]
              IN  /\ page_table' = [p \in Pages |->
                                       IF p \in released THEN UNMAPPED ELSE table[p]]
                  /\ frame_bitmap' = (frame_bitmap \cup {run[p] : p \in pages})
                                          \ {table[p] : p \in released}
    BY DEF MapThenUnmap
  <1> DEFINE table == [p \in Pages |-> IF p \in pages THEN run[p] ELSE page_table[p]]
  <1>2. /\ page_table' = [p \in Pages |-> IF p \in released THEN UNMAPPED ELSE table[p]]
        /\ frame_bitmap' = (frame_bitmap \cup {run[p] : p \in pages})
                                \ {table[p] : p \in released}
    BY <1>1
  <1>3. \A p \in pages : run[p] \in Frames \ frame_bitmap
    BY DEF FreeFrames
  <1>4. table \in [Pages -> Frames \cup {UNMAPPED, IDENTITY}]
    BY <1>3 DEF HeapTypeOK
  <1>5. ASSUME NEW p \in Pages, NEW q \in Pages, table[p] \in Frames, table[p] = table[q]
        PROVE  p = q
    <2>1. CASE p \in pages /\ q \in pages
      BY <1>1, <1>5, <2>1, RunInjective
    <2>2. CASE p \in pages /\ q \notin pages
      BY <1>3, <1>5, <2>2 DEF FramesExclusive
    <2>3. CASE p \notin pages /\ q \in pages
      BY <1>3, <1>5, <2>3 DEF FramesExclusive
    <2>4. CASE p \notin pages /\ q \notin pages
      BY <1>5, <2>4 DEF FramesExclusive
    <2>5. QED
      BY <2>1, <2>2, <2>3, <2>4
  <1>6. ASSUME NEW p \in Pages, table[p] \in Frames
        PROVE  table[p] \in frame_bitmap \cup {run[q] : q \in pages}
    BY <1>6 DEF FramesExclusive
  <1> HIDE DEF table
  <1>7. ASSUME NEW p \in Pages, page_table'[p] \in Frames
        PROVE  p \notin released /\ page_table'[p] = table[p]
    BY <1>2, <1>7, EntriesNotFrames
  <1>8. ASSUME NEW p \in Pages, page_table'[p] \in Frames
        PROVE  page_table'[p] \in frame_bitmap'
    <2>1. table[p] \notin {table[q] : q \in released}
      BY <1>5, <1>7, <1>8
    <2>2. QED
      BY <1>2, <1>6, <1>7, <1>8, <2>1
  <1>9. page_table' \in [Pages -> Frames \cup {UNMAPPED, IDENTITY}]
    BY <1>2, <1>4
  <1>10. frame_bitmap' \subseteq Frames
    BY <1>2, <1>3 DEF HeapTypeOK
  <1>11. FramesExclusive'
    BY <1>5, <1>7, <1>8 DEF FramesExclusive
  <1>12. QED
    BY <1>9, <1>10, <1>11

(* Unmapping pages keeps frames exclusive. *)
LEMMA UnmapKeepsExclusive ==
    ASSUME HeapTypeOK, FramesExclusive, NEW pages \in SUBSET Pages, UnmapPages(pages)
    PROVE  /\ page_table' \in [Pages -> Frames \cup {UNMAPPED, IDENTITY}]
           /\ frame_bitmap' \subseteq Frames
           /\ FramesExclusive'
  <1>1. ASSUME NEW p \in Pages, page_table'[p] \in Frames
        PROVE  p \notin pages /\ page_table'[p] = page_table[p]
    BY <1>1, EntriesNotFrames DEF UnmapPages
  <1>2. ASSUME NEW p \in Pages, page_table'[p] \in Frames
        PROVE  page_table'[p] \in frame_bitmap'
    BY <1>1, <1>2 DEF UnmapPages, FramesExclusive
  <1>3. FramesExclusive'
    BY <1>1, <1>2 DEF FramesExclusive
  <1>4. QED
    BY <1>3 DEF UnmapPages, HeapTypeOK

(* So does a failed run, whichever pages its clean-up reaches. *)
LEMMA FailureKeepsExclusive ==
    ASSUME HeapTypeOK, FramesExclusive, NEW pages \in SUBSET Pages, NEW extra,
           MapFails(pages, extra)
    PROVE  /\ page_table' \in [Pages -> Frames \cup {UNMAPPED, IDENTITY}]
           /\ frame_bitmap' \subseteq Frames
           /\ FramesExclusive'
  <1>1. PICK mapped \in SUBSET pages, over \in SUBSET pages :
           /\ page_table' = [p \in Pages |-> IF p \in mapped \cup over THEN UNMAPPED
                                             ELSE page_table[p]]
           /\ frame_bitmap' = frame_bitmap \ {page_table[p] : p \in over}
    BY DEF MapFails
  <1>2. ASSUME NEW p \in Pages, page_table'[p] \in Frames
        PROVE  p \notin over /\ page_table'[p] = page_table[p]
    BY <1>1, <1>2, EntriesNotFrames
  <1>3. ASSUME NEW p \in Pages, page_table'[p] \in Frames
        PROVE  page_table'[p] \in frame_bitmap'
    BY <1>1, <1>2, <1>3 DEF FramesExclusive
  <1>4. FramesExclusive'
    BY <1>2, <1>3 DEF FramesExclusive
  <1>5. QED
    BY <1>1, <1>4 DEF HeapTypeOK

-----------------------------------------------------------------------------
(* Arithmetic of the allocator. *)

LEMMA RoundDown ==
    ASSUME NEW w \in Nat \ {0}, NEW a \in Nat
    PROVE  (a \div w) * w \in 0 .. a
  OBVIOUS

LEMMA AddRange ==
    ASSUME NEW a \in Nat, NEW b \in Nat
    PROVE  Add(a, b) \in 0 .. UINT - 1
  BY HeapAssumption DEF Add

LEMMA RoundUpRange ==
    ASSUME NEW size \in Nat
    PROVE  RoundUp(size) \in 0 .. UINT - 1
  <1>1. Add(size, WORD - 1) \in 0 .. UINT - 1
    BY HeapAssumption, AddRange
  <1>2. RoundUp(size) \in 0 .. Add(size, WORD - 1)
    BY <1>1, HeapAssumption, RoundDown DEF RoundUp
  <1>3. QED
    BY <1>1, <1>2, HeapAssumption

LEMMA AlignUpRange ==
    ASSUME NEW a \in Nat
    PROVE  align_up_4k(a) \in Nat /\ align_up_4k(a) >= a
  <1>1. ASSUME NEW w \in Nat \ {0}, NEW b \in Nat
        PROVE  ((b + (w - 1)) \div w) * w >= b
    OBVIOUS
  <1>2. PAGE \in Nat \ {0} /\ a + (PAGE - 1) \in Nat
    BY HeapAssumption
  <1>3. QED
    BY <1>1, <1>2, RoundDown DEF align_up_4k

(* A sum that does not come out below its start has not wrapped. *)
LEMMA SumExact ==
    ASSUME NEW a \in 0 .. UINT - 1, NEW b \in 0 .. UINT - 1, Add(a, b) >= a
    PROVE  Add(a, b) = a + b
  <1>1. UINT \in Nat \ {0}
    BY HeapAssumption
  <1>2. CASE a + b < UINT
    BY <1>1, <1>2 DEF Add
  <1>3. CASE a + b >= UINT
    <2>1. (a + b) % UINT = a + b - UINT
      BY <1>1, <1>3
    <2>2. QED
      BY <1>1, <1>3, <2>1 DEF Add
  <1>4. QED
    BY <1>1, <1>2, <1>3

LEMMA RoundUpExact ==
    ASSUME NEW size \in Nat, size + WORD + HEADER <= UINT
    PROVE  RoundUp(size) >= size /\ RoundUp(size) + HEADER < UINT
  <1>1. Add(size, WORD - 1) = size + (WORD - 1)
    BY HeapAssumption DEF Add
  <1>2. ASSUME NEW w \in Nat \ {0}, NEW b \in Nat
        PROVE  ((b + (w - 1)) \div w) * w >= b
    OBVIOUS
  <1>3. RoundUp(size) \in 0 .. size + (WORD - 1)
    <2>1. WORD \in Nat \ {0} /\ size + (WORD - 1) \in Nat
      BY HeapAssumption
    <2>2. ((size + (WORD - 1)) \div WORD) * WORD \in 0 .. size + (WORD - 1)
      BY <2>1, RoundDown
    <2>3. QED
      BY <1>1, <2>2 DEF RoundUp
  <1>4. RoundUp(size) >= size
    BY <1>1, <1>2, HeapAssumption DEF RoundUp
  <1>5. QED
    BY <1>3, <1>4, HeapAssumption

-----------------------------------------------------------------------------
(* Type correctness and exclusive frames, for any requests at all. *)

LEMMA PagesOfSubset ==
    /\ \A from, to \in Int : PagesOf(from, to) \in SUBSET Pages
    /\ \A doomed \in SUBSET Slots : DoomedPages(doomed) \in SUBSET Pages
  BY DEF PagesOf, DoomedPages, BlockPages

LEMMA SetBlockTypes ==
    ASSUME HeapTypeOK, NEW i \in Slots, NEW address \in Nat, NEW size \in Nat,
           NEW request \in Nat, NEW doomed,
           SetBlock(i, address, size, request, doomed)
    PROVE  /\ paged_heap_blocks' \in [Slots -> [address : Nat, size : Nat, free : {0, 1}]]
           /\ requested' \in [Slots -> Nat]
  BY DEF SetBlock, HeapTypeOK

(* The part of the invariant that holds whatever is requested. *)
FrameInv == HeapTypeOK /\ FramesExclusive

LEMMA ReuseKeepsFrames ==
    ASSUME FrameInv, NEW size \in 0 .. UINT - 1, NEW request \in Nat,
           NEW doomed \in SUBSET Slots, ReuseBlock(size, request, doomed)
    PROVE  FrameInv'
  <1>1. PICK i \in First(Reusable(size)) :
          LET address == paged_heap_blocks[i].address
              pages == PagesOf(address - HEADER, Add(address, size))
          IN  \/ /\ MapThenUnmap(pages, DoomedPages(doomed))
                 /\ SetBlock(i, address, size, request, doomed)
                 /\ UNCHANGED heap_pointer
              \/ /\ MapFails(pages, 0)
                 /\ UNCHANGED <<paged_heap_blocks, heap_pointer, requested>>
    BY DEF ReuseBlock
  <1> DEFINE address == paged_heap_blocks[i].address
             pages == PagesOf(address - HEADER, Add(address, size))
  <1>2. i \in Slots /\ address \in Nat
    BY DEF First, Reusable, FrameInv, HeapTypeOK
  <1>3. pages \in SUBSET Pages /\ DoomedPages(doomed) \in SUBSET Pages
    BY PagesOfSubset DEF PagesOf
  <1>4. CASE /\ MapThenUnmap(pages, DoomedPages(doomed))
             /\ SetBlock(i, address, size, request, doomed)
             /\ UNCHANGED heap_pointer
    <2>1. /\ page_table' \in [Pages -> Frames \cup {UNMAPPED, IDENTITY}]
          /\ frame_bitmap' \subseteq Frames /\ FramesExclusive'
      BY <1>3, <1>4, MapKeepsExclusive DEF FrameInv
    <2>2. /\ paged_heap_blocks' \in [Slots -> [address : Nat, size : Nat, free : {0, 1}]]
          /\ requested' \in [Slots -> Nat]
      BY <1>2, <1>4, SetBlockTypes DEF FrameInv
    <2>3. QED
      BY <1>4, <2>1, <2>2 DEF FrameInv, HeapTypeOK
  <1>5. CASE /\ MapFails(pages, 0)
             /\ UNCHANGED <<paged_heap_blocks, heap_pointer, requested>>
    BY <1>3, <1>5, FailureKeepsExclusive DEF FrameInv, HeapTypeOK
  <1>6. QED
    BY <1>1, <1>4, <1>5

(* Where a block is placed beyond heap_pointer. *)
Place(aligned) ==
    IF aligned THEN align_up_4k(heap_pointer + HEADER)
    ELSE (IF align_up_4k(heap_pointer) < HEAP_PAGED_BASE THEN HEAP_PAGED_BASE
          ELSE align_up_4k(heap_pointer)) + HEADER

LEMMA PlaceBlockCases ==
    ASSUME NEW size, NEW request, NEW aligned, NEW doomed,
           PlaceBlock(size, request, aligned, doomed)
    PROVE  \E i \in First(Spare) :
             /\ Place(aligned) - HEADER >= HEAP_PAGED_BASE
             /\ Add(Place(aligned), size) >=
                   IF aligned THEN Place(aligned) ELSE Place(aligned) - HEADER
             /\ Add(Place(aligned), size) <= HEAP_PAGED_LIMIT
             /\ \/ /\ MapThenUnmap(PagesOf(Place(aligned) - HEADER,
                                           Add(Place(aligned), size)),
                                   DoomedPages(doomed))
                   /\ SetBlock(i, Place(aligned), size, request, doomed)
                   /\ heap_pointer' = Add(Place(aligned), size)
                \/ /\ MapFails(PagesOf(Place(aligned) - HEADER,
                                       Add(Place(aligned), size)),
                               IF aligned THEN 1 ELSE 0)
                   /\ UNCHANGED <<paged_heap_blocks, heap_pointer, requested>>
  BY DEF PlaceBlock, Place

LEMMA PlaceRange ==
    ASSUME heap_pointer \in Nat, NEW aligned \in BOOLEAN
    PROVE  Place(aligned) \in Nat /\ Place(aligned) > heap_pointer
  <1>1. /\ HEADER \in Nat \ {0} /\ HEAP_PAGED_BASE \in Nat
        /\ heap_pointer + HEADER \in Nat
    BY HeapAssumption DEF HEAP_PAGED_BASE
  <1>2. /\ align_up_4k(heap_pointer) \in Nat
        /\ align_up_4k(heap_pointer) >= heap_pointer
        /\ align_up_4k(heap_pointer + HEADER) \in Nat
        /\ align_up_4k(heap_pointer + HEADER) >= heap_pointer + HEADER
    BY <1>1, AlignUpRange
  <1>3. QED
    BY <1>1, <1>2 DEF Place

LEMMA PlaceKeepsFrames ==
    ASSUME FrameInv, NEW size \in 0 .. UINT - 1, NEW request \in Nat,
           NEW aligned \in BOOLEAN, NEW doomed \in SUBSET Slots,
           PlaceBlock(size, request, aligned, doomed)
    PROVE  FrameInv'
  <1> DEFINE address == Place(aligned)
             pages == PagesOf(address - HEADER, Add(address, size))
  <1>1. PICK i \in First(Spare) :
          \/ /\ MapThenUnmap(pages, DoomedPages(doomed))
             /\ SetBlock(i, address, size, request, doomed)
             /\ heap_pointer' = Add(address, size)
          \/ /\ MapFails(pages, IF aligned THEN 1 ELSE 0)
             /\ UNCHANGED <<paged_heap_blocks, heap_pointer, requested>>
    BY PlaceBlockCases
  <1>2. i \in Slots /\ address \in Nat
    BY PlaceRange DEF First, Spare, FrameInv, HeapTypeOK
  <1>3. pages \in SUBSET Pages /\ DoomedPages(doomed) \in SUBSET Pages
    BY PagesOfSubset DEF PagesOf
  <1>4. Add(address, size) \in Nat
    BY <1>2, AddRange
  <1> HIDE DEF address, pages
  <1>5. CASE /\ MapThenUnmap(pages, DoomedPages(doomed))
             /\ SetBlock(i, address, size, request, doomed)
             /\ heap_pointer' = Add(address, size)
    <2>1. /\ page_table' \in [Pages -> Frames \cup {UNMAPPED, IDENTITY}]
          /\ frame_bitmap' \subseteq Frames /\ FramesExclusive'
      BY <1>3, <1>5, MapKeepsExclusive DEF FrameInv
    <2>2. /\ paged_heap_blocks' \in [Slots -> [address : Nat, size : Nat, free : {0, 1}]]
          /\ requested' \in [Slots -> Nat]
      BY <1>2, <1>5, SetBlockTypes DEF FrameInv
    <2>3. QED
      BY <1>4, <1>5, <2>1, <2>2 DEF FrameInv, HeapTypeOK
  <1>6. CASE /\ MapFails(pages, IF aligned THEN 1 ELSE 0)
             /\ UNCHANGED <<paged_heap_blocks, heap_pointer, requested>>
    BY <1>3, <1>6, FailureKeepsExclusive DEF FrameInv, HeapTypeOK
  <1>7. QED
    BY <1>1, <1>5, <1>6

LEMMA FreeKeepsFrames ==
    ASSUME FrameInv, NEW i \in Slots, heap_free(i)
    PROVE  FrameInv'
  <1>1. BlockPages(i) \in SUBSET Pages
    BY DEF BlockPages, PagesOf
  <1>2. /\ page_table' \in [Pages -> Frames \cup {UNMAPPED, IDENTITY}]
        /\ frame_bitmap' \subseteq Frames /\ FramesExclusive'
    BY <1>1, UnmapKeepsExclusive DEF FrameInv, heap_free
  <1>3. paged_heap_blocks' \in [Slots -> [address : Nat, size : Nat, free : {0, 1}]]
    BY DEF heap_free, FrameInv, HeapTypeOK
  <1>4. QED
    BY <1>2, <1>3 DEF heap_free, FrameInv, HeapTypeOK

(* Every step is a reuse, a placement or a free. *)
LEMMA HeapSteps ==
    ASSUME HeapNext
    PROVE  \/ \E size \in Nat, doomed \in SUBSET Slots :
                /\ size \in PlainSizes \/ \E s \in PlainSizes : size = RoundUp(s)
                /\ size # 0
                /\ \/ ReuseBlock(RoundUp(size), size, doomed)
                   \/ PlaceBlock(RoundUp(size), size, FALSE, doomed)
                /\ \A j \in doomed : Live(j)
           \/ \E size \in AlignedSizes : PlaceBlock(RoundUp(size), size, TRUE, {})
           \/ \E i \in Slots : heap_free(i)
  <1>1. ASSUME NEW size \in PlainSizes, heap_alloc_paged(size)
        PROVE  \E d \in SUBSET Slots :
                /\ \/ ReuseBlock(RoundUp(size), size, d)
                   \/ PlaceBlock(RoundUp(size), size, FALSE, d)
                /\ \A j \in d : Live(j)
                /\ size # 0
    <2>1. {} \in SUBSET Slots /\ \A j \in {} : Live(j)
      OBVIOUS
    <2>2. QED
      BY <1>1, <2>1 DEF heap_alloc_paged, AllocThenFree
  <1>2. ASSUME NEW i \in Slots, NEW s \in PlainSizes, heap_realloc(i, s)
        PROVE  \E d \in SUBSET Slots :
                /\ \/ ReuseBlock(RoundUp(RoundUp(s)), RoundUp(s), d)
                   \/ PlaceBlock(RoundUp(RoundUp(s)), RoundUp(s), FALSE, d)
                /\ \A j \in d : Live(j)
                /\ RoundUp(s) # 0
    <2>1. {i} \in SUBSET Slots /\ \A j \in {i} : Live(j)
      BY <1>2 DEF heap_realloc
    <2>2. QED
      BY <1>2, <2>1 DEF heap_realloc, AllocThenFree
  <1>3. \A s \in PlainSizes : s \in Nat /\ RoundUp(s) \in Nat
    BY HeapAssumption, RoundUpRange
  <1>4. QED
    BY <1>1, <1>2, <1>3 DEF HeapNext, heap_alloc_paged_aligned

LEMMA FrameInvInductive == FrameInv /\ [HeapNext]_heapVars => FrameInv'
  <1> SUFFICES ASSUME FrameInv, [HeapNext]_heapVars PROVE FrameInv'
    OBVIOUS
  <1>1. CASE UNCHANGED heapVars
    BY <1>1 DEF heapVars, FrameInv, HeapTypeOK, FramesExclusive
  <1>2. ASSUME NEW size \in Nat, NEW doomed \in SUBSET Slots,
               ReuseBlock(RoundUp(size), size, doomed)
        PROVE  FrameInv'
    BY <1>2, ReuseKeepsFrames, RoundUpRange
  <1>3. ASSUME NEW size \in Nat, NEW doomed \in SUBSET Slots, NEW aligned \in BOOLEAN,
               PlaceBlock(RoundUp(size), size, aligned, doomed)
        PROVE  FrameInv'
    BY <1>3, PlaceKeepsFrames, RoundUpRange
  <1>4. ASSUME NEW i \in Slots, heap_free(i)
        PROVE  FrameInv'
    BY <1>4, FreeKeepsFrames
  <1>5. AlignedSizes \subseteq Nat /\ {} \in SUBSET Slots
    BY HeapAssumption
  <1>6. CASE HeapNext
    BY <1>2, <1>3, <1>4, <1>5, <1>6, HeapSteps
  <1>7. QED
    BY <1>1, <1>6

LEMMA FrameInvInitial == HeapInit => FrameInv
  BY HeapAssumption, EntriesNotFrames
  DEF HeapInit, FrameInv, HeapTypeOK, FramesExclusive

(* The variables keep their types, for any stream of requests. *)
THEOREM HeapTypeCorrect == HeapSpec => []HeapTypeOK
  <1>1. FrameInv => HeapTypeOK
    BY DEF FrameInv
  <1>2. QED
    BY <1>1, FrameInvInitial, FrameInvInductive, PTL DEF HeapSpec

(* No frame ever backs two heap pages, and frame_alloc never hands out a frame that
   a heap page still uses: for any stream of requests, however large. *)
THEOREM HeapFramesExclusive == HeapSpec => []FramesExclusive
  <1>1. FrameInv => FramesExclusive
    BY DEF FrameInv
  <1>2. QED
    BY <1>1, FrameInvInitial, FrameInvInductive, PTL DEF HeapSpec

-----------------------------------------------------------------------------
(* Placement, for requests whose sums do not wrap. *)

(* What setting a block does to the fields of each slot. *)
LEMMA SetBlockFields ==
    ASSUME HeapTypeOK, NEW i \in Slots, NEW address \in Nat, NEW size \in Nat,
           NEW request \in Nat, NEW doomed \in SUBSET Slots,
           SetBlock(i, address, size, request, doomed)
    PROVE  /\ paged_heap_blocks'[i].address = address
           /\ paged_heap_blocks'[i].size = size
           /\ paged_heap_blocks'[i].free = 0
           /\ \A j \in Slots : j # i =>
                 /\ paged_heap_blocks'[j].address = paged_heap_blocks[j].address
                 /\ paged_heap_blocks'[j].size = paged_heap_blocks[j].size
                 /\ paged_heap_blocks'[j].free =
                       IF j \in doomed THEN 1 ELSE paged_heap_blocks[j].free
  BY DEF SetBlock, HeapTypeOK

(* Addresses grow with heap_pointer, which stays in the region. *)
PointerAbove ==
    /\ heap_pointer <= HEAP_PAGED_LIMIT
    /\ \A i \in Slots : Used(i) => paged_heap_blocks[i].address <= heap_pointer

PlacementInv == FrameInv /\ BlocksInRegion /\ AddressesDistinct /\ PointerAbove

LEMMA RegionFacts ==
    /\ HEAP_PAGED_BASE \in Nat /\ HEAP_PAGED_LIMIT \in Nat
    /\ HEAP_PAGED_LIMIT + 2 * PAGE < UINT /\ HEAP_PAGED_BASE < HEAP_PAGED_LIMIT
    /\ HEADER \in Nat \ {0} /\ PAGE \in Nat /\ HEADER < PAGE /\ UINT \in Nat \ {0}
    /\ HEAP_PAGED_BASE > 0
  <1>1. PAGE \in Nat \ {0} /\ FirstPage \in Nat \ {0} /\ LastPage \in Nat
        /\ FirstPage <= LastPage
    BY HeapAssumption
  <1>2. (LastPage + 3) * PAGE = (LastPage + 1) * PAGE + 2 * PAGE
    BY <1>1
  <1>3. FirstPage * PAGE < (LastPage + 1) * PAGE /\ FirstPage * PAGE > 0
    BY <1>1
  <1>4. FirstPage * PAGE \in Nat /\ (LastPage + 1) * PAGE \in Nat
    BY <1>1
  <1>5. QED
    BY <1>1, <1>2, <1>3, <1>4, HeapAssumption DEF HEAP_PAGED_BASE, HEAP_PAGED_LIMIT

LEMMA AlignUpBelow ==
    ASSUME NEW a \in Nat
    PROVE  align_up_4k(a) <= a + PAGE
  <1>1. PAGE \in Nat \ {0} /\ a + (PAGE - 1) \in Nat
    BY HeapAssumption
  <1>2. align_up_4k(a) \in 0 .. a + (PAGE - 1)
    BY <1>1, RoundDown DEF align_up_4k
  <1>3. QED
    BY <1>1, <1>2

(* A placed block ends where the sum says: it lies in the region and above every
   earlier block. *)
LEMMA PlacedInRegion ==
    ASSUME heap_pointer \in Nat, heap_pointer <= HEAP_PAGED_LIMIT,
           NEW aligned \in BOOLEAN, NEW size \in Nat, size + HEADER < UINT,
           Place(aligned) - HEADER >= HEAP_PAGED_BASE,
           Add(Place(aligned), size) >=
              IF aligned THEN Place(aligned) ELSE Place(aligned) - HEADER
    PROVE  Add(Place(aligned), size) = Place(aligned) + size
  <1>1. PICK start \in Nat : start = Place(aligned) - HEADER
    BY RegionFacts, PlaceRange
  <1>2. start < UINT
    <2>1. align_up_4k(heap_pointer) <= HEAP_PAGED_LIMIT + PAGE
      BY RegionFacts, AlignUpBelow, AlignUpRange
    <2>2. align_up_4k(heap_pointer + HEADER) <= HEAP_PAGED_LIMIT + HEADER + PAGE
      <3>1. heap_pointer + HEADER \in Nat
        BY RegionFacts
      <3>2. /\ align_up_4k(heap_pointer + HEADER) <= heap_pointer + HEADER + PAGE
            /\ align_up_4k(heap_pointer + HEADER) \in Nat
        BY <3>1, AlignUpBelow, AlignUpRange
      <3>3. QED
        BY <3>2, RegionFacts
    <2>3. align_up_4k(heap_pointer) \in Nat
      BY AlignUpRange
    <2>4. heap_pointer + HEADER \in Nat
      BY RegionFacts
    <2>5. align_up_4k(heap_pointer + HEADER) \in Nat
      BY <2>4, AlignUpRange
    <2>6. QED
      BY <1>1, <2>1, <2>2, <2>3, <2>5, RegionFacts DEF Place
  <1>3. start \in 0 .. UINT - 1 /\ HEADER + size \in 0 .. UINT - 1
    BY <1>2, RegionFacts
  <1>4. Place(aligned) = start + HEADER
    BY <1>1, PlaceRange, RegionFacts
  <1>5. Add(Place(aligned), size) = Add(start, HEADER + size)
    BY <1>3, <1>4, RegionFacts DEF Add
  <1>6. Add(start, HEADER + size) >= start
    <2>1. Add(start, HEADER + size) \in Nat
      BY <1>3, RegionFacts DEF Add
    <2>2. CASE aligned
      BY <1>4, <1>5, <2>1, <2>2, RegionFacts
    <2>3. CASE ~ aligned
      BY <1>1, <1>5, <2>3
    <2>4. QED
      BY <2>2, <2>3
  <1>7. Add(start, HEADER + size) = start + (HEADER + size)
    BY <1>3, <1>6, SumExact
  <1>8. QED
    BY <1>3, <1>4, <1>5, <1>7, RegionFacts

(* A slot filled above heap_pointer, the rest only changing their free flags. *)
LEMMA PlaceKeepsPlacement ==
    ASSUME NoWrap, PlacementInv, NEW size \in Nat, size + HEADER < UINT,
           NEW request \in Nat, NEW aligned \in BOOLEAN, NEW doomed \in SUBSET Slots,
           PlaceBlock(size, request, aligned, doomed)
    PROVE  (BlocksInRegion /\ AddressesDistinct /\ PointerAbove)'
  <1> DEFINE address == Place(aligned)
             end == Add(address, size)
  <1>1. PICK i \in First(Spare) :
          /\ address - HEADER >= HEAP_PAGED_BASE
          /\ end >= IF aligned THEN address ELSE address - HEADER
          /\ end <= HEAP_PAGED_LIMIT
          /\ \/ /\ SetBlock(i, address, size, request, doomed)
                /\ heap_pointer' = end
             \/ UNCHANGED <<paged_heap_blocks, heap_pointer, requested>>
    BY PlaceBlockCases
  <1>2. i \in Slots /\ HeapTypeOK /\ heap_pointer \in Nat
    BY DEF First, Spare, PlacementInv, FrameInv, HeapTypeOK
  <1>3. address \in Nat /\ address > heap_pointer
    BY <1>2, PlaceRange
  <1>4. end = address + size
    BY <1>1, <1>2, PlacedInRegion DEF PlacementInv, PointerAbove
  <1> HIDE DEF address, end
  <1>5. CASE UNCHANGED <<paged_heap_blocks, heap_pointer, requested>>
    BY <1>5 DEF PlacementInv, BlocksInRegion, AddressesDistinct, PointerAbove, Used
  <1>6. CASE SetBlock(i, address, size, request, doomed) /\ heap_pointer' = end
    <2>1. /\ paged_heap_blocks'[i].address = address
          /\ paged_heap_blocks'[i].size = size
      BY <1>2, <1>3, <1>6, SetBlockFields
    <2>2. \A j \in Slots : j # i =>
            /\ paged_heap_blocks'[j].address = paged_heap_blocks[j].address
            /\ paged_heap_blocks'[j].size = paged_heap_blocks[j].size
      BY <1>2, <1>3, <1>6, SetBlockFields
    <2>3. \A j \in Slots : paged_heap_blocks[j].address \in Nat
      BY <1>2 DEF HeapTypeOK
    <2>4. BlocksInRegion'
      BY <1>1, <1>4, <2>1, <2>2 DEF BlocksInRegion, Used, PlacementInv
    <2>5. PointerAbove'
      BY <1>1, <1>2, <1>3, <1>4, <1>6, <2>1, <2>2, <2>3 DEF PointerAbove, Used, PlacementInv
    <2>6. \A j \in Slots : j # i => paged_heap_blocks'[j].address # address
      BY <1>2, <1>3, <2>2, <2>3 DEF PointerAbove, Used, PlacementInv
    <2>7. AddressesDistinct'
      BY <2>1, <2>2, <2>6 DEF AddressesDistinct, Used, PlacementInv
    <2>8. QED
      BY <2>4, <2>5, <2>7
  <1>7. QED
    BY <1>1, <1>5, <1>6

LEMMA ReuseKeepsPlacement ==
    ASSUME PlacementInv, NEW size \in 0 .. UINT - 1, NEW request \in Nat,
           NEW doomed \in SUBSET Slots, ReuseBlock(size, request, doomed)
    PROVE  (BlocksInRegion /\ AddressesDistinct /\ PointerAbove)'
  <1>1. PICK i \in First(Reusable(size)) :
          \/ /\ SetBlock(i, paged_heap_blocks[i].address, size, request, doomed)
             /\ UNCHANGED heap_pointer
          \/ UNCHANGED <<paged_heap_blocks, heap_pointer, requested>>
    BY DEF ReuseBlock
  <1> DEFINE address == paged_heap_blocks[i].address
  <1>2. i \in Slots /\ HeapTypeOK /\ address \in Nat
    BY DEF First, Reusable, PlacementInv, FrameInv, HeapTypeOK
  <1>3. /\ Used(i) /\ address - HEADER >= HEAP_PAGED_BASE
        /\ Add(address, size) >= address /\ Add(address, size) <= HEAP_PAGED_LIMIT
    BY DEF First, Reusable
  <1>4. address + size <= HEAP_PAGED_LIMIT
    <2>1. Add(address, size) \in 0 .. UINT - 1
      <3>1. size \in Nat
        BY RegionFacts
      <3>2. QED
        BY <1>2, <3>1, AddRange
    <2>2. address \in 0 .. UINT - 1
      BY <1>2, <1>3, <2>1, RegionFacts
    <2>3. Add(address, size) = address + size
      BY <1>3, <2>2, SumExact
    <2>4. QED
      BY <1>3, <2>3
  <1>5. CASE UNCHANGED <<paged_heap_blocks, heap_pointer, requested>>
    BY <1>5 DEF PlacementInv, BlocksInRegion, AddressesDistinct, PointerAbove, Used
  <1>6. CASE SetBlock(i, address, size, request, doomed) /\ UNCHANGED heap_pointer
    <2>1. /\ paged_heap_blocks'[i].address = address
          /\ paged_heap_blocks'[i].size = size
      BY <1>2, <1>6, SetBlockFields
    <2>2. \A j \in Slots : j # i =>
            /\ paged_heap_blocks'[j].address = paged_heap_blocks[j].address
            /\ paged_heap_blocks'[j].size = paged_heap_blocks[j].size
      BY <1>2, <1>6, SetBlockFields
    <2>3. BlocksInRegion'
      BY <1>3, <1>4, <2>1, <2>2 DEF BlocksInRegion, Used, PlacementInv
    <2>4. \A j \in Slots : paged_heap_blocks'[j].address = paged_heap_blocks[j].address
      BY <2>1, <2>2
    <2>5. PointerAbove' /\ AddressesDistinct'
      BY <1>6, <2>4 DEF PointerAbove, AddressesDistinct, Used, PlacementInv
    <2>6. QED
      BY <2>3, <2>5
  <1>7. QED
    BY <1>1, <1>5, <1>6

LEMMA FreeKeepsPlacement ==
    ASSUME PlacementInv, NEW i \in Slots, heap_free(i)
    PROVE  (BlocksInRegion /\ AddressesDistinct /\ PointerAbove)'
  <1>1. \A j \in Slots : /\ paged_heap_blocks'[j].address = paged_heap_blocks[j].address
                         /\ paged_heap_blocks'[j].size = paged_heap_blocks[j].size
    BY DEF heap_free, PlacementInv, FrameInv, HeapTypeOK
  <1>2. QED
    BY <1>1
    DEF heap_free, PlacementInv, BlocksInRegion, AddressesDistinct, PointerAbove, Used

LEMMA PlacementInvInitial == HeapInit => PlacementInv
  <1>1. SUFFICES ASSUME HeapInit PROVE PlacementInv
    OBVIOUS
  <1>2. \A i \in Slots : ~ Used(i)
    BY <1>1 DEF HeapInit, Used
  <1>3. heap_pointer <= HEAP_PAGED_LIMIT
    BY <1>1, HeapAssumption DEF HeapInit, HEAP_PAGED_LIMIT
  <1>4. QED
    BY <1>1, <1>2, <1>3, FrameInvInitial
    DEF PlacementInv, BlocksInRegion, AddressesDistinct, PointerAbove

LEMMA PlacementInvInductive ==
    ASSUME NoWrap
    PROVE  PlacementInv /\ [HeapNext]_heapVars => PlacementInv'
  <1> SUFFICES ASSUME PlacementInv, [HeapNext]_heapVars PROVE PlacementInv'
    OBVIOUS
  <1>1. FrameInv'
    BY FrameInvInductive DEF PlacementInv
  <1>2. CASE UNCHANGED heapVars
    BY <1>1, <1>2
    DEF heapVars, PlacementInv, BlocksInRegion, AddressesDistinct, PointerAbove, Used
  <1>3. ASSUME NEW size \in Nat,
               size \in PlainSizes \/ \E s \in PlainSizes : size = RoundUp(s)
        PROVE  RoundUp(size) \in Nat /\ RoundUp(size) + HEADER < UINT
    <2>1. ASSUME NEW s \in PlainSizes
          PROVE  s \in Nat /\ RoundUp(s) + WORD + HEADER <= UINT
                 /\ s + WORD + HEADER <= UINT
      <3>1. s \in Nat /\ s + 2 * WORD + HEADER <= UINT
        BY HeapAssumption DEF NoWrap
      <3>2. Add(s, WORD - 1) = s + (WORD - 1)
        BY <3>1, HeapAssumption DEF Add
      <3>3. WORD \in Nat \ {0} /\ HEADER \in Nat /\ UINT \in Nat
        BY HeapAssumption
      <3>4. s + (WORD - 1) \in Nat
        BY <3>1, <3>3
      <3>5. ((s + (WORD - 1)) \div WORD) * WORD \in 0 .. s + (WORD - 1)
        BY <3>3, <3>4, RoundDown
      <3>6. RoundUp(s) \in 0 .. s + (WORD - 1)
        BY <3>2, <3>5 DEF RoundUp
      <3>7. QED
        BY <3>1, <3>3, <3>6
    <2>2. size + WORD + HEADER <= UINT
      BY <1>3, <2>1
    <2>3. QED
      BY <2>2, RoundUpExact, RoundUpRange
  <1>4. ASSUME NEW size \in AlignedSizes
        PROVE  size \in Nat /\ RoundUp(size) \in Nat /\ RoundUp(size) + HEADER < UINT
    <2>1. size \in Nat /\ size + WORD + HEADER <= UINT
      BY HeapAssumption DEF NoWrap
    <2>2. QED
      BY <2>1, RoundUpExact, RoundUpRange
  <1>5. ASSUME NEW size \in Nat, NEW doomed \in SUBSET Slots,
               ReuseBlock(RoundUp(size), size, doomed)
        PROVE  PlacementInv'
    BY <1>1, <1>5, ReuseKeepsPlacement, RoundUpRange DEF PlacementInv
  <1>6. ASSUME NEW size \in Nat, NEW doomed \in SUBSET Slots, NEW aligned \in BOOLEAN,
               RoundUp(size) \in Nat, RoundUp(size) + HEADER < UINT,
               PlaceBlock(RoundUp(size), size, aligned, doomed)
        PROVE  PlacementInv'
    BY <1>1, <1>6, PlaceKeepsPlacement DEF PlacementInv
  <1>7. ASSUME NEW i \in Slots, heap_free(i)
        PROVE  PlacementInv'
    BY <1>1, <1>7, FreeKeepsPlacement DEF PlacementInv
  <1>8. CASE HeapNext
    <2>1. CASE \E size \in Nat, doomed \in SUBSET Slots :
                 /\ size \in PlainSizes \/ \E s \in PlainSizes : size = RoundUp(s)
                 /\ \/ ReuseBlock(RoundUp(size), size, doomed)
                    \/ PlaceBlock(RoundUp(size), size, FALSE, doomed)
      BY <1>3, <1>5, <1>6, <2>1
    <2>2. CASE \E size \in AlignedSizes : PlaceBlock(RoundUp(size), size, TRUE, {})
      <3>1. {} \in SUBSET Slots
        OBVIOUS
      <3>2. QED
        BY <1>4, <1>6, <2>2, <3>1
    <2>3. QED
      BY <1>7, <1>8, <2>1, <2>2, HeapSteps
  <1>9. QED
    BY <1>2, <1>8

(* For requests that do not wrap, every block lies in the heap region and no two
   slots share an address, whatever mix of plain, aligned, reused and reallocated
   blocks is asked for. *)
THEOREM HeapPlacement == NoWrap => (HeapSpec => []PlacementSound)
  <1> SUFFICES ASSUME NoWrap PROVE HeapSpec => []PlacementSound
    OBVIOUS
  <1>1. PlacementInv => PlacementSound
    BY DEF PlacementInv, PlacementSound
  <1>2. QED
    BY <1>1, PlacementInvInitial, PlacementInvInductive, PTL DEF HeapSpec
=============================================================================
