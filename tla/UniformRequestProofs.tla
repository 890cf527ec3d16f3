------------------------ MODULE UniformRequestProofs ------------------------
(***************************************************************************)
(* The paged heap is safe when all requests take the same number of pages  *)
(* and none is aligned: blocks are disjoint and mapped, nothing leaks, and *)
(* a call that fails halfway is harmless.  Mixed sizes break this, as the  *)
(* run HeapReuse shows: a freed slot is reused whatever size it had.       *)
(***************************************************************************)
EXTENDS PagedHeapProofs, FiniteSetTheorems

(* The page a block starts on, and the k pages from page p on. *)
PageOf(i) == (paged_heap_blocks[i].address - HEADER) \div PAGE
Run(p, k) == p .. p + (k - 1)

(* Every block, live or freed, keeps to the k pages it was placed on, and they end
   beyond every block placed before. *)
RunEach(k) ==
    \A i \in Slots : Used(i) =>
        /\ PageOf(i) \in Nat /\ Run(PageOf(i), k) \subseteq Pages
        /\ paged_heap_blocks[i].address = PageOf(i) * PAGE + HEADER
        /\ Takes(paged_heap_blocks[i].size, k)
        /\ (PageOf(i) + (k - 1)) * PAGE < heap_pointer

RunsApart(k) ==
    \A i, j \in Slots : Used(i) /\ Used(j) /\ i # j =>
        PageOf(i) + k <= PageOf(j) \/ PageOf(j) + k <= PageOf(i)

(* Exactly the pages of live blocks are backed by frames. *)
FramesFollowBlocks(k) ==
    /\ \A i \in Slots : Live(i) => \A p \in Run(PageOf(i), k) : page_table[p] \in Frames
    /\ \A p \in Pages : page_table[p] \in Frames =>
          \E i \in Slots : Live(i) /\ p \in Run(PageOf(i), k)
    /\ \A f \in frame_bitmap : \E p \in Pages : page_table[p] = f

RunInv(k) == RunEach(k) /\ RunsApart(k) /\ FramesFollowBlocks(k) /\ RequestsCovered

UniformInv(k) == PlacementInv /\ RunInv(k)

(* A step that takes no page away from a live block. *)
LiveKept ==
    \A i \in Slots : Live(i) => \A p \in BlockPages(i) : page_table'[p] = page_table[p]

-----------------------------------------------------------------------------
(* Arithmetic of blocks of k pages. *)

LEMMA DivExact ==
    ASSUME NEW w \in Nat \ {0}, NEW a \in Nat, NEW r \in 0 .. w - 1
    PROVE  (a * w + r) \div w = a
  OBVIOUS

LEMMA MultOrder ==
    ASSUME NEW w \in Nat \ {0}, NEW p \in Nat, NEW q \in Nat
    PROVE  /\ q * w < (p + 1) * w => q <= p
           /\ p <= q => p * w <= q * w
           /\ (p + 1) * w = p * w + w /\ p * w \in Nat /\ (p + q) * w = p * w + q * w
  OBVIOUS

LEMMA RoundUpTwice ==
    ASSUME NEW size \in Nat, size + 2 * WORD + HEADER <= UINT
    PROVE  RoundUp(RoundUp(size)) = RoundUp(size)
  <1>1. WORD \in Nat \ {0} /\ HEADER \in Nat /\ UINT \in Nat
    BY HeapAssumption
  <1>2. Add(size, WORD - 1) = size + (WORD - 1) /\ size + (WORD - 1) \in Nat
    BY <1>1 DEF Add
  <1>3. PICK a \in Nat : a = (size + (WORD - 1)) \div WORD
    BY <1>1, <1>2
  <1>4. RoundUp(size) = a * WORD
    BY <1>2, <1>3 DEF RoundUp
  <1>5. a * WORD \in 0 .. size + (WORD - 1)
    BY <1>1, <1>2, <1>3, RoundDown
  <1>6. Add(a * WORD, WORD - 1) = a * WORD + (WORD - 1)
    BY <1>1, <1>5 DEF Add
  <1>7. (a * WORD + (WORD - 1)) \div WORD = a
    BY <1>1, DivExact
  <1>8. QED
    BY <1>4, <1>6, <1>7 DEF RoundUp

(* A block at the start of page p that takes k pages and ends in the region: its pages
   are p and the k - 1 that follow, all of the region. *)
LEMMA BlockRun ==
    ASSUME NEW k \in Nat \ {0}, NEW p \in Nat, NEW size \in Nat, Takes(size, k),
           FirstPage <= p, (p * PAGE + HEADER) + size <= HEAP_PAGED_LIMIT
    PROVE  /\ Run(p, k) \subseteq Pages
           /\ PagesOf((p * PAGE + HEADER) - HEADER, Add(p * PAGE + HEADER, size)) = Run(p, k)
           /\ (p + (k - 1)) * PAGE < (p * PAGE + HEADER) + size
  <1>1. /\ PAGE \in Nat \ {0} /\ HEADER \in Nat \ {0} /\ Pages \subseteq Nat
        /\ LastPage \in Nat /\ UINT \in Nat /\ FirstPage \in Nat
    BY HeapAssumption DEF Pages
  <1>2. PICK b \in Nat, l \in Nat, m \in Nat : b = p * PAGE /\ l = (k - 1) * PAGE /\ m = k - 1
    BY <1>1
  <1>3. k * PAGE = l + PAGE /\ (p + m) * PAGE = b + l /\ (p + m + 1) * PAGE = b + l + PAGE
    <2>1. k = m + 1 /\ l = m * PAGE
      BY <1>2
    <2>2. (m + 1) * PAGE = m * PAGE + PAGE /\ (p + m) * PAGE = p * PAGE + m * PAGE
      BY <1>1, <1>2, MultOrder
    <2>3. p + m \in Nat /\ ((p + m) + 1) * PAGE = (p + m) * PAGE + PAGE
      BY <1>1, <1>2, MultOrder
    <2>4. QED
      BY <1>1, <1>2, <2>1, <2>2, <2>3
  <1>4. l < HEADER + size /\ HEADER + size <= l + PAGE
    BY <1>2, <1>3 DEF Takes
  <1>5. PICK limit \in Nat : limit = HEAP_PAGED_LIMIT /\ limit < UINT /\ limit = (LastPage + 1) * PAGE
    BY <1>1, RegionFacts DEF HEAP_PAGED_LIMIT
  <1>6. b + l < limit /\ (b + HEADER) + size < UINT
    BY <1>1, <1>2, <1>4, <1>5
  <1>7. p + m <= LastPage
    BY <1>1, <1>2, <1>3, <1>5, <1>6, MultOrder
  <1>8. Run(p, k) \subseteq Pages
    BY <1>1, <1>2, <1>7 DEF Run, Pages
  <1>9. Add(b + HEADER, size) = b + HEADER + size
    BY <1>1, <1>2, <1>6 DEF Add
  <1>10. b \div PAGE = p
    <2>1. 0 \in 0 .. PAGE - 1
      BY <1>1
    <2>2. (p * PAGE + 0) \div PAGE = p
      BY <1>1, <2>1, DivExact
    <2>3. QED
      BY <1>2, <2>2
  <1>11. PagesOf(b, b + HEADER + size) = Run(p, k)
    <2>1. ASSUME NEW q \in Run(p, k) PROVE q \in PagesOf(b, b + HEADER + size)
      <3>1. q \in Pages /\ q \in Nat /\ p <= q /\ q <= p + m
        BY <1>1, <1>2, <1>8 DEF Run
      <3>2. q * PAGE <= (p + m) * PAGE /\ q * PAGE \in Nat
        BY <1>1, <1>2, <3>1, MultOrder
      <3>3. q * PAGE < b + HEADER + size
        BY <1>1, <1>2, <1>3, <1>4, <3>2
      <3>4. QED
        BY <1>10, <3>1, <3>3 DEF PagesOf
    <2>2. ASSUME NEW q \in PagesOf(b, b + HEADER + size) PROVE q \in Run(p, k)
      <3>1. q \in Nat /\ q >= p /\ q * PAGE < b + HEADER + size /\ q * PAGE \in Nat
        BY <1>1, <1>10, MultOrder DEF PagesOf
      <3>2. q * PAGE < ((p + m) + 1) * PAGE
        BY <1>1, <1>2, <1>3, <1>4, <3>1
      <3>3. q <= p + m
        BY <1>1, <1>2, <3>1, <3>2, MultOrder
      <3>4. QED
        BY <1>2, <3>1, <3>3 DEF Run
    <2>3. QED
      BY <2>1, <2>2
  <1>12. (b + HEADER) - HEADER = b
    BY <1>1, <1>2
  <1>13. (p + (k - 1)) * PAGE < (p * PAGE + HEADER) + size
    BY <1>1, <1>2, <1>3, <1>4
  <1>14. QED
    BY <1>2, <1>8, <1>9, <1>11, <1>12, <1>13

(* A mapping that fails gives every frame back and touches only its own pages. *)
LEMMA FailureLocal ==
    ASSUME HeapTypeOK, NEW pages \in SUBSET Pages, IsFiniteSet(pages), MapFails(pages, 0)
    PROVE  /\ frame_bitmap' = frame_bitmap
           /\ \A q \in Pages : /\ q \notin pages => page_table'[q] = page_table[q]
                               /\ page_table'[q] \in {UNMAPPED, page_table[q]}
  <1>1. IsFiniteSet(FreeFrames)
    BY HeapAssumption, FS_Subset DEF FreeFrames
  <1>2. PICK n \in Nat : n = Cardinality(FreeFrames)
    BY <1>1, FS_CardinalityType
  <1> DEFINE before(p) == Cardinality({q \in pages : q < p})
             mapped == {p \in pages : before(p) < n}
             over == {p \in pages : before(p) >= n /\ before(p) < n + 0}
  <1>3. over = {}
    <2>1. \A p \in pages : before(p) \in Nat
      <3>1. \A p \in pages : IsFiniteSet({q \in pages : q < p})
        BY FS_Subset
      <3>2. QED
        BY <3>1, FS_CardinalityType
    <2> HIDE DEF before
    <2>2. QED
      BY <2>1
  <1>4. /\ page_table' = [p \in Pages |-> IF p \in mapped \cup over THEN UNMAPPED
                                          ELSE page_table[p]]
        /\ frame_bitmap' = frame_bitmap \ {page_table[p] : p \in over}
    BY <1>2 DEF MapFails
  <1> HIDE DEF over
  <1>5. mapped \subseteq pages
    OBVIOUS
  <1> HIDE DEF mapped
  <1>6. QED
    BY <1>3, <1>4, <1>5

-----------------------------------------------------------------------------
(* What the invariant says about pages. *)

LEMMA PageOfPlace ==
    ASSUME NEW p \in Nat
    PROVE  ((p * PAGE + HEADER) - HEADER) \div PAGE = p
  <1>1. PAGE \in Nat \ {0} /\ HEADER \in Nat /\ p \in Nat /\ 0 \in 0 .. PAGE - 1
    BY HeapAssumption
  <1>2. (p * PAGE + 0) \div PAGE = p
    BY <1>1, DivExact
  <1>3. (p * PAGE + HEADER) - HEADER = p * PAGE + 0
    BY <1>1
  <1>4. QED
    BY <1>2, <1>3

LEMMA RunStart ==
    ASSUME NEW k \in Nat \ {0}, NEW p \in Nat
    PROVE  p \in Run(p, k) /\ IsFiniteSet(Run(p, k))
  <1>1. p \in Int /\ p + (k - 1) \in Int
    OBVIOUS
  <1>2. IsFiniteSet(p .. p + (k - 1))
    BY <1>1, FS_Interval
  <1>3. QED
    BY <1>2 DEF Run

LEMMA UsedBlockPages ==
    ASSUME NEW k \in Nat \ {0}, UniformInv(k), NEW i \in Slots, Used(i)
    PROVE  BlockPages(i) = Run(PageOf(i), k)
  <1>1. /\ PageOf(i) \in Nat /\ Run(PageOf(i), k) \subseteq Pages
        /\ paged_heap_blocks[i].address = PageOf(i) * PAGE + HEADER
        /\ paged_heap_blocks[i].size \in Nat
        /\ Takes(paged_heap_blocks[i].size, k)
        /\ paged_heap_blocks[i].address + paged_heap_blocks[i].size <= HEAP_PAGED_LIMIT
    BY DEF UniformInv, RunInv, RunEach, PlacementInv, FrameInv, HeapTypeOK, BlocksInRegion
  <1>2. FirstPage <= PageOf(i)
    BY <1>1, RunStart, HeapAssumption DEF Pages
  <1>3. PagesOf((PageOf(i) * PAGE + HEADER) - HEADER,
                Add(PageOf(i) * PAGE + HEADER, paged_heap_blocks[i].size)) = Run(PageOf(i), k)
    BY <1>1, <1>2, BlockRun
  <1>4. QED
    BY <1>1, <1>3 DEF BlockPages

(* Runs that start k pages apart share none. *)
LEMMA ApartRuns ==
    ASSUME NEW k \in Nat \ {0}, NEW p \in Nat, NEW q \in Nat, p + k <= q \/ q + k <= p
    PROVE  Run(p, k) \cap Run(q, k) = {}
  BY DEF Run

LEMMA RunsDisjoint ==
    ASSUME NEW k \in Nat \ {0}, UniformInv(k), NEW i \in Slots, NEW j \in Slots,
           Used(i), Used(j), i # j
    PROVE  Run(PageOf(i), k) \cap Run(PageOf(j), k) = {}
  <1>1. PageOf(i) \in Nat /\ PageOf(j) \in Nat
    BY DEF UniformInv, RunInv, RunEach
  <1>2. PageOf(i) + k <= PageOf(j) \/ PageOf(j) + k <= PageOf(i)
    BY DEF UniformInv, RunInv, RunsApart
  <1>3. QED
    BY <1>1, <1>2, ApartRuns

LEMMA LiveIsUsed == \A i \in Slots : Live(i) => Used(i)
  BY DEF Live

(* The run from p is clear of every slot but i. *)
Clear(i, p, k) ==
    \A j \in Slots : j # i /\ Used(j) => p + k <= PageOf(j) \/ PageOf(j) + k <= p

LEMMA ClearPages ==
    ASSUME NEW k \in Nat \ {0}, UniformInv(k), NEW i \in Slots, ~ Live(i), NEW p \in Nat,
           Clear(i, p, k), Run(p, k) \subseteq Pages
    PROVE  /\ \A j \in Slots : Live(j) => Run(PageOf(j), k) \cap Run(p, k) = {}
           /\ \A q \in Run(p, k) : page_table[q] \notin Frames
  <1>1. ASSUME NEW j \in Slots, Live(j) PROVE Run(PageOf(j), k) \cap Run(p, k) = {}
    <2>1. j # i /\ Used(j) /\ PageOf(j) \in Nat
      BY <1>1, LiveIsUsed DEF UniformInv, RunInv, RunEach
    <2>2. QED
      BY <2>1, ApartRuns DEF Clear
  <1>2. ASSUME NEW q \in Run(p, k), page_table[q] \in Frames PROVE FALSE
    <2>1. PICK j \in Slots : Live(j) /\ q \in Run(PageOf(j), k)
      BY <1>2 DEF UniformInv, RunInv, FramesFollowBlocks
    <2>2. QED
      BY <1>1, <2>1
  <1>3. QED
    BY <1>1, <1>2

(* A mapping of clear pages that fails halfway. *)
LEMMA FailOnRun ==
    ASSUME NEW k \in Nat \ {0}, UniformInv(k), NEW i \in Slots, ~ Live(i), NEW p \in Nat,
           Clear(i, p, k), Run(p, k) \subseteq Pages, MapFails(Run(p, k), 0),
           UNCHANGED <<paged_heap_blocks, heap_pointer, requested>>
    PROVE  RunInv(k)' /\ LiveKept
  <1>1. /\ frame_bitmap' = frame_bitmap
        /\ \A q \in Pages : /\ q \notin Run(p, k) => page_table'[q] = page_table[q]
                            /\ page_table'[q] \in {UNMAPPED, page_table[q]}
    BY FailureLocal, RunStart DEF UniformInv, PlacementInv, FrameInv
  <1>2. /\ \A j \in Slots : Live(j) => Run(PageOf(j), k) \cap Run(p, k) = {}
        /\ \A q \in Run(p, k) : page_table[q] \notin Frames
    BY ClearPages
  <1>3. \A j \in Slots : /\ PageOf(j)' = PageOf(j)
                         /\ Used(j)' <=> Used(j)
                         /\ Live(j)' <=> Live(j)
    BY DEF PageOf, Used, Live, Free
  <1>4. RunEach(k) /\ RunsApart(k) /\ FramesFollowBlocks(k) /\ RequestsCovered /\ HeapTypeOK
    BY DEF UniformInv, RunInv, PlacementInv, FrameInv
  <1>5. RunEach(k)' /\ RunsApart(k)' /\ RequestsCovered'
    BY <1>3, <1>4 DEF RunEach, RunsApart, RequestsCovered
  <1>6. \A j \in Slots : Live(j) => \A q \in Run(PageOf(j), k) :
           q \in Pages /\ page_table'[q] = page_table[q]
    BY <1>1, <1>2, <1>4, LiveIsUsed DEF RunEach
  <1>7. FramesFollowBlocks(k)'
    <2>1. ASSUME NEW j \in Slots, Live(j)'
          PROVE  \A q \in Run(PageOf(j)', k) : page_table'[q] \in Frames
      BY <1>3, <1>4, <1>6, <2>1 DEF FramesFollowBlocks
    <2>2. ASSUME NEW q \in Pages, page_table'[q] \in Frames
          PROVE  \E j \in Slots : Live(j)' /\ q \in Run(PageOf(j)', k)
      <3>1. page_table[q] \in Frames
        BY <1>1, <2>2, EntriesNotFrames
      <3>2. PICK j \in Slots : Live(j) /\ q \in Run(PageOf(j), k)
        BY <1>4, <3>1 DEF FramesFollowBlocks
      <3>3. QED
        BY <1>3, <3>2
    <2>3. ASSUME NEW f \in frame_bitmap' PROVE \E q \in Pages : page_table'[q] = f
      <3>1. f \in Frames /\ f \in frame_bitmap
        BY <1>1, <1>4 DEF HeapTypeOK
      <3>2. PICK q \in Pages : page_table[q] = f
        BY <1>4, <3>1 DEF FramesFollowBlocks
      <3>3. QED
        BY <1>1, <1>2, <3>1, <3>2
    <2>4. QED
      BY <2>1, <2>2, <2>3 DEF FramesFollowBlocks
  <1>8. LiveKept
    BY <1>6, UsedBlockPages, LiveIsUsed DEF LiveKept
  <1>9. QED
    BY <1>5, <1>7, <1>8 DEF RunInv

(* A block set on k clear pages. *)
LEMMA SetOnRun ==
    ASSUME NEW k \in Nat \ {0}, UniformInv(k), NEW i \in Spare, NEW p \in Nat,
           Clear(i, p, k), Run(p, k) \subseteq Pages,
           NEW size \in Nat, Takes(size, k), NEW request \in Nat, request <= size,
           NEW doomed \in SUBSET Slots, \A j \in doomed : Live(j),
           SetBlock(i, p * PAGE + HEADER, size, request, doomed),
           MapThenUnmap(Run(p, k), DoomedPages(doomed)),
           heap_pointer' \in Nat, heap_pointer' >= heap_pointer,
           (p + (k - 1)) * PAGE < heap_pointer'
    PROVE  RunInv(k)'
  <1>1. /\ HeapTypeOK /\ RunEach(k) /\ RunsApart(k) /\ FramesFollowBlocks(k) /\ RequestsCovered
        /\ i \in Slots /\ ~ Live(i) /\ heap_pointer \in Nat
    BY DEF UniformInv, RunInv, PlacementInv, FrameInv, Spare, Live, HeapTypeOK
  <1>2. p * PAGE + HEADER \in Nat /\ p * PAGE + HEADER # 0
    BY HeapAssumption
  <1>3. /\ paged_heap_blocks'[i].address = p * PAGE + HEADER
        /\ paged_heap_blocks'[i].size = size
        /\ paged_heap_blocks'[i].free = 0
        /\ \A j \in Slots : j # i =>
              /\ paged_heap_blocks'[j].address = paged_heap_blocks[j].address
              /\ paged_heap_blocks'[j].size = paged_heap_blocks[j].size
              /\ paged_heap_blocks'[j].free =
                    IF j \in doomed THEN 1 ELSE paged_heap_blocks[j].free
    BY <1>1, <1>2, SetBlockFields
  <1>4. PageOf(i)' = p
    BY <1>3, PageOfPlace DEF PageOf
  <1>5. \A j \in Slots : j # i => PageOf(j)' = PageOf(j)
    BY <1>3 DEF PageOf
  <1>6. \A j \in Slots : j # i => (Used(j)' <=> Used(j))
    BY <1>3 DEF Used
  <1>7. \A j \in Slots : Live(j)' <=> j = i \/ (Live(j) /\ j \notin doomed)
    BY <1>1, <1>2, <1>3 DEF Live, Used, Free
  <1>8. RunEach(k)'
    <2>1. ASSUME NEW j \in Slots, Used(j)'
          PROVE  /\ PageOf(j)' \in Nat /\ Run(PageOf(j)', k) \subseteq Pages
                 /\ paged_heap_blocks'[j].address = PageOf(j)' * PAGE + HEADER
                 /\ Takes(paged_heap_blocks'[j].size, k)
                 /\ (PageOf(j)' + (k - 1)) * PAGE < heap_pointer'
      <3>1. CASE j = i
        BY <1>3, <1>4, <3>1
      <3>2. CASE j # i
        <4>1. /\ PageOf(j) \in Nat /\ Run(PageOf(j), k) \subseteq Pages
              /\ paged_heap_blocks[j].address = PageOf(j) * PAGE + HEADER
              /\ Takes(paged_heap_blocks[j].size, k)
              /\ (PageOf(j) + (k - 1)) * PAGE < heap_pointer
          BY <1>1, <1>6, <2>1, <3>2 DEF RunEach
        <4>2. PICK e \in Nat : e = (PageOf(j) + (k - 1)) * PAGE
          <5>1. PICK m \in Nat : m = PageOf(j) + (k - 1)
            BY <4>1
          <5>2. m * PAGE \in Nat
            BY HeapAssumption
          <5>3. QED
            BY <5>1, <5>2
        <4>3. e < heap_pointer'
          BY <1>1, <4>1, <4>2
        <4>4. QED
          BY <1>3, <1>5, <3>2, <4>1, <4>2, <4>3
      <3>3. QED
        BY <3>1, <3>2
    <2>2. QED
      BY <2>1 DEF RunEach
  <1>9. RunsApart(k)'
    BY <1>1, <1>4, <1>5, <1>6 DEF RunsApart, Clear
  <1>10. RequestsCovered'
    <2>1. requested'[i] = request /\ \A j \in Slots : j # i => requested'[j] = requested[j]
      BY <1>1 DEF SetBlock, HeapTypeOK
    <2>2. QED
      BY <1>1, <1>3, <1>7, <2>1 DEF RequestsCovered
  <1>11. ASSUME NEW q
         PROVE  q \in DoomedPages(doomed) <=> \E j \in doomed : q \in Run(PageOf(j), k)
    <2>1. \A j \in doomed : BlockPages(j) = Run(PageOf(j), k)
      BY UsedBlockPages, LiveIsUsed
    <2>2. QED
      BY <2>1 DEF DoomedPages
  <1>12. /\ \A j \in Slots : Live(j) => Run(PageOf(j), k) \cap Run(p, k) = {}
         /\ \A q \in Run(p, k) : page_table[q] \notin Frames
    BY <1>1, ClearPages
  <1>13. \A q \in Run(p, k) : q \notin DoomedPages(doomed)
    BY <1>11, <1>12
  <1>14. PICK run \in [Run(p, k) -> FreeFrames] :
            LET table == [q \in Pages |-> IF q \in Run(p, k) THEN run[q] ELSE page_table[q]]
            IN  /\ page_table' = [q \in Pages |->
                                    IF q \in DoomedPages(doomed) THEN UNMAPPED ELSE table[q]]
                /\ frame_bitmap' = (frame_bitmap \cup {run[q] : q \in Run(p, k)})
                                       \ {table[q] : q \in DoomedPages(doomed)}
    BY DEF MapThenUnmap
  <1>15. \A q \in Run(p, k) : run[q] \in Frames /\ page_table'[q] = run[q]
    BY <1>13, <1>14 DEF FreeFrames
  <1>16. \A q \in Pages : q \notin Run(p, k) =>
            page_table'[q] = IF q \in DoomedPages(doomed) THEN UNMAPPED ELSE page_table[q]
    BY <1>14
  <1>17. DoomedPages(doomed) \subseteq Pages
    BY PagesOfSubset
  <1>18. \A g \in frame_bitmap' : \/ \E q \in Run(p, k) : g = run[q]
                                  \/ /\ g \in frame_bitmap
                                     /\ \A q \in DoomedPages(doomed) : page_table[q] # g
    BY <1>13, <1>14, <1>17
  <1>19. ASSUME NEW j \in Slots, Live(j)', NEW q \in Run(PageOf(j)', k)
         PROVE  page_table'[q] \in Frames
    <2>1. CASE j = i
      BY <1>4, <1>15, <1>19, <2>1
    <2>2. CASE j # i
      <3>1. Live(j) /\ j \notin doomed /\ Used(j) /\ q \in Run(PageOf(j), k) /\ q \in Pages
        BY <1>1, <1>5, <1>7, <1>19, <2>2, LiveIsUsed DEF RunEach
      <3>2. q \notin DoomedPages(doomed)
        <4>1. \A d \in doomed : d \in Slots /\ Used(d) /\ d # j
          BY <3>1, LiveIsUsed
        <4>2. \A d \in doomed : Run(PageOf(d), k) \cap Run(PageOf(j), k) = {}
          BY <3>1, <4>1, RunsDisjoint
        <4>3. QED
          BY <1>11, <3>1, <4>2
      <3>3. q \notin Run(p, k) /\ page_table[q] \in Frames
        BY <1>1, <1>12, <3>1 DEF FramesFollowBlocks
      <3>4. QED
        BY <1>16, <3>1, <3>2, <3>3
    <2>3. QED
      BY <2>1, <2>2
  <1>20. ASSUME NEW q \in Pages, page_table'[q] \in Frames
         PROVE  \E j \in Slots : Live(j)' /\ q \in Run(PageOf(j)', k)
    <2>1. CASE q \in Run(p, k)
      BY <1>1, <1>4, <1>7, <2>1
    <2>2. CASE q \notin Run(p, k)
      <3>1. q \notin DoomedPages(doomed) /\ page_table[q] \in Frames
        BY <1>16, <1>20, <2>2, EntriesNotFrames
      <3>2. PICK j \in Slots : Live(j) /\ q \in Run(PageOf(j), k)
        BY <1>1, <3>1 DEF FramesFollowBlocks
      <3>3. j \notin doomed /\ j # i
        BY <1>1, <1>11, <3>1, <3>2
      <3>4. QED
        BY <1>5, <1>7, <3>2, <3>3
    <2>3. QED
      BY <2>1, <2>2
  <1>21. ASSUME NEW g \in frame_bitmap'
         PROVE  \E q \in Pages : page_table'[q] = g
    <2>1. CASE \E q \in Run(p, k) : g = run[q]
      BY <1>15, <2>1
    <2>2. CASE g \in frame_bitmap /\ \A q \in DoomedPages(doomed) : page_table[q] # g
      <3>1. PICK q \in Pages : page_table[q] = g
        BY <1>1, <2>2 DEF FramesFollowBlocks
      <3>2. q \notin DoomedPages(doomed)
        BY <2>2, <3>1
      <3>3. g \in Frames
        BY <1>1, <2>2 DEF HeapTypeOK
      <3>4. q \notin Run(p, k)
        BY <1>12, <3>1, <3>3
      <3>5. QED
        BY <1>16, <3>1, <3>2, <3>4
    <2>3. QED
      BY <1>18, <2>1, <2>2
  <1>22. FramesFollowBlocks(k)'
    BY <1>19, <1>20, <1>21 DEF FramesFollowBlocks
  <1>23. QED
    BY <1>8, <1>9, <1>10, <1>22 DEF RunInv

-----------------------------------------------------------------------------
(* The three kinds of step. *)

LEMMA UnchangedKeepsRuns ==
    ASSUME NEW k, RunInv(k), UNCHANGED heapVars
    PROVE  RunInv(k)'
  BY DEF RunInv, RunEach, RunsApart, FramesFollowBlocks, RequestsCovered, PageOf, Used, Live,
         Free, heapVars

LEMMA ReuseUniform ==
    ASSUME NEW k \in Nat \ {0}, UniformInv(k), NEW size \in Nat, Takes(size, k),
           size + HEADER < UINT, NEW request \in Nat, request <= size,
           NEW doomed \in SUBSET Slots, \A j \in doomed : Live(j),
           ReuseBlock(size, request, doomed)
    PROVE  /\ RunInv(k)'
           /\ paged_heap_blocks' = paged_heap_blocks => LiveKept
  <1>1. PICK i \in First(Reusable(size)) :
          LET address == paged_heap_blocks[i].address
              pages == PagesOf(address - HEADER, Add(address, size))
          IN  \/ /\ MapThenUnmap(pages, DoomedPages(doomed))
                 /\ SetBlock(i, address, size, request, doomed)
                 /\ UNCHANGED heap_pointer
              \/ /\ MapFails(pages, 0)
                 /\ UNCHANGED <<paged_heap_blocks, heap_pointer, requested>>
    BY DEF ReuseBlock
  <1>2. i \in Slots /\ Used(i) /\ Free(i) /\ i \in Spare /\ ~ Live(i) /\ HeapTypeOK /\ RunInv(k)
    BY DEF First, Reusable, Spare, UniformInv, PlacementInv, FrameInv, Live
  <1>3. PICK p \in Nat : p = PageOf(i)
    BY <1>2 DEF RunInv, RunEach
  <1>4. /\ paged_heap_blocks[i].address = p * PAGE + HEADER /\ Run(p, k) \subseteq Pages
        /\ (p + (k - 1)) * PAGE < heap_pointer /\ heap_pointer \in Nat
    BY <1>2, <1>3 DEF RunInv, RunEach, HeapTypeOK
  <1>5. FirstPage <= p /\ p <= LastPage
    <2>1. p \in Pages
      BY <1>4, RunStart
    <2>2. QED
      BY <2>1, HeapAssumption DEF Pages
  <1>6. (p * PAGE + HEADER) + size <= HEAP_PAGED_LIMIT
    <2>1. /\ Add(p * PAGE + HEADER, size) <= HEAP_PAGED_LIMIT
          /\ Add(p * PAGE + HEADER, size) >= p * PAGE + HEADER
      BY <1>4 DEF First, Reusable
    <2>2. PICK a \in Nat : a = p * PAGE + HEADER
      BY HeapAssumption
    <2>3. a <= HEAP_PAGED_LIMIT + PAGE
      <3>1. /\ p * PAGE <= LastPage * PAGE /\ (LastPage + 1) * PAGE = LastPage * PAGE + PAGE
            /\ p * PAGE \in Nat /\ LastPage * PAGE \in Nat
        BY <1>5, HeapAssumption, MultOrder
      <3>2. PAGE \in Nat /\ HEADER \in Nat /\ HEADER < PAGE
        BY HeapAssumption
      <3>3. QED
        BY <2>2, <3>1, <3>2 DEF HEAP_PAGED_LIMIT
    <2>4. PICK limit \in Nat : limit = HEAP_PAGED_LIMIT /\ limit + 2 * PAGE < UINT
      BY RegionFacts
    <2>5. a < UINT /\ a + size \in Nat /\ UINT \in Nat /\ size < UINT
      BY <2>3, <2>4, RegionFacts
    <2>6. a + size >= UINT => Add(a, size) = a + size - UINT
      BY <2>5 DEF Add
    <2>7. a + size < UINT => Add(a, size) = a + size
      BY <2>5 DEF Add
    <2>8. a + size < UINT
      BY <2>1, <2>2, <2>5, <2>6
    <2>9. QED
      BY <2>1, <2>2, <2>7, <2>8
  <1>7. PagesOf((p * PAGE + HEADER) - HEADER, Add(p * PAGE + HEADER, size)) = Run(p, k)
    BY <1>5, <1>6, BlockRun
  <1>8. Clear(i, p, k)
    BY <1>2, <1>3 DEF RunInv, RunsApart, Clear
  <1>9. CASE /\ MapThenUnmap(Run(p, k), DoomedPages(doomed))
             /\ SetBlock(i, p * PAGE + HEADER, size, request, doomed)
             /\ UNCHANGED heap_pointer
    <2>1. RunInv(k)'
      <3>1. heap_pointer' \in Nat /\ heap_pointer' >= heap_pointer
            /\ (p + (k - 1)) * PAGE < heap_pointer'
        BY <1>4, <1>9
      <3>2. QED
        BY <1>2, <1>4, <1>8, <1>9, <3>1, SetOnRun
    <2>2. p * PAGE + HEADER \in Nat
      BY HeapAssumption
    <2>3. paged_heap_blocks'[i].free = 0
      BY <1>2, <1>9, <2>2, SetBlockFields
    <2>4. paged_heap_blocks' # paged_heap_blocks
      BY <1>2, <2>3 DEF Free
    <2>5. QED
      BY <2>1, <2>4
  <1>10. CASE /\ MapFails(Run(p, k), 0)
              /\ UNCHANGED <<paged_heap_blocks, heap_pointer, requested>>
    BY <1>2, <1>4, <1>8, <1>10, FailOnRun
  <1>11. QED
    BY <1>1, <1>4, <1>7, <1>9, <1>10

(* The page a plain block is placed on: no earlier than the end of the block before. *)
LEMMA PlacePage ==
    ASSUME heap_pointer \in Nat
    PROVE  \E p \in Nat : /\ Place(FALSE) = p * PAGE + HEADER
                          /\ heap_pointer <= p * PAGE /\ FirstPage <= p
  <1>1. PAGE \in Nat \ {0} /\ FirstPage \in Nat /\ HEADER \in Nat \ {0}
    BY HeapAssumption
  <1>2. PICK n \in Nat : n = (heap_pointer + (PAGE - 1)) \div PAGE
    BY <1>1
  <1>3. align_up_4k(heap_pointer) = n * PAGE /\ n * PAGE >= heap_pointer
    BY <1>1, <1>2, AlignUpRange DEF align_up_4k
  <1>4. CASE n * PAGE < FirstPage * PAGE
    <2>1. Place(FALSE) = FirstPage * PAGE + HEADER
      BY <1>3, <1>4 DEF Place, HEAP_PAGED_BASE
    <2>2. n * PAGE \in Nat /\ FirstPage * PAGE \in Nat
      BY <1>1
    <2>3. heap_pointer <= FirstPage * PAGE
      BY <1>3, <1>4, <2>2
    <2>4. FirstPage <= FirstPage
      BY <1>1
    <2>5. QED
      BY <1>1, <2>1, <2>3, <2>4, Zenon
  <1>5. CASE ~ (n * PAGE < FirstPage * PAGE)
    <2>1. Place(FALSE) = n * PAGE + HEADER
      BY <1>3, <1>5 DEF Place, HEAP_PAGED_BASE
    <2>2. PICK a \in Nat, b \in Nat : a = n * PAGE /\ b = FirstPage * PAGE
      BY <1>1
    <2>3. FirstPage * PAGE < (n + 1) * PAGE
      <3>1. (n + 1) * PAGE = a + PAGE
        BY <1>1, <2>2, MultOrder
      <3>2. QED
        BY <1>1, <1>5, <2>2, <3>1
    <2>4. FirstPage <= n
      BY <1>1, <2>3, MultOrder
    <2>5. QED
      BY <1>3, <2>1, <2>4
  <1>6. QED
    BY <1>4, <1>5

LEMMA PlaceUniform ==
    ASSUME NEW k \in Nat \ {0}, UniformInv(k), NEW size \in Nat, Takes(size, k),
           size + HEADER < UINT, NEW request \in Nat, request <= size,
           NEW doomed \in SUBSET Slots, \A j \in doomed : Live(j),
           PlaceBlock(size, request, FALSE, doomed)
    PROVE  /\ RunInv(k)'
           /\ paged_heap_blocks' = paged_heap_blocks => LiveKept
  <1> DEFINE address == Place(FALSE)
             pages == PagesOf(address - HEADER, Add(address, size))
  <1>1. PICK i \in First(Spare) :
          /\ address - HEADER >= HEAP_PAGED_BASE
          /\ Add(address, size) >= address - HEADER
          /\ Add(address, size) <= HEAP_PAGED_LIMIT
          /\ \/ /\ MapThenUnmap(pages, DoomedPages(doomed))
                /\ SetBlock(i, address, size, request, doomed)
                /\ heap_pointer' = Add(address, size)
             \/ /\ MapFails(pages, 0)
                /\ UNCHANGED <<paged_heap_blocks, heap_pointer, requested>>
    BY PlaceBlockCases
  <1>2. /\ i \in Slots /\ i \in Spare /\ ~ Live(i) /\ HeapTypeOK /\ RunInv(k)
        /\ heap_pointer \in Nat /\ heap_pointer <= HEAP_PAGED_LIMIT
    BY DEF First, Spare, UniformInv, PlacementInv, FrameInv, HeapTypeOK, PointerAbove, Live
  <1>3. Add(address, size) = address + size
    <2>1. FALSE \in BOOLEAN
      OBVIOUS
    <2>2. QED
      BY <1>1, <1>2, <2>1, PlacedInRegion
  <1>4. PICK p \in Nat : address = p * PAGE + HEADER /\ heap_pointer <= p * PAGE /\ FirstPage <= p
    BY <1>2, PlacePage
  <1>5. address > heap_pointer /\ address \in Nat
    BY <1>2, PlaceRange
  <1>6. /\ Run(p, k) \subseteq Pages
        /\ PagesOf((p * PAGE + HEADER) - HEADER, Add(p * PAGE + HEADER, size)) = Run(p, k)
        /\ (p + (k - 1)) * PAGE < (p * PAGE + HEADER) + size
    <2>1. (p * PAGE + HEADER) + size <= HEAP_PAGED_LIMIT
      BY <1>1, <1>3, <1>4
    <2>2. QED
      BY <1>4, <2>1, BlockRun
  <1>7. Clear(i, p, k)
    <2>1. ASSUME NEW j \in Slots, Used(j) PROVE PageOf(j) + k <= p
      <3>1. PageOf(j) \in Nat /\ (PageOf(j) + (k - 1)) * PAGE < heap_pointer
        BY <1>2, <2>1 DEF RunInv, RunEach
      <3>2. PICK q \in Nat : q = PageOf(j) + (k - 1)
        BY <3>1
      <3>3. q * PAGE < p * PAGE
        <4>1. PICK a \in Nat, b \in Nat : a = q * PAGE /\ b = p * PAGE
          BY HeapAssumption
        <4>2. QED
          BY <1>2, <1>4, <3>1, <3>2, <4>1
      <3>4. ~ (p <= q)
        <4>1. p <= q => p * PAGE <= q * PAGE
          BY HeapAssumption, MultOrder
        <4>2. p * PAGE \in Nat /\ q * PAGE \in Nat
          BY HeapAssumption
        <4>3. QED
          BY <3>3, <4>1, <4>2
      <3>5. QED
        BY <3>1, <3>2, <3>4
    <2>2. QED
      BY <2>1 DEF Clear
  <1>8. pages = Run(p, k)
    BY <1>4, <1>6
  <1> HIDE DEF address, pages
  <1>9. CASE /\ MapThenUnmap(Run(p, k), DoomedPages(doomed))
             /\ SetBlock(i, p * PAGE + HEADER, size, request, doomed)
             /\ heap_pointer' = Add(address, size)
    <2>1. heap_pointer' = address + size /\ heap_pointer' \in Nat /\ heap_pointer' >= heap_pointer
      BY <1>2, <1>3, <1>5, <1>9
    <2>2. (p + (k - 1)) * PAGE < heap_pointer'
      BY <1>4, <1>6, <2>1
    <2>3. RunInv(k)'
      BY <1>2, <1>6, <1>7, <1>9, <2>1, <2>2, SetOnRun
    <2>4. /\ paged_heap_blocks'[i].free = 0
          /\ paged_heap_blocks'[i].address = address
      BY <1>2, <1>4, <1>5, <1>9, SetBlockFields
    <2>5. paged_heap_blocks' # paged_heap_blocks
      BY <1>2, <1>5, <2>4 DEF Free, Used, Spare
    <2>6. QED
      BY <2>3, <2>5
  <1>10. CASE /\ MapFails(Run(p, k), 0)
              /\ UNCHANGED <<paged_heap_blocks, heap_pointer, requested>>
    BY <1>2, <1>6, <1>7, <1>10, FailOnRun
  <1>11. QED
    BY <1>1, <1>4, <1>8, <1>9, <1>10

LEMMA FreeUniform ==
    ASSUME NEW k \in Nat \ {0}, UniformInv(k), NEW i \in Slots, heap_free(i)
    PROVE  /\ RunInv(k)'
           /\ paged_heap_blocks' # paged_heap_blocks
  <1>1. /\ HeapTypeOK /\ RunEach(k) /\ RunsApart(k) /\ FramesFollowBlocks(k) /\ RequestsCovered
        /\ Live(i) /\ Used(i)
    BY DEF UniformInv, RunInv, PlacementInv, FrameInv, heap_free, Live
  <1>2. BlockPages(i) = Run(PageOf(i), k) /\ Run(PageOf(i), k) \subseteq Pages
    BY <1>1, UsedBlockPages DEF RunEach
  <1>3. /\ page_table' = [q \in Pages |-> IF q \in Run(PageOf(i), k) THEN UNMAPPED
                                          ELSE page_table[q]]
        /\ frame_bitmap' = frame_bitmap \ {page_table[q] : q \in Run(PageOf(i), k)}
    BY <1>2 DEF heap_free, UnmapPages
  <1>4. /\ paged_heap_blocks'[i].free = 1 /\ paged_heap_blocks[i].free # 1
        /\ \A j \in Slots : /\ paged_heap_blocks'[j].address = paged_heap_blocks[j].address
                            /\ paged_heap_blocks'[j].size = paged_heap_blocks[j].size
                            /\ j # i => paged_heap_blocks'[j].free = paged_heap_blocks[j].free
    BY <1>1 DEF heap_free, HeapTypeOK, Live, Free
  <1>5. \A j \in Slots : PageOf(j)' = PageOf(j) /\ (Used(j)' <=> Used(j))
    BY <1>4 DEF PageOf, Used
  <1>6. \A j \in Slots : Live(j)' <=> Live(j) /\ j # i
    BY <1>4, <1>5 DEF Live, Free
  <1>7. RunEach(k)' /\ RunsApart(k)'
    <2>1. heap_pointer' = heap_pointer
      BY DEF heap_free
    <2>2. QED
      BY <1>1, <1>4, <1>5, <2>1 DEF RunEach, RunsApart
  <1>8. RequestsCovered'
    BY <1>1, <1>4, <1>6 DEF RequestsCovered, heap_free
  <1>9. ASSUME NEW j \in Slots, Live(j)', NEW q \in Run(PageOf(j)', k)
        PROVE  page_table'[q] \in Frames
    <2>1. Live(j) /\ Used(j) /\ j # i /\ q \in Run(PageOf(j), k) /\ q \in Pages
      BY <1>1, <1>5, <1>6, <1>9, LiveIsUsed DEF RunEach
    <2>2. q \notin Run(PageOf(i), k)
      BY <1>1, <2>1, RunsDisjoint
    <2>3. QED
      BY <1>1, <1>3, <2>1, <2>2 DEF FramesFollowBlocks
  <1>10. ASSUME NEW q \in Pages, page_table'[q] \in Frames
         PROVE  \E j \in Slots : Live(j)' /\ q \in Run(PageOf(j)', k)
    <2>1. q \notin Run(PageOf(i), k) /\ page_table[q] \in Frames
      BY <1>3, <1>10, EntriesNotFrames
    <2>2. PICK j \in Slots : Live(j) /\ q \in Run(PageOf(j), k)
      BY <1>1, <2>1 DEF FramesFollowBlocks
    <2>3. QED
      BY <1>5, <1>6, <2>1, <2>2
  <1>11. ASSUME NEW g \in frame_bitmap'
         PROVE  \E q \in Pages : page_table'[q] = g
    BY <1>1, <1>3 DEF FramesFollowBlocks
  <1>12. FramesFollowBlocks(k)'
    BY <1>9, <1>10, <1>11 DEF FramesFollowBlocks
  <1>13. QED
    BY <1>4, <1>7, <1>8, <1>12 DEF RunInv

-----------------------------------------------------------------------------
(* The invariant and what follows from it. *)

LEMMA UniformSizes ==
    ASSUME NEW k \in Nat \ {0}, UniformRequests(k), NEW size \in Nat,
           size \in PlainSizes \/ \E s \in PlainSizes : size = RoundUp(s)
    PROVE  /\ RoundUp(size) \in Nat /\ Takes(RoundUp(size), k) /\ size <= RoundUp(size)
           /\ RoundUp(size) + HEADER < UINT
  <1>1. ASSUME NEW s \in PlainSizes
        PROVE  /\ s \in Nat /\ RoundUp(s) \in Nat /\ s <= RoundUp(s) /\ Takes(RoundUp(s), k)
               /\ RoundUp(s) + HEADER < UINT /\ RoundUp(RoundUp(s)) = RoundUp(s)
    <2>1. s \in Nat /\ s + 2 * WORD + HEADER <= UINT
      BY HeapAssumption DEF UniformRequests, NoWrap
    <2>2. s + WORD + HEADER <= UINT
      BY <2>1, HeapAssumption
    <2>3. RoundUp(s) \in Nat /\ s <= RoundUp(s) /\ RoundUp(s) + HEADER < UINT
      <3>1. RoundUp(s) \in 0 .. UINT - 1 /\ RoundUp(s) >= s /\ RoundUp(s) + HEADER < UINT
        BY <2>1, <2>2, RoundUpExact, RoundUpRange
      <3>2. QED
        BY <2>1, <3>1, HeapAssumption
    <2>4. QED
      BY <2>1, <2>3, RoundUpTwice DEF UniformRequests
  <1>2. CASE size \in PlainSizes
    BY <1>1, <1>2
  <1>3. ASSUME NEW s \in PlainSizes, size = RoundUp(s)
        PROVE  /\ RoundUp(size) \in Nat /\ Takes(RoundUp(size), k) /\ size <= RoundUp(size)
               /\ RoundUp(size) + HEADER < UINT
    <2>1. RoundUp(size) = size /\ Takes(size, k) /\ size + HEADER < UINT
      BY <1>1, <1>3
    <2>2. QED
      BY <2>1
  <1>4. QED
    BY <1>2, <1>3

(* A step of uniform requests, and what it does when the table stays as it is. *)
LEMMA UniformStep ==
    ASSUME NEW k \in Nat \ {0}, UniformRequests(k), UniformInv(k), HeapNext
    PROVE  /\ RunInv(k)'
           /\ paged_heap_blocks' = paged_heap_blocks => LiveKept
  <1>1. AlignedSizes = {}
    BY DEF UniformRequests
  <1>2. ASSUME NEW size \in Nat, NEW doomed \in SUBSET Slots,
               size \in PlainSizes \/ \E s \in PlainSizes : size = RoundUp(s),
               \A j \in doomed : Live(j),
               \/ ReuseBlock(RoundUp(size), size, doomed)
               \/ PlaceBlock(RoundUp(size), size, FALSE, doomed)
        PROVE  /\ RunInv(k)'
               /\ paged_heap_blocks' = paged_heap_blocks => LiveKept
    <2>1. /\ RoundUp(size) \in Nat /\ Takes(RoundUp(size), k) /\ size <= RoundUp(size)
          /\ RoundUp(size) + HEADER < UINT
      BY <1>2, UniformSizes
    <2>2. CASE ReuseBlock(RoundUp(size), size, doomed)
      BY <1>2, <2>1, <2>2, ReuseUniform
    <2>3. CASE PlaceBlock(RoundUp(size), size, FALSE, doomed)
      BY <1>2, <2>1, <2>3, PlaceUniform
    <2>4. QED
      BY <1>2, <2>2, <2>3
  <1>3. ASSUME NEW i \in Slots, heap_free(i)
        PROVE  /\ RunInv(k)'
               /\ paged_heap_blocks' = paged_heap_blocks => LiveKept
    BY <1>3, FreeUniform
  <1>4. QED
    BY <1>1, <1>2, <1>3, HeapSteps

LEMMA UniformInvInitial == ASSUME NEW k \in Nat \ {0} PROVE HeapInit => UniformInv(k)
  <1> SUFFICES ASSUME HeapInit PROVE UniformInv(k)
    OBVIOUS
  <1>1. \A i \in Slots : ~ Used(i)
    BY DEF HeapInit, Used
  <1>2. \A p \in Pages : page_table[p] \notin Frames
    BY EntriesNotFrames DEF HeapInit
  <1>3. frame_bitmap = {}
    BY DEF HeapInit
  <1>4. QED
    BY <1>1, <1>2, <1>3, PlacementInvInitial
    DEF UniformInv, RunInv, RunEach, RunsApart, FramesFollowBlocks, RequestsCovered, Live

LEMMA UniformInvInductive ==
    ASSUME NEW k \in Nat \ {0}, UniformRequests(k)
    PROVE  UniformInv(k) /\ [HeapNext]_heapVars => UniformInv(k)'
  <1> SUFFICES ASSUME UniformInv(k), [HeapNext]_heapVars PROVE UniformInv(k)'
    OBVIOUS
  <1>1. PlacementInv'
    BY PlacementInvInductive DEF UniformRequests, UniformInv
  <1>2. CASE UNCHANGED heapVars
    BY <1>1, <1>2, UnchangedKeepsRuns DEF UniformInv
  <1>3. CASE HeapNext
    BY <1>1, <1>3, UniformStep DEF UniformInv
  <1>4. QED
    BY <1>2, <1>3

(* What the invariant says of every state. *)
LEMMA UniformInvSafe ==
    ASSUME NEW k \in Nat \ {0}, UniformInv(k)
    PROVE  LiveBlocksDisjoint /\ LiveBlocksMapped /\ NoFrameLeaked /\ RequestsCovered
  <1>1. \A i \in Slots : Live(i) => BlockPages(i) = Run(PageOf(i), k)
    BY UsedBlockPages, LiveIsUsed
  <1>2. LiveBlocksDisjoint
    BY <1>1, RunsDisjoint, LiveIsUsed DEF LiveBlocksDisjoint
  <1>3. LiveBlocksMapped
    BY <1>1 DEF LiveBlocksMapped, UniformInv, RunInv, FramesFollowBlocks
  <1>4. NoFrameLeaked
    <2>1. ASSUME NEW f \in frame_bitmap
          PROVE  \E i \in Slots : Live(i) /\ \E p \in BlockPages(i) : page_table[p] = f
      <3>1. f \in Frames
        BY DEF UniformInv, PlacementInv, FrameInv, HeapTypeOK
      <3>2. PICK p \in Pages : page_table[p] = f
        BY DEF UniformInv, RunInv, FramesFollowBlocks
      <3>3. PICK i \in Slots : Live(i) /\ p \in Run(PageOf(i), k)
        BY <3>1, <3>2 DEF UniformInv, RunInv, FramesFollowBlocks
      <3>4. QED
        BY <1>1, <3>2, <3>3
    <2>2. QED
      BY <2>1 DEF NoFrameLeaked
  <1>5. QED
    BY <1>2, <1>3, <1>4 DEF UniformInv, RunInv

(* Requests of k pages each: blocks never share a page, every page of a live block is
   backed, and no block is smaller than its request, through any sequence of
   heap_alloc, heap_free and heap_realloc, the calls that run out of frames halfway, of
   slots or of the region included. *)
THEOREM UniformRequestsSafe ==
    ASSUME NEW k \in Nat \ {0}, UniformRequests(k)
    PROVE  HeapSpec => [](LiveBlocksDisjoint /\ LiveBlocksMapped /\ RequestsCovered)
  <1>1. UniformInv(k) => LiveBlocksDisjoint /\ LiveBlocksMapped /\ RequestsCovered
    BY UniformInvSafe
  <1>2. HeapInit => UniformInv(k)
    BY UniformInvInitial
  <1>3. UniformInv(k) /\ [HeapNext]_heapVars => UniformInv(k)'
    BY UniformInvInductive
  <1>4. QED
    BY <1>1, <1>2, <1>3, PTL DEF HeapSpec

(* Requests of k pages each: every used frame backs a page of a live block, so freed
   blocks and calls that fail after mapping some pages give all of their frames back. *)
THEOREM UniformFramesReturned ==
    ASSUME NEW k \in Nat \ {0}, UniformRequests(k)
    PROVE  HeapSpec => []NoFrameLeaked
  <1>1. UniformInv(k) => NoFrameLeaked
    BY UniformInvSafe
  <1>2. HeapInit => UniformInv(k)
    BY UniformInvInitial
  <1>3. UniformInv(k) /\ [HeapNext]_heapVars => UniformInv(k)'
    BY UniformInvInductive
  <1>4. QED
    BY <1>1, <1>2, <1>3, PTL DEF HeapSpec

(* Requests of k pages each: a call that fails, with none or some of its k pages mapped
   when the frames run out, takes no memory away from a live block. *)
THEOREM UniformFailureHarmless ==
    ASSUME NEW k \in Nat \ {0}, UniformRequests(k)
    PROVE  HeapSpec => FailureHarmless
  <1> DEFINE Kept == paged_heap_blocks' = paged_heap_blocks =>
                       \A i \in Slots : Live(i) =>
                           \A p \in BlockPages(i) : page_table'[p] = page_table[p]
  <1>1. UniformInv(k) /\ [HeapNext]_heapVars => [Kept]_heapVars
    BY UniformStep DEF LiveKept
  <1>2. HeapInit => UniformInv(k)
    BY UniformInvInitial
  <1>3. UniformInv(k) /\ [HeapNext]_heapVars => UniformInv(k)'
    BY UniformInvInductive
  <1> HIDE DEF Kept
  <1>4. HeapSpec => [][Kept]_heapVars
    BY <1>1, <1>2, <1>3, PTL DEF HeapSpec
  <1> USE DEF Kept
  <1>5. QED
    BY <1>4 DEF FailureHarmless

-----------------------------------------------------------------------------
(* The refinement.  Stated for any table t and requests asked, so that it can be read
   before and after a step. *)
LiveIn(t, i) == t[i].address # 0 /\ ~ (t[i].free = 1)

DistinctIn(t) ==
    \A i, j \in Slots : t[i].address # 0 /\ t[i].address = t[j].address => i = j

Held(t, a) == CHOOSE i \in Slots : LiveIn(t, i) /\ t[i].address = a

LiveAddresses(t) == {t[i].address : i \in {j \in Slots : LiveIn(t, j)}}

Allocations(t, asked) ==
    [a \in LiveAddresses(t) |-> [size |-> t[Held(t, a)].size, request |-> asked[Held(t, a)]]]

LEMMA AllocationOf ==
    ASSUME NEW t, NEW asked, DistinctIn(t), NEW i \in Slots, LiveIn(t, i)
    PROVE  /\ t[i].address \in LiveAddresses(t)
           /\ Allocations(t, asked)[t[i].address] = [size |-> t[i].size, request |-> asked[i]]
  <1>1. Held(t, t[i].address) = i
    BY DEF Held, DistinctIn, LiveIn
  <1>2. t[i].address \in LiveAddresses(t)
    BY DEF LiveAddresses
  <1>3. QED
    BY <1>1, <1>2 DEF Allocations

(* Every step leaves the table as it is, frees a block, or sets one, for a request it
   covers, after which at most one smaller live block is freed. *)
SetStep(i, address, size, request, doomed) ==
    /\ i \in Spare /\ address \in Nat \ {0} /\ size \in Nat /\ request \in Nat /\ request <= size
    /\ \/ doomed = {}
       \/ \E old \in Slots : /\ doomed = {old} /\ Live(old)
                             /\ paged_heap_blocks[old].size < size
    /\ SetBlock(i, address, size, request, doomed)

LEMMA AllocSteps ==
    ASSUME HeapTypeOK, NEW size \in Nat, NEW request \in Nat, NEW doomed,
           ReuseBlock(size, request, doomed) \/ PlaceBlock(size, request, FALSE, doomed)
    PROVE  \/ UNCHANGED <<paged_heap_blocks, requested>>
           \/ \E i \in Spare, address \in Nat \ {0} : SetBlock(i, address, size, request, doomed)
  <1>1. CASE ReuseBlock(size, request, doomed)
    <2>1. PICK i \in First(Reusable(size)) :
             \/ SetBlock(i, paged_heap_blocks[i].address, size, request, doomed)
             \/ UNCHANGED <<paged_heap_blocks, heap_pointer, requested>>
      BY <1>1 DEF ReuseBlock
    <2>2. i \in Spare /\ i \in Slots /\ Used(i)
      BY DEF First, Reusable, Spare
    <2>3. paged_heap_blocks[i].address \in Nat \ {0}
      BY <2>2 DEF HeapTypeOK, Used
    <2>4. QED
      BY <2>1, <2>2, <2>3
  <1>2. CASE PlaceBlock(size, request, FALSE, doomed)
    <2>1. PICK i \in First(Spare) :
             \/ SetBlock(i, Place(FALSE), size, request, doomed)
             \/ UNCHANGED <<paged_heap_blocks, heap_pointer, requested>>
      BY <1>2, PlaceBlockCases
    <2>2. i \in Spare
      BY DEF First
    <2>3. Place(FALSE) \in Nat \ {0}
      <3>1. heap_pointer \in Nat /\ FALSE \in BOOLEAN
        BY DEF HeapTypeOK
      <3> DEFINE place == Place(FALSE)
      <3>2. place \in Nat /\ place > heap_pointer
        BY <3>1, PlaceRange
      <3> HIDE DEF place
      <3>3. place \in Nat \ {0}
        BY <3>1, <3>2
      <3>4. QED
        BY <3>3 DEF place
    <2>4. QED
      BY <2>1, <2>2, <2>3
  <1>3. QED
    BY <1>1, <1>2

LEMMA UniformSteps ==
    ASSUME NEW k \in Nat \ {0}, UniformRequests(k), UniformInv(k), HeapNext
    PROVE  \/ UNCHANGED <<paged_heap_blocks, requested>>
           \/ \E i \in Slots : heap_free(i)
           \/ \E i, address, size, request, doomed : SetStep(i, address, size, request, doomed)
  <1>1. HeapTypeOK /\ AlignedSizes = {}
    BY DEF UniformInv, PlacementInv, FrameInv, UniformRequests
  <1>2. ASSUME NEW size \in PlainSizes, heap_alloc_paged(size)
        PROVE  \/ UNCHANGED <<paged_heap_blocks, requested>>
               \/ \E i, address : SetStep(i, address, RoundUp(size), size, {})
    <2>1. size \in Nat /\ RoundUp(size) \in Nat /\ size <= RoundUp(size)
      BY UniformSizes, HeapAssumption
    <2>2. \/ UNCHANGED <<paged_heap_blocks, requested>>
          \/ \E i \in Spare, address \in Nat \ {0} : SetBlock(i, address, RoundUp(size), size, {})
      BY <1>1, <1>2, <2>1, AllocSteps DEF heap_alloc_paged, AllocThenFree
    <2>3. QED
      BY <2>1, <2>2 DEF SetStep
  <1>3. ASSUME NEW old \in Slots, NEW size \in PlainSizes, heap_realloc(old, size)
        PROVE  \/ UNCHANGED <<paged_heap_blocks, requested>>
               \/ \E i, address :
                     SetStep(i, address, RoundUp(RoundUp(size)), RoundUp(size), {old})
    <2> DEFINE r == RoundUp(size)
    <2>1. r \in Nat
      BY UniformSizes, HeapAssumption
    <2>2. RoundUp(r) \in Nat /\ r <= RoundUp(r)
      BY <2>1, UniformSizes
    <2>3. Live(old) /\ paged_heap_blocks[old].size < r /\ paged_heap_blocks[old].size \in Nat
      BY <1>1, <1>3 DEF heap_realloc, HeapTypeOK
    <2>4. ReuseBlock(RoundUp(r), r, {old}) \/ PlaceBlock(RoundUp(r), r, FALSE, {old})
      BY <1>3 DEF heap_realloc, AllocThenFree
    <2> HIDE DEF r
    <2>5. \/ UNCHANGED <<paged_heap_blocks, requested>>
          \/ \E i \in Spare, address \in Nat \ {0} : SetBlock(i, address, RoundUp(r), r, {old})
      BY <1>1, <2>1, <2>2, <2>4, AllocSteps
    <2>6. paged_heap_blocks[old].size < RoundUp(r)
      BY <2>1, <2>2, <2>3
    <2>7. \/ UNCHANGED <<paged_heap_blocks, requested>>
          \/ \E i, address : SetStep(i, address, RoundUp(r), r, {old})
      BY <2>1, <2>2, <2>3, <2>5, <2>6 DEF SetStep
    <2>8. QED
      BY <2>7 DEF r
  <1>4. QED
    BY <1>1, <1>2, <1>3 DEF HeapNext

(* Blocks that start k pages apart keep clear of each other. *)
LEMMA PagesApart ==
    ASSUME NEW k \in Nat \ {0}, NEW p \in Nat, NEW q \in Nat, p + k <= q \/ q + k <= p,
           NEW s \in Nat, NEW r \in Nat, Takes(s, k), Takes(r, k)
    PROVE  \/ (p * PAGE + HEADER) + s <= q * PAGE + HEADER
           \/ (q * PAGE + HEADER) + r <= p * PAGE + HEADER
  <1>1. PAGE \in Nat \ {0} /\ HEADER \in Nat
    BY HeapAssumption
  <1>2. ASSUME NEW x \in Nat, NEW y \in Nat, x + k <= y, NEW z \in Nat, Takes(z, k)
        PROVE  (x * PAGE + HEADER) + z <= y * PAGE + HEADER
    <2>1. (x + k) * PAGE <= y * PAGE
      BY <1>1, <1>2, MultOrder
    <2>2. (x + k) * PAGE = x * PAGE + k * PAGE
      BY <1>1, MultOrder
    <2>3. PICK a \in Nat, b \in Nat, c \in Nat : a = x * PAGE /\ b = y * PAGE /\ c = k * PAGE
      BY <1>1
    <2>4. HEADER + z <= c
      BY <1>2, <2>3 DEF Takes
    <2>5. QED
      BY <1>1, <2>1, <2>2, <2>3, <2>4
  <1>3. QED
    BY <1>2

LEMMA SetFits ==
    ASSUME NEW k \in Nat \ {0}, UniformInv(k), UniformInv(k)',
           NEW i, NEW address, NEW size, NEW request, NEW doomed,
           SetStep(i, address, size, request, doomed)
    PROVE  /\ Abstract!Fits(address, size)
           /\ address \notin LiveAddresses(paged_heap_blocks)
  <1>1. /\ i \in Slots /\ address \in Nat /\ address # 0 /\ size \in Nat /\ request \in Nat
        /\ doomed \in SUBSET Slots /\ SetBlock(i, address, size, request, doomed) /\ ~ Live(i)
    BY DEF SetStep, Spare, Live
  <1>2. HeapTypeOK /\ RunEach(k)
    BY DEF UniformInv, RunInv, PlacementInv, FrameInv
  <1>3. /\ paged_heap_blocks'[i].address = address
        /\ paged_heap_blocks'[i].size = size
        /\ paged_heap_blocks'[i].free = 0
        /\ \A j \in Slots : j # i =>
              /\ paged_heap_blocks'[j].address = paged_heap_blocks[j].address
              /\ paged_heap_blocks'[j].size = paged_heap_blocks[j].size
    BY <1>1, <1>2, SetBlockFields
  <1>4. /\ address - HEADER >= HEAP_PAGED_BASE /\ address + size <= HEAP_PAGED_LIMIT
        /\ PageOf(i)' \in Nat /\ Run(PageOf(i)', k) \subseteq Pages
        /\ address = PageOf(i)' * PAGE + HEADER /\ Takes(size, k)
    BY <1>1, <1>3 DEF UniformInv, RunInv, PlacementInv, BlocksInRegion, RunEach, Used
  <1>5. /\ address \in HEAP_PAGED_BASE .. HEAP_PAGED_LIMIT - 1
        /\ address + size - 1 \in HEAP_PAGED_BASE .. HEAP_PAGED_LIMIT - 1
    <2>1. address < HEAP_PAGED_LIMIT
      <3>0. PICK p \in Nat : p = PageOf(i)'
        BY <1>4
      <3>1. p = PageOf(i)' /\ p <= LastPage
        <4>1. p \in Pages
          BY <1>4, <3>0, RunStart
        <4>2. QED
          BY <3>0, <4>1, HeapAssumption DEF Pages
      <3>2. PAGE \in Nat /\ HEADER < PAGE /\ HEADER \in Nat /\ LastPage \in Nat
        BY HeapAssumption
      <3>3. (p + 1) * PAGE <= (LastPage + 1) * PAGE /\ (p + 1) * PAGE = p * PAGE + PAGE
        BY <3>1, <3>2
      <3>4. PICK b \in Nat, limit \in Nat : b = p * PAGE /\ limit = (LastPage + 1) * PAGE
        BY <3>2
      <3>5. b + HEADER < limit
        BY <3>2, <3>3, <3>4
      <3>6. QED
        BY <1>4, <3>1, <3>4, <3>5 DEF HEAP_PAGED_LIMIT
    <2>2. PICK base \in Nat, limit \in Nat :
             base = HEAP_PAGED_BASE /\ limit = HEAP_PAGED_LIMIT
      BY RegionFacts
    <2>3. HEADER \in Nat \ {0}
      BY RegionFacts
    <2>4. address - HEADER >= base /\ address + size <= limit /\ address < limit
      BY <1>4, <2>1, <2>2
    <2>5. address \in base .. limit - 1 /\ address + size - 1 \in base .. limit - 1
      BY <1>1, <2>3, <2>4
    <2>6. QED
      BY <2>2, <2>5
  <1>6. ASSUME NEW j \in Slots, Live(j)
        PROVE  /\ address # paged_heap_blocks[j].address
               /\ paged_heap_blocks[j].address \in Nat /\ paged_heap_blocks[j].size \in Nat
               /\ \/ address + size <= paged_heap_blocks[j].address
                  \/ paged_heap_blocks[j].address + paged_heap_blocks[j].size <= address
    <2>1. /\ j # i /\ Used(j) /\ paged_heap_blocks[j].address \in Nat
          /\ paged_heap_blocks[j].size \in Nat
      BY <1>1, <1>2, <1>6 DEF Live, HeapTypeOK
    <2>2. address # paged_heap_blocks[j].address
      BY <1>1, <1>3, <2>1 DEF UniformInv, PlacementInv, AddressesDistinct, Used
    <2>3. /\ PageOf(j) \in Nat /\ paged_heap_blocks[j].address = PageOf(j) * PAGE + HEADER
          /\ Takes(paged_heap_blocks[j].size, k)
      BY <1>2, <2>1 DEF RunEach
    <2>4. PICK p \in Nat, q \in Nat :
             /\ p = PageOf(i)' /\ address = p * PAGE + HEADER
             /\ q = PageOf(j) /\ paged_heap_blocks[j].address = q * PAGE + HEADER
      BY <1>4, <2>3
    <2>5. p + k <= q \/ q + k <= p
      <3>1. Used(i)' /\ Used(j)' /\ PageOf(j)' = PageOf(j)
        BY <1>1, <1>3, <2>1 DEF Used, PageOf
      <3>2. QED
        BY <1>1, <2>1, <2>4, <3>1 DEF UniformInv, RunInv, RunsApart
    <2>6. \/ (p * PAGE + HEADER) + size <= q * PAGE + HEADER
          \/ (q * PAGE + HEADER) + paged_heap_blocks[j].size <= p * PAGE + HEADER
      BY <1>1, <1>4, <2>1, <2>3, <2>5, PagesApart
    <2>7. QED
      BY <2>1, <2>2, <2>4, <2>6
  <1>7. address \notin LiveAddresses(paged_heap_blocks)
    BY <1>6 DEF LiveAddresses, LiveIn, Live, Used, Free
  <1>8. ASSUME NEW a \in LiveAddresses(paged_heap_blocks)
        PROVE  Abstract!Bytes(address, size) \cap
                  Abstract!Bytes(a, Allocations(paged_heap_blocks, requested)[a].size) = {}
    <2>1. PICK j \in Slots : LiveIn(paged_heap_blocks, j) /\ paged_heap_blocks[j].address = a
      BY DEF LiveAddresses
    <2>2. DistinctIn(paged_heap_blocks) /\ Live(j)
      BY <2>1 DEF UniformInv, PlacementInv, AddressesDistinct, DistinctIn, Used, LiveIn, Live, Free
    <2>3. Allocations(paged_heap_blocks, requested)[a].size = paged_heap_blocks[j].size
      <3>1. Allocations(paged_heap_blocks, requested)[paged_heap_blocks[j].address]
              = [size |-> paged_heap_blocks[j].size, request |-> requested[j]]
        BY <2>1, <2>2, AllocationOf
      <3>2. QED
        BY <2>1, <3>1
    <2>4. ASSUME NEW c \in HEAP_PAGED_BASE .. HEAP_PAGED_LIMIT - 1,
                 address <= c, c < address + size, a <= c, c < a + paged_heap_blocks[j].size
          PROVE  FALSE
      BY <1>1, <1>6, <2>1, <2>2, <2>4, RegionFacts
    <2>5. QED
      BY <2>3, <2>4 DEF Abstract!Bytes
  <1>9. QED
    <2>1. LiveBlocks = Allocations(paged_heap_blocks, requested)
      BY DEF LiveBlocks, Allocations, LiveAddresses, Held, Holder, Live, Used, Free, LiveIn
    <2>2. DOMAIN LiveBlocks = LiveAddresses(paged_heap_blocks)
      BY <2>1 DEF Allocations
    <2>3. QED
      BY <1>5, <1>7, <1>8, <2>1, <2>2 DEF Abstract!Fits

(* Setting a block and freeing those in doomed, seen as the change of allocations. *)
Replaced(t, asked, u, asking, i, doomed) ==
    Allocations(u, asking) =
        [a \in (LiveAddresses(t) \ {t[j].address : j \in doomed}) \cup {u[i].address} |->
            IF a = u[i].address THEN [size |-> u[i].size, request |-> asking[i]]
            ELSE Allocations(t, asked)[a]]

LEMMA SetReplaces ==
    ASSUME NEW t, NEW u, NEW asked, NEW asking, DistinctIn(t), DistinctIn(u),
           NEW i \in Slots, ~ LiveIn(t, i), LiveIn(u, i), NEW doomed,
           \A j \in Slots : j # i =>
               /\ u[j].address = t[j].address /\ u[j].size = t[j].size
               /\ LiveIn(u, j) <=> LiveIn(t, j) /\ j \notin doomed
               /\ asking[j] = asked[j],
           \A j \in doomed : j \in Slots /\ LiveIn(t, j)
    PROVE  Replaced(t, asked, u, asking, i, doomed)
  <1>1. ASSUME NEW a
        PROVE  a \in LiveAddresses(u) <=>
                 a \in (LiveAddresses(t) \ {t[j].address : j \in doomed}) \cup {u[i].address}
    <2>1. ASSUME NEW j \in Slots, LiveIn(u, j), a = u[j].address, j # i
          PROVE  a \in LiveAddresses(t) \ {t[k].address : k \in doomed}
      <3>1. LiveIn(t, j) /\ j \notin doomed /\ a = t[j].address
        BY <2>1
      <3>2. \A k \in doomed : t[k].address # a
        BY <3>1 DEF DistinctIn, LiveIn
      <3>3. QED
        BY <3>1, <3>2 DEF LiveAddresses
    <2>2. ASSUME NEW j \in Slots, LiveIn(t, j), a = t[j].address,
                 \A k \in doomed : t[k].address # a
          PROVE  a \in LiveAddresses(u)
      <3>1. j # i /\ j \notin doomed
        BY <2>2
      <3>2. LiveIn(u, j) /\ u[j].address = a
        BY <2>2, <3>1
      <3>3. QED
        BY <3>2 DEF LiveAddresses
    <2>3. QED
      BY <2>1, <2>2 DEF LiveAddresses
  <1>2. ASSUME NEW a \in LiveAddresses(u)
        PROVE  Allocations(u, asking)[a] =
                  IF a = u[i].address THEN [size |-> u[i].size, request |-> asking[i]]
                  ELSE Allocations(t, asked)[a]
    <2>1. PICK j \in Slots : LiveIn(u, j) /\ u[j].address = a
      BY DEF LiveAddresses
    <2>2. Allocations(u, asking)[u[j].address] = [size |-> u[j].size, request |-> asking[j]]
      BY <2>1, AllocationOf
    <2>3. CASE j = i
      BY <2>1, <2>2, <2>3
    <2>4. CASE j # i
      <3>1. a # u[i].address
        BY <2>1, <2>4 DEF DistinctIn, LiveIn
      <3>2. LiveIn(t, j) /\ t[j].address = a /\ u[j].size = t[j].size /\ asking[j] = asked[j]
        BY <2>1, <2>4
      <3>3. Allocations(t, asked)[t[j].address] = [size |-> t[j].size, request |-> asked[j]]
        BY <3>2, AllocationOf
      <3>4. QED
        BY <2>1, <2>2, <3>1, <3>2, <3>3
    <2>5. QED
      BY <2>3, <2>4
  <1>3. DOMAIN Allocations(u, asking) = LiveAddresses(u)
        /\ Allocations(u, asking) = [a \in LiveAddresses(u) |-> Allocations(u, asking)[a]]
    BY DEF Allocations
  <1>4. LiveAddresses(u) =
           (LiveAddresses(t) \ {t[j].address : j \in doomed}) \cup {u[i].address}
    BY <1>1
  <1>5. QED
    BY <1>2, <1>3, <1>4 DEF Replaced

Shortened(t, u, asked, i) ==
    Allocations(u, asked) =
        [a \in LiveAddresses(t) \ {t[i].address} |-> Allocations(t, asked)[a]]

LEMMA FreeRemoves ==
    ASSUME NEW t, NEW u, NEW asked, DistinctIn(t), NEW i \in Slots, LiveIn(t, i),
           \A j \in Slots :
               /\ u[j].address = t[j].address /\ u[j].size = t[j].size
               /\ LiveIn(u, j) <=> LiveIn(t, j) /\ j # i
    PROVE  Shortened(t, u, asked, i)
  <1>1. DistinctIn(u)
    BY DEF DistinctIn
  <1>2. ASSUME NEW a
        PROVE  a \in LiveAddresses(u) <=> a \in LiveAddresses(t) \ {t[i].address}
    <2>1. \A j \in Slots : LiveIn(t, j) => (t[j].address = t[i].address <=> j = i)
      BY DEF DistinctIn, LiveIn
    <2>2. QED
      BY <2>1 DEF LiveAddresses
  <1>3. ASSUME NEW a \in LiveAddresses(u)
        PROVE  Allocations(u, asked)[a] = Allocations(t, asked)[a]
    <2>1. PICK j \in Slots : LiveIn(u, j) /\ u[j].address = a
      BY DEF LiveAddresses
    <2>2. Allocations(u, asked)[u[j].address] = [size |-> u[j].size, request |-> asked[j]]
      BY <1>1, <2>1, AllocationOf
    <2>3. LiveIn(t, j) /\ t[j].address = a /\ u[j].size = t[j].size
      BY <2>1
    <2>4. Allocations(t, asked)[t[j].address] = [size |-> t[j].size, request |-> asked[j]]
      BY <2>3, AllocationOf
    <2>5. QED
      BY <2>1, <2>2, <2>3, <2>4
  <1>4. Allocations(u, asked) = [a \in LiveAddresses(u) |-> Allocations(u, asked)[a]]
    BY DEF Allocations
  <1>5. LiveAddresses(u) = LiveAddresses(t) \ {t[i].address}
    BY <1>2
  <1>6. QED
    BY <1>3, <1>4, <1>5 DEF Shortened

(* The refinement mapping, with its definitions in terms of the tables. *)
LEMMA MappedLive ==
    /\ LiveBlocks = Allocations(paged_heap_blocks, requested)
    /\ LiveBlocks' = Allocations(paged_heap_blocks', requested')
    /\ \A i \in Slots : Live(i) <=> LiveIn(paged_heap_blocks, i)
    /\ \A i \in Slots : Live(i)' <=> LiveIn(paged_heap_blocks', i)
    /\ PlacementInv => DistinctIn(paged_heap_blocks)
    /\ PlacementInv' => DistinctIn(paged_heap_blocks')
  <1>1. \A i \in Slots : Live(i) <=> LiveIn(paged_heap_blocks, i)
    BY DEF Live, Used, Free, LiveIn
  <1>2. \A i \in Slots : Live(i)' <=> LiveIn(paged_heap_blocks', i)
    BY DEF Live, Used, Free, LiveIn
  <1>3. PlacementInv => DistinctIn(paged_heap_blocks)
    BY DEF PlacementInv, AddressesDistinct, DistinctIn, Used
  <1>4. PlacementInv' => DistinctIn(paged_heap_blocks')
    BY DEF PlacementInv, AddressesDistinct, DistinctIn, Used
  <1>5. LiveBlocks = Allocations(paged_heap_blocks, requested)
    BY DEF LiveBlocks, Allocations, LiveAddresses, Held, Holder, Live, Used, Free, LiveIn
  <1>6. LiveBlocks' = Allocations(paged_heap_blocks', requested')
    BY DEF LiveBlocks, Allocations, LiveAddresses, Held, Holder, Live, Used, Free, LiveIn
  <1>7. QED
    BY <1>1, <1>2, <1>3, <1>4, <1>5, <1>6

LEMMA SetRefines ==
    ASSUME NEW k \in Nat \ {0}, UniformInv(k), UniformInv(k)',
           NEW i, NEW address, NEW size, NEW request, NEW doomed,
           SetStep(i, address, size, request, doomed)
    PROVE  Abstract!Next
  <1>0. PICK t, u : t = paged_heap_blocks /\ u = paged_heap_blocks'
    OBVIOUS
  <1> DEFINE live == Allocations(t, requested)
             liveNext == Allocations(u, requested')
             new == [size |-> size, request |-> request]
             gone == {t[j].address : j \in doomed}
  <1>1. /\ i \in Slots /\ address \in Nat /\ address # 0 /\ size \in Nat /\ request \in Nat
        /\ request <= size
        /\ doomed \in SUBSET Slots /\ SetBlock(i, address, size, request, doomed) /\ ~ Live(i)
        /\ \A j \in doomed : j \in Slots /\ Live(j)
    BY DEF SetStep, Spare, Live
  <1>2. HeapTypeOK /\ DistinctIn(t) /\ DistinctIn(u)
    BY <1>0, MappedLive DEF UniformInv, PlacementInv, FrameInv
  <1>3. /\ u[i].address = address /\ u[i].size = size /\ u[i].free = 0
        /\ \A j \in Slots : j # i =>
              /\ u[j].address = t[j].address /\ u[j].size = t[j].size
              /\ u[j].free = IF j \in doomed THEN 1 ELSE t[j].free
    BY <1>0, <1>1, <1>2, SetBlockFields
  <1>4. requested'[i] = request /\ \A j \in Slots : j # i => requested'[j] = requested[j]
    BY <1>1, <1>2 DEF SetBlock, HeapTypeOK
  <1>5. /\ ~ LiveIn(t, i) /\ LiveIn(u, i) /\ \A j \in doomed : j \in Slots /\ LiveIn(t, j)
        /\ \A j \in Slots : j # i => (LiveIn(u, j) <=> LiveIn(t, j) /\ j \notin doomed)
    <2>1. ~ LiveIn(t, i) /\ \A j \in doomed : j \in Slots /\ LiveIn(t, j)
      BY <1>0, <1>1, MappedLive
    <2>2. QED
      BY <1>1, <1>3, <2>1 DEF LiveIn
  <1>6. liveNext = [a \in (LiveAddresses(t) \ gone) \cup {address} |->
                       IF a = address THEN new ELSE live[a]]
    <2>1. \A j \in Slots : j # i =>
             /\ u[j].address = t[j].address /\ u[j].size = t[j].size
             /\ LiveIn(u, j) <=> LiveIn(t, j) /\ j \notin doomed
             /\ requested'[j] = requested[j]
      BY <1>3, <1>4, <1>5
    <2>2. Replaced(t, requested, u, requested', i, doomed)
      BY <1>1, <1>2, <1>5, <2>1, SetReplaces
    <2>3. QED
      BY <1>3, <1>4, <2>2, Zenon DEF Replaced
  <1>7. Abstract!Fits(address, size) /\ address \notin LiveAddresses(t)
    BY <1>0, SetFits
  <1>8. DOMAIN live = LiveAddresses(t)
    BY DEF Allocations
  <1> HIDE DEF live, liveNext, new, gone
  <1>9. address \in DOMAIN liveNext \ DOMAIN live /\ liveNext[address] = new
    BY <1>6, <1>7, <1>8
  <1>10. new.size = size /\ new.request = request
    BY DEF new
  <1>11. CASE doomed = {}
    <2>1. liveNext = [a \in (DOMAIN live \ {}) \cup {address} |->
                         IF a = address THEN new ELSE live[a]]
      <3>1. gone = {}
        BY <1>11 DEF gone
      <3>2. QED
        BY <1>6, <1>8, <3>1
    <2>2. Abstract!Replace({}, address, size, request)
      BY <1>0, <2>1, MappedLive DEF Abstract!Replace, live, liveNext, new
    <2>3. Abstract!Alloc(address, size, request)
      BY <1>1, <1>7, <2>2 DEF Abstract!Alloc
    <2>4. QED
      BY <1>0, <1>9, <1>10, <2>3, MappedLive DEF Abstract!Next, live, liveNext
  <1>12. ASSUME NEW old \in Slots, doomed = {old}, Live(old), t[old].size < size
         PROVE  Abstract!Next
    <2> DEFINE a == t[old].address
    <2>1. gone = {a}
      BY <1>12 DEF gone
    <2>2. LiveIn(t, old)
      BY <1>5, <1>12
    <2>3. a \in DOMAIN live /\ live[a].size = t[old].size
      <3>0. DistinctIn(t) /\ old \in Slots /\ LiveIn(t, old)
        BY <1>2, <2>2
      <3>1. t[old].address \in LiveAddresses(t)
        BY <3>0, AllocationOf
      <3>4. Allocations(t, requested)[t[old].address]
              = [size |-> t[old].size, request |-> requested[old]]
        BY <3>0, AllocationOf
      <3>2. QED
        BY <1>8, <3>1, <3>4 DEF live
    <2> HIDE DEF a
    <2>4. liveNext = [b \in (DOMAIN live \ {a}) \cup {address} |->
                         IF b = address THEN new ELSE live[b]]
      BY <1>6, <1>8, <2>1
    <2>5. Abstract!Replace({a}, address, size, request)
      BY <1>0, <2>4, MappedLive DEF Abstract!Replace, live, liveNext, new
    <2>6. size > live[a].size
      <3>1. t[old].size \in Nat
        BY <1>0, <1>2 DEF HeapTypeOK
      <3>2. QED
        BY <1>1, <1>12, <2>3, <3>1
    <2>7. Abstract!Move(a, address, size, request)
      BY <1>1, <1>7, <2>5, <2>6, <1>0, MappedLive DEF Abstract!Move, live
    <2>8. QED
      BY <1>0, <1>9, <1>10, <2>3, <2>7, MappedLive DEF Abstract!Next, live, liveNext
  <1>13. QED
    BY <1>0, <1>11, <1>12 DEF SetStep

LEMMA FreeRefines ==
    ASSUME NEW k \in Nat \ {0}, UniformInv(k), NEW i \in Slots, heap_free(i)
    PROVE  Abstract!Next
  <1>0. PICK t, u : t = paged_heap_blocks /\ u = paged_heap_blocks'
    OBVIOUS
  <1>1. HeapTypeOK /\ DistinctIn(t) /\ LiveIn(t, i) /\ requested' = requested
    BY <1>0, MappedLive DEF UniformInv, PlacementInv, FrameInv, heap_free
  <1>2. \A j \in Slots : /\ u[j].address = t[j].address /\ u[j].size = t[j].size
                         /\ u[j].free = IF j = i THEN 1 ELSE t[j].free
    BY <1>0, <1>1 DEF heap_free, HeapTypeOK
  <1>3. \A j \in Slots : /\ u[j].address = t[j].address /\ u[j].size = t[j].size
                         /\ LiveIn(u, j) <=> LiveIn(t, j) /\ j # i
    BY <1>2 DEF LiveIn
  <1>4. Allocations(u, requested) =
           [a \in LiveAddresses(t) \ {t[i].address} |-> Allocations(t, requested)[a]]
    <2>1. Shortened(t, u, requested, i)
      BY <1>1, <1>3, FreeRemoves
    <2>2. QED
      BY <2>1 DEF Shortened
  <1>5. DOMAIN Allocations(t, requested) = LiveAddresses(t)
        /\ t[i].address \in LiveAddresses(t)
    BY <1>1, AllocationOf DEF Allocations
  <1>6. LiveBlocks = Allocations(t, requested) /\ LiveBlocks' = Allocations(u, requested)
    BY <1>0, <1>1, MappedLive
  <1>7. Abstract!Free(t[i].address) /\ t[i].address \in DOMAIN LiveBlocks
    BY <1>4, <1>5, <1>6 DEF Abstract!Free
  <1>8. QED
    BY <1>7 DEF Abstract!Next

(* Refinement: as long as all requests take the same number of pages, the table of
   slots, with its reused addresses and pages, is the allocator its callers expect, for
   every geometry and every sequence of calls, so switching paging on changes nothing
   for them. *)
THEOREM UniformRefinement ==
    ASSUME NEW k \in Nat \ {0}, UniformRequests(k)
    PROVE  HeapSpec => PagedImplementsAllocator
  <1>1. HeapInit => Abstract!Init
    <2> SUFFICES ASSUME HeapInit PROVE Abstract!Init
      OBVIOUS
    <2>1. \A i \in Slots : ~ Live(i)
      BY DEF HeapInit, Live, Used
    <2>2. {paged_heap_blocks[i].address : i \in {j \in Slots : Live(j)}} = {}
      BY <2>1
    <2>3. QED
      BY <2>2 DEF Abstract!Init, LiveBlocks
  <1>2. UniformInv(k) /\ UniformInv(k)' /\ [HeapNext]_heapVars => [Abstract!Next]_LiveBlocks
    <2> SUFFICES ASSUME UniformInv(k), UniformInv(k)', [HeapNext]_heapVars
                 PROVE  Abstract!Next \/ LiveBlocks' = LiveBlocks
      OBVIOUS
    <2>1. UNCHANGED <<paged_heap_blocks, requested>> => LiveBlocks' = LiveBlocks
      BY MappedLive
    <2>2. CASE UNCHANGED heapVars
      BY <2>1, <2>2 DEF heapVars
    <2>3. CASE HeapNext
      BY <2>1, <2>3, UniformSteps, SetRefines, FreeRefines
    <2>4. QED
      BY <2>2, <2>3
  <1>3. HeapInit => UniformInv(k)
    BY UniformInvInitial
  <1>4. UniformInv(k) /\ [HeapNext]_heapVars => UniformInv(k)'
    BY UniformInvInductive
  <1>5. QED
    BY <1>1, <1>2, <1>3, <1>4, PTL
    DEF HeapSpec, PagedImplementsAllocator, Abstract!Spec
=============================================================================
