---------------------------- MODULE BootHeapProofs ----------------------------
(***************************************************************************)
(* The boot heap for every header, granularity, heap and set of sizes: its *)
(* blocks tile the heap through every split and merge, free neighbours are *)
(* merged, a request is refused only when no run of bytes is left for it,  *)
(* and the list implements the allocator its callers expect.               *)
(***************************************************************************)
EXTENDS BootHeap, SequenceTheorems, WellFoundedInduction, TLAPS

Block == [start : Nat, size : Nat \ {0}, free : {0, 1}]

-----------------------------------------------------------------------------
(* Sequences: an element put in or taken out. *)
IsInsertion(S, s, i, e, r) ==
    /\ r \in Seq(S) /\ Len(r) = Len(s) + 1
    /\ \A j \in 1 .. Len(s) + 1 : r[j] = IF j < i THEN s[j] ELSE IF j = i THEN e ELSE s[j - 1]

IsRemoval(S, s, i, r) ==
    /\ r \in Seq(S) /\ Len(r) = Len(s) - 1
    /\ \A j \in 1 .. Len(s) - 1 : r[j] = IF j < i THEN s[j] ELSE s[j + 1]

LEMMA Inserted ==
    ASSUME NEW S, NEW s \in Seq(S), NEW e \in S, NEW i \in 1 .. Len(s) + 1
    PROVE  IsInsertion(S, s, i, e, InsertAt(s, i, e))
  <1> DEFINE n == Len(s)
             a == SubSeq(s, 1, i - 1)
             b == SubSeq(s, i, Len(s))
  <1>0. n \in Nat /\ \A j \in 1 .. n : s[j] \in S
    OBVIOUS
  <1>1. /\ a \in Seq(S) /\ Len(a) = i - 1
        /\ \A j \in 1 .. i - 1 : a[j] = s[j]
    <2>1. \A j \in 1 .. i - 1 : s[j] \in S
      BY <1>0
    <2>2. /\ a \in Seq(S) /\ Len(a) = IF 1 <= i - 1 THEN (i - 1) - 1 + 1 ELSE 0
          /\ \A j \in 1 .. (i - 1) - 1 + 1 : a[j] = s[1 + j - 1]
      BY <1>0, <2>1, SubSeqProperties
    <2> HIDE DEF a
    <2>3. QED
      BY <1>0, <2>2
  <1>2. /\ b \in Seq(S) /\ Len(b) = n - i + 1
        /\ \A j \in 1 .. n - i + 1 : b[j] = s[i + j - 1]
    <2>1. \A j \in i .. n : s[j] \in S
      BY <1>0
    <2>2. /\ b \in Seq(S) /\ Len(b) = IF i <= n THEN n - i + 1 ELSE 0
          /\ \A j \in 1 .. n - i + 1 : b[j] = s[i + j - 1]
      BY <1>0, <2>1, SubSeqProperties
    <2> HIDE DEF b
    <2>3. QED
      BY <1>0, <2>2
  <1>3. InsertAt(s, i, e) = (a \o <<e>>) \o b
    BY DEF InsertAt
  <1> HIDE DEF a, b
  <1>4. /\ a \o <<e>> \in Seq(S) /\ Len(a \o <<e>>) = i
        /\ \A j \in 1 .. i : (a \o <<e>>)[j] = IF j < i THEN s[j] ELSE e
    <2>1. <<e>> \in Seq(S) /\ Len(<<e>>) = 1 /\ <<e>>[1] = e
      OBVIOUS
    <2>2. /\ Len(a \o <<e>>) = Len(a) + Len(<<e>>) /\ a \o <<e>> \in Seq(S)
          /\ \A j \in 1 .. Len(a) + Len(<<e>>) :
                (a \o <<e>>)[j] = IF j <= Len(a) THEN a[j] ELSE <<e>>[j - Len(a)]
      BY <1>1, <2>1, ConcatProperties
    <2> DEFINE c == a \o <<e>>
    <2>3. Len(c) = i /\ c \in Seq(S)
      BY <1>1, <2>1, <2>2
    <2>4. ASSUME NEW j \in 1 .. i PROVE c[j] = IF j < i THEN s[j] ELSE e
      <3>1. j \in 1 .. Len(a) + Len(<<e>>)
        BY <1>1, <2>1
      <3>2. c[j] = IF j <= Len(a) THEN a[j] ELSE <<e>>[j - Len(a)]
        BY <2>2, <3>1
      <3> HIDE DEF c
      <3>3. QED
        BY <1>1, <2>1, <3>2
    <2>5. QED
      BY <2>3, <2>4
  <1> DEFINE c == a \o <<e>>
  <1>5. /\ c \in Seq(S) /\ Len(c) = i
        /\ \A j \in 1 .. i : c[j] = IF j < i THEN s[j] ELSE e
    BY <1>4
  <1>7. InsertAt(s, i, e) = c \o b
    BY <1>3
  <1> HIDE DEF c
  <1>6. /\ Len(c \o b) = Len(c) + Len(b) /\ c \o b \in Seq(S)
        /\ \A j \in 1 .. Len(c) + Len(b) :
              (c \o b)[j] = IF j <= Len(c) THEN c[j] ELSE b[j - Len(c)]
    BY <1>2, <1>5, ConcatProperties
  <1> DEFINE r == c \o b
  <1>8. r \in Seq(S) /\ Len(r) = n + 1
    BY <1>0, <1>2, <1>5, <1>6
  <1>9. ASSUME NEW j \in 1 .. n + 1
        PROVE  r[j] = IF j < i THEN s[j] ELSE IF j = i THEN e ELSE s[j - 1]
    <2>1. r[j] = IF j <= i THEN c[j] ELSE b[j - i]
      BY <1>0, <1>2, <1>5, <1>6
    <2> HIDE DEF r
    <2>2. j > i => j - i \in 1 .. n - i + 1 /\ i + (j - i) - 1 = j - 1
      BY <1>0
    <2>3. QED
      BY <1>0, <1>2, <1>5, <2>1, <2>2
  <1>10. QED
    BY <1>7, <1>8, <1>9 DEF IsInsertion

LEMMA Removed ==
    ASSUME NEW S, NEW s \in Seq(S), NEW i \in 1 .. Len(s)
    PROVE  IsRemoval(S, s, i, RemoveAt(s, i))
  <1> DEFINE n == Len(s)
             a == SubSeq(s, 1, i - 1)
             b == SubSeq(s, i + 1, Len(s))
  <1>0. n \in Nat /\ \A j \in 1 .. n : s[j] \in S
    OBVIOUS
  <1>1. /\ a \in Seq(S) /\ Len(a) = i - 1
        /\ \A j \in 1 .. i - 1 : a[j] = s[j]
    <2>1. \A j \in 1 .. i - 1 : s[j] \in S
      BY <1>0
    <2>2. /\ a \in Seq(S) /\ Len(a) = IF 1 <= i - 1 THEN (i - 1) - 1 + 1 ELSE 0
          /\ \A j \in 1 .. (i - 1) - 1 + 1 : a[j] = s[1 + j - 1]
      BY <1>0, <2>1, SubSeqProperties
    <2> HIDE DEF a
    <2>3. QED
      BY <1>0, <2>2
  <1>2. /\ b \in Seq(S) /\ Len(b) = n - i
        /\ \A j \in 1 .. n - i : b[j] = s[i + j]
    <2>1. \A j \in i + 1 .. n : s[j] \in S
      BY <1>0
    <2>2. /\ b \in Seq(S) /\ Len(b) = IF i + 1 <= n THEN n - (i + 1) + 1 ELSE 0
          /\ \A j \in 1 .. n - (i + 1) + 1 : b[j] = s[i + 1 + j - 1]
      BY <1>0, <2>1, SubSeqProperties
    <2> HIDE DEF b
    <2>3. QED
      BY <1>0, <2>2
  <1>3. RemoveAt(s, i) = a \o b
    BY DEF RemoveAt
  <1> HIDE DEF a, b
  <1>4. /\ Len(a \o b) = Len(a) + Len(b) /\ a \o b \in Seq(S)
        /\ \A j \in 1 .. Len(a) + Len(b) :
              (a \o b)[j] = IF j <= Len(a) THEN a[j] ELSE b[j - Len(a)]
    BY <1>1, <1>2, ConcatProperties
  <1> DEFINE r == a \o b
  <1>5. r \in Seq(S) /\ Len(r) = n - 1
    BY <1>0, <1>1, <1>2, <1>4
  <1>6. ASSUME NEW j \in 1 .. n - 1 PROVE r[j] = IF j < i THEN s[j] ELSE s[j + 1]
    <2>1. r[j] = IF j <= i - 1 THEN a[j] ELSE b[j - (i - 1)]
      <3>1. j \in 1 .. Len(a) + Len(b)
        BY <1>0, <1>1, <1>2
      <3>2. r[j] = IF j <= Len(a) THEN a[j] ELSE b[j - Len(a)]
        BY <1>4, <3>1
      <3> HIDE DEF r
      <3>3. QED
        BY <1>1, <3>2
    <2> HIDE DEF r
    <2>2. j >= i => j - (i - 1) \in 1 .. n - i /\ i + (j - (i - 1)) = j + 1
      BY <1>0
    <2>3. QED
      BY <1>0, <1>1, <1>2, <2>1, <2>2
  <1>7. QED
    BY <1>3, <1>5, <1>6 DEF IsRemoval

-----------------------------------------------------------------------------
LEMMA BootConstants ==
    /\ WORD \in Nat /\ WORD > 0 /\ HEADER \in Nat /\ HEADER > 0 /\ HEADER % WORD = 0
    /\ HeapStart \in Nat /\ HeapStart > 0 /\ HeapLimit \in Nat /\ HeapStart <= HeapLimit
    /\ \A size \in Sizes : size \in Nat /\ size > 0
  BY BootAssumption

(* Multiples of WORD. *)
LEMMA Multiples ==
    ASSUME NEW a \in Nat, NEW b \in Nat, a % WORD = 0, b % WORD = 0
    PROVE  (a + b) % WORD = 0 /\ (a >= b => (a - b) % WORD = 0)
  <1>1. ASSUME NEW w \in Nat \ {0}, NEW x \in Nat, x % w = 0
        PROVE  \E k \in Nat : x = k * w
    <2>1. x = (x \div w) * w /\ x \div w \in Nat
      BY <1>1
    <2>2. QED
      BY <2>1
  <1>2. ASSUME NEW w \in Nat \ {0}, NEW k \in Nat PROVE (k * w) % w = 0
    OBVIOUS
  <1>3. WORD \in Nat \ {0}
    BY BootConstants
  <1>4. PICK k \in Nat : a = k * WORD
    BY <1>1, <1>3
  <1>5. PICK l \in Nat : b = l * WORD
    BY <1>1, <1>3
  <1>6. a + b = (k + l) * WORD /\ a - b = (k - l) * WORD
    BY <1>3, <1>4, <1>5
  <1>7. (a + b) % WORD = 0
    <2>1. k + l \in Nat
      OBVIOUS
    <2>2. QED
      BY <1>2, <1>3, <1>6, <2>1
  <1>8. ASSUME a >= b PROVE (a - b) % WORD = 0
    <2>1. k >= l
      BY <1>3, <1>4, <1>5, <1>8
    <2>2. k - l \in Nat
      BY <2>1
    <2>3. QED
      BY <1>2, <1>3, <1>6, <2>2
  <1>9. QED
    BY <1>7, <1>8

LEMMA RoundedUp ==
    ASSUME NEW size \in Sizes
    PROVE  /\ RoundUp(size) \in Nat /\ RoundUp(size) >= size /\ RoundUp(size) > 0
           /\ RoundUp(size) % WORD = 0
  <1>1. ASSUME NEW w \in Nat \ {0}, NEW b \in Nat
        PROVE  ((b + w - 1) \div w) * w >= b /\ (b + w - 1) \div w \in Nat
    OBVIOUS
  <1>2. ASSUME NEW w \in Nat \ {0}, NEW k \in Nat PROVE (k * w) % w = 0 /\ k * w \in Nat
    OBVIOUS
  <1>3. WORD \in Nat \ {0} /\ size \in Nat /\ size > 0
    BY BootConstants
  <1>4. PICK k \in Nat : k = (size + WORD - 1) \div WORD
    BY <1>1, <1>3
  <1>5. RoundUp(size) = k * WORD
    BY <1>4 DEF RoundUp
  <1>6. k * WORD >= size
    BY <1>1, <1>3, <1>4
  <1>7. QED
    BY <1>2, <1>3, <1>5, <1>6

-----------------------------------------------------------------------------
(* Lists of blocks.  The parts of ListOK are those of a tiling, in a form that each
   change of the list keeps without counting. *)
BlockIn(b, pointer) ==
    b.size % WORD = 0 /\ HeapStart <= b.start /\ End(b) <= pointer

Ordered(list) == \A i, j \in 1 .. Len(list) : i < j => End(list[i]) <= list[j].start

Tiled(list, pointer) ==
    /\ Len(list) = 0 => pointer = HeapStart
    /\ Len(list) > 0 => list[1].start = HeapStart /\ End(list[Len(list)]) = pointer
    /\ \A i \in 1 .. Len(list) - 1 : list[i + 1].start = End(list[i])

ListOK(list, pointer) ==
    /\ list \in Seq(Block)
    /\ \A i \in 1 .. Len(list) : BlockIn(list[i], pointer)
    /\ Ordered(list) /\ Tiled(list, pointer)

(* Blocks k and k + 1 are not both free. *)
Apart(list, k) == ~ (list[k].free = 1 /\ list[k + 1].free = 1)

(* A block in use has this payload address and size. *)
Uses(list, a, s) ==
    \E i \in 1 .. Len(list) : list[i].free = 0 /\ Payload(list[i]) = a /\ list[i].size = s

LEMMA BlockFields ==
    ASSUME NEW b \in Block
    PROVE  /\ b.start \in Nat /\ b.size \in Nat /\ b.size > 0 /\ b.free \in {0, 1}
           /\ Payload(b) = b.start + HEADER /\ End(b) = b.start + HEADER + b.size
           /\ Payload(b) \in Nat /\ End(b) \in Nat /\ b.start < End(b)
  BY BootConstants DEF Block, Payload, End

LEMMA BlockMade ==
    ASSUME NEW start \in Nat, NEW size \in Nat, size > 0, NEW free \in {0, 1}
    PROVE  LET b == [start |-> start, size |-> size, free |-> free]
           IN  /\ b \in Block /\ b.start = start /\ b.size = size /\ b.free = free
  BY DEF Block

LEMMA BlockChanged ==
    ASSUME NEW b \in Block, NEW size, NEW free
    PROVE  /\ [b EXCEPT !.size = size, !.free = free]
                 = [start |-> b.start, size |-> size, free |-> free]
           /\ [b EXCEPT !.size = size] = [start |-> b.start, size |-> size, free |-> b.free]
           /\ [b EXCEPT !.free = free] = [start |-> b.start, size |-> b.size, free |-> free]
  <1>1. ASSUME NEW A, NEW B, NEW C, NEW r \in [start : A, size : B, free : C], NEW v
        PROVE  /\ [r EXCEPT !.size = v] = [start |-> r.start, size |-> v, free |-> r.free]
               /\ [r EXCEPT !.free = v] = [start |-> r.start, size |-> r.size, free |-> v]
    <2>1. [r EXCEPT !.size = v] = [start |-> r.start, size |-> v, free |-> r.free]
      OBVIOUS
    <2>2. [r EXCEPT !.free = v] = [start |-> r.start, size |-> r.size, free |-> v]
      OBVIOUS
    <2>3. QED
      BY <2>1, <2>2
  <1>2. /\ [b EXCEPT !.size = size] = [start |-> b.start, size |-> size, free |-> b.free]
        /\ [b EXCEPT !.free = free] = [start |-> b.start, size |-> b.size, free |-> free]
    BY <1>1 DEF Block
  <1> DEFINE r == [start |-> b.start, size |-> size, free |-> b.free]
  <1>3. r \in [start : {b.start}, size : {size}, free : {b.free}]
        /\ r.start = b.start /\ r.size = size
    OBVIOUS
  <1> HIDE DEF r
  <1>4. [r EXCEPT !.free = free] = [start |-> b.start, size |-> size, free |-> free]
    <2>1. [r EXCEPT !.free = free] = [start |-> r.start, size |-> r.size, free |-> free]
      BY <1>1, <1>3
    <2>2. QED
      BY <1>3, <2>1, Zenon
  <1>5. [b EXCEPT !.size = size, !.free = free] = [[b EXCEPT !.size = size] EXCEPT !.free = free]
    BY Zenon
  <1>6. [b EXCEPT !.size = size] = r
    BY <1>2 DEF r
  <1>7. QED
    BY <1>2, <1>4, <1>5, <1>6, Zenon

(* t is list with block i replaced by x and y. *)
Splits(list, t, i, x, y) ==
    /\ t \in Seq(Block) /\ Len(t) = Len(list) + 1
    /\ \A j \in 1 .. Len(list) + 1 :
          t[j] = IF j < i THEN list[j] ELSE IF j = i THEN x
                 ELSE IF j = i + 1 THEN y ELSE list[j - 1]

(* t is list with block i replaced by x. *)
Replaces(list, t, i, x) ==
    /\ t \in Seq(Block) /\ Len(t) = Len(list)
    /\ \A j \in 1 .. Len(list) : t[j] = IF j = i THEN x ELSE list[j]

LEMMA TakeCases ==
    ASSUME NEW list \in Seq(Block), NEW i \in 1 .. Len(list), NEW size \in Nat, size > 0,
           list[i].size >= size
    PROVE  LET b == list[i]
               x == [start |-> b.start, size |-> size, free |-> 0]
               y == [start |-> b.start + HEADER + size, size |-> b.size - size - HEADER,
                     free |-> 1]
               z == [start |-> b.start, size |-> b.size, free |-> 0]
           IN  /\ x \in Block /\ z \in Block
               /\ b.size >= size + HEADER + 1 =>
                     y \in Block /\ Splits(list, Take(list, i, size), i, x, y)
               /\ ~ (b.size >= size + HEADER + 1) => Replaces(list, Take(list, i, size), i, z)
  <1> USE BootConstants
  <1> DEFINE b == list[i]
             x == [start |-> b.start, size |-> size, free |-> 0]
             y == [start |-> b.start + HEADER + size, size |-> b.size - size - HEADER,
                   free |-> 1]
             z == [start |-> b.start, size |-> b.size, free |-> 0]
  <1>1. b \in Block /\ Len(list) \in Nat
    OBVIOUS
  <1>2. b.start \in Nat /\ b.size \in Nat /\ b.size > 0 /\ Payload(b) = b.start + HEADER
    BY <1>1, BlockFields
  <1> HIDE DEF b
  <1>3. x \in Block /\ z \in Block
    BY <1>2, BlockMade
  <1>4. ASSUME b.size >= size + HEADER + 1
        PROVE  y \in Block /\ Splits(list, Take(list, i, size), i, x, y)
    <2>1. y \in Block
      <3>1. b.start + HEADER + size \in Nat /\ b.size - size - HEADER \in Nat
            /\ b.size - size - HEADER > 0
        BY <1>2, <1>4
      <3>2. QED
        BY <3>1, BlockMade
    <2>2. [list EXCEPT ![i] = [@ EXCEPT !.size = size, !.free = 0]] = [list EXCEPT ![i] = x]
      <3>1. [list[i] EXCEPT !.size = size, !.free = 0] = x
        BY <1>1, BlockChanged DEF b
      <3>2. QED
        BY <3>1, Zenon
    <2>3. Take(list, i, size) = InsertAt([list EXCEPT ![i] = x], i + 1, y)
      <3>1. Payload(list[i]) = b.start + HEADER
        BY <1>2 DEF b
      <3>2. Take(list, i, size) =
              InsertAt([list EXCEPT ![i] = [@ EXCEPT !.size = size, !.free = 0]], i + 1,
                  [start |-> Payload(list[i]) + size,
                   size |-> list[i].size - size - HEADER, free |-> 1])
        BY <1>4, Zenon DEF Take, b
      <3>3. [start |-> Payload(list[i]) + size,
             size |-> list[i].size - size - HEADER, free |-> 1] = y
        BY <3>1, Zenon DEF b
      <3>4. QED
        BY <2>2, <3>2, <3>3, Zenon
    <2> DEFINE l == [list EXCEPT ![i] = x]
    <2> HIDE DEF x, y
    <2>4. /\ l \in Seq(Block) /\ Len(l) = Len(list)
          /\ \A j \in 1 .. Len(list) : l[j] = IF j = i THEN x ELSE list[j]
      BY <1>3, ExceptSeq
    <2> HIDE DEF l
    <2> DEFINE k == i + 1
    <2>5. k \in 1 .. Len(l) + 1
      BY <1>1, <2>4
    <2> HIDE DEF k
    <2> DEFINE t == InsertAt(l, k, y)
    <2>6. /\ t \in Seq(Block) /\ Len(t) = Len(l) + 1
          /\ \A j \in 1 .. Len(l) + 1 :
                t[j] = IF j < k THEN l[j] ELSE IF j = k THEN y ELSE l[j - 1]
      <3>1. l \in Seq(Block) /\ y \in Block
        BY <2>1, <2>4
      <3>2. IsInsertion(Block, l, k, y, t)
        BY <2>5, <3>1, Inserted
      <3>3. QED
        BY <3>2 DEF IsInsertion
    <2>7. Take(list, i, size) = t
      BY <2>3 DEF l, k
    <2> HIDE DEF t
    <2>8. ASSUME NEW j \in 1 .. Len(list) + 1
          PROVE  t[j] = IF j < i THEN list[j] ELSE IF j = i THEN x
                        ELSE IF j = i + 1 THEN y ELSE list[j - 1]
      <3>1. t[j] = IF j < i + 1 THEN l[j] ELSE IF j = i + 1 THEN y ELSE l[j - 1]
        BY <2>4, <2>6 DEF k
      <3>2. j < i + 1 => j \in 1 .. Len(list)
        BY <1>1
      <3>3. j > i + 1 => j - 1 \in 1 .. Len(list) /\ j - 1 # i
        BY <1>1
      <3>4. QED
        BY <1>1, <2>4, <3>1, <3>2, <3>3
    <2>9. QED
      BY <2>1, <2>4, <2>6, <2>7, <2>8 DEF Splits
  <1>5. ASSUME ~ (b.size >= size + HEADER + 1)
        PROVE  Replaces(list, Take(list, i, size), i, z)
    <2>1. [list EXCEPT ![i].free = 0] = [list EXCEPT ![i] = z]
      <3>1. [list[i] EXCEPT !.free = 0] = z
        BY <1>1, BlockChanged DEF b
      <3>2. QED
        BY <3>1, Zenon
    <2>2. Take(list, i, size) = [list EXCEPT ![i] = z]
      BY <1>5, <2>1, Zenon DEF Take, b
    <2> HIDE DEF z
    <2>3. QED
      BY <1>3, <2>2, ExceptSeq DEF Replaces
  <1>6. QED
    BY <1>3, <1>4, <1>5 DEF b

(* No two neighbours are both free. *)
Merged(list) == \A k \in 1 .. Len(list) - 1 : Apart(list, k)

LEMMA ListFacts ==
    ASSUME NEW list, NEW pointer, ListOK(list, pointer), NEW i \in 1 .. Len(list)
    PROVE  /\ list[i] \in Block /\ Len(list) \in Nat
           /\ list[i].start \in Nat /\ list[i].size \in Nat /\ list[i].size > 0
           /\ list[i].free \in {0, 1}
           /\ Payload(list[i]) = list[i].start + HEADER
           /\ End(list[i]) = list[i].start + HEADER + list[i].size
           /\ BlockIn(list[i], pointer)
  <1>1. list[i] \in Block /\ Len(list) \in Nat
    BY DEF ListOK
  <1>2. QED
    BY <1>1, BlockFields DEF ListOK

LEMMA SplitOK ==
    ASSUME NEW list, NEW pointer \in Nat, ListOK(list, pointer), NEW i \in 1 .. Len(list),
           NEW x \in Block, NEW y \in Block, NEW t, Splits(list, t, i, x, y),
           list[i].free = 1, x.free = 0, y.free = 1,
           x.start = list[i].start, y.start = End(x), End(y) = End(list[i]),
           x.size % WORD = 0, y.size % WORD = 0
    PROVE  /\ ListOK(t, pointer)
           /\ Merged(list) => Merged(t)
           /\ \A a, s : Uses(t, a, s) <=> Uses(list, a, s) \/ (a = Payload(x) /\ s = x.size)
  <1> USE BootConstants
  <1> DEFINE n == Len(list)
  <1>1. n \in Nat /\ list \in Seq(Block) /\ i \in 1 .. n
    BY DEF ListOK
  <1>2. /\ t \in Seq(Block) /\ Len(t) = n + 1
        /\ \A j \in 1 .. n + 1 :
              t[j] = IF j < i THEN list[j] ELSE IF j = i THEN x
                     ELSE IF j = i + 1 THEN y ELSE list[j - 1]
    BY DEF Splits
  <1>3. /\ \A j \in 1 .. i - 1 : t[j] = list[j]
        /\ t[i] = x /\ t[i + 1] = y
        /\ \A j \in i + 2 .. n + 1 : t[j] = list[j - 1]
    BY <1>1, <1>2
  <1>4. /\ x.start \in Nat /\ y.start \in Nat /\ End(x) \in Nat /\ End(y) \in Nat
        /\ x.start < End(x) /\ y.start < End(y)
    <2>1. \A b \in Block : b.start \in Nat /\ End(b) \in Nat /\ b.start < End(b)
      BY BlockFields
    <2>2. QED
      BY <2>1, Zenon
  <1>5. \A j \in 1 .. n : /\ list[j].start \in Nat /\ End(list[j]) \in Nat
                          /\ BlockIn(list[j], pointer) /\ list[j].free \in {0, 1}
    <2>1. \A j \in 1 .. n : list[j] \in Block /\ BlockIn(list[j], pointer)
      BY DEF ListOK
    <2>2. QED
      BY <2>1, BlockFields
  <1>6. /\ \A j, k \in 1 .. n : j < k => End(list[j]) <= list[k].start
        /\ list[1].start = HeapStart /\ End(list[n]) = pointer
        /\ \A j \in 1 .. n - 1 : list[j + 1].start = End(list[j])
    BY <1>1 DEF ListOK, Ordered, Tiled
  <1> HIDE DEF n
  <1>7. ASSUME NEW j \in 1 .. n + 1
        PROVE  \/ j \in 1 .. i - 1 \/ j = i \/ j = i + 1 \/ j \in i + 2 .. n + 1
    BY <1>1
  <1>8. \A j \in 1 .. n + 1 : BlockIn(t[j], pointer)
    <2> SUFFICES ASSUME NEW j \in 1 .. n + 1 PROVE BlockIn(t[j], pointer)
      OBVIOUS
    <2>1. BlockIn(x, pointer) /\ BlockIn(y, pointer)
      BY <1>1, <1>4, <1>5 DEF BlockIn
    <2>2. j \in i + 2 .. n + 1 => j - 1 \in 1 .. n
      BY <1>1
    <2>3. j \in 1 .. i - 1 => j \in 1 .. n
      BY <1>1
    <2>4. QED
      BY <1>3, <1>5, <1>7, <2>1, <2>2, <2>3
  <1>9. Ordered(t)
    <2> DEFINE old(j) == IF j <= i THEN j ELSE j - 1
    <2>1. ASSUME NEW j \in 1 .. n + 1
          PROVE  /\ old(j) \in 1 .. n /\ t[j].start >= list[old(j)].start
                 /\ End(t[j]) <= End(list[old(j)])
                 /\ t[j].start \in Nat /\ End(t[j]) \in Nat
      <3>1. CASE j \in 1 .. i - 1
        <4>1. old(j) = j /\ j \in 1 .. n
          BY <1>1, <3>1
        <4>2. QED
          BY <1>3, <1>5, <3>1, <4>1
      <3>2. CASE j = i
        <4>1. old(j) = i
          BY <1>1, <3>2
        <4>2. QED
          BY <1>1, <1>3, <1>4, <1>5, <3>2, <4>1
      <3>3. CASE j = i + 1
        <4>1. old(j) = i
          BY <1>1, <3>3
        <4>2. QED
          BY <1>1, <1>3, <1>4, <1>5, <3>3, <4>1
      <3>4. CASE j \in i + 2 .. n + 1
        <4>1. old(j) = j - 1 /\ j - 1 \in 1 .. n
          BY <1>1, <3>4
        <4>2. QED
          BY <1>3, <1>5, <3>4, <4>1
      <3>5. QED
        BY <1>7, <3>1, <3>2, <3>3, <3>4
    <2>2. ASSUME NEW j \in 1 .. n + 1, NEW k \in 1 .. n + 1, j < k
          PROVE  End(t[j]) <= t[k].start
      <3>1. CASE j = i /\ k = i + 1
        BY <1>3, <1>4, <3>1
      <3>2. CASE ~ (j = i /\ k = i + 1)
        <4>1. old(j) < old(k)
          BY <1>1, <2>2, <3>2
        <4> HIDE DEF old
        <4>2. End(list[old(j)]) <= list[old(k)].start
          BY <1>6, <2>1, <4>1
        <4>3. list[old(k)].start \in Nat /\ End(list[old(j)]) \in Nat
          BY <1>5, <2>1
        <4>4. QED
          BY <2>1, <4>2, <4>3
      <3>3. QED
        BY <3>1, <3>2
    <2>3. QED
      BY <1>2, <2>2 DEF Ordered
  <1>10. Tiled(t, pointer)
    <2>1. t[1].start = HeapStart
      <3>1. CASE i = 1
        BY <1>3, <1>6, <3>1
      <3>2. CASE i # 1
        <4>1. 1 \in 1 .. i - 1
          BY <1>1, <3>2
        <4>2. QED
          BY <1>3, <1>6, <4>1
      <3>3. QED
        BY <3>1, <3>2
    <2>2. End(t[n + 1]) = pointer
      <3>1. CASE i = n
        BY <1>3, <1>6, <3>1
      <3>2. CASE i # n
        <4>1. n + 1 \in i + 2 .. n + 1 /\ (n + 1) - 1 = n
          BY <1>1, <3>2
        <4>2. QED
          BY <1>3, <1>6, <4>1
      <3>3. QED
        BY <3>1, <3>2
    <2>3. ASSUME NEW j \in 1 .. n PROVE t[j + 1].start = End(t[j])
      <3>1. CASE j + 1 \in 1 .. i - 1
        <4>1. j \in 1 .. i - 1 /\ j \in 1 .. n - 1
          BY <1>1, <3>1
        <4>2. QED
          BY <1>3, <1>6, <3>1, <4>1
      <3>2. CASE j + 1 = i
        <4>1. j \in 1 .. i - 1 /\ j \in 1 .. n - 1 /\ j \in 1 .. n
          BY <1>1, <3>2
        <4>2. list[i].start = End(list[j])
          BY <1>6, <3>2, <4>1
        <4>3. QED
          BY <1>3, <3>2, <4>1, <4>2
      <3>3. CASE j = i
        BY <1>3, <3>3
      <3>4. CASE j = i + 1
        <4>1. j + 1 \in i + 2 .. n + 1 /\ (j + 1) - 1 = i + 1 /\ i \in 1 .. n - 1
          BY <1>1, <3>4
        <4>2. t[j + 1] = list[i + 1] /\ list[i + 1].start = End(list[i])
          BY <1>3, <1>6, <4>1
        <4>3. QED
          BY <1>3, <3>4, <4>2
      <3>5. CASE j \in i + 2 .. n + 1
        <4>1. /\ j + 1 \in i + 2 .. n + 1 /\ (j + 1) - 1 = j /\ j - 1 \in 1 .. n - 1
              /\ (j - 1) + 1 = j
          BY <1>1, <3>5
        <4>2. t[j + 1] = list[j] /\ t[j] = list[j - 1]
          BY <1>3, <3>5, <4>1
        <4>3. list[(j - 1) + 1].start = End(list[j - 1])
          BY <1>6, <4>1
        <4>4. QED
          BY <4>1, <4>2, <4>3
      <3>6. QED
        BY <1>1, <3>1, <3>2, <3>3, <3>4, <3>5
    <2>4. Len(t) = n + 1 /\ Len(t) - 1 = n /\ Len(t) > 0
      BY <1>1, <1>2
    <2>5. QED
      BY <2>1, <2>2, <2>3, <2>4 DEF Tiled
  <1>11. ASSUME Merged(list) PROVE Merged(t)
    <2>1. ASSUME NEW j \in 1 .. n PROVE Apart(t, j)
      <3>1. CASE j + 1 \in 1 .. i - 1
        <4>1. j \in 1 .. i - 1 /\ j \in 1 .. n - 1
          BY <1>1, <3>1
        <4>2. Apart(list, j)
          BY <1>11, <4>1 DEF Merged, n
        <4>3. QED
          BY <1>3, <3>1, <4>1, <4>2 DEF Apart
      <3>2. CASE j + 1 = i \/ j = i
        BY <1>1, <1>3, <3>2 DEF Apart
      <3>4. CASE j = i + 1
        <4>1. j + 1 \in i + 2 .. n + 1 /\ (j + 1) - 1 = i + 1 /\ i \in 1 .. n - 1
          BY <1>1, <3>4
        <4>2. t[j + 1] = list[i + 1] /\ Apart(list, i)
          BY <1>3, <1>11, <4>1 DEF Merged, n
        <4>3. QED
          BY <1>3, <3>4, <4>2 DEF Apart
      <3>5. CASE j \in i + 2 .. n + 1
        <4>1. /\ j + 1 \in i + 2 .. n + 1 /\ (j + 1) - 1 = j /\ j - 1 \in 1 .. n - 1
              /\ (j - 1) + 1 = j
          BY <1>1, <3>5
        <4>2. t[j + 1] = list[j] /\ t[j] = list[j - 1]
          BY <1>3, <3>5, <4>1
        <4>3. Apart(list, j - 1)
          BY <1>11, <4>1 DEF Merged, n
        <4>4. QED
          BY <4>1, <4>2, <4>3 DEF Apart
      <3>6. QED
        BY <1>1, <3>1, <3>2, <3>4, <3>5
    <2>2. Len(t) - 1 = n
      BY <1>1, <1>2
    <2>3. QED
      BY <2>1, <2>2 DEF Merged
  <1>12. ASSUME NEW a, NEW s
         PROVE  Uses(t, a, s) <=> Uses(list, a, s) \/ (a = Payload(x) /\ s = x.size)
    <2>1. ASSUME NEW j \in 1 .. n + 1, t[j].free = 0, Payload(t[j]) = a, t[j].size = s
          PROVE  Uses(list, a, s) \/ (a = Payload(x) /\ s = x.size)
      <3>1. CASE j \in 1 .. i - 1
        <4>1. j \in 1 .. Len(list) /\ t[j] = list[j]
          BY <1>1, <1>3, <3>1 DEF n
        <4>2. QED
          BY <2>1, <4>1 DEF Uses
      <3>2. CASE j = i \/ j = i + 1
        BY <1>3, <2>1, <3>2
      <3>3. CASE j \in i + 2 .. n + 1
        <4>1. j - 1 \in 1 .. Len(list) /\ t[j] = list[j - 1]
          BY <1>1, <1>3, <3>3 DEF n
        <4>2. QED
          BY <2>1, <4>1 DEF Uses
      <3>4. QED
        BY <1>7, <3>1, <3>2, <3>3
    <2>2. ASSUME NEW j \in 1 .. n, list[j].free = 0, Payload(list[j]) = a, list[j].size = s
          PROVE  Uses(t, a, s)
      <3>1. CASE j \in 1 .. i - 1
        <4>1. j \in 1 .. Len(t) /\ t[j] = list[j]
          BY <1>1, <1>2, <1>3, <3>1
        <4>2. QED
          BY <2>2, <4>1 DEF Uses
      <3>2. CASE j \in i + 1 .. n
        <4>1. j + 1 \in i + 2 .. n + 1 /\ j + 1 \in 1 .. Len(t) /\ (j + 1) - 1 = j
          BY <1>1, <1>2, <3>2
        <4>2. t[j + 1] = list[j]
          BY <1>3, <4>1
        <4>3. QED
          BY <2>2, <4>1, <4>2 DEF Uses
      <3>3. QED
        BY <1>1, <2>2, <3>1, <3>2
    <2>3. ASSUME a = Payload(x), s = x.size PROVE Uses(t, a, s)
      <3>1. i \in 1 .. Len(t)
        BY <1>1, <1>2
      <3>2. QED
        BY <1>3, <2>3, <3>1 DEF Uses
    <2>4. QED
      BY <1>2, <2>1, <2>2, <2>3 DEF Uses, n
  <1>13. ListOK(t, pointer)
    BY <1>2, <1>8, <1>9, <1>10 DEF ListOK
  <1>14. QED
    BY <1>11, <1>12, <1>13

(* A payload address belongs to one block. *)
LEMMA PayloadUnique ==
    ASSUME NEW list, NEW pointer, ListOK(list, pointer), NEW i \in 1 .. Len(list),
           NEW j \in 1 .. Len(list), Payload(list[i]) = Payload(list[j])
    PROVE  i = j
  <1> USE BootConstants
  <1>1. ASSUME NEW k \in 1 .. Len(list)
        PROVE  /\ list[k].start \in Nat /\ list[k].start < End(list[k]) /\ End(list[k]) \in Nat
               /\ Payload(list[k]) = list[k].start + HEADER
    <2>1. list[k] \in Block
      BY DEF ListOK
    <2>2. QED
      BY <2>1, BlockFields
  <1>2. list[i].start = list[j].start
    BY <1>1
  <1>3. \A k, l \in 1 .. Len(list) : k < l => End(list[k]) <= list[l].start
    BY DEF ListOK, Ordered
  <1>4. i \in Int /\ j \in Int
    BY DEF ListOK
  <1>5. ~ (i < j) /\ ~ (j < i)
    BY <1>1, <1>2, <1>3
  <1>6. QED
    BY <1>4, <1>5

LEMMA ReplaceOK ==
    ASSUME NEW list, NEW pointer \in Nat, ListOK(list, pointer), NEW i \in 1 .. Len(list),
           NEW x \in Block, x.start = list[i].start, x.size = list[i].size,
           NEW t, Replaces(list, t, i, x)
    PROVE  /\ ListOK(t, pointer)
           /\ list[i].free = 1 /\ x.free = 0 =>
                 /\ \A a, s : Uses(t, a, s) <=> Uses(list, a, s) \/ (a = Payload(x) /\ s = x.size)
                 /\ Merged(list) => Merged(t)
           /\ list[i].free = 0 /\ x.free = 1 =>
                 \A a, s : Uses(t, a, s) <=> Uses(list, a, s) /\ a # Payload(list[i])
  <1> USE BootConstants
  <1> DEFINE n == Len(list)
  <1>1. n \in Nat /\ list \in Seq(Block) /\ i \in 1 .. n
    BY DEF ListOK
  <1>2. /\ t \in Seq(Block) /\ Len(t) = n
        /\ \A j \in 1 .. n : t[j] = IF j = i THEN x ELSE list[j]
    BY DEF Replaces
  <1>3. Payload(x) = Payload(list[i]) /\ End(x) = End(list[i])
    BY DEF Payload, End
  <1>4. ASSUME NEW j \in 1 .. n
        PROVE  /\ t[j].start = list[j].start /\ t[j].size = list[j].size
               /\ Payload(t[j]) = Payload(list[j]) /\ End(t[j]) = End(list[j])
               /\ j # i => t[j] = list[j]
    BY <1>2, <1>3
  <1>5. ListOK(t, pointer)
    <2>1. \A j \in 1 .. n : BlockIn(t[j], pointer)
      BY <1>4 DEF ListOK, BlockIn
    <2>2. Ordered(t)
      <3>1. \A j, k \in 1 .. n : j < k => End(list[j]) <= list[k].start
        BY DEF ListOK, Ordered
      <3>2. QED
        BY <1>2, <1>4, <3>1 DEF Ordered
    <2>3. Tiled(t, pointer)
      <3>1. /\ list[1].start = HeapStart /\ End(list[n]) = pointer
            /\ \A j \in 1 .. n - 1 : list[j + 1].start = End(list[j])
        BY <1>1 DEF ListOK, Tiled
      <3>2. t[1].start = HeapStart /\ End(t[n]) = pointer
        BY <1>1, <1>4, <3>1
      <3>3. ASSUME NEW j \in 1 .. n - 1 PROVE t[j + 1].start = End(t[j])
        <4>1. j \in 1 .. n /\ j + 1 \in 1 .. n
          BY <1>1
        <4>2. QED
          BY <1>4, <3>1, <4>1
      <3>4. n # 0
        BY <1>1
      <3>5. QED
        BY <1>2, <3>2, <3>3, <3>4 DEF Tiled
    <2>4. QED
      BY <1>2, <2>1, <2>2, <2>3 DEF ListOK
  <1>6. ASSUME list[i].free = 1, x.free = 0
        PROVE  /\ \A a, s : Uses(t, a, s) <=> Uses(list, a, s) \/ (a = Payload(x) /\ s = x.size)
               /\ Merged(list) => Merged(t)
    <2>1. \A a, s : Uses(t, a, s) <=> Uses(list, a, s) \/ (a = Payload(x) /\ s = x.size)
      <3> SUFFICES ASSUME NEW a, NEW s
                   PROVE  Uses(t, a, s) <=> Uses(list, a, s) \/ (a = Payload(x) /\ s = x.size)
        OBVIOUS
      <3>1. ASSUME Uses(t, a, s)
            PROVE  Uses(list, a, s) \/ (a = Payload(x) /\ s = x.size)
        <4>1. PICK j \in 1 .. n : t[j].free = 0 /\ Payload(t[j]) = a /\ t[j].size = s
          BY <1>2, <3>1 DEF Uses
        <4>2. QED
          BY <1>2, <4>1 DEF Uses
      <3>2. ASSUME Uses(list, a, s) PROVE Uses(t, a, s)
        <4>1. PICK j \in 1 .. n : list[j].free = 0 /\ Payload(list[j]) = a /\ list[j].size = s
          BY <3>2 DEF Uses
        <4>2. j # i
          BY <1>6, <4>1
        <4>3. QED
          BY <1>2, <4>1, <4>2 DEF Uses
      <3>3. ASSUME a = Payload(x), s = x.size PROVE Uses(t, a, s)
        <4>1. i \in 1 .. Len(t) /\ t[i] = x
          BY <1>1, <1>2
        <4>2. QED
          BY <1>6, <3>3, <4>1 DEF Uses
      <3>4. QED
        BY <3>1, <3>2, <3>3
    <2>2. ASSUME Merged(list) PROVE Merged(t)
      <3>1. ASSUME NEW j \in 1 .. n - 1 PROVE Apart(t, j)
        <4>1. j \in 1 .. n /\ j + 1 \in 1 .. n
          BY <1>1
        <4>2. Apart(list, j)
          BY <2>2 DEF Merged
        <4>3. QED
          BY <1>2, <1>6, <4>1, <4>2 DEF Apart
      <3>2. QED
        BY <1>2, <3>1 DEF Merged
    <2>3. QED
      BY <2>1, <2>2
  <1>7. ASSUME list[i].free = 0, x.free = 1
        PROVE  \A a, s : Uses(t, a, s) <=> Uses(list, a, s) /\ a # Payload(list[i])
    <2> SUFFICES ASSUME NEW a, NEW s
                 PROVE  Uses(t, a, s) <=> Uses(list, a, s) /\ a # Payload(list[i])
      OBVIOUS
    <2>1. ASSUME Uses(t, a, s) PROVE Uses(list, a, s) /\ a # Payload(list[i])
      <3>1. PICK j \in 1 .. n : t[j].free = 0 /\ Payload(t[j]) = a /\ t[j].size = s
        BY <1>2, <2>1 DEF Uses
      <3>2. j # i /\ t[j] = list[j]
        BY <1>2, <1>7, <3>1
      <3>3. Payload(list[j]) # Payload(list[i])
        BY <3>2, PayloadUnique
      <3>4. QED
        BY <3>1, <3>2, <3>3 DEF Uses
    <2>2. ASSUME Uses(list, a, s), a # Payload(list[i]) PROVE Uses(t, a, s)
      <3>1. PICK j \in 1 .. n : list[j].free = 0 /\ Payload(list[j]) = a /\ list[j].size = s
        BY <2>2 DEF Uses
      <3>2. j # i
        BY <2>2, <3>1
      <3>3. QED
        BY <1>2, <3>1, <3>2 DEF Uses
    <2>3. QED
      BY <2>1, <2>2
  <1>8. QED
    BY <1>5, <1>6, <1>7

(* Taking a free block that is large enough. *)
LEMMA TakeOK ==
    ASSUME NEW list, NEW pointer \in Nat, ListOK(list, pointer), NEW i \in 1 .. Len(list),
           list[i].free = 1, NEW size \in Nat, size > 0, size % WORD = 0, list[i].size >= size
    PROVE  /\ ListOK(Take(list, i, size), pointer)
           /\ Merged(list) => Merged(Take(list, i, size))
           /\ \E given \in Nat :
                 /\ given >= size /\ Payload(list[i]) + given <= End(list[i])
                 /\ \A a, s : Uses(Take(list, i, size), a, s)
                                <=> Uses(list, a, s) \/ (a = Payload(list[i]) /\ s = given)
  <1> USE BootConstants
  <1> DEFINE b == list[i]
             x == [start |-> b.start, size |-> size, free |-> 0]
             y == [start |-> b.start + HEADER + size, size |-> b.size - size - HEADER,
                   free |-> 1]
             z == [start |-> b.start, size |-> b.size, free |-> 0]
             t == Take(list, i, size)
  <1>1. /\ b \in Block /\ b.start \in Nat /\ b.size \in Nat /\ b.size > 0
        /\ End(b) = b.start + HEADER + b.size /\ Payload(b) = b.start + HEADER
        /\ b.size % WORD = 0
    BY ListFacts DEF BlockIn
  <1>2. list \in Seq(Block)
    BY DEF ListOK
  <1>3. /\ x \in Block /\ z \in Block
        /\ b.size >= size + HEADER + 1 => y \in Block /\ Splits(list, t, i, x, y)
        /\ ~ (b.size >= size + HEADER + 1) => Replaces(list, t, i, z)
    BY <1>2, TakeCases
  <1>4. CASE b.size >= size + HEADER + 1
    <2>1. /\ x.free = 0 /\ x.start = b.start /\ x.size = size /\ y.free = 1
          /\ y.start = b.start + HEADER + size /\ y.size = b.size - size - HEADER
      OBVIOUS
    <2>2. y \in Block /\ Splits(list, t, i, x, y)
      BY <1>3, <1>4
    <2> HIDE DEF x, y, t, b
    <2>3. /\ End(x) = b.start + HEADER + size /\ Payload(x) = Payload(b)
          /\ End(y) = End(b)
      BY <1>1, <2>1 DEF End, Payload
    <2>4. y.size % WORD = 0
      <3>1. b.size >= size /\ (b.size - size) \in Nat /\ b.size - size >= HEADER
        BY <1>1, <1>4
      <3>2. (b.size - size) % WORD = 0
        BY <1>1, <3>1, Multiples
      <3>3. ((b.size - size) - HEADER) % WORD = 0
        BY <3>1, <3>2, Multiples
      <3>4. QED
        BY <2>1, <3>3
    <2>5. /\ ListOK(t, pointer) /\ (Merged(list) => Merged(t))
          /\ \A a, s : Uses(t, a, s) <=> Uses(list, a, s) \/ (a = Payload(x) /\ s = x.size)
      BY <1>3, <2>1, <2>2, <2>3, <2>4, SplitOK DEF b
    <2>6. Payload(b) + size <= End(b)
      BY <1>1, <1>4
    <2>7. QED
      BY <2>1, <2>3, <2>5, <2>6 DEF b, t
  <1>5. CASE ~ (b.size >= size + HEADER + 1)
    <2>1. z.free = 0 /\ z.start = b.start /\ z.size = b.size
      OBVIOUS
    <2>2. Replaces(list, t, i, z)
      BY <1>3, <1>5
    <2> HIDE DEF z, t, b
    <2>3. Payload(z) = Payload(b)
      BY <2>1 DEF Payload
    <2>4. /\ ListOK(t, pointer) /\ (Merged(list) => Merged(t))
          /\ \A a, s : Uses(t, a, s) <=> Uses(list, a, s) \/ (a = Payload(z) /\ s = z.size)
      BY <1>3, <2>1, <2>2, ReplaceOK DEF b
    <2>5. Payload(b) + b.size <= End(b) /\ b.size >= size
      BY <1>1 DEF b
    <2>6. QED
      BY <1>1, <2>1, <2>3, <2>4, <2>5 DEF b, t
  <1>6. QED
    BY <1>4, <1>5

(* A new block behind the last. *)
LEMMA AppendOK ==
    ASSUME NEW list, NEW pointer \in Nat, pointer >= HeapStart, ListOK(list, pointer),
           NEW size \in Nat, size > 0, size % WORD = 0,
           NEW x, x = [start |-> pointer, size |-> size, free |-> 0]
    PROVE  /\ ListOK(Append(list, x), End(x))
           /\ Merged(list) => Merged(Append(list, x))
           /\ \A a, s : Uses(Append(list, x), a, s)
                          <=> Uses(list, a, s) \/ (a = Payload(x) /\ s = size)
  <1> USE BootConstants
  <1> DEFINE n == Len(list)
             t == Append(list, x)
  <1>1. n \in Nat /\ list \in Seq(Block)
    BY DEF ListOK
  <1>2. x \in Block /\ x.start = pointer /\ x.size = size /\ x.free = 0
    BY BlockMade
  <1>3. /\ End(x) = pointer + HEADER + size /\ End(x) \in Nat /\ Payload(x) = pointer + HEADER
    BY <1>2 DEF End, Payload
  <1>4. /\ t \in Seq(Block) /\ Len(t) = n + 1 /\ t[n + 1] = x
        /\ \A j \in 1 .. n : t[j] = list[j]
    BY <1>1, <1>2
  <1>5. /\ \A j \in 1 .. n : /\ BlockIn(list[j], pointer) /\ End(list[j]) \in Nat
                             /\ list[j].start \in Nat
        /\ \A j, k \in 1 .. n : j < k => End(list[j]) <= list[k].start
        /\ n = 0 => pointer = HeapStart
        /\ n > 0 => list[1].start = HeapStart /\ End(list[n]) = pointer
        /\ \A j \in 1 .. n - 1 : list[j + 1].start = End(list[j])
    <2>1. \A j \in 1 .. n : list[j] \in Block /\ BlockIn(list[j], pointer)
      BY DEF ListOK
    <2>2. \A j \in 1 .. n : End(list[j]) \in Nat /\ list[j].start \in Nat
      BY <2>1, BlockFields
    <2>3. QED
      BY <2>1, <2>2 DEF ListOK, Ordered, Tiled
  <1> HIDE DEF t, n
  <1>6. \A j \in 1 .. n + 1 : j \in 1 .. n \/ j = n + 1
    BY <1>1
  <1>7. \A j \in 1 .. n + 1 : BlockIn(t[j], End(x))
    <2>1. \A j \in 1 .. n : BlockIn(list[j], End(x))
      BY <1>3, <1>5 DEF BlockIn
    <2>2. BlockIn(x, End(x))
      BY <1>2, <1>3 DEF BlockIn
    <2>3. QED
      BY <1>4, <1>6, <2>1, <2>2
  <1>8. Ordered(t)
    <2>1. ASSUME NEW j \in 1 .. n + 1, NEW k \in 1 .. n + 1, j < k
          PROVE  End(t[j]) <= t[k].start
      <3>1. j \in 1 .. n /\ t[j] = list[j]
        BY <1>1, <1>4, <2>1
      <3>2. CASE k = n + 1
        BY <1>2, <1>4, <1>5, <3>1, <3>2 DEF BlockIn
      <3>3. CASE k \in 1 .. n
        BY <1>4, <1>5, <2>1, <3>1, <3>3
      <3>4. QED
        BY <1>6, <3>2, <3>3
    <2>2. QED
      BY <1>4, <2>1 DEF Ordered
  <1>9. Tiled(t, End(x))
    <2>1. t[1].start = HeapStart
      <3>1. CASE n = 0
        BY <1>2, <1>4, <1>5, <3>1
      <3>2. CASE n > 0
        <4>1. 1 \in 1 .. n
          BY <1>1, <3>2
        <4>2. QED
          BY <1>4, <1>5, <3>2, <4>1
      <3>3. QED
        BY <1>1, <3>1, <3>2
    <2>2. ASSUME NEW j \in 1 .. n PROVE t[j + 1].start = End(t[j])
      <3>1. CASE j = n
        BY <1>1, <1>2, <1>4, <1>5, <3>1
      <3>2. CASE j # n
        <4>1. j \in 1 .. n - 1 /\ j + 1 \in 1 .. n
          BY <1>1, <3>2
        <4>2. QED
          BY <1>4, <1>5, <4>1
      <3>3. QED
        BY <3>1, <3>2
    <2>3. Len(t) > 0 /\ Len(t) - 1 = n
      BY <1>1, <1>4
    <2>4. QED
      BY <1>4, <2>1, <2>2, <2>3 DEF Tiled
  <1>10. ASSUME Merged(list) PROVE Merged(t)
    <2>1. ASSUME NEW j \in 1 .. n PROVE Apart(t, j)
      <3>1. CASE j = n
        BY <1>2, <1>4, <3>1 DEF Apart
      <3>2. CASE j # n
        <4>1. j \in 1 .. n - 1 /\ j + 1 \in 1 .. n
          BY <1>1, <3>2
        <4>2. Apart(list, j)
          BY <1>10, <4>1 DEF Merged, n
        <4>3. QED
          BY <1>4, <4>1, <4>2 DEF Apart
      <3>3. QED
        BY <3>1, <3>2
    <2>2. Len(t) - 1 = n
      BY <1>1, <1>4
    <2>3. QED
      BY <2>1, <2>2 DEF Merged
  <1>11. ASSUME NEW a, NEW s
         PROVE  Uses(t, a, s) <=> Uses(list, a, s) \/ (a = Payload(x) /\ s = size)
    <2>1. Uses(t, a, s) <=> \E j \in 1 .. n + 1 : t[j].free = 0 /\ Payload(t[j]) = a /\ t[j].size = s
      BY <1>4 DEF Uses
    <2>2. Uses(list, a, s) <=>
            \E j \in 1 .. n : list[j].free = 0 /\ Payload(list[j]) = a /\ list[j].size = s
      BY DEF Uses, n
    <2>3. \A j \in 1 .. n : j \in 1 .. n + 1
      BY <1>1
    <2>4. n + 1 \in 1 .. n + 1
      BY <1>1
    <2>5. QED
      BY <1>2, <1>4, <1>6, <2>1, <2>2, <2>3, <2>4
  <1>12. QED
    BY <1>4, <1>7, <1>8, <1>9, <1>10, <1>11 DEF ListOK, t

-----------------------------------------------------------------------------
(* Merging blocks k and k + 1. *)
MergeFits(list, k) ==
    /\ k \in 1 .. Len(list) - 1
    /\ list[k].free = 1 /\ list[k + 1].free = 1

(* t is list with blocks k and k + 1 replaced by m. *)
Joins(list, t, k, m) ==
    /\ t \in Seq(Block) /\ Len(t) = Len(list) - 1
    /\ \A j \in 1 .. Len(list) - 1 :
          t[j] = IF j < k THEN list[j] ELSE IF j = k THEN m ELSE list[j + 1]

LEMMA MergeCases ==
    ASSUME NEW list, NEW pointer \in Nat, ListOK(list, pointer), NEW k \in Int
    PROVE  /\ ~ MergeFits(list, k) => Merge(list, k) = list
           /\ MergeFits(list, k) =>
                 LET m == [start |-> list[k].start,
                           size |-> list[k].size + HEADER + list[k + 1].size, free |-> 1]
                 IN  m \in Block /\ Joins(list, Merge(list, k), k, m)
  <1> USE BootConstants
  <1>1. list \in Seq(Block) /\ Len(list) \in Nat /\ DOMAIN list = 1 .. Len(list)
    BY DEF ListOK
  <1>2. {k, k + 1} \subseteq DOMAIN list <=> k \in 1 .. Len(list) - 1
    BY <1>1
  <1>3. ASSUME ~ MergeFits(list, k) PROVE Merge(list, k) = list
    <2>1. ~ ({k, k + 1} \subseteq DOMAIN list /\ list[k].free = 1 /\ list[k + 1].free = 1)
      BY <1>2, <1>3 DEF MergeFits
    <2>2. QED
      BY <2>1, Zenon DEF Merge
  <1>4. ASSUME MergeFits(list, k)
        PROVE  LET m == [start |-> list[k].start,
                         size |-> list[k].size + HEADER + list[k + 1].size, free |-> 1]
               IN  m \in Block /\ Joins(list, Merge(list, k), k, m)
    <2> DEFINE size == list[k].size + HEADER + list[k + 1].size
               m == [start |-> list[k].start, size |-> size, free |-> 1]
    <2>1. /\ k \in 1 .. Len(list) - 1 /\ k \in 1 .. Len(list) /\ k + 1 \in 1 .. Len(list)
          /\ list[k].free = 1 /\ list[k + 1].free = 1
      BY <1>1, <1>4 DEF MergeFits
    <2>2. /\ list[k] \in Block /\ list[k].start \in Nat /\ list[k].size \in Nat
          /\ list[k + 1].size \in Nat
      BY <2>1, ListFacts
    <2>3. size \in Nat /\ size > 0
      BY <2>2
    <2>4. m \in Block
      <3> HIDE DEF size
      <3>1. QED
        BY <2>2, <2>3, BlockMade
    <2>5. heap_blocks_adjacent(list[k], list[k + 1])
      BY <2>1 DEF heap_blocks_adjacent, ListOK, Tiled
    <2>6. Merge(list, k) = RemoveAt([list EXCEPT ![k].size = @ + HEADER + list[k + 1].size], k + 1)
      <3>1. {k, k + 1} \subseteq DOMAIN list
        BY <1>2, <2>1
      <3>2. QED
        BY <2>1, <2>5, <3>1, Zenon DEF Merge
    <2>7. [list EXCEPT ![k].size = @ + HEADER + list[k + 1].size] = [list EXCEPT ![k] = m]
      <3>1. [list[k] EXCEPT !.size = size] = m
        <4>1. [list[k] EXCEPT !.size = size] = [start |-> list[k].start, size |-> size,
                                                free |-> list[k].free]
          BY <2>2, BlockChanged
        <4>2. QED
          BY <2>1, <4>1, Zenon
      <3>2. QED
        BY <3>1, Zenon
    <2> HIDE DEF m, size
    <2> DEFINE l == [list EXCEPT ![k] = m]
    <2>8. /\ l \in Seq(Block) /\ Len(l) = Len(list)
          /\ \A j \in 1 .. Len(list) : l[j] = IF j = k THEN m ELSE list[j]
      BY <1>1, <2>1, <2>4, ExceptSeq
    <2>9. Merge(list, k) = RemoveAt(l, k + 1)
      BY <2>6, <2>7
    <2> HIDE DEF l
    <2> DEFINE i == k + 1
               t == RemoveAt(l, i)
    <2>10. i \in 1 .. Len(l)
      BY <2>1, <2>8
    <2> HIDE DEF i
    <2>11. IsRemoval(Block, l, i, t)
      BY <2>8, <2>10, Removed
    <2>12. Merge(list, k) = t
      BY <2>9 DEF i
    <2> HIDE DEF t
    <2>13. /\ t \in Seq(Block) /\ Len(t) = Len(list) - 1
           /\ \A j \in 1 .. Len(list) - 1 : t[j] = IF j < k + 1 THEN l[j] ELSE l[j + 1]
      BY <2>8, <2>11 DEF IsRemoval, i
    <2>14. ASSUME NEW j \in 1 .. Len(list) - 1
           PROVE  t[j] = IF j < k THEN list[j] ELSE IF j = k THEN m ELSE list[j + 1]
      <3>1. j \in 1 .. Len(list) /\ j + 1 \in 1 .. Len(list)
        BY <1>1
      <3>2. j < k + 1 <=> j < k \/ j = k
        BY <1>1
      <3>3. ~ (j < k + 1) => j + 1 # k
        BY <1>1
      <3>4. QED
        BY <2>8, <2>13, <3>1, <3>2, <3>3
    <2>15. Joins(list, t, k, m)
      BY <2>13, <2>14 DEF Joins
    <2>16. QED
      BY <2>4, <2>12, <2>15 DEF m, size
  <1>5. QED
    BY <1>3, <1>4

LEMMA JoinOK ==
    ASSUME NEW list, NEW pointer \in Nat, ListOK(list, pointer), NEW k \in Int,
           MergeFits(list, k), NEW m \in Block, m.start = list[k].start,
           m.size = list[k].size + HEADER + list[k + 1].size, m.free = 1,
           NEW t, Joins(list, t, k, m)
    PROVE  /\ ListOK(t, pointer)
           /\ \A a, s : Uses(t, a, s) <=> Uses(list, a, s)
           /\ \A j \in 1 .. Len(t) - 1 :
                 /\ j < k /\ Apart(list, j) => Apart(t, j)
                 /\ j >= k /\ Apart(list, j + 1) => Apart(t, j)
  <1> USE BootConstants
  <1> DEFINE n == Len(list)
  <1>1. /\ n \in Nat /\ list \in Seq(Block) /\ k \in 1 .. n - 1
        /\ k \in 1 .. n /\ k + 1 \in 1 .. n /\ list[k].free = 1 /\ list[k + 1].free = 1
    BY DEF ListOK, MergeFits
  <1>2. /\ t \in Seq(Block) /\ Len(t) = n - 1
        /\ \A j \in 1 .. n - 1 :
              t[j] = IF j < k THEN list[j] ELSE IF j = k THEN m ELSE list[j + 1]
    BY DEF Joins
  <1>3. /\ \A j \in 1 .. k - 1 : t[j] = list[j]
        /\ t[k] = m
        /\ \A j \in k + 1 .. n - 1 : t[j] = list[j + 1]
    <2>1. \A j \in 1 .. k - 1 : j \in 1 .. n - 1 /\ j < k
      BY <1>1
    <2>2. \A j \in k + 1 .. n - 1 : j \in 1 .. n - 1 /\ ~ (j < k) /\ j # k
      BY <1>1
    <2>3. k \in 1 .. n - 1 /\ ~ (k < k)
      BY <1>1
    <2> HIDE DEF n
    <2>4. \A j \in 1 .. k - 1 : t[j] = list[j]
      BY <1>2, <2>1
    <2>5. t[k] = m
      BY <1>2, <2>3
    <2>6. \A j \in k + 1 .. n - 1 : t[j] = list[j + 1]
      BY <1>2, <2>2
    <2>7. QED
      BY <2>4, <2>5, <2>6
  <1>4. \A j \in 1 .. n : /\ list[j].start \in Nat /\ End(list[j]) \in Nat
                          /\ list[j].size \in Nat
                          /\ End(list[j]) = list[j].start + HEADER + list[j].size
                          /\ BlockIn(list[j], pointer)
    <2>1. \A j \in 1 .. n : list[j] \in Block /\ BlockIn(list[j], pointer)
      BY DEF ListOK
    <2>2. QED
      BY <2>1, BlockFields
  <1>5. /\ \A j, i \in 1 .. n : j < i => End(list[j]) <= list[i].start
        /\ list[1].start = HeapStart /\ End(list[n]) = pointer
        /\ \A j \in 1 .. n - 1 : list[j + 1].start = End(list[j])
    BY <1>1 DEF ListOK, Ordered, Tiled
  <1>6. End(m) = End(list[k + 1]) /\ m.start \in Nat /\ End(m) \in Nat
    <2>1. End(m) = m.start + HEADER + m.size
      BY BlockFields
    <2>2. /\ list[k].start \in Nat /\ list[k].size \in Nat /\ list[k + 1].size \in Nat
          /\ End(list[k]) = list[k].start + HEADER + list[k].size
          /\ End(list[k + 1]) = list[k + 1].start + HEADER + list[k + 1].size
          /\ list[k + 1].start = End(list[k])
      BY <1>1, <1>4, <1>5
    <2>3. End(list[k + 1]) = list[k].start + HEADER + list[k].size + HEADER + list[k + 1].size
      BY <2>2
    <2>4. End(m) = list[k].start + HEADER + (list[k].size + HEADER + list[k + 1].size)
      BY <2>1
    <2>5. QED
      BY <2>2, <2>3, <2>4
  <1> HIDE DEF n
  <1>7. ASSUME NEW j \in 1 .. n - 1
        PROVE  j \in 1 .. k - 1 \/ j = k \/ j \in k + 1 .. n - 1
    BY <1>1
  <1> DEFINE low(j) == IF j <= k THEN j ELSE j + 1
             high(j) == IF j < k THEN j ELSE j + 1
  <1>8. ASSUME NEW j \in 1 .. n - 1
        PROVE  /\ low(j) \in 1 .. n /\ high(j) \in 1 .. n
               /\ t[j].start = list[low(j)].start /\ End(t[j]) = End(list[high(j)])
    <2>1. CASE j \in 1 .. k - 1
      <3>1. low(j) = j /\ high(j) = j /\ j \in 1 .. n
        BY <1>1, <2>1
      <3>2. QED
        BY <1>3, <2>1, <3>1
    <2>2. CASE j = k
      <3>1. low(j) = k /\ high(j) = k + 1
        BY <1>1, <2>2
      <3>2. QED
        BY <1>1, <1>3, <1>6, <2>2, <3>1
    <2>3. CASE j \in k + 1 .. n - 1
      <3>1. low(j) = j + 1 /\ high(j) = j + 1 /\ j + 1 \in 1 .. n
        BY <1>1, <2>3
      <3>2. QED
        BY <1>3, <2>3, <3>1
    <2>4. QED
      BY <1>7, <2>1, <2>2, <2>3
  <1>9. \A j \in 1 .. n - 1 : BlockIn(t[j], pointer)
    <2> SUFFICES ASSUME NEW j \in 1 .. n - 1 PROVE BlockIn(t[j], pointer)
      OBVIOUS
    <2>1. HeapStart <= t[j].start /\ End(t[j]) <= pointer
      <3> HIDE DEF low, high
      <3>1. QED
        BY <1>4, <1>8 DEF BlockIn
    <2>2. m.size % WORD = 0
      <3>1. list[k].size % WORD = 0 /\ list[k + 1].size % WORD = 0
        BY <1>1, <1>4 DEF BlockIn
      <3>2. list[k].size \in Nat /\ list[k + 1].size \in Nat
        BY <1>1, <1>4
      <3>3. \A a, b \in Nat : a % WORD = 0 /\ b % WORD = 0 => (a + HEADER + b) % WORD = 0
        <4> SUFFICES ASSUME NEW a \in Nat, NEW b \in Nat, a % WORD = 0, b % WORD = 0
                     PROVE  (a + HEADER + b) % WORD = 0
          OBVIOUS
        <4>1. a + HEADER \in Nat /\ HEADER \in Nat /\ HEADER % WORD = 0
          OBVIOUS
        <4>2. (a + HEADER) % WORD = 0
          BY <4>1, Multiples
        <4> DEFINE c == a + HEADER
        <4>3. c \in Nat /\ c % WORD = 0
          BY <4>1, <4>2
        <4> HIDE DEF c
        <4>4. (c + b) % WORD = 0
          BY <4>3, Multiples
        <4>5. QED
          BY <4>4 DEF c
      <3>4. (list[k].size + HEADER + list[k + 1].size) % WORD = 0
        BY <3>1, <3>2, <3>3, Zenon
      <3>5. QED
        BY <3>4, Zenon
    <2>3. t[j].size % WORD = 0
      <3>1. j \in 1 .. k - 1 => j \in 1 .. n
        BY <1>1
      <3>2. j \in k + 1 .. n - 1 => j + 1 \in 1 .. n
        BY <1>1
      <3>3. QED
        BY <1>3, <1>4, <1>7, <2>2, <3>1, <3>2 DEF BlockIn
    <2>4. QED
      BY <2>1, <2>3 DEF BlockIn
  <1>10. Ordered(t)
    <2>1. ASSUME NEW j \in 1 .. n - 1, NEW i \in 1 .. n - 1, j < i
          PROVE  End(t[j]) <= t[i].start
      <3>1. high(j) < low(i)
        BY <1>1, <2>1
      <3> HIDE DEF low, high
      <3>2. QED
        BY <1>5, <1>8, <3>1
    <2>2. QED
      BY <1>2, <2>1 DEF Ordered
  <1>11. Tiled(t, pointer)
    <2>1. 1 \in 1 .. n - 1 /\ n - 1 \in 1 .. n - 1 /\ low(1) = 1 /\ high(n - 1) = n
      BY <1>1
    <2>2. t[1].start = HeapStart /\ End(t[n - 1]) = pointer
      <3> HIDE DEF low, high
      <3>1. QED
        BY <1>5, <1>8, <2>1
    <2>3. ASSUME NEW j \in 1 .. n - 2 PROVE t[j + 1].start = End(t[j])
      <3>1. /\ j \in 1 .. n - 1 /\ j + 1 \in 1 .. n - 1 /\ low(j + 1) = high(j) + 1
            /\ high(j) \in 1 .. n - 1
        BY <1>1
      <3> HIDE DEF low, high
      <3>2. QED
        BY <1>5, <1>8, <3>1
    <2>4. Len(t) = n - 1 /\ Len(t) > 0 /\ Len(t) - 1 = n - 2
      BY <1>1, <1>2
    <2>5. QED
      BY <2>2, <2>3, <2>4 DEF Tiled
  <1>12. ASSUME NEW a, NEW s PROVE Uses(t, a, s) <=> Uses(list, a, s)
    <2>1. ASSUME NEW j \in 1 .. n - 1, t[j].free = 0, Payload(t[j]) = a, t[j].size = s
          PROVE  Uses(list, a, s)
      <3>1. CASE j \in 1 .. k - 1
        <4>1. j \in 1 .. Len(list) /\ t[j] = list[j]
          BY <1>1, <1>3, <3>1 DEF n
        <4>2. QED
          BY <2>1, <4>1 DEF Uses
      <3>2. CASE j \in k + 1 .. n - 1
        <4>1. j + 1 \in 1 .. Len(list) /\ t[j] = list[j + 1]
          BY <1>1, <1>3, <3>2 DEF n
        <4>2. QED
          BY <2>1, <4>1 DEF Uses
      <3>3. QED
        BY <1>3, <1>7, <2>1, <3>1, <3>2
    <2>2. ASSUME NEW j \in 1 .. n, list[j].free = 0, Payload(list[j]) = a, list[j].size = s
          PROVE  Uses(t, a, s)
      <3>1. CASE j \in 1 .. k - 1
        <4>1. j \in 1 .. Len(t) /\ t[j] = list[j]
          BY <1>1, <1>2, <1>3, <3>1
        <4>2. QED
          BY <2>2, <4>1 DEF Uses
      <3>2. CASE j \in k + 2 .. n
        <4>1. j - 1 \in k + 1 .. n - 1 /\ j - 1 \in 1 .. Len(t) /\ (j - 1) + 1 = j
          BY <1>1, <1>2, <3>2
        <4>2. t[j - 1] = list[j]
          BY <1>3, <4>1
        <4>3. QED
          BY <2>2, <4>1, <4>2 DEF Uses
      <3>3. QED
        BY <1>1, <2>2, <3>1, <3>2
    <2>3. QED
      BY <1>2, <2>1, <2>2 DEF Uses, n
  <1>13. ASSUME NEW j \in 1 .. Len(t) - 1
         PROVE  /\ j < k /\ Apart(list, j) => Apart(t, j)
                /\ j >= k /\ Apart(list, j + 1) => Apart(t, j)
    <2>1. j \in 1 .. n - 1 /\ j + 1 \in 1 .. n - 1 /\ Len(t) - 1 = n - 2
      BY <1>1, <1>2
    <2>2. ASSUME j < k, Apart(list, j) PROVE Apart(t, j)
      <3>1. t[j] = list[j] /\ (t[j + 1] = list[j + 1] \/ j + 1 = k)
        BY <1>1, <1>2, <2>1, <2>2
      <3>2. QED
        BY <1>1, <2>2, <3>1 DEF Apart
    <2>3. ASSUME j >= k, Apart(list, j + 1) PROVE Apart(t, j)
      <3>1. t[j + 1] = list[j + 1 + 1] /\ (t[j] = list[j + 1] \/ j = k)
        BY <1>1, <1>2, <2>1, <2>3
      <3>2. QED
        BY <1>1, <2>3, <3>1 DEF Apart
    <2>4. QED
      BY <2>2, <2>3
  <1>14. ListOK(t, pointer)
    BY <1>2, <1>9, <1>10, <1>11 DEF ListOK
  <1>15. QED
    BY <1>12, <1>13, <1>14

(* All neighbours are apart, but for those at e and f. *)
MergedBut(list, e, f) == \A j \in 1 .. Len(list) - 1 : j # e /\ j # f => Apart(list, j)

LEMMA MergeOK ==
    ASSUME NEW list, NEW pointer \in Nat, ListOK(list, pointer), NEW k \in Int,
           NEW e \in Int, e < k, MergedBut(list, k, e)
    PROVE  /\ ListOK(Merge(list, k), pointer)
           /\ \A a, s : Uses(Merge(list, k), a, s) <=> Uses(list, a, s)
           /\ MergedBut(Merge(list, k), e, e)
  <1>0. Len(list) \in Nat
    BY DEF ListOK
  <1>1. CASE ~ MergeFits(list, k)
    <2>1. Merge(list, k) = list
      BY <1>1, MergeCases
    <2>2. k \in 1 .. Len(list) - 1 => Apart(list, k)
      BY <1>1 DEF MergeFits, Apart
    <2>3. QED
      BY <2>1, <2>2 DEF MergedBut
  <1>2. CASE MergeFits(list, k)
    <2> DEFINE size == list[k].size + HEADER + list[k + 1].size
               m == [start |-> list[k].start, size |-> size, free |-> 1]
               t == Merge(list, k)
    <2>1. m \in Block /\ Joins(list, t, k, m)
      BY <1>2, MergeCases
    <2>2. m.start = list[k].start /\ m.size = size /\ m.free = 1
      OBVIOUS
    <2> HIDE DEF m, t
    <2>3. /\ ListOK(t, pointer)
          /\ \A a, s : Uses(t, a, s) <=> Uses(list, a, s)
          /\ \A j \in 1 .. Len(t) - 1 :
                 /\ j < k /\ Apart(list, j) => Apart(t, j)
                 /\ j >= k /\ Apart(list, j + 1) => Apart(t, j)
      BY <1>2, <2>1, <2>2, JoinOK
    <2>4. Len(t) = Len(list) - 1 /\ k \in 1 .. Len(list) - 1
      BY <1>2, <2>1 DEF Joins, MergeFits
    <2>5. ASSUME NEW j \in 1 .. Len(t) - 1, j # e PROVE Apart(t, j)
      <3>1. CASE j < k
        <4>1. j \in 1 .. Len(list) - 1 /\ j # k
          BY <1>0, <2>4, <3>1
        <4>2. Apart(list, j)
          BY <2>5, <4>1 DEF MergedBut
        <4>3. QED
          BY <2>3, <3>1, <4>2
      <3>2. CASE j >= k
        <4>1. j + 1 \in 1 .. Len(list) - 1 /\ j + 1 # k /\ j + 1 # e
          BY <1>0, <2>4, <3>2
        <4>2. Apart(list, j + 1)
          BY <4>1 DEF MergedBut
        <4>3. QED
          BY <2>3, <3>2, <4>2
      <3>3. QED
        BY <1>0, <2>4, <3>1, <3>2
    <2>6. QED
      BY <2>3, <2>5 DEF MergedBut, t
  <1>3. QED
    BY <1>1, <1>2

(* Freeing the block in use at i: its neighbours are apart afterwards. *)
LEMMA FreedOK ==
    ASSUME NEW list, NEW pointer \in Nat, ListOK(list, pointer), Merged(list),
           NEW i \in 1 .. Len(list), list[i].free = 0
    PROVE  /\ ListOK(Freed(list, i), pointer) /\ Merged(Freed(list, i))
           /\ \A a, s : Uses(Freed(list, i), a, s) <=> Uses(list, a, s) /\ a # Payload(list[i])
  <1> DEFINE x == [start |-> list[i].start, size |-> list[i].size, free |-> 1]
             l == [list EXCEPT ![i].free = 1]
  <1>1. /\ list[i] \in Block /\ list[i].start \in Nat /\ list[i].size \in Nat
        /\ list[i].size > 0 /\ Len(list) \in Nat /\ i \in Int /\ list \in Seq(Block)
    BY ListFacts DEF ListOK
  <1>2. x \in Block /\ x.start = list[i].start /\ x.size = list[i].size /\ x.free = 1
    BY <1>1, BlockMade
  <1>3. l = [list EXCEPT ![i] = x]
    <2>1. [list[i] EXCEPT !.free = 1] = x
      BY <1>1, BlockChanged
    <2>2. QED
      BY <2>1, Zenon
  <1> HIDE DEF x, l
  <1>4. Replaces(list, l, i, x)
    BY <1>1, <1>2, <1>3, ExceptSeq DEF Replaces
  <1>5. /\ ListOK(l, pointer)
        /\ \A a, s : Uses(l, a, s) <=> Uses(list, a, s) /\ a # Payload(list[i])
    BY <1>2, <1>4, ReplaceOK
  <1>6. MergedBut(l, i, i - 1)
    <2>1. Len(l) = Len(list)
      BY <1>4 DEF Replaces
    <2>2. ASSUME NEW j \in 1 .. Len(list) - 1, j # i, j # i - 1 PROVE Apart(l, j)
      <3>1. /\ j \in 1 .. Len(list) /\ j + 1 \in 1 .. Len(list) /\ j + 1 # i
        BY <1>1, <2>2
      <3>2. l[j] = list[j] /\ l[j + 1] = list[j + 1]
        BY <1>4, <2>2, <3>1 DEF Replaces
      <3>3. Apart(list, j)
        BY DEF Merged
      <3>4. QED
        BY <3>2, <3>3 DEF Apart
    <2>3. QED
      BY <2>1, <2>2 DEF MergedBut
  <1> DEFINE first == Merge(l, i)
             e == i - 1
             both == Merge(first, e)
  <1>7. e \in Int /\ e < i /\ -1 \in Int /\ -1 < e
    BY <1>1
  <1>8. /\ ListOK(first, pointer) /\ MergedBut(first, e, e)
        /\ \A a, s : Uses(first, a, s) <=> Uses(l, a, s)
    <2> HIDE DEF e
    <2>1. MergedBut(l, i, e)
      BY <1>6 DEF e
    <2>2. QED
      BY <1>1, <1>5, <1>7, <2>1, MergeOK
  <1>9. Freed(list, i) = both
    BY DEF Freed, l
  <1> HIDE DEF first, e
  <1>10. MergedBut(first, e, -1)
    BY <1>8 DEF MergedBut
  <1>11. /\ ListOK(both, pointer) /\ MergedBut(both, -1, -1)
         /\ \A a, s : Uses(both, a, s) <=> Uses(first, a, s)
    BY <1>7, <1>8, <1>10, MergeOK
  <1> HIDE DEF both
  <1>12. Merged(both)
    <2>1. \A j \in 1 .. Len(both) - 1 : j # -1
      BY <1>11 DEF ListOK
    <2>2. QED
      BY <1>11, <2>1 DEF MergedBut, Merged
  <1>13. QED
    BY <1>5, <1>8, <1>9, <1>11, <1>12

-----------------------------------------------------------------------------
(* The invariant.  The order of the blocks and their place below heap_pointer make
   the tiling inductive; that neighbours are apart makes merging with one block on
   each side enough. *)
PayloadsInUse(list) == {Payload(list[i]) : i \in {j \in DOMAIN list : list[j].free = 0}}

BootInv ==
    /\ ListOK(blocks, heap_pointer) /\ Merged(blocks)
    /\ heap_pointer \in Addresses
    /\ DOMAIN requested = PayloadsInUse(blocks)
    /\ \A a \in DOMAIN requested : requested[a] \in Nat

LEMMA LeastNatural ==
    ASSUME NEW T \in SUBSET Nat, T # {}
    PROVE  \E x \in T : \A y \in T : x <= y
  <1>1. PICK x \in T : \A y \in T : ~ (<<y, x>> \in OpToRel(<, Nat))
    BY NatLessThanWellFounded, WFMin, Zenon
  <1>2. \A y \in T : ~ (y < x)
    BY <1>1 DEF OpToRel
  <1>3. QED
    BY <1>2

LEMMA FirstIn ==
    ASSUME NEW T \in SUBSET Nat, T # {}
    PROVE  FirstOf(T) \in T /\ \A y \in T : FirstOf(T) <= y
  BY LeastNatural DEF FirstOf

LEMMA PayloadsUsed ==
    ASSUME NEW list, NEW pointer, ListOK(list, pointer), NEW a
    PROVE  a \in PayloadsInUse(list) <=> \E s : Uses(list, a, s)
  <1>1. DOMAIN list = 1 .. Len(list)
    BY DEF ListOK
  <1>2. QED
    BY <1>1 DEF PayloadsInUse, Uses

(* The block in use at an address, found the way heap_free finds it. *)
LEMMA BlockAt ==
    ASSUME NEW list, NEW pointer, ListOK(list, pointer), NEW a, NEW s, Uses(list, a, s)
    PROVE  /\ FirstOf(At(list, a)) \in 1 .. Len(list)
           /\ LET b == list[FirstOf(At(list, a))]
              IN  Payload(b) = a /\ b.size = s /\ b.free = 0
  <1>1. PICK i \in 1 .. Len(list) : list[i].free = 0 /\ Payload(list[i]) = a /\ list[i].size = s
    BY DEF Uses
  <1>2. DOMAIN list = 1 .. Len(list) /\ Len(list) \in Nat
    BY DEF ListOK
  <1>3. At(list, a) \in SUBSET Nat /\ At(list, a) # {}
    BY <1>1, <1>2 DEF At
  <1>4. FirstOf(At(list, a)) \in At(list, a)
    BY <1>3, FirstIn
  <1>5. \A j \in At(list, a) : j = i
    BY <1>1, <1>2, PayloadUnique DEF At
  <1>6. QED
    BY <1>1, <1>4, <1>5

(* A block's run of bytes, and where it lies. *)
LEMMA UsedRuns ==
    ASSUME NEW list, NEW pointer \in Nat, ListOK(list, pointer), NEW a, NEW s, Uses(list, a, s)
    PROVE  /\ a \in Nat /\ s \in Nat /\ s > 0 /\ HeapStart < a /\ a + s <= pointer
  <1>1. PICK i \in 1 .. Len(list) : list[i].free = 0 /\ Payload(list[i]) = a /\ list[i].size = s
    BY DEF Uses
  <1>2. QED
    BY <1>1, ListFacts, BootConstants DEF BlockIn

(* What is said of the result of a call of heap_alloc. *)
Granted(new, size, given) ==
    /\ ListOK(new.list, new.pointer) /\ Merged(new.list) /\ new.pointer \in Addresses
    /\ given \in Nat /\ given >= size
    /\ new.address \in Nat /\ HeapStart < new.address /\ new.address + given <= HeapLimit
    /\ \A a, s : Uses(new.list, a, s) <=> Uses(blocks, a, s) \/ (a = new.address /\ s = given)
    /\ \A a, s : Uses(blocks, a, s) => a + s <= new.address \/ new.address + given <= a

LEMMA AllocatedCases ==
    ASSUME BootInv, NEW size \in Nat, size > 0, size % WORD = 0
    PROVE  /\ Allocated(size).address = FAILED <=>
                 Fitting(blocks, size) = {} /\ heap_pointer + HEADER + size > HeapLimit
           /\ Allocated(size).address # FAILED => \E given : Granted(Allocated(size), size, given)
  <1> USE BootConstants
  <1>1. /\ ListOK(blocks, heap_pointer) /\ Merged(blocks) /\ heap_pointer \in Nat
        /\ HeapStart <= heap_pointer /\ heap_pointer <= HeapLimit /\ heap_pointer \in Addresses
    BY DEF BootInv, Addresses
  <1>2. /\ blocks \in Seq(Block) /\ DOMAIN blocks = 1 .. Len(blocks) /\ Len(blocks) \in Nat
    BY <1>1 DEF ListOK
  <1> DEFINE fitting == Fitting(blocks, size)
             i == FirstOf(fitting)
             x == [start |-> heap_pointer, size |-> size, free |-> 0]
             new == Allocated(size)
  <1>3. x.start = heap_pointer /\ x.size = size
    OBVIOUS
  <1>4. Payload(x) = heap_pointer + HEADER /\ End(x) = heap_pointer + HEADER + size
    BY <1>3 DEF Payload, End
  <1>5. CASE fitting # {}
    <2>1. fitting \in SUBSET Nat
      BY <1>2 DEF Fitting
    <2>2. i \in fitting
      BY <1>5, <2>1, FirstIn
    <2>3. i \in 1 .. Len(blocks) /\ blocks[i].free = 1 /\ blocks[i].size >= size
      BY <1>2, <2>2 DEF Fitting
    <2>4. new = [address |-> Payload(blocks[i]), list |-> Take(blocks, i, size),
                 pointer |-> heap_pointer]
      BY <1>5 DEF Allocated
    <2> HIDE DEF fitting, i, x
    <2>5. /\ new.address = Payload(blocks[i]) /\ new.list = Take(blocks, i, size)
          /\ new.pointer = heap_pointer
      BY <2>4
    <2> HIDE DEF new
    <2>6. PICK given \in Nat :
                 /\ given >= size /\ Payload(blocks[i]) + given <= End(blocks[i])
                 /\ \A a, s : Uses(Take(blocks, i, size), a, s)
                                <=> Uses(blocks, a, s) \/ (a = Payload(blocks[i]) /\ s = given)
      BY <1>1, <2>3, TakeOK
    <2>7. ListOK(new.list, new.pointer) /\ Merged(new.list)
      BY <1>1, <2>3, <2>5, TakeOK
    <2>8. /\ blocks[i].start \in Nat /\ Payload(blocks[i]) = blocks[i].start + HEADER
          /\ End(blocks[i]) \in Nat /\ HeapStart <= blocks[i].start
          /\ End(blocks[i]) <= heap_pointer
      BY <1>1, <2>3, ListFacts DEF BlockIn
    <2>9. /\ new.address \in Nat /\ HeapStart < new.address
          /\ new.address + given <= HeapLimit
      BY <1>1, <2>5, <2>6, <2>8
    <2>10. ASSUME NEW a, NEW s, Uses(blocks, a, s)
           PROVE  a + s <= new.address \/ new.address + given <= a
      <3>1. PICK j \in 1 .. Len(blocks) :
               blocks[j].free = 0 /\ Payload(blocks[j]) = a /\ blocks[j].size = s
        BY <2>10 DEF Uses
      <3>2. /\ blocks[j].start \in Nat /\ a = blocks[j].start + HEADER /\ s \in Nat
            /\ End(blocks[j]) = blocks[j].start + HEADER + s
        BY <1>1, <3>1, ListFacts
      <3>3. j # i /\ j \in Int /\ i \in Int
        BY <1>2, <2>3, <3>1
      <3>4. \A k, l \in 1 .. Len(blocks) : k < l => End(blocks[k]) <= blocks[l].start
        BY <1>1 DEF ListOK, Ordered
      <3>5. CASE j < i
        <4>1. End(blocks[j]) <= blocks[i].start
          BY <2>3, <3>1, <3>4, <3>5
        <4>2. /\ a + s = End(blocks[j]) /\ new.address = blocks[i].start + HEADER
              /\ End(blocks[j]) \in Nat
          BY <2>5, <2>8, <3>2
        <4>3. a + s <= new.address
          BY <2>8, <4>1, <4>2
        <4>4. QED
          BY <4>3
      <3>6. CASE i < j
        <4>1. End(blocks[i]) <= blocks[j].start
          BY <2>3, <3>1, <3>4, <3>6
        <4>2. new.address + given <= End(blocks[i]) /\ new.address + given \in Nat
          BY <2>5, <2>6, <2>9
        <4>3. new.address + given <= a
          BY <2>8, <3>2, <4>1, <4>2
        <4>4. QED
          BY <4>3
      <3>7. QED
        BY <3>3, <3>5, <3>6
    <2>11. Granted(new, size, given)
      BY <1>1, <2>5, <2>6, <2>7, <2>9, <2>10 DEF Granted
    <2>12. new.address # FAILED
      BY <2>9 DEF FAILED
    <2>13. QED
      BY <1>5, <2>11, <2>12 DEF fitting, new
  <1>6. CASE fitting = {} /\ ~ (heap_pointer + HEADER + size > HeapLimit)
    <2>1. new = [address |-> Payload(x), list |-> Append(blocks, x), pointer |-> End(x)]
      BY <1>4, <1>6 DEF Allocated
    <2> HIDE DEF fitting, i
    <2>2. /\ new.address = Payload(x) /\ new.list = Append(blocks, x) /\ new.pointer = End(x)
      BY <2>1
    <2>3. /\ ListOK(Append(blocks, x), End(x)) /\ Merged(Append(blocks, x))
          /\ \A a, s : Uses(Append(blocks, x), a, s)
                          <=> Uses(blocks, a, s) \/ (a = Payload(x) /\ s = size)
      BY <1>1, AppendOK
    <2> HIDE DEF x, new
    <2>4. /\ new.address \in Nat /\ HeapStart < new.address
          /\ new.address + size <= HeapLimit /\ new.pointer \in Addresses
      BY <1>1, <1>4, <1>6, <2>2 DEF Addresses
    <2>5. ASSUME NEW a, NEW s, Uses(blocks, a, s) PROVE a + s <= new.address
      <3>1. a \in Nat /\ s \in Nat /\ a + s <= heap_pointer
        BY <1>1, <2>5, UsedRuns
      <3>2. QED
        BY <1>1, <1>4, <2>2, <3>1
    <2>6. Granted(new, size, size)
      BY <2>2, <2>3, <2>4, <2>5 DEF Granted
    <2>7. new.address # FAILED
      BY <2>4 DEF FAILED
    <2>8. QED
      BY <1>6, <2>6, <2>7 DEF fitting, new
  <1>7. CASE fitting = {} /\ heap_pointer + HEADER + size > HeapLimit
    <2>1. new = [address |-> FAILED, list |-> blocks, pointer |-> heap_pointer]
      BY <1>4, <1>7 DEF Allocated
    <2>2. new.address = FAILED
      BY <2>1
    <2>3. QED
      BY <1>7, <2>2
  <1>8. QED
    BY <1>5, <1>6, <1>7

-----------------------------------------------------------------------------
(* What the steps do to the allocations, in terms of Uses alone. *)
Placed(address, given, request) ==
    /\ address \in Nat /\ given \in Nat /\ request \in Nat
    /\ given > 0 /\ given >= request
    /\ HeapStart < address /\ address + given <= HeapLimit
    /\ \A a, s : Uses(blocks, a, s) => a + s <= address \/ address + given <= a

AllocStep(address, given, request) ==
    /\ Placed(address, given, request)
    /\ \A a, s : Uses(blocks', a, s) <=> Uses(blocks, a, s) \/ (a = address /\ s = given)
    /\ requested' = Put(requested, address, request)

FreeStep(old) ==
    /\ old \in PayloadsInUse(blocks)
    /\ \A a, s : Uses(blocks', a, s) <=> Uses(blocks, a, s) /\ a # old
    /\ requested' = Drop(requested, {old})

MoveStep(old, address, given, request) ==
    /\ old \in PayloadsInUse(blocks)
    /\ \A s : Uses(blocks, old, s) => s < given
    /\ Placed(address, given, request)
    /\ \A a, s : Uses(blocks', a, s) <=>
                     (Uses(blocks, a, s) /\ a # old) \/ (a = address /\ s = given)
    /\ requested' = Put(Drop(requested, {old}), address, request)

HeapStep ==
    \/ \E address, given, request : AllocStep(address, given, request)
    \/ \E old : FreeStep(old)
    \/ \E old, address, given, request : MoveStep(old, address, given, request)

ListInv == ListOK(blocks, heap_pointer) /\ Merged(blocks) /\ heap_pointer \in Addresses

LEMMA NewAddress ==
    ASSUME BootInv, NEW address, NEW given, NEW request, Placed(address, given, request)
    PROVE  address \notin PayloadsInUse(blocks)
  <1>1. ListOK(blocks, heap_pointer) /\ heap_pointer \in Nat
    BY BootConstants DEF BootInv, Addresses
  <1>2. ASSUME NEW s, Uses(blocks, address, s) PROVE FALSE
    <2>1. s \in Nat /\ s > 0
      BY <1>1, <1>2, UsedRuns
    <2>2. QED
      BY <1>2, <2>1 DEF Placed
  <1>3. QED
    BY <1>1, <1>2, PayloadsUsed

LEMMA AllocKeeps ==
    ASSUME BootInv, NEW size \in Sizes, heap_alloc(size)
    PROVE  ListInv' /\ HeapStep
  <1> DEFINE rounded == RoundUp(size)
             new == Allocated(rounded)
  <1>1. rounded \in Nat /\ rounded > 0 /\ rounded % WORD = 0 /\ rounded >= size /\ size \in Nat
    BY RoundedUp, BootConstants
  <1>2. /\ new.address # FAILED /\ blocks' = new.list /\ heap_pointer' = new.pointer
        /\ requested' = Put(requested, new.address, size)
    BY DEF heap_alloc
  <1> HIDE DEF rounded
  <1>3. PICK given : Granted(new, rounded, given)
    BY <1>1, <1>2, AllocatedCases
  <1> HIDE DEF new
  <1>4. ListInv'
    BY <1>2, <1>3 DEF Granted, ListInv, Addresses
  <1>5. Placed(new.address, given, size)
    BY <1>1, <1>3 DEF Granted, Placed
  <1>6. AllocStep(new.address, given, size)
    BY <1>2, <1>3, <1>5 DEF Granted, AllocStep
  <1>7. QED
    BY <1>4, <1>6 DEF HeapStep

LEMMA FreeKeeps ==
    ASSUME BootInv, NEW address \in Addresses, heap_free(address)
    PROVE  ListInv' /\ HeapStep
  <1>1. /\ ListOK(blocks, heap_pointer) /\ Merged(blocks) /\ heap_pointer \in Nat
        /\ heap_pointer \in Addresses
    BY BootConstants DEF BootInv, Addresses
  <1>2. DOMAIN blocks = 1 .. Len(blocks)
    BY <1>1 DEF ListOK
  <1>3. PICK i \in At(blocks, address) :
           /\ blocks[i].free = 0 /\ blocks' = Freed(blocks, i)
           /\ requested' = Drop(requested, {address}) /\ heap_pointer' = heap_pointer
    BY DEF heap_free
  <1>4. i \in 1 .. Len(blocks) /\ Payload(blocks[i]) = address
    BY <1>2 DEF At
  <1>5. /\ ListOK(Freed(blocks, i), heap_pointer) /\ Merged(Freed(blocks, i))
        /\ \A a, s : Uses(Freed(blocks, i), a, s)
                        <=> Uses(blocks, a, s) /\ a # Payload(blocks[i])
    BY <1>1, <1>3, <1>4, FreedOK
  <1>6. ListInv'
    BY <1>1, <1>3, <1>5 DEF ListInv, Addresses
  <1>7. address \in PayloadsInUse(blocks)
    BY <1>2, <1>3, <1>4 DEF PayloadsInUse
  <1>8. FreeStep(address)
    BY <1>3, <1>4, <1>5, <1>7 DEF FreeStep
  <1>9. QED
    BY <1>6, <1>8 DEF HeapStep

LEMMA ReallocKeeps ==
    ASSUME BootInv, NEW address \in Addresses, NEW size \in Sizes, heap_realloc(address, size)
    PROVE  ListInv' /\ HeapStep
  <1> DEFINE rounded == RoundUp(size)
             new == Allocated(rounded)
             k == FirstOf(At(new.list, address))
  <1>1. /\ ListOK(blocks, heap_pointer) /\ heap_pointer \in Nat
        /\ DOMAIN blocks = 1 .. Len(blocks)
    BY BootConstants DEF BootInv, Addresses, ListOK
  <1>2. rounded \in Nat /\ rounded > 0 /\ rounded % WORD = 0
    BY RoundedUp, BootConstants
  <1>3. PICK i \in At(blocks, address) :
           /\ blocks[i].size < rounded
           /\ new.address # FAILED
           /\ blocks' = IF blocks[i].free = 1 THEN new.list ELSE Freed(new.list, k)
           /\ heap_pointer' = new.pointer
           /\ requested' = Put(Drop(requested, {address}), new.address, rounded)
    BY DEF heap_realloc
  <1>4. i \in 1 .. Len(blocks) /\ Payload(blocks[i]) = address
    BY <1>1 DEF At
  <1> HIDE DEF rounded
  <1>5. PICK given : Granted(new, rounded, given)
    BY <1>2, <1>3, AllocatedCases
  <1> HIDE DEF new
  <1>5a. new.pointer \in Nat /\ new.pointer \in Addresses
    BY <1>5, BootConstants DEF Granted, Addresses
  <1>5b. Placed(new.address, given, rounded)
    BY <1>2, <1>5 DEF Granted, Placed
  <1>5c. blocks[i].free \in {0, 1}
    BY <1>1, <1>4, ListFacts
  (* The old block was free already: only the new one appears. *)
  <1>5d. CASE blocks[i].free = 1
    <2>1. blocks' = new.list
      BY <1>3, <1>5d
    <2>2. ListInv'
      BY <1>3, <1>5, <1>5a, <2>1 DEF Granted, ListInv, Addresses
    <2>3. ASSUME NEW s, Uses(blocks, address, s) PROVE FALSE
      <3>1. PICK j \in 1 .. Len(blocks) : Payload(blocks[j]) = address /\ blocks[j].free = 0
        BY <2>3 DEF Uses
      <3>2. j = i
        BY <1>1, <1>4, <3>1, PayloadUnique
      <3>3. QED
        BY <1>5d, <3>1, <3>2
    <2>4. address \notin DOMAIN requested
      BY <1>1, <2>3, PayloadsUsed DEF BootInv
    <2>5. DOMAIN requested \ {address} = DOMAIN requested
      BY <2>4
    <2>6. Put(Drop(requested, {address}), new.address, rounded)
             = Put(requested, new.address, rounded)
      BY <2>5 DEF Put, Drop
    <2>7. AllocStep(new.address, given, rounded)
      BY <1>3, <1>5, <1>5b, <2>1, <2>6 DEF Granted, AllocStep
    <2>8. QED
      BY <2>2, <2>7 DEF HeapStep
  <1> SUFFICES ASSUME blocks[i].free = 0 PROVE ListInv' /\ HeapStep
    BY <1>5c, <1>5d
  <1>6. Uses(blocks, address, blocks[i].size)
    BY <1>3, <1>4 DEF Uses
  <1>7. Uses(new.list, address, blocks[i].size)
    BY <1>5, <1>6 DEF Granted
  <1>8. k \in 1 .. Len(new.list) /\ Payload(new.list[k]) = address /\ new.list[k].free = 0
    BY <1>5, <1>7, BlockAt DEF Granted
  <1> HIDE DEF k
  <1>10. /\ ListOK(Freed(new.list, k), new.pointer) /\ Merged(Freed(new.list, k))
         /\ \A a, s : Uses(Freed(new.list, k), a, s)
                         <=> Uses(new.list, a, s) /\ a # Payload(new.list[k])
    BY <1>5, <1>8, <1>5a, FreedOK DEF Granted
  <1>11. ListInv'
    BY <1>3, <1>5a, <1>10 DEF ListInv, Addresses
  <1>13. address \in PayloadsInUse(blocks)
    BY <1>1, <1>3, <1>4 DEF PayloadsInUse
  <1>14. new.address # address
    BY <1>5b, <1>13, NewAddress
  <1>15. ASSUME NEW s, Uses(blocks, address, s) PROVE s < given
    <2>1. s = blocks[i].size
      <3>1. PICK j \in 1 .. Len(blocks) : Payload(blocks[j]) = address /\ blocks[j].size = s
        BY <1>15 DEF Uses
      <3>2. j = i
        BY <1>1, <1>4, <3>1, PayloadUnique
      <3>3. QED
        BY <3>1, <3>2
    <2>2. s \in Nat
      BY <1>1, <1>15, UsedRuns
    <2>3. QED
      BY <1>2, <1>3, <1>5, <2>1, <2>2 DEF Granted
  <1>16. ASSUME NEW a, NEW s
         PROVE  Uses(blocks', a, s) <=>
                   (Uses(blocks, a, s) /\ a # address) \/ (a = new.address /\ s = given)
    BY <1>3, <1>5, <1>8, <1>10, <1>14 DEF Granted
  <1>17. MoveStep(address, new.address, given, rounded)
    BY <1>3, <1>5b, <1>13, <1>15, <1>16 DEF MoveStep
  <1>18. QED
    BY <1>11, <1>17 DEF HeapStep

(* The history variable follows the list. *)
LEMMA RequestsFollow ==
    ASSUME BootInv, ListInv', HeapStep
    PROVE  BootInv'
  <1>1. ListOK(blocks, heap_pointer) /\ ListOK(blocks', heap_pointer')
    BY DEF BootInv, ListInv
  <1>2. /\ DOMAIN requested = PayloadsInUse(blocks)
        /\ \A a \in DOMAIN requested : requested[a] \in Nat
    BY DEF BootInv
  <1>3. \A a : a \in PayloadsInUse(blocks) <=> \E s : Uses(blocks, a, s)
    BY <1>1, PayloadsUsed
  <1>4. \A a : a \in PayloadsInUse(blocks') <=> \E s : Uses(blocks', a, s)
    BY <1>1, PayloadsUsed
  <1> DEFINE Follows == /\ DOMAIN requested' = PayloadsInUse(blocks')
                        /\ \A a \in DOMAIN requested' : requested'[a] \in Nat
  <1>5. ASSUME NEW address, NEW given, NEW request, AllocStep(address, given, request)
        PROVE  Follows
    <2>1. \A a, s : Uses(blocks', a, s) <=> Uses(blocks, a, s) \/ (a = address /\ s = given)
      BY <1>5 DEF AllocStep
    <2>2. \A a : a \in PayloadsInUse(blocks') <=> a \in PayloadsInUse(blocks) \cup {address}
      BY <1>3, <1>4, <2>1, Zenon
    <2>3. PayloadsInUse(blocks') = DOMAIN requested \cup {address}
      BY <1>2, <2>2
    <2>4. requested' = Put(requested, address, request) /\ request \in Nat
      BY <1>5 DEF AllocStep, Placed
    <2>5. QED
      BY <1>2, <2>3, <2>4 DEF Put
  <1>6. ASSUME NEW old, FreeStep(old) PROVE Follows
    <2>1. \A a, s : Uses(blocks', a, s) <=> Uses(blocks, a, s) /\ a # old
      BY <1>6 DEF FreeStep
    <2>2. \A a : a \in PayloadsInUse(blocks') <=> a \in PayloadsInUse(blocks) \ {old}
      BY <1>3, <1>4, <2>1, Zenon
    <2>3. PayloadsInUse(blocks') = DOMAIN requested \ {old}
      BY <1>2, <2>2
    <2>4. QED
      BY <1>2, <1>6, <2>3 DEF FreeStep, Drop
  <1>7. ASSUME NEW old, NEW address, NEW given, NEW request, MoveStep(old, address, given, request)
        PROVE  Follows
    <2>1. \A a, s : Uses(blocks', a, s) <=>
                       (Uses(blocks, a, s) /\ a # old) \/ (a = address /\ s = given)
      BY <1>7 DEF MoveStep
    <2>2. \A a : a \in PayloadsInUse(blocks')
                   <=> a \in (PayloadsInUse(blocks) \ {old}) \cup {address}
      BY <1>3, <1>4, <2>1, Zenon
    <2>3. PayloadsInUse(blocks') = (DOMAIN requested \ {old}) \cup {address}
      BY <1>2, <2>2
    <2>4. requested' = Put(Drop(requested, {old}), address, request) /\ request \in Nat
      BY <1>7 DEF MoveStep, Placed
    <2>5. QED
      BY <1>2, <2>3, <2>4 DEF Put, Drop
  <1>8. Follows
    BY <1>5, <1>6, <1>7 DEF HeapStep
  <1>9. QED
    BY <1>8 DEF BootInv, ListInv

LEMMA BootStep ==
    ASSUME BootInv, BootNext
    PROVE  BootInv' /\ HeapStep
  <1>1. ASSUME NEW size \in Sizes, heap_alloc(size) PROVE ListInv' /\ HeapStep
    BY <1>1, AllocKeeps
  <1>2. ASSUME NEW address \in Addresses, heap_free(address) PROVE ListInv' /\ HeapStep
    BY <1>2, FreeKeeps
  <1>3. ASSUME NEW address \in Addresses, NEW size \in Sizes, heap_realloc(address, size)
        PROVE  ListInv' /\ HeapStep
    BY <1>3, ReallocKeeps
  <1>4. ListInv' /\ HeapStep
    BY <1>1, <1>2, <1>3 DEF BootNext
  <1>5. QED
    BY <1>4, RequestsFollow

LEMMA BootInitially == BootInit => BootInv
  <1> SUFFICES ASSUME BootInit PROVE BootInv
    OBVIOUS
  <1>1. blocks = << >> /\ heap_pointer = HeapStart /\ requested = [a \in {} |-> 0]
    BY DEF BootInit
  <1>2. blocks \in Seq(Block) /\ Len(blocks) = 0 /\ DOMAIN blocks = {}
    BY <1>1
  <1>3. ListOK(blocks, heap_pointer) /\ Merged(blocks)
    BY <1>1, <1>2 DEF ListOK, Ordered, Tiled, Merged
  <1>4. PayloadsInUse(blocks) = {}
    BY <1>2 DEF PayloadsInUse
  <1>5. QED
    BY <1>1, <1>3, <1>4, BootConstants DEF BootInv, Addresses

(* The invariant holds: every allocation, release and reallocation, with the splits
   and merges it makes, leaves a list of this form. *)
THEOREM BootInvariant == BootSpec => []BootInv
  <1>1. BootInv /\ UNCHANGED bootVars => BootInv'
    BY DEF BootInv, bootVars, ListOK, Merged, Apart, BlockIn, Ordered, Tiled, PayloadsInUse,
           Addresses, Payload, End
  <1>2. BootInv /\ [BootNext]_bootVars => BootInv'
    BY <1>1, BootStep
  <1>3. QED
    BY <1>2, BootInitially, PTL DEF BootSpec

(* Type correctness: headers lie in the heap, no block is empty, sizes keep the
   granularity, and exactly the blocks in use are known to callers. *)
THEOREM BootTypeCorrect == BootSpec => []BootTypeOK
  <1>1. BootInv => BootTypeOK
    <2> SUFFICES ASSUME BootInv PROVE BootTypeOK
      OBVIOUS
    <2>1. /\ ListOK(blocks, heap_pointer) /\ heap_pointer \in Nat /\ heap_pointer <= HeapLimit
          /\ heap_pointer \in Addresses /\ DOMAIN requested = PayloadsInUse(blocks)
          /\ \A a \in DOMAIN requested : requested[a] \in Nat
      BY BootConstants DEF BootInv, Addresses
    <2>2. blocks \in Seq(Block) /\ DOMAIN blocks = 1 .. Len(blocks) /\ Len(blocks) \in Nat
      BY <2>1 DEF ListOK
    <2>3. ASSUME NEW i \in 1 .. Len(blocks)
          PROVE  /\ blocks[i] \in [start : Addresses, size : Nat, free : {0, 1}]
                 /\ blocks[i].size > 0 /\ blocks[i].size % WORD = 0
      <3>1. /\ blocks[i] \in Block /\ blocks[i].start \in Nat /\ blocks[i].size \in Nat
            /\ blocks[i].size > 0 /\ blocks[i].free \in {0, 1}
            /\ End(blocks[i]) = blocks[i].start + HEADER + blocks[i].size
            /\ BlockIn(blocks[i], heap_pointer)
        BY <2>1, ListFacts
      <3>2. blocks[i].start \in Addresses
        BY <2>1, <3>1, BootConstants DEF BlockIn, Addresses
      <3>3. QED
        BY <3>1, <3>2 DEF Block, BlockIn
    <2>4. blocks \in Seq([start : Addresses, size : Nat, free : {0, 1}])
      <3> DEFINE Cell == [start : Addresses, size : Nat, free : {0, 1}]
      <3>1. blocks = [i \in 1 .. Len(blocks) |-> blocks[i]]
        BY <2>2
      <3>2. \A i \in 1 .. Len(blocks) : blocks[i] \in Cell
        BY <2>3
      <3> HIDE DEF Cell
      <3>3. [i \in 1 .. Len(blocks) |-> blocks[i]] \in Seq(Cell)
        BY <2>2, <3>2, IsASeq
      <3>4. blocks \in Seq(Cell)
        BY <3>1, <3>3, Zenon
      <3>5. QED
        BY <3>4 DEF Cell
    <2>5. QED
      BY <2>1, <2>2, <2>3, <2>4 DEF BootTypeOK, PayloadsInUse
  <1>2. QED
    BY <1>1, BootInvariant, PTL

(* The list is in the order of addresses and covers the heap up to heap_pointer
   without gap or overlap, through every split and merge. *)
THEOREM BlocksAlwaysTile == BootSpec => []BlocksTile
  <1>1. BootInv => BlocksTile
    <2> SUFFICES ASSUME BootInv PROVE BlocksTile
      OBVIOUS
    <2>1. blocks \in Seq(Block) /\ Tiled(blocks, heap_pointer) /\ Len(blocks) \in Nat
      BY DEF BootInv, ListOK
    <2>2. blocks # << >> => Len(blocks) > 0
      BY <2>1
    <2>3. QED
      BY <2>1, <2>2 DEF Tiled, BlocksTile
  <1>2. QED
    BY <1>1, BootInvariant, PTL

(* Two neighbouring blocks are never both free, in whatever order blocks were freed
   and however they had been split. *)
THEOREM AlwaysCoalesced == BootSpec => []Coalesced
  <1>1. BootInv => Coalesced
    BY DEF BootInv, Merged, Apart, Coalesced
  <1>2. QED
    BY <1>1, BootInvariant, PTL

(* A byte of a block is in use exactly when the block is. *)
LEMMA ByteOf ==
    ASSUME BootInv, NEW i \in 1 .. Len(blocks), NEW c \in Nat,
           blocks[i].start <= c, c < End(blocks[i])
    PROVE  c \in Addresses /\ (c \in InUse <=> blocks[i].free = 0)
  <1> USE BootConstants
  <1>1. /\ ListOK(blocks, heap_pointer) /\ heap_pointer \in Nat /\ heap_pointer <= HeapLimit
        /\ DOMAIN blocks = 1 .. Len(blocks)
    BY DEF BootInv, Addresses, ListOK
  <1>2. /\ blocks[i].start \in Nat /\ blocks[i].size \in Nat
        /\ End(blocks[i]) = blocks[i].start + HEADER + blocks[i].size
        /\ HeapStart <= blocks[i].start /\ End(blocks[i]) <= heap_pointer
    BY <1>1, ListFacts DEF BlockIn
  <1>3. c \in Addresses
    BY <1>1, <1>2 DEF Addresses
  <1>4. ASSUME NEW j \in 1 .. Len(blocks), blocks[j].start <= c, c < End(blocks[j])
        PROVE  j = i
    <2>1. /\ blocks[j].start \in Nat /\ blocks[j].size \in Nat
          /\ End(blocks[j]) = blocks[j].start + HEADER + blocks[j].size
      BY <1>1, ListFacts
    <2>2. /\ i < j => End(blocks[i]) <= blocks[j].start
          /\ j < i => End(blocks[j]) <= blocks[i].start
      BY <1>1 DEF ListOK, Ordered
    <2>3. ~ (i < j)
      BY <1>2, <1>4, <2>1, <2>2
    <2>4. ~ (j < i)
      BY <1>2, <1>4, <2>1, <2>2
    <2>5. i \in Int /\ j \in Int
      BY <1>1 DEF ListOK
    <2>6. QED
      BY <2>3, <2>4, <2>5
  <1>5. QED
    BY <1>1, <1>3, <1>4 DEF InUse

(* An unused run on one side of heap_pointer is room. *)
LEMMA RoomAt ==
    ASSUME NEW size \in Nat, heap_pointer \in Nat, NEW b \in Addresses,
           \A c \in b .. b + HEADER + size - 1 : c \notin InUse,
           b + HEADER + size <= HeapLimit,
           b >= heap_pointer \/ b + HEADER + size <= heap_pointer
    PROVE  Room(size)
  <1>1. b \in Nat /\ HEADER \in Nat
    BY BootConstants DEF Addresses
  <1>2. PICK length \in Nat : length = HEADER + size
    BY <1>1
  <1>3. b + length = b + HEADER + size /\ b + length - 1 = b + HEADER + size - 1
    BY <1>1, <1>2
  <1>4. Unused(b, length)
    BY <1>3 DEF Unused
  <1>5. QED
    BY <1>2, <1>4 DEF Room

LEMMA FitsMeansRoom ==
    ASSUME BootInv, NEW size \in Nat, size > 0,
           Fitting(blocks, size) # {} \/ heap_pointer + HEADER + size <= HeapLimit
    PROVE  Room(size)
  <1> USE BootConstants
  <1>1. /\ ListOK(blocks, heap_pointer) /\ heap_pointer \in Nat /\ heap_pointer <= HeapLimit
        /\ DOMAIN blocks = 1 .. Len(blocks) /\ heap_pointer \in Addresses
    BY DEF BootInv, Addresses, ListOK
  <1>2. ASSUME NEW i \in Fitting(blocks, size) PROVE Room(size)
    <2>1. i \in 1 .. Len(blocks) /\ blocks[i].free = 1 /\ blocks[i].size >= size
      BY <1>1 DEF Fitting
    <2> DEFINE b == blocks[i].start
    <2>2. /\ b \in Nat /\ blocks[i].size \in Nat
          /\ End(blocks[i]) = b + HEADER + blocks[i].size
          /\ HeapStart <= b /\ End(blocks[i]) <= heap_pointer
      BY <1>1, <2>1, ListFacts DEF BlockIn
    <2>3. b \in Addresses /\ b + HEADER + size <= heap_pointer
      BY <1>1, <2>1, <2>2 DEF Addresses
    <2>4. ASSUME NEW c \in b .. b + HEADER + size - 1 PROVE c \notin InUse
      <3>1. c \in Nat /\ b <= c /\ c < End(blocks[i])
        BY <2>1, <2>2
      <3>2. QED
        BY <2>1, <3>1, ByteOf
    <2>5. b + HEADER + size <= HeapLimit
      BY <1>1, <2>2, <2>3
    <2> HIDE DEF b
    <2>6. QED
      BY <1>1, <2>3, <2>4, <2>5, RoomAt
  <1>3. ASSUME heap_pointer + HEADER + size <= HeapLimit PROVE Room(size)
    <2>1. ASSUME NEW c \in heap_pointer .. heap_pointer + HEADER + size - 1
          PROVE  c \notin InUse
      <3>1. c \in Nat /\ heap_pointer <= c
        BY <1>1
      <3>2. ASSUME NEW j \in 1 .. Len(blocks), c < End(blocks[j]) PROVE FALSE
        <4>1. End(blocks[j]) \in Nat /\ End(blocks[j]) <= heap_pointer
          BY <1>1, ListFacts DEF BlockIn
        <4>2. QED
          BY <1>1, <3>1, <3>2, <4>1
      <3>3. QED
        BY <1>1, <3>2 DEF InUse
    <2>2. QED
      BY <1>1, <1>3, <2>1, RoomAt
  <1>4. QED
    BY <1>2, <1>3

(* A run below heap_pointer that no block in use touches lies in one free block:
   it would otherwise reach a neighbour that is free too. *)
LEMMA RoomMeansFits ==
    ASSUME BootInv, NEW size \in Nat, size > 0, Fitting(blocks, size) = {}, Room(size)
    PROVE  heap_pointer + HEADER + size <= HeapLimit
  <1> USE BootConstants
  <1>1. /\ ListOK(blocks, heap_pointer) /\ heap_pointer \in Nat /\ heap_pointer <= HeapLimit
        /\ DOMAIN blocks = 1 .. Len(blocks) /\ Len(blocks) \in Nat
        /\ Tiled(blocks, heap_pointer) /\ Merged(blocks)
    BY DEF BootInv, Addresses, ListOK
  <1>2. PICK b \in Addresses :
           /\ \A c \in b .. b + HEADER + size - 1 : c \notin InUse
           /\ \/ b >= heap_pointer /\ b + HEADER + size <= HeapLimit
              \/ b + HEADER + size <= heap_pointer
    <2>1. PICK b \in Addresses :
             /\ Unused(b, HEADER + size)
             /\ b >= heap_pointer \/ b + HEADER + size <= heap_pointer
      BY DEF Room
    <2>2. PICK length \in Nat : length = HEADER + size
      OBVIOUS
    <2>3. /\ b \in Nat /\ b + length = b + HEADER + size
          /\ b + length - 1 = b + HEADER + size - 1
      BY <2>2 DEF Addresses
    <2>4. /\ b + HEADER + size <= HeapLimit
          /\ \A c \in b .. b + HEADER + size - 1 : c \notin InUse
      BY <2>1, <2>2, <2>3 DEF Unused
    <2>5. QED
      BY <2>1, <2>4
  <1>3. b \in Nat /\ HeapStart <= b
    BY DEF Addresses
  <1>4. SUFFICES ASSUME b + HEADER + size <= heap_pointer PROVE FALSE
    BY <1>1, <1>2, <1>3
  <1> DEFINE T == {i \in 1 .. Len(blocks) : End(blocks[i]) > b}
  <1>5. T \in SUBSET Nat /\ T # {}
    <2>1. Len(blocks) > 0
      BY <1>1, <1>3, <1>4 DEF Tiled
    <2>2. Len(blocks) \in 1 .. Len(blocks) /\ End(blocks[Len(blocks)]) = heap_pointer
      BY <1>1, <2>1 DEF Tiled
    <2>3. QED
      BY <1>1, <1>3, <1>4, <2>2
  <1>6. PICK i \in T : \A j \in T : i <= j
    BY <1>5, LeastNatural
  <1>7. /\ i \in 1 .. Len(blocks) /\ End(blocks[i]) > b
        /\ blocks[i].start \in Nat /\ blocks[i].size \in Nat
        /\ End(blocks[i]) = blocks[i].start + HEADER + blocks[i].size
        /\ blocks[i].free \in {0, 1} /\ i \in Nat
    BY <1>1, <1>6, ListFacts
  <1>7a. \A j \in 1 .. Len(blocks) : End(blocks[j]) > b => i <= j
    BY <1>6
  <1> HIDE DEF T
  <1>8. blocks[i].start <= b
    <2>1. CASE i = 1
      BY <1>1, <1>3, <1>7, <2>1 DEF Tiled
    <2>2. CASE i # 1
      <3>1. PICK k \in 1 .. Len(blocks) - 1 : k + 1 = i
        BY <1>1, <1>7, <2>2
      <3>2. k \in 1 .. Len(blocks) /\ ~ (i <= k)
        BY <1>1, <1>7, <3>1
      <3>3. End(blocks[k]) = blocks[k].start + HEADER + blocks[k].size
            /\ blocks[k].start \in Nat /\ blocks[k].size \in Nat
        BY <1>1, <3>2, ListFacts
      <3>4. End(blocks[k]) <= b
        BY <1>3, <1>7a, <3>2, <3>3
      <3>5. blocks[i].start = End(blocks[k])
        BY <1>1, <3>1 DEF Tiled
      <3>6. QED
        BY <3>4, <3>5
    <2>3. QED
      BY <2>1, <2>2
  <1>9. blocks[i].free = 1
    <2>1. b \in b .. b + HEADER + size - 1
      BY <1>3
    <2>2. b \notin InUse
      BY <1>2, <2>1
    <2>3. QED
      BY <1>3, <1>7, <1>8, <2>2, ByteOf
  <1>10. blocks[i].size < size
    BY <1>1, <1>7, <1>9 DEF Fitting
  <1>11. End(blocks[i]) \in Nat /\ End(blocks[i]) < b + HEADER + size
    BY <1>3, <1>7, <1>8, <1>10
  <1>12. i \in 1 .. Len(blocks) - 1 /\ i + 1 \in 1 .. Len(blocks)
    <2>1. i # Len(blocks)
      <3>1. i = Len(blocks) => End(blocks[i]) = heap_pointer
        BY <1>1, <1>7 DEF Tiled
      <3>2. End(blocks[i]) < heap_pointer
        BY <1>1, <1>3, <1>4, <1>11
      <3>3. QED
        BY <1>11, <3>1, <3>2
    <2>2. \A n \in Nat : \A k \in 1 .. n : k # n => k \in 1 .. n - 1 /\ k + 1 \in 1 .. n
      OBVIOUS
    <2>3. QED
      BY <1>1, <1>7, <2>1, <2>2
  <1>13. blocks[i + 1].start = End(blocks[i])
    BY <1>1, <1>12 DEF Tiled
  <1>14. /\ End(blocks[i]) < End(blocks[i + 1]) /\ blocks[i + 1].free \in {0, 1}
    <2>1. /\ blocks[i + 1].start \in Nat /\ blocks[i + 1].size \in Nat
          /\ End(blocks[i + 1]) = blocks[i + 1].start + HEADER + blocks[i + 1].size
          /\ blocks[i + 1].free \in {0, 1}
      BY <1>1, <1>12, ListFacts
    <2>2. QED
      BY <1>11, <1>13, <2>1
  <1>15. blocks[i + 1].free = 1
    <2>1. End(blocks[i]) \in b .. b + HEADER + size - 1
      BY <1>3, <1>7, <1>11
    <2>2. End(blocks[i]) \notin InUse
      BY <1>2, <2>1
    <2>3. End(blocks[i]) \in InUse <=> blocks[i + 1].free = 0
      <3>1. blocks[i + 1].start <= End(blocks[i])
        BY <1>11, <1>13
      <3>2. QED
        BY <1>11, <1>12, <1>14, <3>1, ByteOf
    <2>4. QED
      BY <1>14, <2>2, <2>3
  <1>16. Apart(blocks, i)
    BY <1>1, <1>12 DEF Merged
  <1>17. QED
    BY <1>9, <1>15, <1>16 DEF Apart

(* A run that could hold a block twice has room for it below heap_pointer, unless there is
   room beyond. *)
LEMMA TwiceMeansRoom ==
    ASSUME BootInv, NEW size \in Nat, size > 0, NEW b \in Addresses,
           Unused(b, 2 * (HEADER + size))
    PROVE  Room(size)
  <1> USE BootConstants
  <1>1. heap_pointer \in Nat /\ heap_pointer <= HeapLimit /\ b \in Nat
    BY DEF BootInv, Addresses
  <1>2. CASE heap_pointer + HEADER + size <= HeapLimit
    BY <1>2, FitsMeansRoom
  <1>3. CASE ~ (heap_pointer + HEADER + size <= HeapLimit)
    <2>1. b + 2 * (HEADER + size) <= HeapLimit
      BY DEF Unused
    <2>2. b + HEADER + size <= heap_pointer /\ b + HEADER + size <= HeapLimit
      BY <1>1, <1>3, <2>1
    <2>3. ASSUME NEW c \in b .. b + HEADER + size - 1 PROVE c \notin InUse
      <3>1. c \in b .. b + 2 * (HEADER + size) - 1
        BY <1>1
      <3>2. QED
        BY <3>1 DEF Unused
    <2>4. QED
      BY <1>1, <2>2, <2>3, RoomAt
  <1>4. QED
    BY <1>2, <1>3

(* heap_alloc returns 0 exactly when no unused run on one side of heap_pointer is long
   enough for the request and its header, and never while a run anywhere, across
   heap_pointer included, could hold it twice. *)
THEOREM RefusalsJustified == BootSpec => []RefusesWithoutRoom
  <1>1. BootInv => RefusesWithoutRoom
    <2> SUFFICES ASSUME BootInv, NEW size \in Sizes
                 PROVE  LET rounded == RoundUp(size)
                            refused == Allocated(rounded).address = FAILED
                        IN  /\ refused <=> ~ Room(rounded)
                            /\ refused => \A b \in Addresses :
                                             ~ Unused(b, 2 * (HEADER + rounded))
      BY DEF RefusesWithoutRoom
    <2> DEFINE rounded == RoundUp(size)
    <2>1. rounded \in Nat /\ rounded > 0 /\ rounded % WORD = 0
      BY RoundedUp
    <2>2. heap_pointer \in Nat /\ HeapLimit \in Nat /\ HEADER \in Nat
      BY BootConstants DEF BootInv, Addresses
    <2> HIDE DEF rounded
    <2>3. Allocated(rounded).address = FAILED <=>
             Fitting(blocks, rounded) = {} /\ heap_pointer + HEADER + rounded > HeapLimit
      BY <2>1, AllocatedCases
    <2>4. Fitting(blocks, rounded) # {} \/ heap_pointer + HEADER + rounded <= HeapLimit
             => Room(rounded)
      BY <2>1, FitsMeansRoom
    <2>5. Fitting(blocks, rounded) = {} /\ Room(rounded)
             => heap_pointer + HEADER + rounded <= HeapLimit
      BY <2>1, RoomMeansFits
    <2>6. heap_pointer + HEADER + rounded > HeapLimit
             <=> ~ (heap_pointer + HEADER + rounded <= HeapLimit)
      BY <2>1, <2>2
    <2>7. Allocated(rounded).address = FAILED <=> ~ Room(rounded)
      BY <2>3, <2>4, <2>5, <2>6
    <2>8. \A b \in Addresses : Unused(b, 2 * (HEADER + rounded)) => Room(rounded)
      BY <2>1, TwiceMeansRoom
    <2>9. QED
      BY <2>7, <2>8 DEF rounded
  <1>2. QED
    BY <1>1, BootInvariant, PTL

-----------------------------------------------------------------------------
(* The refinement.  The size of a live allocation is that of the block in use at its
   address, which Uses determines. *)
SizeAt(list, a) == list[FirstOf(At(list, a))].size

LEMMA SizesUsed ==
    ASSUME NEW list, NEW pointer, ListOK(list, pointer), NEW a
    PROVE  /\ \A s : Uses(list, a, s) => SizeAt(list, a) = s
           /\ a \in PayloadsInUse(list) => Uses(list, a, SizeAt(list, a))
  <1>1. \A s : Uses(list, a, s) => SizeAt(list, a) = s
    BY BlockAt DEF SizeAt
  <1>2. QED
    BY <1>1, PayloadsUsed

Live(list, asked) == [a \in DOMAIN asked |-> [size |-> SizeAt(list, a), request |-> asked[a]]]

LEMMA PlacedFits ==
    ASSUME BootInv, NEW address, NEW given, NEW request, Placed(address, given, request)
    PROVE  Abstract!Fits(address, given)
  <1>1. /\ ListOK(blocks, heap_pointer) /\ heap_pointer \in Nat
        /\ DOMAIN requested = PayloadsInUse(blocks)
    BY BootConstants DEF BootInv, Addresses
  <1>2. /\ address \in HeapStart .. HeapLimit - 1
        /\ address + given - 1 \in HeapStart .. HeapLimit - 1
    BY BootConstants DEF Placed
  <1>3. ASSUME NEW a \in DOMAIN requested
        PROVE  Abstract!Bytes(address, given) \cap Abstract!Bytes(a, SizeAt(blocks, a)) = {}
    <2> DEFINE s == SizeAt(blocks, a)
    <2>1. Uses(blocks, a, s)
      BY <1>1, SizesUsed
    <2> HIDE DEF s
    <2>2. a \in Nat /\ s \in Nat
      BY <1>1, <2>1, UsedRuns
    <2>3. a + s <= address \/ address + given <= a
      BY <2>1 DEF Placed
    <2>4. ASSUME NEW c \in HeapStart .. HeapLimit - 1, address <= c, c < address + given,
                 a <= c, c < a + s
          PROVE  FALSE
      BY <2>2, <2>3, <2>4, BootConstants DEF Placed
    <2>5. Abstract!Bytes(address, given) \cap Abstract!Bytes(a, s) = {}
      BY <2>4 DEF Abstract!Bytes
    <2>6. QED
      BY <2>5 DEF s
  <1>4. QED
    BY <1>2, <1>3 DEF Abstract!Fits, SizeAt

(* An allocation that a step does not touch keeps its size. *)
LEMMA SizeKept ==
    ASSUME BootInv, BootInv', NEW a, a \in PayloadsInUse(blocks),
           \A s : Uses(blocks, a, s) => Uses(blocks', a, s)
    PROVE  SizeAt(blocks', a) = SizeAt(blocks, a)
  <1>1. ListOK(blocks, heap_pointer) /\ ListOK(blocks', heap_pointer')
    BY DEF BootInv
  <1>2. Uses(blocks', a, SizeAt(blocks, a))
    BY <1>1, SizesUsed
  <1>3. QED
    BY <1>1, <1>2, SizesUsed

LEMMA HeapStepRefines ==
    ASSUME BootInv, BootInv', HeapStep
    PROVE  Abstract!Next
  <1> DEFINE live == Live(blocks, requested)
             liveNext == Live(blocks', requested')
  <1>1. /\ ListOK(blocks, heap_pointer) /\ ListOK(blocks', heap_pointer')
        /\ DOMAIN requested = PayloadsInUse(blocks)
    BY DEF BootInv
  <1>2. DOMAIN live = DOMAIN requested /\ DOMAIN liveNext = DOMAIN requested'
    BY DEF Live
  <1>3. ASSUME NEW address, NEW given, NEW request, AllocStep(address, given, request)
        PROVE  Abstract!Next
    <2>1. Placed(address, given, request) /\ requested' = Put(requested, address, request)
      BY <1>3 DEF AllocStep
    <2>2. address \notin DOMAIN requested
      BY <1>1, <2>1, NewAddress
    <2>3. SizeAt(blocks', address) = given
      BY <1>1, <1>3, SizesUsed DEF AllocStep
    <2>4. \A a \in DOMAIN requested : SizeAt(blocks', a) = SizeAt(blocks, a)
      BY <1>1, <1>3, SizeKept DEF AllocStep
    <2>5. /\ DOMAIN requested' = DOMAIN requested \cup {address}
          /\ requested'[address] = request
          /\ \A a \in DOMAIN requested : requested'[a] = requested[a]
      BY <2>1, <2>2 DEF Put
    <2>6. liveNext = [a \in (DOMAIN live \ {}) \cup {address} |->
                         IF a = address THEN [size |-> given, request |-> request] ELSE live[a]]
      BY <1>2, <2>2, <2>3, <2>4, <2>5 DEF Live
    <2>7. liveNext[address].size = given /\ liveNext[address].request = request
      BY <1>2, <2>6
    <2>8. Abstract!Fits(address, given)
      BY <2>1, PlacedFits
    <2>9. Abstract!Alloc(address, given, request)
      BY <2>1, <2>6, <2>8 DEF Placed, Abstract!Alloc, Abstract!Replace, Live, SizeAt
    <2>10. address \in DOMAIN liveNext \ DOMAIN live
      BY <1>2, <2>2, <2>5
    <2>11. QED
      BY <2>7, <2>9, <2>10 DEF Abstract!Next, Live, SizeAt
  <1>4. ASSUME NEW old, FreeStep(old) PROVE Abstract!Next
    <2>1. requested' = Drop(requested, {old}) /\ old \in DOMAIN requested
      BY <1>1, <1>4 DEF FreeStep
    <2>2. \A a \in DOMAIN requested \ {old} : SizeAt(blocks', a) = SizeAt(blocks, a)
      BY <1>1, <1>4, SizeKept DEF FreeStep
    <2>3. liveNext = [b \in DOMAIN live \ {old} |-> live[b]]
      BY <1>2, <2>1, <2>2 DEF Live, Drop
    <2>4. Abstract!Free(old)
      BY <2>3 DEF Abstract!Free, Live, SizeAt
    <2>5. old \in DOMAIN live
      BY <1>2, <2>1
    <2>6. QED
      BY <2>4, <2>5 DEF Abstract!Next, Live, SizeAt
  <1>5. ASSUME NEW old, NEW address, NEW given, NEW request, MoveStep(old, address, given, request)
        PROVE  Abstract!Next
    <2>1. /\ Placed(address, given, request) /\ old \in DOMAIN requested
          /\ requested' = Put(Drop(requested, {old}), address, request)
      BY <1>1, <1>5 DEF MoveStep
    <2>2. address \notin DOMAIN requested
      BY <1>1, <2>1, NewAddress
    <2>3. SizeAt(blocks', address) = given
      BY <1>1, <1>5, SizesUsed DEF MoveStep
    <2>4. \A a \in DOMAIN requested \ {old} : SizeAt(blocks', a) = SizeAt(blocks, a)
      BY <1>1, <1>5, SizeKept DEF MoveStep
    <2>5. /\ DOMAIN requested' = (DOMAIN requested \ {old}) \cup {address}
          /\ requested'[address] = request
          /\ \A a \in DOMAIN requested \ {old} : requested'[a] = requested[a]
      BY <2>1, <2>2 DEF Put, Drop
    <2>6. liveNext = [a \in (DOMAIN live \ {old}) \cup {address} |->
                         IF a = address THEN [size |-> given, request |-> request] ELSE live[a]]
      BY <1>2, <2>2, <2>3, <2>4, <2>5 DEF Live
    <2>7. liveNext[address].size = given /\ liveNext[address].request = request
      BY <1>2, <2>6
    <2>8. Abstract!Fits(address, given)
      BY <2>1, PlacedFits
    <2>9. given > live[old].size
      <3>1. Uses(blocks, old, SizeAt(blocks, old)) /\ heap_pointer \in Nat
        BY <1>1, <2>1, SizesUsed, BootConstants DEF BootInv, Addresses
      <3>2. SizeAt(blocks, old) < given /\ SizeAt(blocks, old) \in Nat
        BY <1>1, <1>5, <3>1, UsedRuns DEF MoveStep
      <3>3. live[old].size = SizeAt(blocks, old)
        BY <2>1 DEF Live
      <3>4. QED
        BY <2>1, <3>2, <3>3 DEF Placed
    <2>10. Abstract!Move(old, address, given, request)
      BY <2>1, <2>6, <2>8, <2>9 DEF Placed, Abstract!Move, Abstract!Replace, Live, SizeAt
    <2>11. address \in DOMAIN liveNext \ DOMAIN live /\ old \in DOMAIN live
      BY <1>2, <2>1, <2>2, <2>5
    <2>12. QED
      BY <2>7, <2>10, <2>11 DEF Abstract!Next, Live, SizeAt
  <1>6. QED
    BY <1>3, <1>4, <1>5 DEF HeapStep

(* Refinement: for every heap and every sequence of calls, the list of headers is the
   allocator its callers expect, so an allocation is long enough, shares no byte with
   another and keeps its place and size until its owner gives it back or moves it. *)
THEOREM BootRefinement == BootSpec => BootImplementsAllocator
  <1>1. BootInit => Abstract!Init
    BY DEF BootInit, Abstract!Init
  <1>2. BootInv /\ [BootNext]_bootVars => [Abstract!Next]_(Live(blocks, requested))
    <2>1. UNCHANGED bootVars => UNCHANGED Live(blocks, requested)
      BY DEF bootVars, Live, SizeAt, At, FirstOf, Payload
    <2>2. QED
      BY <2>1, BootStep, HeapStepRefines
  <1>3. QED
    BY <1>1, <1>2, BootInvariant, PTL
    DEF BootSpec, BootImplementsAllocator, Abstract!Spec, Live, SizeAt
=============================================================================
