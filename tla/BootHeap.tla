------------------------------- MODULE BootHeap -------------------------------
(***************************************************************************)
(* The kernel heap before paging is on (src/kernel.c): a list of blocks,   *)
(* each a header followed by its payload, allocated first fit, split when  *)
(* they are too large and merged with both neighbours when freed.  New     *)
(* blocks are added at heap_pointer, up to heap_limit.                     *)
(*                                                                         *)
(* Requests are sizes of structures and stacks, far from the width of an   *)
(* unsigned int, so sums do not wrap.  No interrupt handler allocates:     *)
(* each call runs to completion.                                           *)
(***************************************************************************)
EXTENDS Integers, Sequences, SequencesExt

CONSTANTS HEADER,     \* sizeof(heap_block_t), 12
          WORD,       \* allocation granularity, 4
          HeapStart,  \* first page boundary after the kernel
          HeapLimit,  \* heap_limit
          Sizes       \* sizes requested

ASSUME BootAssumption ==
    /\ WORD \in Nat \ {0}
    /\ HEADER \in Nat \ {0} /\ HEADER % WORD = 0
    /\ HeapStart \in Nat \ {0} /\ HeapLimit \in Nat /\ HeapStart <= HeapLimit
    /\ Sizes \subseteq Nat \ {0}

VARIABLES blocks,       \* the list from heap_first_block on: header address, size, free
          heap_pointer, \* where the next new block goes
          requested     \* history: what each live allocation was asked for with

bootVars == <<blocks, heap_pointer, requested>>

(* Mutant: the size is rounded down. *)
round_down(size) == (size \div WORD) * WORD

(* size = (size + 3) & ~3 *)
RoundUp(size) == ((size + WORD - 1) \div WORD) * WORD

Payload(b) == b.start + HEADER
End(b) == Payload(b) + b.size

(* The index the walk along the list stops at: the first one in S. *)
FirstOf(S) == CHOOSE i \in S : \A j \in S : i <= j

(* The free blocks that are large enough, and the block with this payload address. *)
Fitting(list, size) == {i \in DOMAIN list : list[i].free = 1 /\ list[i].size >= size}
At(list, address) == {i \in DOMAIN list : Payload(list[i]) = address}

-----------------------------------------------------------------------------
(* Mutant: a block is split although nothing is left for the new one. *)
split_empty(list, i, size) ==
    IF list[i].size >= size + HEADER
    THEN InsertAt([list EXCEPT ![i] = [@ EXCEPT !.size = size, !.free = 0]], i + 1,
                  [start |-> Payload(list[i]) + size,
                   size |-> list[i].size - size - HEADER, free |-> 1])
    ELSE [list EXCEPT ![i].free = 0]

(* Mutant: the header of the new block is not taken off its size. *)
split_without_header(list, i, size) ==
    IF list[i].size >= size + HEADER + 1
    THEN InsertAt([list EXCEPT ![i] = [@ EXCEPT !.size = size, !.free = 0]], i + 1,
                  [start |-> Payload(list[i]) + size, size |-> list[i].size - size, free |-> 1])
    ELSE [list EXCEPT ![i].free = 0]

(* A free block is taken; what it has beyond size, header aside, becomes a free
   block of its own behind it. *)
Take(list, i, size) ==
    IF list[i].size >= size + HEADER + 1
    THEN InsertAt([list EXCEPT ![i] = [@ EXCEPT !.size = size, !.free = 0]], i + 1,
                  [start |-> Payload(list[i]) + size,
                   size |-> list[i].size - size - HEADER, free |-> 1])
    ELSE [list EXCEPT ![i].free = 0]

FAILED == 0

(* Mutant: the last byte below the limit is never given out. *)
alloc_one_short(size) ==
    LET fitting == Fitting(blocks, size)
        i == FirstOf(fitting)
        new == [start |-> heap_pointer, size |-> size, free |-> 0]
    IN  IF fitting # {}
        THEN [address |-> Payload(blocks[i]), list |-> Take(blocks, i, size),
              pointer |-> heap_pointer]
        ELSE IF End(new) >= HeapLimit
        THEN [address |-> FAILED, list |-> blocks, pointer |-> heap_pointer]
        ELSE [address |-> Payload(new), list |-> Append(blocks, new), pointer |-> End(new)]

(* What heap_alloc does for a rounded size: the first free block that is large
   enough, or a new one at heap_pointer, or nothing. *)
Allocated(size) ==
    LET fitting == Fitting(blocks, size)
        i == FirstOf(fitting)
        new == [start |-> heap_pointer, size |-> size, free |-> 0]
    IN  IF fitting # {}
        THEN [address |-> Payload(blocks[i]), list |-> Take(blocks, i, size),
              pointer |-> heap_pointer]
        ELSE IF End(new) > HeapLimit
        THEN [address |-> FAILED, list |-> blocks, pointer |-> heap_pointer]
        ELSE [address |-> Payload(new), list |-> Append(blocks, new), pointer |-> End(new)]

heap_blocks_adjacent(first, second) == End(first) = second.start

(* Blocks i and i + 1 become one, if both are free and nothing lies between. *)
Merge(list, i) ==
    IF /\ {i, i + 1} \subseteq DOMAIN list
       /\ list[i].free = 1 /\ list[i + 1].free = 1
       /\ heap_blocks_adjacent(list[i], list[i + 1])
    THEN RemoveAt([list EXCEPT ![i].size = @ + HEADER + list[i + 1].size], i + 1)
    ELSE list

(* Mutant: only the next block is looked at. *)
freed_one_sided(list, i) == Merge([list EXCEPT ![i].free = 1], i)

(* Block i is marked free and merged with the next block, then with the previous. *)
Freed(list, i) == Merge(Merge([list EXCEPT ![i].free = 1], i), i - 1)

Drop(f, S) == [a \in DOMAIN f \ S |-> f[a]]
Put(f, a, x) == [b \in DOMAIN f \cup {a} |-> IF b = a THEN x ELSE f[b]]

-----------------------------------------------------------------------------
BootInit == blocks = <<>> /\ heap_pointer = HeapStart /\ requested = [a \in {} |-> 0]

heap_alloc(size) ==
    LET new == Allocated(RoundUp(size))
    IN  /\ new.address # FAILED
        /\ blocks' = new.list /\ heap_pointer' = new.pointer
        /\ requested' = Put(requested, new.address, size)

(* Any address may be freed: one that is not the payload of a block in use, because
   it was freed before or merged away, changes nothing. *)
heap_free(address) ==
    \E i \in At(blocks, address) :
        /\ blocks[i].free = 0
        /\ blocks' = Freed(blocks, i)
        /\ requested' = Drop(requested, {address})
        /\ UNCHANGED heap_pointer

(* A larger block, a copy, the old block freed; heap_free leaves the old block as it is
   if it is free already (heap_alloc cannot have taken it: it is too small).  A block that
   is large enough already, or no room, leaves all as it is. *)
heap_realloc(address, size) ==
    \E i \in At(blocks, address) :
        LET new == Allocated(RoundUp(size))
        IN  /\ blocks[i].size < RoundUp(size)
            /\ new.address # FAILED
            /\ blocks' = IF blocks[i].free = 1 THEN new.list
                         ELSE Freed(new.list, FirstOf(At(new.list, address)))
            /\ heap_pointer' = new.pointer
            /\ requested' = Put(Drop(requested, {address}), new.address, RoundUp(size))

Addresses == HeapStart .. HeapLimit

BootNext ==
    \/ \E size \in Sizes : heap_alloc(size)
    \/ \E address \in Addresses : heap_free(address)
    \/ \E address \in Addresses, size \in Sizes : heap_realloc(address, size)

BootSpec == BootInit /\ [][BootNext]_bootVars
-----------------------------------------------------------------------------
(* Type invariant: no block is empty, and sizes keep the allocator's granularity. *)
BootTypeOK ==
    /\ blocks \in Seq([start : Addresses, size : Nat, free : {0, 1}])
    /\ \A i \in DOMAIN blocks : blocks[i].size > 0 /\ blocks[i].size % WORD = 0
    /\ heap_pointer \in Addresses
    /\ DOMAIN requested = {Payload(blocks[i]) : i \in {j \in DOMAIN blocks : blocks[j].free = 0}}
    /\ \A a \in DOMAIN requested : requested[a] \in Nat

(* Through every split and merge the list is in the order of addresses and its
   blocks cover the heap from its start to heap_pointer without gap or overlap: the
   sizes in the headers always add up, so heap_blocks_adjacent never fails. *)
BlocksTile ==
    /\ blocks # <<>> => /\ blocks[1].start = HeapStart
                        /\ End(blocks[Len(blocks)]) = heap_pointer
    /\ \A i \in 1 .. Len(blocks) - 1 : blocks[i + 1].start = End(blocks[i])

(* Two neighbouring blocks are never both free, whatever order they were freed in
   and however they had been split: merging with both sides is enough. *)
Coalesced ==
    \A i \in 1 .. Len(blocks) - 1 : ~ (blocks[i].free = 1 /\ blocks[i + 1].free = 1)

InUse == {b \in Addresses : \E i \in DOMAIN blocks :
             blocks[i].free = 0 /\ blocks[i].start <= b /\ b < End(blocks[i])}

(* The bytes from b on, this many, lie in the heap and in no block in use. *)
Unused(b, length) ==
    b + length <= HeapLimit /\ \A c \in b .. b + length - 1 : c \notin InUse

(* There is an unused run for a block of this size and its header that lies on one side
   of heap_pointer: heap_alloc does not join a free last block with the space beyond. *)
Room(size) ==
    \E b \in Addresses :
        /\ Unused(b, HEADER + size)
        /\ b >= heap_pointer \/ b + HEADER + size <= heap_pointer

(* heap_alloc returns 0 exactly when there is no such run: freed memory, however it was
   fragmented, is found again.  What is lost by not joining at heap_pointer is less than
   one block: a request is never refused while a run anywhere could hold it twice. *)
RefusesWithoutRoom ==
    \A size \in Sizes :
        LET rounded == RoundUp(size)
            refused == Allocated(rounded).address = FAILED
        IN  /\ refused <=> ~ Room(rounded)
            /\ refused => \A b \in Addresses : ~ Unused(b, 2 * (HEADER + rounded))

Abstract == INSTANCE Allocator WITH
    Region <- HeapStart .. HeapLimit - 1,
    live <- [a \in DOMAIN requested |->
                [size |-> blocks[FirstOf(At(blocks, a))].size, request |-> requested[a]]]

(* The list of headers implements the allocator its callers expect: allocations
   are long enough, apart from each other, and untouched by splits and merges. *)
BootImplementsAllocator == Abstract!Spec
=============================================================================
