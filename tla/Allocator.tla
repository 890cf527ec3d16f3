------------------------------ MODULE Allocator ------------------------------
(***************************************************************************)
(* What the kernel's callers expect of heap_alloc, heap_free and           *)
(* heap_realloc, whichever heap is behind them: every allocation is a run  *)
(* of bytes inside the heap, at least as long as was asked for, that       *)
(* shares no byte with any other and stays where it is, with its size,     *)
(* until its owner gives it back or has it moved.  BootHeap and, for       *)
(* requests that fit a page, PagedHeap implement this.                     *)
(***************************************************************************)
EXTENDS Naturals

CONSTANT Region       \* the addresses of the heap

VARIABLE live         \* address -> [size, request] of every allocation

Bytes(address, size) == {b \in Region : address <= b /\ b < address + size}

(* A run of size bytes at the address is inside the heap and belongs to nobody. *)
Fits(address, size) ==
    /\ address \in Region /\ address + size - 1 \in Region
    /\ \A a \in DOMAIN live : Bytes(address, size) \cap Bytes(a, live[a].size) = {}

(* The allocations in given, a set of addresses, are given back; then address is
   that of a new allocation. *)
Replace(given, address, size, request) ==
    live' = [a \in (DOMAIN live \ given) \cup {address} |->
                IF a = address THEN [size |-> size, request |-> request] ELSE live[a]]

Init == live = [a \in {} |-> 0]

Alloc(address, size, request) ==
    /\ size >= request /\ Fits(address, size)
    /\ Replace({}, address, size, request)

Free(a) == live' = [b \in DOMAIN live \ {a} |-> live[b]]

(* A larger copy is made before the old one is given back. *)
Move(a, address, size, request) ==
    /\ size >= request /\ size > live[a].size /\ Fits(address, size)
    /\ Replace({a}, address, size, request)

(* The allocation that appears in this step, if any, is described by live' itself. *)
Next ==
    \/ \E a \in DOMAIN live : Free(a)
    \/ \E a \in DOMAIN live' \ DOMAIN live :
          \/ Alloc(a, live'[a].size, live'[a].request)
          \/ \E old \in DOMAIN live : Move(old, a, live'[a].size, live'[a].request)

Spec == Init /\ [][Next]_live
=============================================================================
