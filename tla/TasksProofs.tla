----------------------------- MODULE TasksProofs -----------------------------
(***************************************************************************)
(* The processes and tasks of the kernel, for every page size, heap,       *)
(* structure size, image and pointer: what the kernel touches for a Ring 3 *)
(* program lies in the program's pages, and all that processes, address    *)
(* spaces and tasks do to the heap are heap operations, so that what is    *)
(* proved of the heap holds of the kernel.  Then, from an invariant on who *)
(* owns which structure at each stage of a creation and of a release: the  *)
(* timer never meets a freed task, and a failed creation gives back what   *)
(* it took.                                                                *)
(***************************************************************************)
EXTENDS Tasks, PagedHeapProofs, FiniteSetTheorems, WellFoundedInduction

-----------------------------------------------------------------------------
(* The loader and the system calls. *)

LEMMA UserConstants ==
    /\ MODULUS \in Nat
    /\ USER_CODE_BASE \in Nat \ {0} /\ USER_CODE_SIZE \in Nat \ {0}
    /\ USER_STACK_BASE \in Nat \ {0} /\ USER_STACK_SIZE \in Nat \ {0}
    /\ USER_CODE_BASE + USER_CODE_SIZE < MODULUS
    /\ USER_STACK_BASE + USER_STACK_SIZE < MODULUS
    /\ Words \subseteq 0 .. MODULUS - 1 /\ Pointers \subseteq 0 .. MODULUS - 1
    /\ EventSize \in Nat /\ IdentitySize \in Nat /\ InfoSize \in Nat
  BY UserAssumption

(* A region that ends below the modulus is the interval it looks like. *)
LEMMA BytesInterval ==
    ASSUME NEW a \in Nat, NEW n \in Nat, a + n <= MODULUS
    PROVE  Bytes(a, n) = a .. a + n - 1
  <1>1. ASSUME NEW k \in 0 .. n - 1
        PROVE  Plus(a, k) = a + k
    BY UserConstants DEF Plus
  <1>2. ASSUME NEW b \in a .. a + n - 1
        PROVE  \E k \in 0 .. n - 1 : b = Plus(a, k)
    <2>1. b - a \in 0 .. n - 1 /\ a + (b - a) = b
      OBVIOUS
    <2>2. QED
      BY <1>1, <2>1
  <1>3. ASSUME NEW b \in Bytes(a, n)
        PROVE  b \in a .. a + n - 1
    <2>1. PICK k \in 0 .. n - 1 : b = Plus(a, k)
      BY DEF Bytes
    <2>2. QED
      BY <1>1, <2>1
  <1>4. QED
    BY <1>2, <1>3 DEF Bytes

LEMMA UserPages ==
    /\ CodePage = USER_CODE_BASE .. USER_CODE_BASE + USER_CODE_SIZE - 1
    /\ StackPage = USER_STACK_BASE .. USER_STACK_BASE + USER_STACK_SIZE - 1
  BY BytesInterval, UserConstants DEF CodePage, StackPage

(* The checks of the loader bound what it writes and where the program starts,
   although its sums and its subtraction wrap. *)
LEMMA LoadInBounds ==
    ASSUME NEW image, Load(image)
    PROVE  UserAccessInBounds'
  <1> DEFINE payload == PayloadSize(image)
             total == Plus(payload, image.bss_size)
  <1>1. /\ image \in Images /\ payload >= image.code_size /\ total >= payload
        /\ total <= USER_CODE_SIZE /\ image.entry < image.code_size
    BY DEF Load, Loadable, Accepts
  <1>2. /\ image.code_size \in Nat /\ image.data_size \in Nat /\ image.bss_size \in Nat
        /\ image.entry \in Nat
    <2>1. image \in Images
      BY <1>1
    <2>2. /\ image.code_size \in Words /\ image.data_size \in Words
          /\ image.bss_size \in Words /\ image.entry \in Words
      BY <2>1 DEF Images
    <2>3. \A w \in Words : w \in Nat
      BY UserConstants
    <2>4. QED
      BY <2>2, <2>3
  <1>3. payload \in Nat /\ total \in Nat
    BY <1>2, UserConstants DEF PayloadSize, Plus
  <1> HIDE DEF payload, total
  <1>4. payload <= USER_CODE_SIZE /\ image.entry < USER_CODE_SIZE
    BY <1>1, <1>2, <1>3, UserConstants
  <1>5. ASSUME NEW n \in Nat, n <= USER_CODE_SIZE
        PROVE  Bytes(USER_CODE_BASE, n) \subseteq CodePage
    BY <1>5, UserConstants, UserPages, BytesInterval
  <1>6. access' = [read |-> {},
                   written |-> Bytes(USER_CODE_BASE, payload) \cup StackPage \cup
                               Bytes(USER_CODE_BASE, total)]
    BY DEF Load, payload, total
  <1>7. access'.written \subseteq CodePage \cup StackPage /\ access'.read = {}
    BY <1>1, <1>3, <1>4, <1>5, <1>6
  <1>8. entry_point' \in CodePage
    <2>1. entry_point' = USER_CODE_BASE + image.entry
      BY DEF Load
    <2>2. QED
      BY <1>2, <1>4, <2>1, UserConstants, UserPages
  <1>9. QED
    BY <1>7, <1>8 DEF UserAccessInBounds

(* A buffer that passes its check lies in the stack page. *)
LEMMA BufferInStack ==
    ASSUME NEW address \in Pointers, NEW size \in Nat,
           security_user_buffer_valid(address, size)
    PROVE  Bytes(address, size) \subseteq StackPage
  <1>1. /\ address \in Nat /\ address >= USER_STACK_BASE
        /\ address + size <= USER_STACK_BASE + USER_STACK_SIZE
    BY UserConstants DEF security_user_buffer_valid, USER_STACK_TOP
  <1>2. Bytes(address, size) = address .. address + size - 1
    BY <1>1, UserConstants, BytesInterval
  <1>3. QED
    BY <1>1, <1>2, UserConstants, UserPages

(* A path that passes its check ends in the stack page: the reader stops at the
   terminator the check found, or before it. *)
LEMMA PathInStack ==
    ASSUME NEW path \in Pointers, NEW contents, security_user_string_valid(path, contents)
    PROVE  PathBytes(path, contents) \subseteq StackPage
  <1>1. /\ path \in Nat /\ path < MODULUS /\ path >= USER_STACK_BASE
    BY UserConstants DEF security_user_string_valid
  <1>2. PICK z \in StackPage : z >= path /\ contents[z] = 0
    BY DEF security_user_string_valid
  <1>3. Bytes(path, MODULUS - path) = path .. MODULUS - 1
    <2>1. MODULUS - path \in Nat /\ path + (MODULUS - path) = MODULUS
      BY <1>1, UserConstants
    <2>2. QED
      BY <1>1, <2>1, BytesInterval
  <1>4. ASSUME NEW b \in PathBytes(path, contents)
        PROVE  b \in StackPage
    <2>1. /\ b \in path .. MODULUS - 1
          /\ ~ (path <= z /\ z < b)
      BY <1>2, <1>3 DEF PathBytes
    <2>2. z \in Nat /\ z < USER_STACK_BASE + USER_STACK_SIZE
      BY <1>2, UserPages, UserConstants
    <2>3. QED
      BY <1>1, <1>2, <2>1, <2>2, UserPages, UserConstants
  <1>5. QED
    BY <1>4

LEMMA CallInBounds ==
    ASSUME UserAccessInBounds, NEW backed \in BOOLEAN, UserCall(backed)
    PROVE  UserAccessInBounds'
  <1>1. ASSUME NEW address \in Pointers, NEW size \in Nat, NEW available,
               StoreThrough(address, size, available)
        PROVE  UserAccessInBounds'
    BY <1>1, BufferInStack DEF StoreThrough, UserAccessInBounds
  <1>2. ASSUME NEW path \in Pointers, NEW address \in Pointers, NEW contents, NEW found,
               syscall_fs_info(path, address, contents, found)
        PROVE  UserAccessInBounds'
    <2> DEFINE valid == security_user_string_valid(path, contents)
                          /\ security_user_buffer_valid(address, InfoSize)
    <2>1. valid => /\ PathBytes(path, contents) \subseteq StackPage
                   /\ Bytes(address, InfoSize) \subseteq StackPage
      BY PathInStack, BufferInStack, UserConstants
    <2>2. /\ access' = [read |-> IF valid THEN PathBytes(path, contents) ELSE {},
                        written |-> IF valid /\ found THEN Bytes(address, InfoSize) ELSE {}]
          /\ UNCHANGED entry_point
      BY <1>2 DEF syscall_fs_info
    <2> HIDE DEF valid
    <2>3. QED
      BY <2>1, <2>2 DEF UserAccessInBounds
  <1>3. QED
    BY <1>1, <1>2, UserConstants DEF UserCall, syscall_audit_read, syscall_identity

-----------------------------------------------------------------------------
(* Everything else the kernel does touches nothing for a program. *)
LEMMA QuietInBounds ==
    ASSUME UserAccessInBounds, Quiet
    PROVE  UserAccessInBounds'
  BY DEF Quiet, NoAccess, UserAccessInBounds

LEMMA CreationsQuiet ==
    ASSUME \/ process_create \/ address_space_create \/ space_directory \/ space_tables
           \/ task_create \/ task_create_user \/ task_context \/ syscall_alloc
    PROVE  Quiet
  <1>1. CASE process_create
    BY <1>1 DEF process_create, Create
  <1>2. CASE address_space_create
    BY <1>2 DEF address_space_create, Create
  <1>3. CASE space_directory
    BY <1>3 DEF space_directory, Create
  <1>4. CASE space_tables
    BY <1>4 DEF space_tables, Create
  <1>5. CASE task_create
    BY <1>5 DEF task_create, Create
  <1>6. CASE task_create_user
    BY <1>6 DEF task_create_user, Create
  <1>7. CASE task_context
    BY <1>7 DEF task_context
  <1>8. CASE syscall_alloc
    BY <1>8 DEF syscall_alloc, Create
  <1>9. QED
    BY <1>1, <1>2, <1>3, <1>4, <1>5, <1>6, <1>7, <1>8

LEMMA DisposalsQuiet ==
    ASSUME \/ GiveUp \/ Keep \/ Grow \/ Run \/ Stop
           \/ Destroy({"space", "process", "instance", "block"})
           \/ DestroyNext \/ EndSession \/ Release \/ UserComputes
    PROVE  Quiet
  BY DEF GiveUp, Keep, Grow, Run, Stop, Destroy, DestroyNext, EndSession, Release,
         UserComputes

(* Whatever a program header declares and whatever pointers a program passes, the
   kernel writes for it only inside the user code and stack pages, reads no path past
   the end of the stack page, and starts it inside its code: for every page size and
   position, structure size and pointer width. *)
THEOREM UserAccessBounded == TasksSpec => []UserAccessInBounds
  <1>1. TasksInit => UserAccessInBounds
    BY DEF TasksInit, UserInit, NoAccess, UserAccessInBounds
  <1>2. UserAccessInBounds /\ [TasksNext]_vars => UserAccessInBounds'
    <2> SUFFICES ASSUME UserAccessInBounds, [TasksNext]_vars PROVE UserAccessInBounds'
      OBVIOUS
    <2>1. CASE UNCHANGED vars
      BY <2>1 DEF vars, userVars, UserAccessInBounds
    <2>2. CASE UserPrepare
      <3>1. CASE LoadFails
        BY <3>1 DEF LoadFails, NoAccess, UserAccessInBounds
      <3>2. QED
        BY <2>2, <3>1, LoadInBounds DEF UserPrepare
    <2>3. CASE UserSyscall
      <3>1. PICK backed \in Backed : UserCall(backed)
        BY <2>3 DEF UserSyscall
      <3>2. backed \in BOOLEAN
        BY DEF Backed
      <3>3. QED
        BY <3>1, <3>2, CallInBounds
    <2>4. QED
      BY <2>1, <2>2, <2>3, CreationsQuiet, DisposalsQuiet, QuietInBounds DEF TasksNext
  <1>3. QED
    BY <1>1, <1>2, PTL DEF TasksSpec

-----------------------------------------------------------------------------
(* The heap under the kernel's structures. *)

LEMMA AllocateIsHeapStep ==
    ASSUME NEW kind \in AlignedKinds \cup PlainKinds, Allocate(kind)
    PROVE  [HeapNext]_heapVars
  BY TasksAssumption DEF Allocate, AlignedKinds, PlainKinds, Refused, HeapNext

LEMMA CreationsAllocate ==
    ASSUME \/ process_create \/ address_space_create \/ space_directory \/ space_tables
           \/ task_create \/ task_create_user \/ task_context \/ syscall_alloc
    PROVE  \E kind \in AlignedKinds \cup PlainKinds : Allocate(kind)
  <1> USE DEF AlignedKinds, PlainKinds
  <1>1. CASE process_create
    BY <1>1 DEF process_create, Create
  <1>2. CASE address_space_create
    BY <1>2 DEF address_space_create, Create
  <1>3. CASE space_directory
    BY <1>3 DEF space_directory, Create
  <1>4. CASE space_tables
    BY <1>4 DEF space_tables, Create
  <1>5. CASE task_create
    BY <1>5 DEF task_create, Create
  <1>6. CASE task_create_user
    BY <1>6 DEF task_create_user, Create
  <1>7. CASE task_context
    BY <1>7 DEF task_context
  <1>8. CASE syscall_alloc
    BY <1>8 DEF syscall_alloc, Create
  <1>9. QED
    BY <1>1, <1>2, <1>3, <1>4, <1>5, <1>6, <1>7, <1>8

(* Every step of the kernel is one heap operation or leaves the heap alone. *)
LEMMA TasksHeapStep ==
    ASSUME [TasksNext]_vars
    PROVE  [HeapNext]_heapVars
  <1>1. CASE \/ process_create \/ address_space_create \/ space_directory \/ space_tables
             \/ task_create \/ task_create_user \/ task_context \/ syscall_alloc
    BY <1>1, CreationsAllocate, AllocateIsHeapStep
  <1>2. CASE Grow
    <2>1. \/ \E i \in SlotAt(made[1]) : heap_realloc(i, SizeOf.grown)
          \/ UNCHANGED heapVars
      BY <1>2 DEF Grow, Refused
    <2>2. SizeOf.grown \in PlainSizes
      BY TasksAssumption DEF PlainKinds
    <2>3. QED
      BY <2>1, <2>2 DEF HeapNext, SlotAt
  <1>3. CASE Release
    BY <1>3 DEF Release, FreeAddress, SlotAt, HeapNext
  <1>4. CASE \/ GiveUp \/ Keep \/ Run \/ Stop
             \/ Destroy({"space", "process", "instance", "block"})
             \/ DestroyNext \/ EndSession \/ UserPrepare \/ UserSyscall \/ UserComputes
    BY <1>4 DEF GiveUp, Keep, Run, Stop, Destroy, DestroyNext, EndSession, UserPrepare,
                UserSyscall, UserComputes
  <1>5. CASE UNCHANGED vars
    BY <1>5 DEF vars
  <1>6. QED
    BY <1>1, <1>2, <1>3, <1>4, <1>5 DEF TasksNext

LEMMA TasksInitFrames == TasksInit => FrameInv
  BY HeapAssumption, EntriesNotFrames, RegionFacts, TasksAssumption
  DEF TasksInit, FrameInv, HeapTypeOK, FramesExclusive

LEMMA TasksInitPlacement == TasksInit => PlacementInv
  <1> SUFFICES ASSUME TasksInit PROVE PlacementInv
    OBVIOUS
  <1>1. \A i \in Slots : ~ Used(i)
    BY DEF TasksInit, Used
  <1>2. heap_pointer <= HEAP_PAGED_LIMIT
    BY TasksAssumption, RegionFacts DEF TasksInit
  <1>3. QED
    BY <1>1, <1>2, TasksInitFrames
    DEF PlacementInv, BlocksInRegion, AddressesDistinct, PointerAbove

(* In the running kernel no frame backs two heap pages and frame_alloc never hands out
   a frame a heap page still uses, whichever of the allocations fail. *)
THEOREM KernelFramesExclusive == TasksSpec => []FramesExclusive
  <1>1. FrameInv /\ [TasksNext]_vars => FrameInv'
    BY TasksHeapStep, FrameInvInductive
  <1>2. FrameInv => FramesExclusive
    BY DEF FrameInv
  <1>3. QED
    BY <1>1, <1>2, TasksInitFrames, PTL DEF TasksSpec

(* In the running kernel every heap block lies in the region and is found by its
   address, provided the sizes of the structures do not wrap. *)
THEOREM KernelPlacement == NoWrap => (TasksSpec => []PlacementSound)
  <1> SUFFICES ASSUME NoWrap PROVE TasksSpec => []PlacementSound
    OBVIOUS
  <1>1. PlacementInv /\ [TasksNext]_vars => PlacementInv'
    BY TasksHeapStep, PlacementInvInductive
  <1>2. PlacementInv => PlacementSound
    BY DEF PlacementInv, PlacementSound
  <1>3. QED
    BY <1>1, <1>2, TasksInitPlacement, PTL DEF TasksSpec

-----------------------------------------------------------------------------
(* What a heap call returns and does to the blocks in use. *)

(* The heap once slot i has been filled with a block at an address no slot in use has,
   the slots in doomed having been freed. *)
LEMMA FilledSlot ==
    ASSUME HeapTypeOK, AddressesDistinct, NEW i \in Slots, ~ Live(i),
           NEW a \in Nat \ {0}, NEW size \in Nat, NEW request \in Nat,
           NEW doomed \in SUBSET Slots, \A j \in doomed : Live(j),
           \A j \in Slots : j # i /\ Used(j) => paged_heap_blocks[j].address # a,
           SetBlock(i, a, size, request, doomed)
    PROVE  /\ Returned = a /\ a \notin InUse
           /\ InUse' = (InUse \ {paged_heap_blocks[j].address : j \in doomed}) \cup {a}
           /\ Live(i)' /\ paged_heap_blocks'[i].address = a /\ paged_heap_blocks'[i].size = size
           /\ \A j \in Slots : Live(j) /\ j \notin doomed =>
                 paged_heap_blocks'[j] = paged_heap_blocks[j]
  <1>1. /\ paged_heap_blocks'[i].address = a /\ paged_heap_blocks'[i].size = size
        /\ paged_heap_blocks'[i].free = 0
        /\ \A j \in Slots : j # i =>
              /\ paged_heap_blocks'[j].address = paged_heap_blocks[j].address
              /\ paged_heap_blocks'[j].free =
                    IF j \in doomed THEN 1 ELSE paged_heap_blocks[j].free
    BY SetBlockFields
  <1>2. \A j \in Slots : j # i /\ j \notin doomed =>
           paged_heap_blocks'[j] = paged_heap_blocks[j]
    BY DEF SetBlock
  <1>3. i \notin doomed
    OBVIOUS
  <1>4. paged_heap_blocks'[i] # paged_heap_blocks[i]
    BY <1>1 DEF Live, Used, Free
  <1>5. Returned = a
    <2>1. \A j \in Slots : paged_heap_blocks'[j].free = 0
                             /\ paged_heap_blocks'[j] # paged_heap_blocks[j] => j = i
      BY <1>1, <1>2
    <2>2. ~ \A j \in Slots : \/ paged_heap_blocks'[j].free = 1
                             \/ paged_heap_blocks'[j] = paged_heap_blocks[j]
      BY <1>1, <1>4
    <2>3. (CHOOSE j \in Slots : paged_heap_blocks'[j].free = 0
                                  /\ paged_heap_blocks'[j] # paged_heap_blocks[j]) = i
      BY <1>1, <1>4, <2>1
    <2>4. QED
      BY <1>1, <2>2, <2>3 DEF Returned
  <1>6. a \notin InUse
    BY DEF InUse, Live
  <1>7. Live(i)' /\ \A j \in Slots : j # i => (Live(j)' <=> Live(j) /\ j \notin doomed)
    BY <1>1 DEF Live, Used, Free
  <1>8. InUse' = (InUse \ {paged_heap_blocks[j].address : j \in doomed}) \cup {a}
    <2>1. ASSUME NEW b \in InUse' PROVE b \in (InUse \ {paged_heap_blocks[j].address : j \in doomed}) \cup {a}
      <3>1. PICK j \in Slots : Live(j)' /\ b = paged_heap_blocks'[j].address
        BY DEF InUse
      <3>2. CASE j = i
        BY <1>1, <3>1, <3>2
      <3>3. CASE j # i
        <4>1. Live(j) /\ j \notin doomed /\ b = paged_heap_blocks[j].address
          BY <1>1, <1>7, <3>1, <3>3
        <4>2. \A k \in doomed : paged_heap_blocks[k].address # b
          BY <4>1 DEF AddressesDistinct, Live
        <4>3. QED
          BY <4>1, <4>2 DEF InUse
      <3>4. QED
        BY <3>2, <3>3
    <2>2. ASSUME NEW b \in InUse, b \notin {paged_heap_blocks[j].address : j \in doomed}
          PROVE  b \in InUse'
      <3>1. PICK j \in Slots : Live(j) /\ b = paged_heap_blocks[j].address
        BY DEF InUse
      <3>2. j # i /\ j \notin doomed
        BY <2>2, <3>1
      <3>3. Live(j)' /\ b = paged_heap_blocks'[j].address
        BY <1>1, <1>7, <3>1, <3>2
      <3>4. QED
        BY <3>3 DEF InUse
    <2>3. a \in InUse'
      BY <1>1, <1>7 DEF InUse
    <2>4. QED
      BY <2>1, <2>2, <2>3
  <1>9. QED
    BY <1>1, <1>2, <1>5, <1>6, <1>7, <1>8

(* A call that leaves the table alone returns 0. *)
LEMMA SameTable ==
    ASSUME UNCHANGED paged_heap_blocks
    PROVE  Returned = NONE /\ InUse' = InUse
  BY DEF Returned, InUse, Live, Used, Free

(* Every slot lies above low, and so will the next ones. *)
Above(low) == heap_pointer > low /\ \A i \in Slots : Used(i) => paged_heap_blocks[i].address > low

(* What an allocation of a block of the size does, freeing the slots in doomed. *)
Granted(size, doomed) ==
    /\ Returned \in Nat \ {0} /\ Returned \notin InUse
    /\ InUse' = (InUse \ {paged_heap_blocks[j].address : j \in doomed}) \cup {Returned}
    /\ \E i \in Slots : Live(i)' /\ paged_heap_blocks'[i].address = Returned
                                 /\ paged_heap_blocks'[i].size = size
    /\ \A j \in Slots : Live(j) /\ j \notin doomed => paged_heap_blocks'[j] = paged_heap_blocks[j]

Denied == Returned = NONE /\ InUse' = InUse /\ UNCHANGED paged_heap_blocks

LEMMA PlacedBlock ==
    ASSUME NoWrap, PlacementInv, NEW size \in Nat, size + HEADER < UINT, NEW request \in Nat,
           NEW aligned \in BOOLEAN, NEW doomed \in SUBSET Slots, \A j \in doomed : Live(j),
           PlaceBlock(size, request, aligned, doomed), NEW low \in Nat, Above(low)
    PROVE  Above(low)' /\ (Denied \/ (Granted(size, doomed) /\ Returned > low))
  <1> DEFINE address == Place(aligned)
             end == Add(address, size)
  <1>1. PICK i \in First(Spare) :
          /\ address - HEADER >= HEAP_PAGED_BASE
          /\ end >= IF aligned THEN address ELSE address - HEADER
          /\ \/ /\ SetBlock(i, address, size, request, doomed)
                /\ heap_pointer' = end
             \/ UNCHANGED <<paged_heap_blocks, heap_pointer, requested>>
    BY PlaceBlockCases
  <1>2. i \in Slots /\ ~ Live(i) /\ HeapTypeOK /\ heap_pointer \in Nat /\ AddressesDistinct
    BY DEF First, Spare, PlacementInv, FrameInv, HeapTypeOK, Live
  <1>3. address \in Nat /\ address > heap_pointer
    BY <1>2, PlaceRange
  <1>4. end = address + size
    BY <1>1, <1>2, PlacedInRegion DEF PlacementInv, PointerAbove
  <1> HIDE DEF address, end
  <1>5. CASE UNCHANGED <<paged_heap_blocks, heap_pointer, requested>>
    <2>1. UNCHANGED paged_heap_blocks /\ UNCHANGED heap_pointer
      BY <1>5
    <2>2. Denied
      BY <2>1, SameTable DEF Denied
    <2>3. Above(low)'
      BY <2>1 DEF Above, Used
    <2>4. QED
      BY <2>2, <2>3
  <1>6. CASE SetBlock(i, address, size, request, doomed) /\ heap_pointer' = end
    <2>1. /\ \A j \in Slots : Used(j) => paged_heap_blocks[j].address <= heap_pointer
          /\ \A j \in Slots : paged_heap_blocks[j].address \in Nat
      BY <1>2 DEF PlacementInv, PointerAbove, HeapTypeOK
    <2>2. \A j \in Slots : j # i /\ Used(j) => paged_heap_blocks[j].address # address
      BY <1>2, <1>3, <2>1
    <2>3. address \in Nat \ {0}
      BY <1>2, <1>3
    <2>4. /\ Returned = address /\ address \notin InUse
          /\ InUse' = (InUse \ {paged_heap_blocks[j].address : j \in doomed}) \cup {address}
          /\ Live(i)' /\ paged_heap_blocks'[i].address = address
          /\ paged_heap_blocks'[i].size = size
          /\ \A j \in Slots : Live(j) /\ j \notin doomed =>
                 paged_heap_blocks'[j] = paged_heap_blocks[j]
      BY <1>2, <1>6, <2>2, <2>3, FilledSlot
    <2>5. Granted(size, doomed)
      BY <1>2, <2>3, <2>4 DEF Granted
    <2>6. \A j \in Slots : j # i => paged_heap_blocks'[j].address = paged_heap_blocks[j].address
      BY <1>2, <1>3, <1>6, SetBlockFields
    <2>7. address > low
      BY <1>2, <1>3 DEF Above
    <2>8. Above(low)'
      BY <1>2, <1>3, <1>4, <1>6, <2>4, <2>6, <2>7 DEF Above, Used
    <2>9. QED
      BY <2>4, <2>5, <2>7, <2>8
  <1>7. QED
    BY <1>1, <1>5, <1>6

LEMMA ReusedBlock ==
    ASSUME PlacementInv, NEW size \in 0 .. UINT - 1, NEW request \in Nat,
           NEW doomed \in SUBSET Slots, \A j \in doomed : Live(j),
           ReuseBlock(size, request, doomed), NEW low \in Nat, Above(low)
    PROVE  Above(low)' /\ (Denied \/ (Granted(size, doomed) /\ Returned > low))
  <1>1. PICK i \in First(Reusable(size)) :
          \/ /\ SetBlock(i, paged_heap_blocks[i].address, size, request, doomed)
             /\ UNCHANGED heap_pointer
          \/ UNCHANGED <<paged_heap_blocks, heap_pointer, requested>>
    BY DEF ReuseBlock
  <1> DEFINE address == paged_heap_blocks[i].address
  <1>2. i \in Slots /\ ~ Live(i) /\ Used(i) /\ HeapTypeOK /\ AddressesDistinct
        /\ address \in Nat \ {0}
    BY DEF First, Reusable, PlacementInv, FrameInv, HeapTypeOK, Live, Used
  <1>3. size \in Nat
    BY RegionFacts
  <1>4. CASE UNCHANGED <<paged_heap_blocks, heap_pointer, requested>>
    <2>1. UNCHANGED paged_heap_blocks /\ UNCHANGED heap_pointer
      BY <1>4
    <2>2. Denied
      BY <2>1, SameTable DEF Denied
    <2>3. Above(low)'
      BY <2>1 DEF Above, Used
    <2>4. QED
      BY <2>2, <2>3
  <1>5. CASE SetBlock(i, address, size, request, doomed) /\ UNCHANGED heap_pointer
    <2>1. \A j \in Slots : j # i /\ Used(j) => paged_heap_blocks[j].address # address
      BY <1>2 DEF AddressesDistinct
    <2>2. /\ Returned = address /\ address \notin InUse
          /\ InUse' = (InUse \ {paged_heap_blocks[j].address : j \in doomed}) \cup {address}
          /\ Live(i)' /\ paged_heap_blocks'[i].address = address
          /\ paged_heap_blocks'[i].size = size
          /\ \A j \in Slots : Live(j) /\ j \notin doomed =>
                 paged_heap_blocks'[j] = paged_heap_blocks[j]
      BY <1>2, <1>3, <1>5, <2>1, FilledSlot
    <2>3. Granted(size, doomed)
      BY <1>2, <2>2 DEF Granted
    <2>4. \A j \in Slots : j # i => paged_heap_blocks'[j].address = paged_heap_blocks[j].address
      BY <1>2, <1>3, <1>5, SetBlockFields
    <2>5. address > low
      BY <1>2 DEF Above
    <2>6. Above(low)'
      BY <1>2, <1>5, <2>2, <2>4, <2>5 DEF Above, Used
    <2>7. QED
      BY <2>2, <2>3, <2>5, <2>6
  <1>6. QED
    BY <1>1, <1>4, <1>5

(* A request that does not wrap, as it is or once rounded up already. *)
LEMMA RequestFits ==
    ASSUME NoWrap, NEW s \in PlainSizes \cup AlignedSizes
    PROVE  /\ s \in Nat /\ RoundUp(s) \in 0 .. UINT - 1 /\ RoundUp(s) \in Nat
           /\ RoundUp(s) + HEADER < UINT
           /\ RoundUp(RoundUp(s)) \in 0 .. UINT - 1 /\ RoundUp(RoundUp(s)) \in Nat
           /\ RoundUp(RoundUp(s)) + HEADER < UINT
  <1>1. s \in Nat /\ s + 2 * WORD + HEADER <= UINT
    BY HeapAssumption DEF NoWrap
  <1>2. WORD \in Nat \ {0} /\ HEADER \in Nat /\ UINT \in Nat
    BY HeapAssumption
  <1>3. RoundUp(s) \in 0 .. UINT - 1 /\ RoundUp(s) \in Nat
    BY <1>1, <1>2, RoundUpRange
  <1>4. RoundUp(s) + WORD + HEADER <= UINT
    <2>1. Add(s, WORD - 1) = s + (WORD - 1)
      BY <1>1, <1>2 DEF Add
    <2>2. s + (WORD - 1) \in Nat
      BY <1>1, <1>2
    <2>3. ((s + (WORD - 1)) \div WORD) * WORD \in 0 .. s + (WORD - 1)
      BY <1>2, <2>2, RoundDown
    <2>4. RoundUp(s) \in 0 .. s + (WORD - 1)
      BY <2>1, <2>3 DEF RoundUp
    <2>5. QED
      BY <1>1, <1>2, <2>4
  <1>5. s + WORD + HEADER <= UINT
    BY <1>1, <1>2
  <1>6. RoundUp(s) + HEADER < UINT /\ RoundUp(RoundUp(s)) + HEADER < UINT
    BY <1>1, <1>3, <1>4, <1>5, RoundUpExact
  <1>7. RoundUp(RoundUp(s)) \in 0 .. UINT - 1
    BY <1>3, RoundUpRange
  <1>8. RoundUp(RoundUp(s)) \in Nat
    BY <1>2, <1>7
  <1>9. QED
    BY <1>1, <1>3, <1>6, <1>7, <1>8

(* An allocation is denied, or granted with the size asked for rounded up. *)
LEMMA AllocateEffect ==
    ASSUME NoWrap, PlacementInv, NEW kind \in AlignedKinds \cup PlainKinds, Allocate(kind),
           NEW low \in Nat, Above(low)
    PROVE  Above(low)' /\ (Denied \/ (Granted(RoundUp(SizeOf[kind]), {}) /\ Returned > low))
  <1> DEFINE s == SizeOf[kind]
  <1>1. s \in PlainSizes \cup AlignedSizes
    BY TasksAssumption
  <1>2. s \in Nat /\ RoundUp(s) \in 0 .. UINT - 1 /\ RoundUp(s) \in Nat
        /\ RoundUp(s) + HEADER < UINT
    BY <1>1, RequestFits
  <1> HIDE DEF s
  <1>3. {} \in SUBSET Slots /\ \A j \in {} : Live(j)
    OBVIOUS
  <1>4. ASSUME NEW aligned \in BOOLEAN, PlaceBlock(RoundUp(s), s, aligned, {})
        PROVE  Above(low)' /\ (Denied \/ (Granted(RoundUp(s), {}) /\ Returned > low))
    BY <1>2, <1>3, <1>4, PlacedBlock
  <1>5. ASSUME ReuseBlock(RoundUp(s), s, {})
        PROVE  Above(low)' /\ (Denied \/ (Granted(RoundUp(s), {}) /\ Returned > low))
    BY <1>2, <1>3, <1>5, ReusedBlock
  <1>6. ASSUME UNCHANGED heapVars
        PROVE  Above(low)' /\ Denied
    <2>1. UNCHANGED paged_heap_blocks /\ UNCHANGED heap_pointer
      BY <1>6 DEF heapVars
    <2>2. Denied
      BY <2>1, SameTable DEF Denied
    <2>3. QED
      BY <2>1, <2>2 DEF Above, Used
  <1>7. \/ ReuseBlock(RoundUp(s), s, {})
        \/ PlaceBlock(RoundUp(s), s, FALSE, {})
        \/ PlaceBlock(RoundUp(s), s, TRUE, {})
        \/ UNCHANGED heapVars
    BY DEF Allocate, heap_alloc_paged, heap_alloc_paged_aligned, AllocThenFree, Refused, s
  <1>8. QED
    BY <1>4, <1>5, <1>6, <1>7 DEF s

(* heap_realloc of the block at the address, or its refusal. *)
LEMMA GrowEffect ==
    ASSUME NoWrap, PlacementInv, NEW old, NEW low \in Nat, Above(low),
           \/ \E i \in SlotAt(old) : heap_realloc(i, SizeOf.grown)
           \/ Refused(RoundUp(SizeOf.grown), FALSE)
    PROVE  /\ Above(low)'
           /\ \/ Denied
              \/ /\ Returned \in Nat \ {0} /\ Returned \notin InUse /\ Returned > low
                 /\ old \in InUse /\ InUse' = (InUse \ {old}) \cup {Returned}
  <1> DEFINE s == RoundUp(SizeOf.grown)
  <1>1. SizeOf.grown \in PlainSizes \cup AlignedSizes
    BY TasksAssumption DEF PlainKinds
  <1>2. s \in Nat /\ RoundUp(s) \in 0 .. UINT - 1 /\ RoundUp(s) \in Nat
        /\ RoundUp(s) + HEADER < UINT
    BY <1>1, RequestFits
  <1> HIDE DEF s
  <1>3. CASE UNCHANGED heapVars
    <2>1. UNCHANGED paged_heap_blocks /\ UNCHANGED heap_pointer
      BY <1>3 DEF heapVars
    <2>2. Denied
      BY <2>1, SameTable DEF Denied
    <2>3. QED
      BY <2>1, <2>2 DEF Above, Used
  <1>4. ASSUME NEW i \in SlotAt(old), heap_realloc(i, SizeOf.grown)
        PROVE  /\ Above(low)'
               /\ \/ Denied
                  \/ /\ Returned \in Nat \ {0} /\ Returned \notin InUse /\ Returned > low
                     /\ old \in InUse /\ InUse' = (InUse \ {old}) \cup {Returned}
    <2>1. i \in Slots /\ Live(i) /\ paged_heap_blocks[i].address = old
      BY DEF SlotAt
    <2>2. {i} \in SUBSET Slots /\ \A j \in {i} : Live(j)
      BY <2>1
    <2>3. ReuseBlock(RoundUp(s), s, {i}) \/ PlaceBlock(RoundUp(s), s, FALSE, {i})
      BY <1>4 DEF heap_realloc, AllocThenFree, s
    <2>4. FALSE \in BOOLEAN
      OBVIOUS
    <2>5. Above(low)' /\ (Denied \/ (Granted(RoundUp(s), {i}) /\ Returned > low))
      <3>1. CASE ReuseBlock(RoundUp(s), s, {i})
        BY <1>2, <2>2, <3>1, ReusedBlock
      <3>2. CASE PlaceBlock(RoundUp(s), s, FALSE, {i})
        BY <1>2, <2>2, <2>4, <3>2, PlacedBlock
      <3>3. QED
        BY <2>3, <3>1, <3>2
    <2>6. {paged_heap_blocks[j].address : j \in {i}} = {old}
      BY <2>1
    <2>7. old \in InUse
      BY <2>1 DEF InUse
    <2>8. QED
      BY <2>5, <2>6, <2>7 DEF Granted
  <1>5. QED
    BY <1>3, <1>4 DEF Refused

(* heap_free of an address takes it out of use, if it was in use. *)
LEMMA FreeEffect ==
    ASSUME PlacementInv, NEW a, FreeAddress(a), NEW low \in Nat, Above(low)
    PROVE  /\ Above(low)' /\ InUse' = InUse \ {a}
           /\ \A j \in Slots : Live(j) /\ paged_heap_blocks[j].address # a =>
                 paged_heap_blocks'[j] = paged_heap_blocks[j]
  <1>1. CASE SlotAt(a) = {}
    <2>1. UNCHANGED paged_heap_blocks /\ UNCHANGED heap_pointer
      BY <1>1 DEF FreeAddress, heapVars
    <2>2. a \notin InUse
      BY <1>1 DEF SlotAt, InUse
    <2>3. InUse' = InUse
      BY <2>1, SameTable
    <2>4. QED
      BY <2>1, <2>2, <2>3 DEF Above, Used
  <1>2. CASE SlotAt(a) # {}
    <2>1. PICK i \in SlotAt(a) : heap_free(i)
      BY <1>2 DEF FreeAddress
    <2>2. i \in Slots /\ Live(i) /\ paged_heap_blocks[i].address = a
      BY DEF SlotAt
    <2>3. /\ \A j \in Slots : j # i => paged_heap_blocks'[j] = paged_heap_blocks[j]
          /\ paged_heap_blocks'[i].free = 1
          /\ paged_heap_blocks'[i].address = a
      BY <2>1, <2>2 DEF heap_free, PlacementInv, FrameInv, HeapTypeOK
    <2>4. \A j \in Slots : Live(j)' <=> Live(j) /\ j # i
      BY <2>3 DEF Live, Used, Free
    <2>5. \A j \in Slots : Live(j) /\ j # i => paged_heap_blocks[j].address # a
      BY <2>2 DEF PlacementInv, AddressesDistinct, Live
    <2>6. InUse' = InUse \ {a}
      BY <2>2, <2>3, <2>4, <2>5 DEF InUse
    <2>7. Above(low)'
      BY <2>1, <2>2, <2>3 DEF heap_free, Above, Used, Live
    <2>8. QED
      BY <2>2, <2>3, <2>6, <2>7
  <1>3. QED
    BY <1>1, <1>2

-----------------------------------------------------------------------------
(* Who holds what.  A structure is known by its fields; the fields through which it *)
(* owns another structure are its links.                                            *)

Links == {"space", "task", "directory", "tables", "context"}

TaskShape == {"image", "state", "process", "context", "stack"}
ProcessShape == {"image", "state", "space", "task"}
SpaceShape == {"image", "directory", "tables"}
PlainShape == {"image"}
Shapes == {TaskShape, ProcessShape, SpaceShape, PlainShape}

Target(f) == IF f = "space" THEN SpaceShape ELSE IF f = "task" THEN TaskShape ELSE PlainShape

Has(m, a, shape) == a \in DOMAIN m /\ DOMAIN m[a] = shape
LinksOf(m, a) == DOMAIN m[a] \cap Links
Unowned(m, b) == \A a \in DOMAIN m : \A f \in LinksOf(m, a) : m[a][f] # b

(* Every structure of the memory m has a shape; every link leads above low to a
   structure of the right shape, unless its owner is doomed; and to one that no other
   link leads to. *)
WellOwned(m, doomed, low) ==
    /\ \A a \in DOMAIN m : DOMAIN m[a] \in Shapes
    /\ \A a \in DOMAIN m : \A f \in LinksOf(m, a) :
          /\ m[a][f] \in Nat /\ (m[a][f] = NONE \/ m[a][f] > low)
          /\ m[a][f] \in DOMAIN m => DOMAIN m[m[a][f]] = Target(f)
          /\ m[a][f] \in DOMAIN m \/ m[a][f] = NONE \/ a \in doomed
    /\ \A a1, a2 \in DOMAIN m : \A f1 \in LinksOf(m, a1), f2 \in LinksOf(m, a2) :
          m[a1][f1] = m[a2][f2] /\ m[a1][f1] # NONE => a1 = a2 /\ f1 = f2

Ownership == WellOwned(memory, Doomed, task_list[2])

(* The structures of the boot heap lie below every block. *)
BootPlaces == {task_list[1], task_list[2], task_list[2] + 1}

BootBelow ==
    /\ Len(task_list) >= 2 /\ task_list[1] \in Nat \ {0} /\ task_list[2] = task_list[1] + 1
    /\ Above(task_list[2] + 1)
    /\ DOMAIN memory \subseteq InUse \cup BootPlaces
    /\ memory[task_list[2]].process = NONE /\ memory[task_list[2]].context = task_list[2] + 1

(* The list holds tasks, none of them about to be freed; those that may be chosen have a
   context. *)
ListSound ==
    /\ task_list \in Seq(Nat)
    /\ \A j, k \in DOMAIN task_list : task_list[j] = task_list[k] => j = k
    /\ \A t \in Range(task_list) :
          /\ Has(memory, t, TaskShape) /\ t \notin Doomed
          /\ (memory[t].context = NONE /\ memory[t].state = "READY") =>
                (stage = "context" /\ t = parts.task)
    /\ current_task = NONE \/ current_task \in Range(task_list)

(* What is due to be freed: every field before the structure it is read from. *)
Entries == [of : Nat, field : {"self", "context", "directory", "tables"}]

Orderly(q) ==
    /\ q \in Seq(Entries)
    /\ \A k \in DOMAIN q : q[k].field # "self" =>
          /\ \E j \in DOMAIN q : k < j /\ q[j] = Self(q[k].of)
          /\ \A j \in DOMAIN q : j < k => q[j] # Self(q[k].of)

(* No structure is freed without the one that owns it. *)
FreeingSound ==
    /\ Orderly(freeing)
    /\ \A e \in Range(freeing) :
          /\ e.of > task_list[2] + 1
          /\ e.field # "self" => e.of \in DOMAIN memory /\ e.field \in DOMAIN memory[e.of]
    /\ \A a \in DOMAIN memory : \A f \in LinksOf(memory, a) :
          memory[a][f] \in Doomed => a \in Doomed

(* What the caller creates, and the stages that takes. *)
ProductOf(caller) ==
    CASE caller.dispose = "space" -> "space"
      [] caller.dispose \in {"process", "instance", "identity"} -> "process"
      [] caller.dispose \in {"block", "grow"} -> "block"
      [] caller.dispose = "program" -> "none"
      [] OTHER -> "task"

Product == ProductOf(Caller)

StagesOf(product) ==
    CASE product = "space" -> {"space", "directory", "tables"}
      [] product = "process" ->
            {"process", "space", "directory", "tables", "task", "stack", "context"}
      [] product = "block" -> {"block"}
      [] product = "task" -> {"task", "stack", "context"}
      [] OTHER -> {}

Creating == stage \in StagesOf(Product)

ControlSound ==
    /\ session \in 1 .. 13
    /\ Creating \/ stage \in {"dispose", "destroy", "running", "prepare"}
    /\ stage = "prepare" => InShell /\ made = <<>>
    /\ stage \in {"running", "prepare"} => freeing = <<>>
    /\ making \in Seq({Product})
    /\ making # <<>> <=> (Creating \/ stage = "prepare")
    /\ made \in Seq(Nat)
    /\ stage # "destroy" => Len(made) + Len(making) = Len(Caller.makes)
    /\ freeing # <<>> => parts = NoParts \/ stage = "context"
    /\ (InShell /\ stage # "running") => current_task = NONE
    /\ Caller.dispose = "keep" => stage \notin {"destroy", "running"}

(* A part of what is being created that nothing owns yet. *)
Part(a, shape) ==
    Has(memory, a, shape) /\ Unowned(memory, a) /\ a \notin Range(made) /\ a \notin Doomed

ProcessPart ==
    IF Creating /\ Product = "process" /\ stage # "process"
    THEN /\ Part(parts.process, ProcessShape) /\ memory[parts.process].task = NONE
         /\ memory[parts.process].space =
               IF stage \in {"space", "directory", "tables"} THEN NONE ELSE parts.space
    ELSE parts.process = NONE

SpacePart ==
    CASE stage = "directory" -> parts.space \in InUse \ DOMAIN memory
      [] stage = "tables" -> /\ Part(parts.space, SpaceShape)
                             /\ memory[parts.space].directory # NONE
                             /\ memory[parts.space].tables = NONE
      [] stage \in {"task", "stack", "context"} /\ Product = "process" ->
                             /\ Has(memory, parts.space, SpaceShape)
                             /\ parts.space \notin Doomed
                             /\ memory[parts.space].directory # NONE
                             /\ memory[parts.space].tables # NONE
      [] OTHER -> parts.space = NONE

TaskPart ==
    IF stage \in {"stack", "context"}
    THEN /\ Part(parts.task, TaskShape) /\ parts.task > task_list[2] + 1
         /\ memory[parts.task].context = NONE
         /\ IF stage = "stack"
            THEN parts.task \notin Range(task_list) /\ memory[parts.task].process = NONE
            ELSE parts.task \in Range(task_list) /\ memory[parts.task].process = parts.process
    ELSE parts.task = NONE

PartsSound ==
    /\ parts \in [process : Nat, space : Nat, task : Nat]
    /\ ~ Creating => parts = NoParts
    /\ ProcessPart /\ SpacePart /\ TaskPart

(* What was created so far. *)
ProductSound(a) ==
    /\ a \in DOMAIN memory /\ a > task_list[2] + 1 /\ Unowned(memory, a) /\ a \notin Doomed
    /\ CASE Product = "space" -> DOMAIN memory[a] = SpaceShape
         [] Product = "process" ->
              /\ DOMAIN memory[a] = ProcessShape /\ memory[a].space # NONE
              /\ memory[a].task \in Range(task_list) /\ memory[memory[a].task].process = a
         [] Product = "task" -> a \in Range(task_list) /\ memory[a].process = NONE
         [] OTHER -> DOMAIN memory[a] = PlainShape

MadeSound ==
    /\ \A k \in DOMAIN made : made[k] = NONE \/ ProductSound(made[k])
    /\ \A j, k \in DOMAIN made : (made[j] = made[k] /\ made[j] # NONE) => j = k

(* The task that runs is on the list, and its process, if it has one, is there. *)
RunningSound ==
    stage = "running" =>
       /\ current_task # NONE
       /\ memory[current_task].process = NONE \/ memory[current_task].process \in Range(made)

StructureInv ==
    /\ Ownership /\ BootBelow /\ ListSound /\ FreeingSound /\ ControlSound /\ PartsSound
    /\ MadeSound /\ RunningSound

-----------------------------------------------------------------------------
(* Where every block in use is accounted for. *)

Held(a) ==
    \/ a \in Range(task_list) \/ a \in Range(made)
    \/ a \in {parts.process, parts.space, parts.task} \/ a \in Doomed
    \/ \E b \in DOMAIN memory : \E f \in LinksOf(memory, b) :
          /\ memory[b][f] = a
          /\ b \in Doomed => Field(b, f) \in Range(freeing)

(* As long as nothing failed, nothing the caller asked for is missing, nor a context. *)
Complete ==
    /\ Product = "none" => made = <<>>
    /\ failures = {} =>
          /\ NONE \notin Range(made)
          /\ \A t \in Range(task_list) : memory[t].context = NONE =>
                t = task_list[1] \/ (stage = "context" /\ t = parts.task)

Accounted == failures = {} => \A a \in InUse : Held(a)

(* The addresses the entries of freeing stand for. *)
Names(e) == IF e.field = "self" THEN e.of ELSE memory[e.of][e.field]
Pending == {Names(e) : e \in Range(freeing)} \ {NONE}

(* The blocks taken by the creation under way. *)
Taken ==
    ({parts.process, parts.space, parts.task} \ {NONE}) \cup
    (IF parts.space \in DOMAIN memory
     THEN {memory[parts.space].directory, memory[parts.space].tables} \ {NONE} ELSE {})

BlockOf(a, size) == \E i \in Slots : Live(i) /\ paged_heap_blocks[i].address = a
                                              /\ paged_heap_blocks[i].size = size

(* A page directory and its tables that process_create kept without its task. *)
Leftover(d, t) ==
    /\ Product = "process" /\ d # t
    /\ BlockOf(d, RoundUp(SizeOf.directory)) /\ BlockOf(t, RoundUp(SizeOf.tables))

TakenSound ==
    (Creating /\ parts # NoParts /\ stage # "context") =>
       /\ InUse = before \cup Taken /\ before \cap Taken = {}
       /\ (stage \in {"tables", "task", "stack"} /\ parts.space # NONE) =>
             BlockOf(memory[parts.space].directory, RoundUp(SizeOf.directory))
       /\ (stage \in {"task", "stack"} /\ parts.space # NONE) =>
             BlockOf(memory[parts.space].tables, RoundUp(SizeOf.tables))

GivenBack ==
    (made # <<>> /\ made[Len(made)] = NONE /\ parts = NoParts /\ stage # "destroy") =>
       /\ before \subseteq InUse /\ before \cap Pending = {}
       /\ LET kept == InUse \ (before \cup Pending)
          IN  kept = {} \/ \E d, t \in kept : kept = {d, t} /\ Leftover(d, t)

-----------------------------------------------------------------------------
(* The callers, in order. *)

CallerAt(s) == IF s = 13 THEN Utility ELSE BootSessions[s]

Disposals == {"space", "process", "instance", "block", "identity", "keep", "grow", "program",
              "terminate", "utility"}
Products == {"space", "process", "block", "none", "task"}

(* What each caller is: it makes several of one thing, and disposes of them its way. *)
CallerSound(c) ==
    /\ c.dispose \in Disposals /\ c.all \in BOOLEAN /\ ProductOf(c) \in Products
    /\ c.makes \in Seq({ProductOf(c)})
    /\ c.makes = <<>> <=> ProductOf(c) = "none"
    /\ ProductOf(c) # "none" => c.makes[1] = ProductOf(c)
    /\ c.dispose \notin {"program", "terminate"} => c.all = TRUE
    /\ c.dispose \in {"identity", "keep", "grow", "utility"} => Len(c.makes) = 1
    /\ c.dispose = "terminate" => Len(c.makes) = 2

LEMMA EveryCaller == Len(BootSessions) = 12 /\ \A s \in 1 .. 13 : CallerSound(CallerAt(s))
  <1>1. Len(BootSessions) = 12
    BY DEF BootSessions
  <1>2. ASSUME NEW d \in Disposals, NEW all \in BOOLEAN, NEW p \in Products,
               p = ProductOf(Session(<<p>>, all, d)), p # "none",
               d \notin {"program", "terminate"} => all = TRUE, d # "terminate"
        PROVE  CallerSound(Session(<<p>>, all, d))
    BY <1>2 DEF CallerSound, Session, ProductOf, Disposals, Products
  <1>3. ASSUME NEW d \in Disposals, NEW all \in BOOLEAN, NEW p \in Products,
               p = ProductOf(Session(<<p, p>>, all, d)), p # "none",
               d \notin {"program", "terminate"} => all = TRUE,
               d \notin {"identity", "keep", "grow", "utility"}
        PROVE  CallerSound(Session(<<p, p>>, all, d))
    BY <1>3 DEF CallerSound, Session, ProductOf, Disposals, Products
  <1>4. CallerSound(user_program)
    BY DEF CallerSound, user_program, Session, ProductOf, Disposals, Products
  <1>5. /\ CallerSound(address_space_create_test) /\ CallerSound(process_create_test)
        /\ CallerSound(process_task_link_test) /\ CallerSound(syscall_memory_test)
        /\ CallerSound(security_identity_syscall_test) /\ CallerSound(user_stack_test)
        /\ CallerSound(heap_dynamic_test) /\ CallerSound(Utility)
    BY <1>2 DEF address_space_create_test, process_create_test, process_task_link_test,
       syscall_memory_test, security_identity_syscall_test, user_stack_test,
       heap_dynamic_test, Utility, ProductOf, Session, Disposals, Products
  <1>6. /\ CallerSound(process_isolation_test) /\ CallerSound(process_permission_isolation_test)
        /\ CallerSound(process_instance_isolation_test) /\ CallerSound(process_termination_test)
    BY <1>3 DEF process_isolation_test, process_permission_isolation_test,
       process_instance_isolation_test, process_termination_test, ProductOf, Session,
       Disposals, Products
  <1>7. ASSUME NEW s \in 1 .. 12 PROVE CallerSound(BootSessions[s])
    <2>1. BootSessions[s] \in
             {address_space_create_test, process_isolation_test, process_permission_isolation_test,
              process_create_test, process_instance_isolation_test, process_task_link_test,
              syscall_memory_test, security_identity_syscall_test, user_stack_test,
              heap_dynamic_test, user_program, process_termination_test}
      BY DEF BootSessions
    <2>2. QED
      BY <1>4, <1>5, <1>6, <2>1
  <1>8. QED
    BY <1>1, <1>5, <1>7 DEF CallerAt

LEMMA CallerIsAt ==
    ASSUME session \in 1 .. 13
    PROVE  Caller = CallerAt(session) /\ CallerSound(Caller) /\ (InShell <=> session = 13)
  BY EveryCaller DEF Caller, CallerAt, InShell

LEMMA NextCallerIsAt ==
    ASSUME session' \in 1 .. 13
    PROVE  Caller' = CallerAt(session') /\ CallerSound(Caller') /\ (InShell' <=> session' = 13)
  BY EveryCaller DEF Caller, CallerAt, InShell

-----------------------------------------------------------------------------
(* The creations, each split into what happens with and without a block. *)

Asks(kind) ==
    /\ freeing = <<>> /\ stage = kind /\ Allocate(kind)
    /\ before' = IF parts = NoParts THEN InUse ELSE before
    /\ UNCHANGED <<current_task, session, firstHeap>>

Fails(kind) ==
    /\ Asks(kind) /\ Returned = NONE
    /\ Finish(NONE) /\ freeing' = Undo(kind) /\ failures' = failures \cup {kind}
    /\ UNCHANGED <<memory, task_list>>

Gets(kind) == Asks(kind) /\ Returned # NONE /\ UNCHANGED failures

ProcessMade ==
    /\ Gets("process")
    /\ memory' = Put(memory, Returned,
                     [image |-> Image(Returned, SizeOf.process, page_table'),
                      state |-> "READY", space |-> NONE, task |-> NONE])
    /\ Continue("space", [parts EXCEPT !.process = Returned])
    /\ UNCHANGED <<task_list, freeing>>

SpaceMade ==
    /\ Gets("space")
    /\ Continue("directory", [parts EXCEPT !.space = Returned])
    /\ UNCHANGED <<memory, task_list, freeing>>

DirectoryMade ==
    /\ Gets("directory")
    /\ memory' = Put(Put(memory, Returned,
                         [image |-> Image(Returned, SizeOf.directory, page_table')]),
                     parts.space, [image |-> Image(parts.space, SizeOf.space, page_table'),
                                   directory |-> Returned, tables |-> NONE])
    /\ Continue("tables", parts)
    /\ UNCHANGED <<task_list, freeing>>

WithTables == Put([memory EXCEPT ![parts.space].tables = Returned], Returned,
                  [image |-> Image(Returned, SizeOf.tables, page_table')])

TablesMade ==
    /\ Gets("tables")
    /\ IF parts.process = NONE
       THEN memory' = WithTables /\ Finish(parts.space)
       ELSE memory' = [WithTables EXCEPT ![parts.process].space = parts.space]
            /\ Continue("task", parts)
    /\ UNCHANGED <<task_list, freeing>>

TaskMade ==
    /\ Gets("task")
    /\ memory' = Put(memory, Returned, Task(Returned, page_table'))
    /\ Continue("stack", [parts EXCEPT !.task = Returned])
    /\ UNCHANGED <<task_list, freeing>>

StackMade ==
    /\ Gets("stack")
    /\ memory' = [memory EXCEPT ![parts.task].process = parts.process]
    /\ task_list' = Append(task_list, parts.task)
    /\ freeing' = <<Self(Returned)>>
    /\ Continue("context", parts)

BlockMade ==
    /\ Gets("block")
    /\ memory' = Put(memory, Returned, [image |-> Image(Returned, SizeOf.block, page_table')])
    /\ Finish(Returned)
    /\ UNCHANGED <<task_list, freeing>>

LEMMA CreationSteps ==
    ASSUME \/ process_create \/ address_space_create \/ space_directory \/ space_tables
           \/ task_create \/ task_create_user \/ syscall_alloc
    PROVE  \/ \E kind \in {"process", "space", "directory", "tables", "task", "stack", "block"} :
                 Fails(kind)
           \/ ProcessMade \/ SpaceMade \/ DirectoryMade \/ TablesMade \/ TaskMade \/ StackMade
           \/ BlockMade
  <1> USE DEF Fails, Gets, Asks, Create, Busy
  <1>1. CASE process_create
    BY <1>1 DEF process_create, ProcessMade
  <1>2. CASE address_space_create
    BY <1>2 DEF address_space_create, SpaceMade
  <1>3. CASE space_directory
    BY <1>3 DEF space_directory, DirectoryMade
  <1>4. CASE space_tables
    BY <1>4 DEF space_tables, TablesMade, WithTables
  <1>5. CASE task_create
    BY <1>5 DEF task_create, TaskMade
  <1>6. CASE task_create_user
    BY <1>6 DEF task_create_user, StackMade
  <1>7. CASE syscall_alloc
    BY <1>7 DEF syscall_alloc, BlockMade
  <1>8. QED
    BY <1>1, <1>2, <1>3, <1>4, <1>5, <1>6, <1>7

-----------------------------------------------------------------------------
(* The order of the stages. *)

LEMMA StageSets ==
    /\ \A p \in Products : StagesOf(p) \subseteq
          {"process", "space", "directory", "tables", "task", "stack", "context", "block"}
    /\ \A p \in Products \ {"none"} : p \in StagesOf(p)
    /\ StagesOf("none") = {}
  BY DEF StagesOf, Products

(* A caller that returns hands over to one that starts. *)
LEMMA ReturnControl ==
    ASSUME ControlSound, NEW list, NEW current, Return(list, current), freeing' = <<>>
    PROVE  /\ ControlSound' /\ parts' = NoParts /\ made' = <<>>
           /\ stage' \in {Product', "dispose", "prepare"}
  <1>1. PICK next \in Nat : next = IF InShell THEN session ELSE session + 1
    BY DEF ControlSound
  <1>2. session \in 1 .. 13 /\ (InShell <=> session = 13)
    BY CallerIsAt DEF ControlSound
  <1>3. next \in 1 .. 13
    BY <1>1, <1>2
  <1>4. /\ session' = next /\ made' = <<>> /\ parts' = NoParts
        /\ current_task' = IF next > 12 THEN NONE ELSE current
        /\ making' = (CallerAt(next)).makes
        /\ stage' = IF next > 12 THEN "prepare"
                    ELSE IF making' = <<>> THEN "dispose" ELSE making'[1]
    BY <1>1, <1>3, EveryCaller DEF Return, CallerAt
  <1>5. Caller' = CallerAt(next) /\ CallerSound(Caller') /\ (InShell' <=> next = 13)
    BY <1>3, <1>4, NextCallerIsAt
  <1>6. making' = Caller'.makes /\ Product' = ProductOf(Caller')
    BY <1>4, <1>5 DEF Product
  <1>7. /\ making' \in Seq({Product'}) /\ Product' \in Products
        /\ (making' = <<>> <=> Product' = "none")
        /\ Product' # "none" => making'[1] = Product'
    BY <1>5, <1>6 DEF CallerSound
  <1>8. next = 13 => Product' = "task"
    BY <1>5, <1>6 DEF CallerAt, Utility, Session, ProductOf
  <1>9. stage' = IF next = 13 THEN "prepare" ELSE IF Product' = "none" THEN "dispose" ELSE Product'
    BY <1>3, <1>4, <1>7
  <1>10. /\ Creating' <=> stage' \in StagesOf(Product')
         /\ stage' = Product' => Creating'
         /\ stage' \in {"dispose", "prepare"} => ~ Creating'
    BY <1>7, <1>9, StageSets DEF Creating, Products
  <1>11. Len(made') + Len(making') = Len(Caller'.makes)
    BY <1>4, <1>6, <1>7
  <1>12. making' # <<>> <=> Creating' \/ stage' = "prepare"
    BY <1>7, <1>8, <1>9, <1>10
  <1>13. made' \in Seq(Nat)
    BY <1>4
  <1>14. Product' \notin {"dispose", "prepare", "running", "destroy"}
    BY <1>7 DEF Products
  <1>15. QED
    BY <1>3, <1>4, <1>5, <1>7, <1>9, <1>10, <1>11, <1>12, <1>13, <1>14 DEF ControlSound

LEMMA SameCaller ==
    ASSUME UNCHANGED session
    PROVE  Caller' = Caller /\ Product' = Product /\ (InShell' <=> InShell)
  BY DEF Caller, Product, InShell

LEMMA CreatingStages ==
    ASSUME ControlSound, Creating
    PROVE  /\ stage \notin {"dispose", "destroy", "running", "prepare"} /\ making # <<>>
           /\ Product \in Products /\ Product # "none" /\ making \in Seq({Product})
  <1>1. CallerSound(Caller)
    BY CallerIsAt DEF ControlSound
  <1>2. Product \in Products
    BY <1>1 DEF CallerSound, Product
  <1>3. QED
    BY <1>2, StageSets DEF ControlSound, Creating, Products

(* A creation that returns leads to the next one, or to what the caller does then. *)
LEMMA FinishControl ==
    ASSUME ControlSound, Creating, NEW result \in Nat, Finish(result),
           UNCHANGED <<session, current_task>>
    PROVE  /\ ControlSound' /\ parts' = NoParts /\ made' = Append(made, result)
           /\ stage' \in {Product', "dispose"}
           /\ stage' # "dispose" => Creating'
  <1>1. /\ stage \notin {"dispose", "destroy", "running", "prepare"} /\ making # <<>>
        /\ Product \in Products /\ Product # "none" /\ making \in Seq({Product})
    BY CreatingStages
  <1>2. Caller' = Caller /\ Product' = Product /\ (InShell' <=> InShell)
    BY SameCaller
  <1>3. /\ made' = Append(made, result) /\ making' = Tail(making) /\ parts' = NoParts
        /\ stage' = IF Tail(making) = <<>> THEN "dispose" ELSE making[2]
    BY DEF Finish
  <1>4. /\ Tail(making) \in Seq({Product}) /\ Len(Tail(making)) = Len(making) - 1
        /\ Tail(making) # <<>> => making[2] = Product
    BY <1>1
  <1>5. made' \in Seq(Nat) /\ Len(made') = Len(made) + 1
    BY <1>3 DEF ControlSound
  <1>6. Len(made') + Len(making') = Len(Caller.makes)
    <2>1. PICK a \in Nat, b \in Nat : Len(made) = a /\ Len(making) = b
      BY <1>1 DEF ControlSound
    <2>2. a + b = Len(Caller.makes)
      BY <1>1, <2>1 DEF ControlSound
    <2>3. Len(making') = b - 1 /\ Len(made') = a + 1
      BY <1>3, <1>4, <1>5, <2>1
    <2>4. (a + 1) + (b - 1) = a + b
      OBVIOUS
    <2>5. QED
      BY <2>2, <2>3, <2>4
  <1>7. /\ stage' = "dispose" => ~ Creating'
        /\ stage' # "dispose" => Creating' /\ stage' = Product
        /\ making' # <<>> <=> stage' # "dispose"
    BY <1>1, <1>2, <1>3, <1>4, StageSets DEF Creating, Products
  <1>8. InShell /\ stage # "running" => current_task = NONE
    BY DEF ControlSound
  <1>9. stage' \notin {"running", "prepare", "destroy"}
    BY <1>1, <1>3, <1>4 DEF Products
  <1>10. session' \in 1 .. 13 /\ making' \in Seq({Product'}) /\ current_task' = current_task
    BY <1>2, <1>3, <1>4 DEF ControlSound
  <1>11. QED
    BY <1>1, <1>2, <1>3, <1>5, <1>6, <1>7, <1>8, <1>9, <1>10 DEF ControlSound

LEMMA ContinueControl ==
    ASSUME ControlSound, Creating, NEW next \in StagesOf(Product), NEW p, Continue(next, p),
           UNCHANGED <<session, current_task>>, freeing' = <<>> \/ next = "context"
    PROVE  ControlSound' /\ Creating' /\ stage' = next /\ parts' = p /\ UNCHANGED <<made, making>>
  <1>1. /\ stage \notin {"dispose", "destroy", "running", "prepare"} /\ making # <<>>
        /\ Product \in Products /\ Product # "none" /\ making \in Seq({Product})
    BY CreatingStages
  <1>2. Caller' = Caller /\ Product' = Product /\ (InShell' <=> InShell)
    BY SameCaller
  <1>3. stage' = next /\ parts' = p /\ UNCHANGED <<made, making>>
    BY DEF Continue
  <1>4. Creating'
    BY <1>2, <1>3 DEF Creating
  <1>5. next \notin {"dispose", "destroy", "running", "prepare"}
    BY <1>1, StageSets
  <1>6. QED
    BY <1>1, <1>2, <1>3, <1>4, <1>5 DEF ControlSound

-----------------------------------------------------------------------------
(* Changes of the memory. *)

LEMMA ShapesDiffer ==
    /\ TaskShape # ProcessShape /\ TaskShape # SpaceShape /\ TaskShape # PlainShape
    /\ ProcessShape # SpaceShape /\ ProcessShape # PlainShape /\ SpaceShape # PlainShape
  BY DEF TaskShape, ProcessShape, SpaceShape, PlainShape

LEMMA ShapeLinks ==
    /\ TaskShape \cap Links = {"context"} /\ ProcessShape \cap Links = {"space", "task"}
    /\ SpaceShape \cap Links = {"directory", "tables"} /\ PlainShape \cap Links = {}
  BY DEF TaskShape, ProcessShape, SpaceShape, PlainShape, Links

(* The memory m2 is m with the structure r at n, or without the one at x. *)
Added(m, m2, n, r) ==
    /\ DOMAIN m2 = DOMAIN m \cup {n} /\ m2[n] = r
    /\ \A a \in DOMAIN m : a # n => m2[a] = m[a]

Dropped(m, m2, x) ==
    DOMAIN m2 = DOMAIN m \ {x} /\ \A a \in DOMAIN m : a # x => m2[a] = m[a]

LEMMA PutAdds ==
    ASSUME NEW m, NEW n, NEW r
    PROVE  Added(m, Put(m, n, r), n, r)
  BY DEF Put, Added

LEMMA WithoutDrops ==
    ASSUME NEW m, NEW x
    PROVE  Dropped(m, Without(m, x), x)
  BY DEF Without, Dropped

(* The memory m2 is m with the field g of the structure at o set to v. *)
Rewritten(m, m2, o, g, v) ==
    /\ DOMAIN m2 = DOMAIN m
    /\ \A a \in DOMAIN m : DOMAIN m2[a] = DOMAIN m[a]
    /\ \A a \in DOMAIN m : \A f \in DOMAIN m[a] :
          m2[a][f] = IF a = o /\ f = g THEN v ELSE m[a][f]

LEMMA ExceptRewrites ==
    ASSUME NEW m, NEW o, NEW g, NEW v
    PROVE  Rewritten(m, [m EXCEPT ![o][g] = v], o, g, v)
  <1> DEFINE m2 == [m EXCEPT ![o][g] = v]
  <1>1. DOMAIN m2 = DOMAIN m
    OBVIOUS
  <1>2. ASSUME NEW a \in DOMAIN m PROVE m2[a] = IF a = o THEN [m[o] EXCEPT ![g] = v] ELSE m[a]
    OBVIOUS
  <1>3. ASSUME NEW a \in DOMAIN m PROVE DOMAIN m2[a] = DOMAIN m[a]
    <2>1. DOMAIN [m[o] EXCEPT ![g] = v] = DOMAIN m[o]
      OBVIOUS
    <2>2. QED
      BY <1>2, <2>1
  <1>4. ASSUME NEW a \in DOMAIN m, NEW f \in DOMAIN m[a]
        PROVE  m2[a][f] = IF a = o /\ f = g THEN v ELSE m[a][f]
    <2>1. \A x \in DOMAIN m[o] : [m[o] EXCEPT ![g] = v][x] = IF x = g THEN v ELSE m[o][x]
      OBVIOUS
    <2>2. QED
      BY <1>2, <2>1
  <1> HIDE DEF m2
  <1>5. Rewritten(m, m2, o, g, v)
    BY <1>1, <1>3, <1>4 DEF Rewritten
  <1>6. QED
    BY <1>5 DEF m2

(* Writing a new structure whose links lead nowhere, but for one. *)
LEMMA AddOwned ==
    ASSUME NEW m, NEW m2, NEW doomed, NEW low \in Nat, WellOwned(m, doomed, low),
           NONE \notin DOMAIN m, NEW n, n \notin DOMAIN m, n # NONE, NEW r, DOMAIN r \in Shapes, Unowned(m, n),
           Added(m, m2, n, r), NEW g,
           \A f \in DOMAIN r \cap Links :
              \/ r[f] = NONE
              \/ /\ f = g /\ r[f] \in DOMAIN m /\ r[f] \in Nat /\ r[f] > low
                 /\ DOMAIN m[r[f]] = Target(f) /\ Unowned(m, r[f])
    PROVE  WellOwned(m2, doomed, low)
  <1>1. /\ DOMAIN m2 = DOMAIN m \cup {n} /\ m2[n] = r
        /\ \A a \in DOMAIN m : m2[a] = m[a]
    BY DEF Added
  <1>2. /\ LinksOf(m2, n) = DOMAIN r \cap Links
        /\ \A a \in DOMAIN m : LinksOf(m2, a) = LinksOf(m, a)
    BY <1>1 DEF LinksOf
  <1>3. \A a \in DOMAIN m2 : DOMAIN m2[a] \in Shapes
    BY <1>1 DEF WellOwned
  <1>4. ASSUME NEW a \in DOMAIN m2, NEW f \in LinksOf(m2, a)
        PROVE  /\ m2[a][f] \in Nat /\ (m2[a][f] = NONE \/ m2[a][f] > low)
               /\ m2[a][f] \in DOMAIN m2 => DOMAIN m2[m2[a][f]] = Target(f)
               /\ m2[a][f] \in DOMAIN m2 \/ m2[a][f] = NONE \/ a \in doomed
    <2>1. CASE a = n
      <3>1. CASE r[f] = NONE
        <4>1. NONE \notin DOMAIN m2 /\ NONE \in Nat
          BY <1>1 DEF NONE
        <4>2. m2[a][f] = NONE
          BY <1>1, <2>1, <3>1
        <4>3. QED
          BY <4>1, <4>2
      <3>2. CASE r[f] # NONE
        BY <1>1, <1>2, <2>1, <3>2
      <3>3. QED
        BY <3>1, <3>2
    <2>2. CASE a \in DOMAIN m
      <3>1. m2[a][f] = m[a][f] /\ f \in LinksOf(m, a) /\ m[a][f] # n
        BY <1>1, <1>2, <2>2 DEF Unowned
      <3>2. /\ m[a][f] \in Nat /\ (m[a][f] = NONE \/ m[a][f] > low)
            /\ m[a][f] \in DOMAIN m => DOMAIN m[m[a][f]] = Target(f)
            /\ m[a][f] \in DOMAIN m \/ m[a][f] = NONE \/ a \in doomed
        BY <2>2, <3>1 DEF WellOwned
      <3>3. QED
        BY <1>1, <3>1, <3>2
    <2>3. QED
      BY <1>1, <2>1, <2>2
  <1>5. ASSUME NEW a1 \in DOMAIN m2, NEW a2 \in DOMAIN m2,
               NEW f1 \in LinksOf(m2, a1), NEW f2 \in LinksOf(m2, a2),
               m2[a1][f1] = m2[a2][f2], m2[a1][f1] # NONE
        PROVE  a1 = a2 /\ f1 = f2
    <2>1. CASE a1 \in DOMAIN m /\ a2 \in DOMAIN m
      BY <1>1, <1>2, <1>5, <2>1 DEF WellOwned
    <2>2. CASE a1 = n /\ a2 \in DOMAIN m
      BY <1>1, <1>2, <1>5, <2>2 DEF Unowned
    <2>3. CASE a1 \in DOMAIN m /\ a2 = n
      BY <1>1, <1>2, <1>5, <2>3 DEF Unowned
    <2>4. CASE a1 = n /\ a2 = n
      BY <1>1, <1>2, <1>5, <2>4
    <2>5. QED
      BY <1>1, <2>1, <2>2, <2>3, <2>4
  <1>6. QED
    BY <1>3, <1>4, <1>5 DEF WellOwned

(* Setting a field that is not a link, or a link to a structure nothing owns. *)
LEMMA RewriteOwned ==
    ASSUME NEW m, NEW m2, NEW doomed, NEW low \in Nat, WellOwned(m, doomed, low),
           NEW o, NEW g, NEW v, Rewritten(m, m2, o, g, v),
           \/ g \notin Links
           \/ /\ v \in DOMAIN m /\ v \in Nat /\ v > low /\ DOMAIN m[v] = Target(g)
              /\ Unowned(m, v)
    PROVE  WellOwned(m2, doomed, low)
  <1>1. /\ DOMAIN m2 = DOMAIN m
        /\ \A a \in DOMAIN m : DOMAIN m2[a] = DOMAIN m[a] /\ LinksOf(m2, a) = LinksOf(m, a)
        /\ \A a \in DOMAIN m : \A f \in LinksOf(m, a) :
              m2[a][f] = IF a = o /\ f = g THEN v ELSE m[a][f]
    BY DEF Rewritten, LinksOf
  <1>2. \A a \in DOMAIN m : \A f \in LinksOf(m, a) : f \in Links
    BY DEF LinksOf
  <1>3. \A a \in DOMAIN m2 : DOMAIN m2[a] \in Shapes
    BY <1>1 DEF WellOwned
  <1>4. ASSUME NEW a \in DOMAIN m2, NEW f \in LinksOf(m2, a)
        PROVE  /\ m2[a][f] \in Nat /\ (m2[a][f] = NONE \/ m2[a][f] > low)
               /\ m2[a][f] \in DOMAIN m2 => DOMAIN m2[m2[a][f]] = Target(f)
               /\ m2[a][f] \in DOMAIN m2 \/ m2[a][f] = NONE \/ a \in doomed
    <2>1. CASE a = o /\ f = g
      BY <1>1, <1>2, <2>1
    <2>2. CASE ~ (a = o /\ f = g)
      <3>1. m2[a][f] = m[a][f] /\ a \in DOMAIN m /\ f \in LinksOf(m, a)
        BY <1>1, <2>2
      <3>2. /\ m[a][f] \in Nat /\ (m[a][f] = NONE \/ m[a][f] > low)
            /\ m[a][f] \in DOMAIN m => DOMAIN m[m[a][f]] = Target(f)
            /\ m[a][f] \in DOMAIN m \/ m[a][f] = NONE \/ a \in doomed
        BY <3>1 DEF WellOwned
      <3>3. QED
        BY <1>1, <3>1, <3>2
    <2>3. QED
      BY <2>1, <2>2
  <1>5. ASSUME NEW a1 \in DOMAIN m2, NEW a2 \in DOMAIN m2,
               NEW f1 \in LinksOf(m2, a1), NEW f2 \in LinksOf(m2, a2),
               m2[a1][f1] = m2[a2][f2], m2[a1][f1] # NONE
        PROVE  a1 = a2 /\ f1 = f2
    <2>1. CASE (a1 = o /\ f1 = g) \/ (a2 = o /\ f2 = g)
      BY <1>1, <1>2, <1>5, <2>1 DEF Unowned
    <2>2. CASE ~ (a1 = o /\ f1 = g) /\ ~ (a2 = o /\ f2 = g)
      BY <1>1, <1>5, <2>2 DEF WellOwned
    <2>3. QED
      BY <2>1, <2>2
  <1>6. QED
    BY <1>3, <1>4, <1>5 DEF WellOwned

(* Removing the structure at x, whose owner, if it has one, is about to go as well. *)
LEMMA DropOwned ==
    ASSUME NEW m, NEW m2, NEW doomed, NEW doomed2, NEW low, WellOwned(m, doomed, low), NEW x,
           Dropped(m, m2, x),
           \A a \in doomed : a = x \/ a \in doomed2,
           \A a \in DOMAIN m : \A f \in LinksOf(m, a) :
              (m[a][f] = x /\ x # NONE) => (a = x \/ a \in doomed2)
    PROVE  WellOwned(m2, doomed2, low)
  <1>1. /\ DOMAIN m2 = DOMAIN m \ {x}
        /\ \A a \in DOMAIN m2 : m2[a] = m[a]
    BY DEF Dropped
  <1>2. \A a \in DOMAIN m2 : a \in DOMAIN m /\ a # x /\ LinksOf(m2, a) = LinksOf(m, a)
    BY <1>1 DEF LinksOf
  <1>3. ASSUME NEW a \in DOMAIN m2, NEW f \in LinksOf(m2, a)
        PROVE  /\ m2[a][f] \in Nat /\ (m2[a][f] = NONE \/ m2[a][f] > low)
               /\ m2[a][f] \in DOMAIN m2 => DOMAIN m2[m2[a][f]] = Target(f)
               /\ m2[a][f] \in DOMAIN m2 \/ m2[a][f] = NONE \/ a \in doomed2
    <2>1. a \in DOMAIN m /\ a # x /\ f \in LinksOf(m, a) /\ m2[a][f] = m[a][f]
      BY <1>1, <1>2
    <2>2. /\ m[a][f] \in Nat /\ (m[a][f] = NONE \/ m[a][f] > low)
          /\ m[a][f] \in DOMAIN m => DOMAIN m[m[a][f]] = Target(f)
          /\ m[a][f] \in DOMAIN m \/ m[a][f] = NONE \/ a \in doomed
      BY <2>1 DEF WellOwned
    <2>3. QED
      BY <1>1, <2>1, <2>2
  <1>4. \A a \in DOMAIN m2 : DOMAIN m2[a] \in Shapes
    BY <1>1 DEF WellOwned
  <1>5. ASSUME NEW a1 \in DOMAIN m2, NEW a2 \in DOMAIN m2,
               NEW f1 \in LinksOf(m2, a1), NEW f2 \in LinksOf(m2, a2),
               m2[a1][f1] = m2[a2][f2], m2[a1][f1] # NONE
        PROVE  a1 = a2 /\ f1 = f2
    BY <1>1, <1>2, <1>5 DEF WellOwned
  <1>6. QED
    BY <1>3, <1>4, <1>5 DEF WellOwned

LEMMA MoreDoomed ==
    ASSUME NEW m, NEW doomed, NEW doomed2, NEW low, WellOwned(m, doomed, low),
           doomed \subseteq doomed2
    PROVE  WellOwned(m, doomed2, low)
  BY DEF WellOwned

-----------------------------------------------------------------------------
(* Lists of addresses to free. *)

LEMMA EntryKinds ==
    /\ \A a \in Nat : Self(a) \in Entries
    /\ \A a \in Nat, f \in {"context", "directory", "tables"} : Field(a, f) \in Entries
    /\ \A a : (Self(a)).of = a /\ (Self(a)).field = "self"
    /\ \A a, f : (Field(a, f)).of = a /\ (Field(a, f)).field = f
    /\ \A e \in Entries : e.field = "self" => e = Self(e.of)
    /\ \A e \in Entries : e.of \in Nat /\ e.field \in {"self", "context", "directory", "tables"}
  BY DEF Self, Field, Entries

LEMMA SelvesFacts ==
    /\ \A S, T : Selves(S \cup T) = Selves(S) \cup Selves(T)
    /\ Selves({}) = {}
    /\ \A a : Selves({Self(a)}) = {a}
    /\ \A a, f : f # "self" => Selves({Field(a, f)}) = {}
    /\ \A S : S \subseteq Entries => \A a : a \in Selves(S) <=> Self(a) \in S
  <1>1. \A S, T : Selves(S \cup T) = Selves(S) \cup Selves(T)
    BY DEF Selves
  <1>2. Selves({}) = {}
    BY DEF Selves
  <1>3. \A a : Selves({Self(a)}) = {a}
    BY EntryKinds DEF Selves
  <1>4. \A a, f : f # "self" => Selves({Field(a, f)}) = {}
    BY EntryKinds DEF Selves
  <1>5. ASSUME NEW S, S \subseteq Entries, NEW a
        PROVE  a \in Selves(S) <=> Self(a) \in S
    <2>1. ASSUME a \in Selves(S) PROVE Self(a) \in S
      <3>1. PICK e \in S : e.field = "self" /\ e.of = a
        BY <2>1 DEF Selves
      <3>2. e = Self(a)
        BY <1>5, <3>1, EntryKinds
      <3>3. QED
        BY <3>2
    <2>2. ASSUME Self(a) \in S PROVE a \in Selves(S)
      BY <2>2, EntryKinds DEF Selves
    <2>3. QED
      BY <2>1, <2>2
  <1>6. QED
    BY <1>1, <1>2, <1>3, <1>4, <1>5

LEMMA OrderlyEmpty == Orderly(<<>>) /\ Range(<<>>) = {}
  BY DEF Orderly, Range

LEMMA OrderlySelf ==
    ASSUME NEW a \in Nat
    PROVE  Orderly(<<Self(a)>>) /\ Range(<<Self(a)>>) = {Self(a)}
  <1>1. Range(<<Self(a)>>) = {Self(a)}
    BY DEF Range
  <1>2. <<Self(a)>> \in Seq(Entries)
    BY EntryKinds
  <1>3. QED
    BY <1>1, <1>2, EntryKinds DEF Orderly

LEMMA OrderlyField ==
    ASSUME NEW a \in Nat, NEW f \in {"context", "directory", "tables"}
    PROVE  /\ Orderly(<<Field(a, f), Self(a)>>)
           /\ Range(<<Field(a, f), Self(a)>>) = {Field(a, f), Self(a)}
  <1> DEFINE q == <<Field(a, f), Self(a)>>
  <1>1. Range(q) = {Field(a, f), Self(a)}
    BY DEF Range
  <1>2. q \in Seq(Entries)
    BY EntryKinds
  <1>3. DOMAIN q = {1, 2} /\ q[1] = Field(a, f) /\ q[2] = Self(a)
    OBVIOUS
  <1> HIDE DEF q
  <1>4. Orderly(q)
    BY <1>2, <1>3, EntryKinds DEF Orderly
  <1>5. QED
    BY <1>1, <1>4 DEF q

LEMMA OrderlySpace ==
    ASSUME NEW a \in Nat
    PROVE  /\ Orderly(SpaceDoom(a))
           /\ Range(SpaceDoom(a)) = {Field(a, "tables"), Field(a, "directory"), Self(a)}
  <1> DEFINE q == SpaceDoom(a)
  <1>1. Range(q) = {Field(a, "tables"), Field(a, "directory"), Self(a)}
    BY DEF Range, SpaceDoom
  <1>2. q \in Seq(Entries)
    BY EntryKinds DEF SpaceDoom
  <1>3. /\ DOMAIN q = {1, 2, 3} /\ q[1] = Field(a, "tables") /\ q[2] = Field(a, "directory")
        /\ q[3] = Self(a)
    BY DEF SpaceDoom
  <1> HIDE DEF q
  <1>4. ASSUME NEW k \in DOMAIN q, q[k].field # "self"
        PROVE  k \in {1, 2} /\ q[k].of = a
    BY <1>3, <1>4, EntryKinds
  <1>5. q[1] # Self(a)
    BY <1>3, EntryKinds
  <1>6. Orderly(q)
    BY <1>2, <1>3, <1>4, <1>5 DEF Orderly
  <1>7. QED
    BY <1>1, <1>6 DEF q

LEMMA RangeConcat ==
    ASSUME NEW S, NEW p \in Seq(S), NEW q \in Seq(S)
    PROVE  Range(p \o q) = Range(p) \cup Range(q)
  <1> DEFINE r == p \o q
  <1>1. PICK m \in Nat, n \in Nat : m = Len(p) /\ n = Len(q)
    OBVIOUS
  <1>2. DOMAIN p = 1 .. m /\ DOMAIN q = 1 .. n
    BY <1>1
  <1>3. /\ DOMAIN r = 1 .. m + n
        /\ \A k \in 1 .. m : r[k] = p[k]
        /\ \A k \in m + 1 .. m + n : r[k] = q[k - m]
    BY <1>1
  <1> HIDE DEF r
  <1>4. \A k \in 1 .. n : k + m \in DOMAIN r /\ r[k + m] = q[k]
    BY <1>3
  <1>5. ASSUME NEW k \in DOMAIN r PROVE r[k] \in Range(p) \cup Range(q)
    <2>1. CASE k \in 1 .. m
      BY <1>2, <1>3, <2>1 DEF Range
    <2>2. CASE k \in m + 1 .. m + n
      <3>1. k - m \in 1 .. n
        BY <2>2
      <3>2. QED
        BY <1>2, <1>3, <2>2, <3>1 DEF Range
    <2>3. QED
      BY <1>3, <2>1, <2>2
  <1>6. ASSUME NEW k \in DOMAIN p PROVE p[k] \in Range(r)
    <2>1. k \in DOMAIN r /\ r[k] = p[k]
      BY <1>2, <1>3
    <2>2. QED
      BY <2>1 DEF Range
  <1>7. ASSUME NEW k \in DOMAIN q PROVE q[k] \in Range(r)
    <2>1. k + m \in DOMAIN r /\ r[k + m] = q[k]
      BY <1>2, <1>4
    <2>2. QED
      BY <2>1 DEF Range
  <1>8. Range(r) = Range(p) \cup Range(q)
    BY <1>5, <1>6, <1>7 DEF Range
  <1>9. QED
    BY <1>8 DEF r

LEMMA OrderlyConcat ==
    ASSUME NEW p, NEW q, Orderly(p), Orderly(q),
           \A d \in Range(p), e \in Range(q) : d.of # e.of
    PROVE  Orderly(p \o q) /\ Range(p \o q) = Range(p) \cup Range(q)
  <1> DEFINE r == p \o q
  <1>1. p \in Seq(Entries) /\ q \in Seq(Entries)
    BY DEF Orderly
  <1>2. PICK m \in Nat, n \in Nat : m = Len(p) /\ n = Len(q)
    BY <1>1
  <1>3. DOMAIN p = 1 .. m /\ DOMAIN q = 1 .. n
    BY <1>1, <1>2
  <1>4. /\ r \in Seq(Entries) /\ DOMAIN r = 1 .. m + n
        /\ \A k \in 1 .. m : r[k] = p[k]
        /\ \A k \in m + 1 .. m + n : r[k] = q[k - m]
    BY <1>1, <1>2
  <1> HIDE DEF r
  <1>5. \A k \in 1 .. n : k + m \in DOMAIN r /\ r[k + m] = q[k]
    BY <1>4
  <1>6. Range(r) = Range(p) \cup Range(q)
    BY <1>1, RangeConcat DEF r
  <1>7. ASSUME NEW k \in DOMAIN r, r[k].field # "self"
        PROVE  /\ \E j \in DOMAIN r : k < j /\ r[j] = Self(r[k].of)
               /\ \A j \in DOMAIN r : j < k => r[j] # Self(r[k].of)
    <2>1. CASE k \in 1 .. m
      <3>1. k \in DOMAIN p /\ r[k] = p[k]
        BY <1>3, <1>4, <2>1
      <3>2. PICK j \in DOMAIN p : k < j /\ p[j] = Self(p[k].of)
        BY <1>7, <3>1 DEF Orderly
      <3>3. j \in DOMAIN r /\ r[j] = p[j]
        BY <1>3, <1>4
      <3>4. \A i \in DOMAIN r : i < k => i \in DOMAIN p /\ r[i] = p[i]
        BY <1>3, <1>4, <2>1
      <3>5. \A i \in DOMAIN p : i < k => p[i] # Self(p[k].of)
        BY <1>7, <3>1 DEF Orderly
      <3>6. QED
        BY <3>1, <3>2, <3>3, <3>4, <3>5
    <2>2. CASE k \in m + 1 .. m + n
      <3>1. k - m \in DOMAIN q /\ r[k] = q[k - m]
        BY <1>3, <1>4, <2>2
      <3>2. PICK h \in DOMAIN q : h = k - m
        BY <3>1
      <3>3. PICK j \in DOMAIN q : h < j /\ q[j] = Self(q[h].of)
        BY <1>7, <3>1, <3>2 DEF Orderly
      <3>4. j + m \in DOMAIN r /\ r[j + m] = q[j] /\ k < j + m
        BY <1>3, <1>5, <2>2, <3>2, <3>3
      <3>5. ASSUME NEW i \in DOMAIN r, i < k PROVE r[i] # Self(r[k].of)
        <4>1. CASE i \in 1 .. m
          <5>1. r[i] \in Range(p) /\ r[k] \in Range(q)
            BY <1>3, <1>4, <3>1, <4>1 DEF Range
          <5>2. QED
            BY <5>1, EntryKinds
        <4>2. CASE i \in m + 1 .. m + n
          <5>1. i - m \in DOMAIN q /\ r[i] = q[i - m] /\ i - m < h
            BY <1>3, <1>4, <2>2, <3>2, <3>5, <4>2
          <5>2. \A x \in DOMAIN q : x < h => q[x] # Self(q[h].of)
            BY <1>7, <3>1, <3>2 DEF Orderly
          <5>3. QED
            BY <3>1, <3>2, <5>1, <5>2
        <4>3. QED
          BY <1>4, <4>1, <4>2
      <3>6. QED
        BY <3>1, <3>2, <3>3, <3>4, <3>5
    <2>3. QED
      BY <1>4, <2>1, <2>2
  <1>8. Orderly(r)
    BY <1>4, <1>7 DEF Orderly
  <1>9. QED
    BY <1>6, <1>8 DEF r

LEMMA OrderlyTail ==
    ASSUME NEW q, Orderly(q), q # <<>>
    PROVE  /\ Head(q) \in Entries /\ Range(q) \subseteq Entries
           /\ Orderly(Tail(q)) /\ Range(q) = {Head(q)} \cup Range(Tail(q))
           /\ \A e \in Range(Tail(q)) : e.field # "self" => Head(q) # Self(e.of)
           /\ (Head(q)).field # "self" => Self((Head(q)).of) \in Range(Tail(q))
  <1> DEFINE r == Tail(q)
  <1>1. q \in Seq(Entries)
    BY DEF Orderly
  <1>2. PICK n \in Nat : Len(q) = n + 1
    BY <1>1
  <1>3. /\ DOMAIN q = 1 .. n + 1 /\ DOMAIN r = 1 .. n /\ r \in Seq(Entries)
        /\ \A k \in 1 .. n : r[k] = q[k + 1]
        /\ Head(q) = q[1]
    BY <1>1, <1>2
  <1> HIDE DEF r
  <1>4. \A k \in 2 .. n + 1 : k - 1 \in DOMAIN r /\ r[k - 1] = q[k]
    BY <1>3
  <1>5. Range(q) = {Head(q)} \cup Range(r)
    <2>1. ASSUME NEW k \in DOMAIN q PROVE q[k] \in {Head(q)} \cup Range(r)
      <3>1. CASE k = 1
        BY <1>3, <3>1
      <3>2. CASE k # 1
        <4>1. k \in 2 .. n + 1
          BY <1>3, <3>2
        <4>2. QED
          BY <1>4, <4>1 DEF Range
      <3>3. QED
        BY <3>1, <3>2
    <2>2. ASSUME NEW k \in DOMAIN r PROVE r[k] \in Range(q)
      <3>1. k + 1 \in DOMAIN q /\ r[k] = q[k + 1]
        BY <1>3
      <3>2. QED
        BY <3>1 DEF Range
    <2>3. Head(q) \in Range(q)
      BY <1>2, <1>3 DEF Range
    <2>4. QED
      BY <2>1, <2>2, <2>3 DEF Range
  <1>6. ASSUME NEW k \in DOMAIN r, r[k].field # "self"
        PROVE  /\ \E j \in DOMAIN r : k < j /\ r[j] = Self(r[k].of)
               /\ \A j \in DOMAIN r : j < k => r[j] # Self(r[k].of)
               /\ q[1] # Self(r[k].of)
    <2>1. PICK h \in DOMAIN q : h = k + 1 /\ h > 1 /\ r[k] = q[h]
      BY <1>3
    <2>2. /\ \E j \in DOMAIN q : h < j /\ q[j] = Self(q[h].of)
          /\ \A j \in DOMAIN q : j < h => q[j] # Self(q[h].of)
      BY <1>6, <2>1 DEF Orderly
    <2>3. PICK j \in DOMAIN q : h < j /\ q[j] = Self(q[h].of)
      BY <2>2
    <2>4. j - 1 \in DOMAIN r /\ r[j - 1] = q[j] /\ k < j - 1
      BY <1>3, <1>4, <2>1, <2>3
    <2>5. \A i \in DOMAIN r : i < k => r[i] # Self(r[k].of)
      <3>1. ASSUME NEW i \in DOMAIN r, i < k PROVE r[i] # Self(r[k].of)
        <4>1. i + 1 \in DOMAIN q /\ r[i] = q[i + 1] /\ i + 1 < h
          BY <1>3, <2>1, <3>1
        <4>2. QED
          BY <2>1, <2>2, <4>1
      <3>2. QED
        BY <3>1
    <2>6. q[1] # Self(r[k].of)
      <3>1. 1 \in DOMAIN q
        BY <1>3
      <3>2. QED
        BY <2>1, <2>2, <3>1
    <2>7. QED
      BY <2>1, <2>3, <2>4, <2>5, <2>6
  <1>7. Orderly(r)
    BY <1>3, <1>6 DEF Orderly
  <1>8. \A e \in Range(r) : e.field # "self" => Head(q) # Self(e.of)
    BY <1>3, <1>6 DEF Range
  <1>9. (Head(q)).field # "self" => Self((Head(q)).of) \in Range(r)
    <2>1. SUFFICES ASSUME q[1].field # "self" PROVE Self(q[1].of) \in Range(r)
      BY <1>3
    <2>2. 1 \in DOMAIN q
      BY <1>3
    <2>3. PICK j \in DOMAIN q : 1 < j /\ q[j] = Self(q[1].of)
      BY <2>1, <2>2 DEF Orderly
    <2>4. j \in 2 .. n + 1
      BY <1>3, <2>3
    <2>5. QED
      BY <1>4, <2>3, <2>4 DEF Range
  <1>10. Head(q) \in Entries /\ Range(q) \subseteq Entries
    BY <1>1, <1>3 DEF Range
  <1>11. QED
    BY <1>5, <1>7, <1>8, <1>9, <1>10 DEF r

-----------------------------------------------------------------------------
(* What a step that changes little keeps. *)

(* Outside S the structures of m are in m2, with the same fields but for the state. *)
Kept(m, m2, S) ==
    \A a \in DOMAIN m : a \notin S =>
       /\ a \in DOMAIN m2 /\ DOMAIN m2[a] = DOMAIN m[a]
       /\ \A f \in DOMAIN m[a] : f # "state" => m2[a][f] = m[a][f]

LEMMA AddedKept ==
    ASSUME NEW m, NEW m2, NEW n, NEW r, Added(m, m2, n, r), n \notin DOMAIN m
    PROVE  /\ Kept(m, m2, {})
           /\ \A b : (Unowned(m, b) /\ \A f \in DOMAIN r \cap Links : r[f] # b) => Unowned(m2, b)
  BY DEF Added, Kept, Unowned, LinksOf

LEMMA RewrittenKept ==
    ASSUME NEW m, NEW m2, NEW o, NEW g, NEW v, Rewritten(m, m2, o, g, v)
    PROVE  /\ Kept(m, m2, {o}) /\ (g = "state" => Kept(m, m2, {}))
           /\ \A b : (Unowned(m, b) /\ (g \notin Links \/ v # b)) => Unowned(m2, b)
  <1>1. Kept(m, m2, {o}) /\ (g = "state" => Kept(m, m2, {}))
    BY DEF Rewritten, Kept
  <1>2. ASSUME NEW b, Unowned(m, b), g \notin Links \/ v # b, NEW a \in DOMAIN m2,
               NEW f \in LinksOf(m2, a)
        PROVE  m2[a][f] # b
    BY <1>2 DEF Rewritten, Unowned, LinksOf
  <1>3. QED
    BY <1>1, <1>2 DEF Unowned

LEMMA DroppedKept ==
    ASSUME NEW m, NEW m2, NEW x, Dropped(m, m2, x)
    PROVE  Kept(m, m2, {x}) /\ \A b : Unowned(m, b) => Unowned(m2, b)
  BY DEF Dropped, Kept, Unowned, LinksOf

LEMMA KeptTwice ==
    ASSUME NEW m1, NEW m2, NEW m3, NEW S, NEW T, Kept(m1, m2, S), Kept(m2, m3, T)
    PROVE  Kept(m1, m3, S \cup T)
  BY DEF Kept

LEMMA KeptOwned ==
    ASSUME NEW m, NEW m2, DOMAIN m2 = DOMAIN m, Kept(m, m2, {})
    PROVE  /\ \A a \in DOMAIN m : DOMAIN m2[a] = DOMAIN m[a] /\ LinksOf(m2, a) = LinksOf(m, a)
           /\ \A a \in DOMAIN m : \A f \in LinksOf(m, a) : m2[a][f] = m[a][f]
           /\ \A doomed, low : WellOwned(m, doomed, low) => WellOwned(m2, doomed, low)
           /\ \A b : Unowned(m, b) => Unowned(m2, b)
  <1>1. \A a \in DOMAIN m : DOMAIN m2[a] = DOMAIN m[a] /\ LinksOf(m2, a) = LinksOf(m, a)
    BY DEF Kept, LinksOf
  <1>2. \A a \in DOMAIN m : \A f \in LinksOf(m, a) : m2[a][f] = m[a][f]
    BY DEF Kept, LinksOf, Links
  <1>3. ASSUME NEW doomed, NEW low, WellOwned(m, doomed, low) PROVE WellOwned(m2, doomed, low)
    BY <1>1, <1>2, <1>3 DEF WellOwned
  <1>4. \A b : Unowned(m, b) => Unowned(m2, b)
    BY <1>1, <1>2 DEF Unowned
  <1>5. QED
    BY <1>1, <1>2, <1>3, <1>4

LEMMA BootKept ==
    ASSUME BootBelow, ListSound, NEW S, Kept(memory, memory', S), task_list[2] \notin S,
           Len(task_list') >= 2, task_list'[1] = task_list[1], task_list'[2] = task_list[2],
           NEW low, low = task_list[2] + 1, Above(low)',
           DOMAIN memory' \subseteq InUse' \cup BootPlaces
    PROVE  BootBelow'
  <1>1. Has(memory, task_list[2], TaskShape)
    <2>1. 2 \in DOMAIN task_list
      BY DEF BootBelow, ListSound
    <2>2. QED
      BY <2>1 DEF ListSound, Range
  <1>2. /\ memory'[task_list[2]].process = memory[task_list[2]].process
        /\ memory'[task_list[2]].context = memory[task_list[2]].context
    BY <1>1 DEF Kept, Has, TaskShape
  <1>3. BootPlaces' = BootPlaces
    BY DEF BootPlaces
  <1>4. Above(task_list[2] + 1)'
    BY DEF Above
  <1>5. QED
    BY <1>2, <1>3, <1>4 DEF BootBelow

LEMMA ListKept ==
    ASSUME ListSound, NEW S, Kept(memory, memory', S), UNCHANGED task_list,
           \A t \in Range(task_list) :
              /\ t \notin S /\ t \notin Doomed'
              /\ memory'[t].state = "READY" => memory[t].state = "READY",
           stage = "context" => (stage' = "context" /\ parts'.task = parts.task),
           current_task' = NONE \/ current_task' \in Range(task_list)
    PROVE  ListSound'
  <1>1. Range(task_list') = Range(task_list)
    OBVIOUS
  <1>2. ASSUME NEW t \in Range(task_list)
        PROVE  /\ Has(memory', t, TaskShape)
               /\ (memory'[t].context = NONE /\ memory'[t].state = "READY") =>
                     (stage' = "context" /\ t = parts'.task)
    <2>1. Has(memory, t, TaskShape)
      BY DEF ListSound
    <2>2. Has(memory', t, TaskShape) /\ memory'[t].context = memory[t].context
      BY <2>1 DEF Kept, Has, TaskShape
    <2>3. (memory[t].context = NONE /\ memory[t].state = "READY") =>
             (stage = "context" /\ t = parts.task)
      BY DEF ListSound
    <2>4. QED
      BY <2>2, <2>3
  <1>3. QED
    BY <1>1, <1>2 DEF ListSound

LEMMA ProductKept ==
    ASSUME NEW a, ProductSound(a), ListSound, UNCHANGED session, NEW S,
           Kept(memory, memory', S), a \notin S,
           Product = "process" => memory[a].task \notin S,
           Range(task_list) \subseteq Range(task_list'), task_list'[2] = task_list[2],
           Unowned(memory', a), a \notin Doomed'
    PROVE  ProductSound(a)'
  <1>1. Product' = Product
    BY SameCaller
  <1>2. a \in DOMAIN memory' /\ DOMAIN memory'[a] = DOMAIN memory[a]
    BY DEF Kept, ProductSound
  <1>3. CASE Product = "process"
    <2>1. /\ DOMAIN memory[a] = ProcessShape /\ memory[a].space # NONE
          /\ memory[a].task \in Range(task_list) /\ memory[memory[a].task].process = a
      BY <1>3 DEF ProductSound
    <2>2. memory'[a].space = memory[a].space /\ memory'[a].task = memory[a].task
      BY <2>1 DEF Kept, ProcessShape, ProductSound
    <2>3. Has(memory, memory[a].task, TaskShape)
      BY <2>1 DEF ListSound
    <2>4. memory'[memory[a].task].process = a
      BY <1>3, <2>1, <2>3 DEF Kept, Has, TaskShape
    <2>5. QED
      BY <1>1, <1>2, <1>3, <2>1, <2>2, <2>4 DEF ProductSound
  <1>4. CASE Product = "task"
    <2>1. a \in Range(task_list) /\ memory[a].process = NONE
      BY <1>4 DEF ProductSound
    <2>2. Has(memory, a, TaskShape)
      BY <2>1 DEF ListSound
    <2>3. memory'[a].process = NONE
      BY <2>1, <2>2 DEF Kept, Has, TaskShape
    <2>4. QED
      BY <1>1, <1>2, <1>4, <2>1, <2>3 DEF ProductSound
  <1>5. CASE Product \notin {"process", "task"}
    BY <1>1, <1>2, <1>5 DEF ProductSound
  <1>6. QED
    BY <1>3, <1>4, <1>5

LEMMA PartsEmpty ==
    ASSUME ControlSound', parts' = NoParts,
           stage' \in {Product', "dispose", "destroy", "running", "prepare"}
    PROVE  PartsSound'
  <1>1. Product' \in Products
    <2>1. CallerSound(Caller')
      BY NextCallerIsAt DEF ControlSound
    <2>2. QED
      BY <2>1 DEF CallerSound, Product
  <1>2. parts' \in [process : Nat, space : Nat, task : Nat]
    BY DEF NoParts, NONE
  <1>3. parts'.process = NONE /\ parts'.space = NONE /\ parts'.task = NONE
    BY DEF NoParts
  <1>4. stage' \notin {"directory", "tables", "stack", "context"}
    BY <1>1 DEF Products
  <1>5. (Creating /\ Product = "process" /\ stage # "process")' => FALSE
    BY DEF Creating, StagesOf
  <1>6. ProcessPart'
    BY <1>3, <1>5 DEF ProcessPart
  <1>7. ~ (stage' \in {"task", "stack", "context"} /\ Product' = "process")
    BY <1>4
  <1>8. SpacePart'
    BY <1>3, <1>4, <1>7 DEF SpacePart
  <1>9. TaskPart'
    BY <1>3, <1>4 DEF TaskPart
  <1>10. QED
    BY <1>2, <1>6, <1>8, <1>9 DEF PartsSound

-----------------------------------------------------------------------------
(* The steps that leave the heap's blocks alone. *)

TasksInv == PlacementInv /\ StructureInv

LEMMA StructureFacts ==
    ASSUME TasksInv
    PROVE  /\ task_list[2] \in Nat /\ task_list[2] + 1 \in Nat
           /\ task_list[1] \in Range(task_list) /\ task_list[2] \in Range(task_list)
           /\ NONE \notin DOMAIN memory /\ DOMAIN memory \subseteq Nat
           /\ InUse \subseteq Nat /\ \A a \in InUse : a > task_list[2] + 1
           /\ \A t \in Range(task_list) : t \in Nat /\ t \in DOMAIN memory
           /\ Range(freeing) \subseteq Entries
           /\ \A a : a \in Doomed <=> Self(a) \in Range(freeing)
  <1>1. /\ BootBelow /\ ListSound /\ FreeingSound /\ HeapTypeOK
    BY DEF TasksInv, StructureInv, PlacementInv, FrameInv
  <1>2. task_list \in Seq(Nat) /\ 1 \in DOMAIN task_list /\ 2 \in DOMAIN task_list
    BY <1>1 DEF BootBelow, ListSound
  <1>3. /\ task_list[1] \in Range(task_list) /\ task_list[2] \in Range(task_list)
        /\ task_list[2] \in Nat
    BY <1>2 DEF Range
  <1>4. ASSUME NEW a \in InUse PROVE a \in Nat /\ a > task_list[2] + 1
    BY <1>1 DEF InUse, Live, BootBelow, Above, HeapTypeOK
  <1>5. DOMAIN memory \subseteq InUse \cup BootPlaces
    BY <1>1 DEF BootBelow
  <1>6. \A b \in BootPlaces : b \in Nat /\ b # 0
    BY <1>1, <1>3 DEF BootBelow, BootPlaces
  <1>7. ASSUME NEW a \in DOMAIN memory PROVE a \in Nat /\ a # NONE
    <2>1. CASE a \in InUse
      BY <1>3, <1>4, <2>1 DEF NONE
    <2>2. CASE a \in BootPlaces
      BY <1>6, <2>2 DEF NONE
    <2>3. QED
      BY <1>5, <2>1, <2>2
  <1>8. \A t \in Range(task_list) : t \in Nat /\ t \in DOMAIN memory
    BY <1>1, <1>2 DEF ListSound, Range, Has
  <1>9. Range(freeing) \subseteq Entries
    BY <1>1 DEF FreeingSound, Orderly, Range
  <1>10. \A a : a \in Doomed <=> Self(a) \in Range(freeing)
    BY <1>9, SelvesFacts DEF Doomed
  <1>11. QED
    BY <1>3, <1>4, <1>7, <1>8, <1>9, <1>10

LEMMA SameHeap ==
    ASSUME TasksInv, UNCHANGED heapVars
    PROVE  InUse' = InUse /\ \A low : low = task_list[2] + 1 => Above(low)'
  BY DEF heapVars, InUse, Live, Free, Used, Above, TasksInv, StructureInv, BootBelow

(* Only the state of structures, the current task and the stage may change. *)
LEMMA QuietStep ==
    ASSUME TasksInv, InUse' = InUse, \A low : low = task_list[2] + 1 => Above(low)',
           UNCHANGED <<task_list, freeing>>,
           DOMAIN memory' = DOMAIN memory, Kept(memory, memory', {}),
           \A t \in Range(task_list) : memory'[t].state = "READY" => memory[t].state = "READY",
           stage = "context" => (stage' = "context" /\ parts'.task = parts.task),
           current_task' = NONE \/ current_task' \in Range(task_list)
    PROVE  /\ Ownership' /\ BootBelow' /\ ListSound' /\ FreeingSound' /\ Doomed' = Doomed
           /\ UNCHANGED session => \A a : ProductSound(a) => ProductSound(a)'
  <1> USE DEF TasksInv, StructureInv
  <1>1. /\ Range(freeing') = Range(freeing) /\ Range(task_list') = Range(task_list)
        /\ Doomed' = Doomed
    BY DEF Doomed
  <1>2. /\ \A a \in DOMAIN memory : DOMAIN memory'[a] = DOMAIN memory[a]
                                      /\ LinksOf(memory', a) = LinksOf(memory, a)
        /\ \A a \in DOMAIN memory : \A f \in LinksOf(memory, a) : memory'[a][f] = memory[a][f]
        /\ \A doomed, low : WellOwned(memory, doomed, low) => WellOwned(memory', doomed, low)
        /\ \A b : Unowned(memory, b) => Unowned(memory', b)
    BY KeptOwned
  <1>3. Ownership'
    BY <1>1, <1>2 DEF Ownership
  <1>4. PICK low \in Nat : low = task_list[2] + 1
    BY StructureFacts
  <1>5. InUse' = InUse /\ Above(low)'
    BY <1>4
  <1>6. BootBelow'
    <2>1. DOMAIN memory' \subseteq InUse' \cup BootPlaces
      BY <1>5 DEF BootBelow
    <2>2. Len(task_list') >= 2
      BY DEF BootBelow
    <2>3. QED
      BY <1>4, <1>5, <2>1, <2>2, BootKept
  <1>7. ListSound'
    <2>1. \A t \in Range(task_list) : t \notin Doomed'
      BY <1>1 DEF ListSound
    <2>2. QED
      BY <2>1, ListKept
  <1>8. FreeingSound'
    BY <1>1, <1>2 DEF FreeingSound
  <1>9. ASSUME UNCHANGED session, NEW a, ProductSound(a) PROVE ProductSound(a)'
    <2>1. Unowned(memory', a) /\ a \notin Doomed'
      BY <1>1, <1>2, <1>9 DEF ProductSound
    <2>2. QED
      BY <1>1, <1>9, <2>1, ProductKept
  <1>10. QED
    BY <1>1, <1>3, <1>6, <1>7, <1>8, <1>9

LEMMA SameMemory == UNCHANGED memory => DOMAIN memory' = DOMAIN memory /\ Kept(memory, memory', {})
  BY DEF Kept

(* The memory m2 is m but for states, none of which was set to READY. *)
StateSet(m, m2) ==
    /\ DOMAIN m2 = DOMAIN m /\ Kept(m, m2, {})
    /\ \A t : (Has(m, t, TaskShape) /\ m2[t].state = "READY") => m[t].state = "READY"

LEMMA StateWritten ==
    ASSUME NEW m, NEW m2, NEW o, NEW v, v # "READY", m2 = [m EXCEPT ![o].state = v]
    PROVE  StateSet(m, m2)
  <1>1. Rewritten(m, m2, o, "state", v)
    BY ExceptRewrites
  <1>2. Kept(m, m2, {})
    BY <1>1, RewrittenKept
  <1>3. ASSUME NEW t, Has(m, t, TaskShape), m2[t].state = "READY" PROVE m[t].state = "READY"
    BY <1>1, <1>3 DEF Rewritten, Has, TaskShape
  <1>4. DOMAIN m2 = DOMAIN m
    BY <1>1 DEF Rewritten
  <1>5. QED
    BY <1>2, <1>3, <1>4 DEF StateSet

LEMMA ReturnStep ==
    ASSUME TasksInv, InUse' = InUse, \A low : low = task_list[2] + 1 => Above(low)',
           freeing = <<>>, UNCHANGED freeing,
           DOMAIN memory' = DOMAIN memory, Kept(memory, memory', {}),
           \A t \in Range(task_list) : memory'[t].state = "READY" => memory[t].state = "READY",
           stage # "context", Return(task_list, current_task)
    PROVE  StructureInv'
  <1> USE DEF TasksInv, StructureInv
  <1>1. /\ ControlSound' /\ parts' = NoParts /\ made' = <<>>
        /\ stage' \in {Product', "dispose", "prepare"}
    BY ReturnControl
  <1>2. task_list' = task_list /\ (current_task' = NONE \/ current_task' = current_task)
    BY DEF Return
  <1>3. Ownership' /\ BootBelow' /\ ListSound' /\ FreeingSound'
    <2>1. current_task' = NONE \/ current_task' \in Range(task_list)
      BY <1>2 DEF ListSound
    <2>2. QED
      BY <1>2, <2>1, QuietStep
  <1>4. PartsSound'
    BY <1>1, PartsEmpty
  <1>5. MadeSound'
    BY <1>1 DEF MadeSound
  <1>6. RunningSound'
    <2>1. Product' # "running"
      <3>1. CallerSound(Caller')
        BY <1>1, NextCallerIsAt DEF ControlSound
      <3>2. QED
        BY <3>1 DEF CallerSound, Product, Products
    <2>2. QED
      BY <1>1, <2>1 DEF RunningSound
  <1>7. QED
    BY <1>1, <1>3, <1>4, <1>5, <1>6

(* A step within a session, at a stage at which nothing is being created. *)
LEMMA StageStep ==
    ASSUME TasksInv, UNCHANGED heapVars,
           UNCHANGED <<task_list, freeing, session, parts, made>>,
           DOMAIN memory' = DOMAIN memory, Kept(memory, memory', {}),
           \A t \in Range(task_list) : memory'[t].state = "READY" => memory[t].state = "READY",
           ~ Creating, stage' \in {"destroy", "running", "prepare", Product},
           current_task' = NONE \/ current_task' \in Range(task_list),
           ControlSound', RunningSound'
    PROVE  StructureInv'
  <1> USE DEF TasksInv, StructureInv
  <1>1. parts = NoParts /\ parts' = NoParts
    BY DEF PartsSound
  <1>2. stage # "context"
    <2>1. stage \in {"dispose", "destroy", "running", "prepare"}
      BY DEF ControlSound
    <2>2. QED
      BY <2>1
  <1>3. /\ Ownership' /\ BootBelow' /\ ListSound' /\ FreeingSound'
        /\ \A a : ProductSound(a) => ProductSound(a)'
    BY <1>2, QuietStep, SameHeap
  <1>4. Product' = Product
    BY SameCaller
  <1>5. PartsSound'
    BY <1>1, <1>4, PartsEmpty
  <1>6. MadeSound'
    <2>1. made' = made
      OBVIOUS
    <2>2. \A k \in DOMAIN made : made[k] = NONE \/ ProductSound(made[k])'
      BY <1>3 DEF MadeSound
    <2>3. QED
      BY <2>1, <2>2 DEF MadeSound
  <1>7. QED
    BY <1>3, <1>5, <1>6

LEMMA NotCreating ==
    ASSUME ControlSound, stage \in {"dispose", "destroy", "running", "prepare"}
    PROVE  ~ Creating /\ stage # "context" /\ Product \in Products
  <1>1. CallerSound(Caller)
    BY CallerIsAt DEF ControlSound
  <1>2. Product \in Products
    BY <1>1 DEF CallerSound, Product
  <1>3. QED
    BY <1>2, StageSets DEF Creating

(* From a stage of the caller's own to the next one, in the same session. *)
LEMMA StageControl ==
    ASSUME ControlSound, ~ Creating, UNCHANGED <<session, freeing, parts, making, made>>,
           \/ stage' = "destroy" /\ stage # "prepare" /\ Caller.dispose # "keep"
           \/ /\ stage' = "running" /\ freeing = <<>> /\ stage = "dispose"
              /\ Caller.dispose # "keep"
           \/ stage' = Product /\ Product # "none" /\ stage = "prepare"
           \/ stage' = stage,
           InShell /\ stage' # "running" => current_task' = NONE
    PROVE  ControlSound'
  <1>1. Caller' = Caller /\ Product' = Product /\ (InShell' <=> InShell)
    BY SameCaller
  <1>2. CallerSound(Caller)
    BY CallerIsAt DEF ControlSound
  <1>3. Product \in Products
    BY <1>2 DEF CallerSound, Product
  <1>4. stage' \in {"dispose", "destroy", "running", "prepare"} => ~ Creating'
    BY <1>1, <1>3, StageSets DEF Creating
  <1>5. stage' = Product /\ Product # "none" => Creating'
    BY <1>1, <1>3, StageSets DEF Creating
  <1>6. stage \in {"dispose", "destroy", "running", "prepare"} /\ stage # "context"
    BY DEF ControlSound
  <1>7. Product \notin {"dispose", "destroy", "running", "prepare"}
    BY <1>3 DEF Products
  <1>8. CASE stage' = "destroy" /\ stage # "prepare" /\ Caller.dispose # "keep"
    BY <1>1, <1>4, <1>6, <1>8 DEF ControlSound
  <1>9. CASE /\ stage' = "running" /\ freeing = <<>> /\ stage = "dispose"
             /\ Caller.dispose # "keep"
    BY <1>1, <1>4, <1>6, <1>9 DEF ControlSound
  <1>10. CASE stage' = Product /\ Product # "none" /\ stage = "prepare"
    BY <1>1, <1>3, <1>5, <1>6, <1>7, <1>10 DEF ControlSound
  <1>11. CASE stage' = stage
    BY <1>1, <1>4, <1>6, <1>11 DEF ControlSound
  <1>12. QED
    BY <1>8, <1>9, <1>10, <1>11

LEMMA ListedAreTasks ==
    ASSUME TasksInv, NEW t \in Range(task_list)
    PROVE  Has(memory, t, TaskShape)
  BY DEF TasksInv, StructureInv, ListSound

LEMMA UnchangedStep ==
    ASSUME StructureInv, UNCHANGED <<heapVars, taskVars>>
    PROVE  StructureInv'
  <1>1. /\ UNCHANGED memory /\ UNCHANGED task_list /\ UNCHANGED current_task
        /\ UNCHANGED session /\ UNCHANGED making /\ UNCHANGED stage /\ UNCHANGED parts
        /\ UNCHANGED made /\ UNCHANGED freeing
    BY DEF taskVars
  <1>2. InUse' = InUse /\ (Above(task_list[2] + 1) => Above(task_list[2] + 1)')
    BY <1>1 DEF heapVars, InUse, Live, Free, Used, Above
  <1>3. /\ Caller' = Caller /\ Product' = Product /\ (InShell' <=> InShell)
        /\ Doomed' = Doomed /\ BootPlaces' = BootPlaces /\ (Creating' <=> Creating)
    BY <1>1, SameCaller DEF Doomed, BootPlaces, Creating
  <1>4. Ownership' /\ BootBelow' /\ ListSound' /\ FreeingSound'
    BY <1>1, <1>2, <1>3
    DEF StructureInv, Ownership, BootBelow, ListSound, FreeingSound
  <1>5. ControlSound'
    BY <1>1, <1>3 DEF StructureInv, ControlSound
  <1>6. ProcessPart' /\ SpacePart' /\ TaskPart'
    BY <1>1, <1>2, <1>3 DEF StructureInv, PartsSound, ProcessPart, SpacePart, TaskPart, Part
  <1>7. PartsSound'
    BY <1>1, <1>3, <1>6 DEF StructureInv, PartsSound
  <1>8. ASSUME NEW a, ProductSound(a) PROVE ProductSound(a)'
    BY <1>1, <1>3, <1>8 DEF ProductSound
  <1>9. MadeSound' /\ RunningSound'
    BY <1>1, <1>8 DEF StructureInv, MadeSound, RunningSound
  <1>10. QED
    BY <1>4, <1>5, <1>7, <1>9 DEF StructureInv

LEMMA GiveUpStructure ==
    ASSUME TasksInv, GiveUp \/ EndSession
    PROVE  StructureInv'
  <1>1. /\ UNCHANGED heapVars /\ freeing = <<>> /\ UNCHANGED freeing /\ UNCHANGED memory
        /\ stage # "context" /\ Return(task_list, current_task)
    BY DEF GiveUp, EndSession, Busy
  <1>2. /\ DOMAIN memory' = DOMAIN memory /\ Kept(memory, memory', {})
        /\ \A t \in Range(task_list) : memory'[t].state = "READY" => memory[t].state = "READY"
    BY <1>1, SameMemory
  <1>3. QED
    BY <1>1, <1>2, ReturnStep, SameHeap

LEMMA KeepStructure ==
    ASSUME TasksInv, Keep
    PROVE  StructureInv'
  <1>1. /\ UNCHANGED heapVars /\ freeing = <<>> /\ UNCHANGED freeing
        /\ stage # "context" /\ Return(task_list, current_task)
        /\ memory' = [memory EXCEPT ![made[1]].state = "FINISHED"]
    BY DEF Keep, Disposing, Busy
  <1>2. /\ DOMAIN memory' = DOMAIN memory /\ Kept(memory, memory', {})
        /\ \A t : (Has(memory, t, TaskShape) /\ memory'[t].state = "READY") =>
                     memory[t].state = "READY"
    <2>1. StateSet(memory, memory')
      BY <1>1, StateWritten
    <2>2. QED
      BY <2>1 DEF StateSet
  <1>3. \A t \in Range(task_list) : memory'[t].state = "READY" => memory[t].state = "READY"
    BY <1>2, ListedAreTasks
  <1>4. QED
    BY <1>1, <1>2, <1>3, ReturnStep, SameHeap

(* The stage at which the caller disposes: it has all it asked for. *)
LEMMA AllMade ==
    ASSUME TasksInv, stage = "dispose"
    PROVE  making = <<>> /\ made \in Seq(Nat) /\ Len(made) = Len(Caller.makes)
  <1>1. ~ Creating
    BY NotCreating DEF TasksInv, StructureInv
  <1>2. making = <<>> /\ made \in Seq(Nat) /\ Len(made) + Len(making) = Len(Caller.makes)
    BY <1>1 DEF TasksInv, StructureInv, ControlSound
  <1>3. Len(made) \in Nat /\ Len(making) = 0
    BY <1>2
  <1>4. QED
    BY <1>2, <1>3

LEMMA ChosenListed ==
    ASSUME TasksInv, Disposing({"identity", "program", "terminate", "utility"}),
           NONE \notin Range(made)
    PROVE  /\ Chosen \in Range(task_list)
           /\ memory[Chosen].process = NONE \/ memory[Chosen].process \in Range(made)
  <1> USE DEF TasksInv, StructureInv
  <1>1. /\ stage = "dispose" /\ Caller.dispose \in {"identity", "program", "terminate", "utility"}
        /\ CallerSound(Caller)
    BY CallerIsAt DEF Disposing, ControlSound
  <1>2. Len(made) = Len(Caller.makes) /\ made \in Seq(Nat)
    BY <1>1, AllMade
  <1>3. CASE Caller.dispose = "program"
    <2>1. Chosen = task_list[2]
      BY <1>3 DEF Chosen, UserTest
    <2>2. task_list[2] \in Range(task_list)
      BY StructureFacts
    <2>3. QED
      BY <2>1, <2>2 DEF BootBelow
  <1>4. CASE Caller.dispose # "program"
    <2>1. 1 \in DOMAIN made
      BY <1>1, <1>2, <1>4 DEF CallerSound
    <2>2. made[1] \in Range(made) /\ ProductSound(made[1])
      BY <2>1 DEF MadeSound, Range
    <2>3. CASE Caller.dispose = "identity"
      <3>1. Chosen = memory[made[1]].task /\ Product = "process"
        BY <2>3 DEF Chosen, Product, ProductOf
      <3>2. QED
        BY <2>2, <3>1 DEF ProductSound
    <2>4. CASE Caller.dispose \in {"terminate", "utility"}
      <3>1. Chosen = made[1] /\ Product = "task"
        BY <2>4 DEF Chosen, Product, ProductOf
      <3>2. QED
        BY <2>2, <3>1 DEF ProductSound
    <2>5. QED
      BY <1>1, <1>4, <2>3, <2>4
  <1>5. QED
    BY <1>3, <1>4

LEMMA RunStructure ==
    ASSUME TasksInv, Run
    PROVE  StructureInv'
  <1> USE DEF TasksInv, StructureInv
  <1>1. /\ UNCHANGED heapVars /\ freeing = <<>> /\ UNCHANGED freeing /\ stage = "dispose"
        /\ Caller.dispose # "keep"
    BY DEF Run, Disposing, Busy
  <1>2. ~ Creating
    BY <1>1, NotCreating
  <1>3. UNCHANGED memory => /\ DOMAIN memory' = DOMAIN memory /\ Kept(memory, memory', {})
                            /\ \A t \in Range(task_list) :
                                 memory'[t].state = "READY" => memory[t].state = "READY"
    BY SameMemory
  <1>4. InShell => current_task = NONE
    BY <1>1 DEF ControlSound
  <1>5. CASE NONE \in Range(made)
    <2>1. /\ stage' = "destroy" /\ UNCHANGED memory
          /\ UNCHANGED <<current_task, task_list, session, making, parts, made>>
      BY <1>5 DEF Run
    <2>2. ControlSound'
      BY <1>1, <1>2, <1>4, <2>1, StageControl
    <2>3. current_task' = NONE \/ current_task' \in Range(task_list)
      BY <2>1 DEF ListSound
    <2>4. RunningSound'
      BY <2>1 DEF RunningSound
    <2>5. QED
      BY <1>1, <1>2, <1>3, <2>1, <2>2, <2>3, <2>4, StageStep
  <1>6. CASE NONE \notin Range(made) /\ memory[Chosen].context = NONE
    <2>1. Return(task_list, current_task) /\ UNCHANGED memory
      BY <1>6 DEF Run
    <2>2. stage # "context"
      BY <1>1
    <2>3. QED
      BY <1>1, <1>3, <2>1, <2>2, ReturnStep, SameHeap
  <1>7. CASE NONE \notin Range(made) /\ memory[Chosen].context # NONE
    <2>1. /\ stage' = "running" /\ current_task' = Chosen
          /\ memory' = [memory EXCEPT ![Chosen].state = "RUNNING"]
          /\ UNCHANGED <<task_list, session, making, parts, made>>
      BY <1>7 DEF Run
    <2>2. /\ DOMAIN memory' = DOMAIN memory /\ Kept(memory, memory', {})
          /\ \A t : (Has(memory, t, TaskShape) /\ memory'[t].state = "READY") =>
                       memory[t].state = "READY"
      <3>1. StateSet(memory, memory')
        BY <2>1, StateWritten
      <3>2. QED
        BY <3>1 DEF StateSet
    <2>3. \A t \in Range(task_list) : memory'[t].state = "READY" => memory[t].state = "READY"
      BY <2>2, ListedAreTasks
    <2>4. Disposing({"identity", "program", "terminate", "utility"})
      BY DEF Run
    <2>5. /\ Chosen \in Range(task_list)
          /\ memory[Chosen].process = NONE \/ memory[Chosen].process \in Range(made)
      BY <1>7, <2>4, ChosenListed
    <2>6. Has(memory, Chosen, TaskShape) /\ Chosen # NONE
      BY <2>5, ListedAreTasks, StructureFacts DEF Has
    <2>7. memory'[Chosen].process = memory[Chosen].process
      BY <2>2, <2>6 DEF Kept, Has, TaskShape
    <2>8. RunningSound'
      BY <2>1, <2>5, <2>6, <2>7 DEF RunningSound
    <2>9. ControlSound'
      BY <1>1, <1>2, <2>1, StageControl
    <2>10. QED
      BY <1>1, <1>2, <2>1, <2>2, <2>3, <2>5, <2>8, <2>9, StageStep
  <1>8. QED
    BY <1>5, <1>6, <1>7

LEMMA StopMemory ==
    ASSUME Stop
    PROVE  StateSet(memory, memory')
  <1> DEFINE t == current_task
             p == memory[t].process
             ended == [memory EXCEPT ![t].state = "FINISHED"]
  <1>1. \/ memory' = memory
        \/ memory' = ended
        \/ memory' = [ended EXCEPT ![p].state = "FINISHED"]
    BY DEF Stop
  <1>2. StateSet(memory, ended)
    BY StateWritten
  <1> HIDE DEF ended, p
  <1>3. CASE memory' = memory
    BY <1>3, SameMemory DEF StateSet
  <1>4. CASE memory' = ended
    BY <1>2, <1>4
  <1>5. CASE memory' = [ended EXCEPT ![p].state = "FINISHED"]
    <2>1. StateSet(ended, memory')
      BY <1>5, StateWritten
    <2>2. \A u : Has(memory, u, TaskShape) => Has(ended, u, TaskShape)
      BY <1>2 DEF StateSet, Kept, Has
    <2>3. Kept(memory, memory', {})
      BY <1>2, <2>1 DEF StateSet, Kept
    <2>4. QED
      BY <1>2, <2>1, <2>2, <2>3 DEF StateSet
  <1>6. QED
    BY <1>1, <1>3, <1>4, <1>5

LEMMA StopStructure ==
    ASSUME TasksInv, Stop
    PROVE  StructureInv'
  <1> USE DEF TasksInv, StructureInv
  <1>1. /\ stage = "running" /\ stage' = "destroy" /\ UNCHANGED heapVars
        /\ UNCHANGED <<task_list, session, making, parts, made, freeing>>
        /\ current_task' = IF Caller.dispose \in {"program", "terminate"} THEN UserTest ELSE NONE
    BY DEF Stop
  <1>2. /\ DOMAIN memory' = DOMAIN memory /\ Kept(memory, memory', {})
        /\ \A u : (Has(memory, u, TaskShape) /\ memory'[u].state = "READY") =>
                     memory[u].state = "READY"
    BY StopMemory DEF StateSet
  <1>3. \A u \in Range(task_list) : memory'[u].state = "READY" => memory[u].state = "READY"
    BY <1>2, ListedAreTasks
  <1>4. ~ Creating
    BY <1>1, NotCreating
  <1>5. current_task' = NONE \/ current_task' \in Range(task_list)
    BY <1>1, StructureFacts DEF UserTest
  <1>6. InShell => current_task' = NONE
    BY <1>1 DEF Caller, Utility, Session
  <1>7. ControlSound'
    <2>1. Caller.dispose # "keep"
      BY <1>1 DEF ControlSound
    <2>2. QED
      BY <1>1, <1>4, <1>6, <2>1, StageControl
  <1>8. RunningSound'
    BY <1>1 DEF RunningSound
  <1>9. QED
    BY <1>1, <1>2, <1>3, <1>4, <1>5, <1>7, <1>8, StageStep

LEMMA DestroyStructure ==
    ASSUME TasksInv, NEW how, "keep" \notin how, Destroy(how)
    PROVE  StructureInv'
  <1> USE DEF TasksInv, StructureInv
  <1>1. /\ stage = "dispose" /\ stage' = "destroy" /\ UNCHANGED heapVars /\ UNCHANGED memory
        /\ UNCHANGED <<task_list, current_task, session, making, parts, made, freeing>>
        /\ Caller.dispose # "keep"
    BY DEF Destroy, Disposing
  <1>2. /\ DOMAIN memory' = DOMAIN memory /\ Kept(memory, memory', {})
        /\ \A t \in Range(task_list) : memory'[t].state = "READY" => memory[t].state = "READY"
    BY <1>1, SameMemory
  <1>3. ~ Creating
    BY <1>1, NotCreating
  <1>4. current_task' = NONE \/ current_task' \in Range(task_list)
    BY <1>1 DEF ListSound
  <1>5. InShell => current_task' = NONE
    BY <1>1 DEF ControlSound
  <1>6. ControlSound'
    BY <1>1, <1>3, <1>5, StageControl
  <1>7. RunningSound'
    BY <1>1 DEF RunningSound
  <1>8. QED
    BY <1>1, <1>2, <1>3, <1>4, <1>6, <1>7, StageStep

LEMMA PrepareStructure ==
    ASSUME TasksInv, UserPrepare
    PROVE  StructureInv'
  <1> USE DEF TasksInv, StructureInv
  <1>1. /\ stage = "prepare" /\ stage' \in {"prepare", "task"} /\ UNCHANGED heapVars
        /\ UNCHANGED memory
        /\ UNCHANGED <<task_list, current_task, session, making, parts, made, freeing>>
    BY DEF UserPrepare
  <1>2. /\ DOMAIN memory' = DOMAIN memory /\ Kept(memory, memory', {})
        /\ \A t \in Range(task_list) : memory'[t].state = "READY" => memory[t].state = "READY"
    BY <1>1, SameMemory
  <1>3. ~ Creating
    BY <1>1, NotCreating
  <1>4. current_task' = NONE \/ current_task' \in Range(task_list)
    BY <1>1 DEF ListSound
  <1>5. InShell /\ current_task' = NONE
    BY <1>1 DEF ControlSound
  <1>6. Product = "task"
    BY <1>5 DEF Product, Caller, Utility, Session, ProductOf
  <1>7. ControlSound'
    BY <1>1, <1>3, <1>5, <1>6, StageControl
  <1>8. RunningSound'
    BY <1>1 DEF RunningSound
  <1>9. QED
    BY <1>1, <1>2, <1>3, <1>4, <1>6, <1>7, <1>8, StageStep

-----------------------------------------------------------------------------
(* Changes of the memory on which a creation is built. *)

(* From m to m2 structures are written at N, fields of the structures in S are set, and
   links to T are made; no state becomes READY. *)
Changed(m, m2, S, T, N) ==
    /\ DOMAIN m2 = DOMAIN m \cup N
    /\ \A a \in DOMAIN m : DOMAIN m2[a] = DOMAIN m[a]
    /\ Kept(m, m2, S)
    /\ \A b : (Unowned(m, b) /\ b \notin T) => Unowned(m2, b)
    /\ \A a \in DOMAIN m : ("state" \in DOMAIN m[a] /\ m2[a].state = "READY") =>
                              m[a].state = "READY"

LEMMA SameChange ==
    ASSUME NEW m
    PROVE  Changed(m, m, {}, {}, {})
  BY DEF Changed, Kept

LEMMA AddChange ==
    ASSUME NEW m, NEW m2, NEW n, NEW r, Added(m, m2, n, r), n \notin DOMAIN m, NEW T,
           \A f \in DOMAIN r \cap Links : r[f] \in T
    PROVE  Changed(m, m2, {}, T, {n})
  <1>1. /\ Kept(m, m2, {})
        /\ \A b : (Unowned(m, b) /\ \A f \in DOMAIN r \cap Links : r[f] # b) => Unowned(m2, b)
    BY AddedKept
  <1>2. QED
    BY <1>1 DEF Changed, Added

LEMMA RewriteChange ==
    ASSUME NEW m, NEW m2, NEW o, NEW g, NEW v, Rewritten(m, m2, o, g, v), NEW T,
           g \in Links => v \in T, g = "state" => v # "READY"
    PROVE  Changed(m, m2, {o}, T, {})
  <1>1. /\ Kept(m, m2, {o})
        /\ \A b : (Unowned(m, b) /\ (g \notin Links \/ v # b)) => Unowned(m2, b)
    BY RewrittenKept
  <1>2. \A b : (Unowned(m, b) /\ b \notin T) => Unowned(m2, b)
    BY <1>1
  <1>3. DOMAIN m2 = DOMAIN m \cup {} /\ \A a \in DOMAIN m : DOMAIN m2[a] = DOMAIN m[a]
    BY DEF Rewritten
  <1>4. \A a \in DOMAIN m : ("state" \in DOMAIN m[a] /\ m2[a].state = "READY") =>
                              m[a].state = "READY"
    BY DEF Rewritten
  <1>5. QED
    BY <1>1, <1>2, <1>3, <1>4 DEF Changed

LEMMA ChangeTwice ==
    ASSUME NEW m, NEW m1, NEW m2, NEW S1, NEW T1, NEW N1, NEW S2, NEW T2, NEW N2,
           Changed(m, m1, S1, T1, N1), Changed(m1, m2, S2, T2, N2)
    PROVE  Changed(m, m2, S1 \cup S2, T1 \cup T2, N1 \cup N2)
  <1>1. Kept(m, m2, S1 \cup S2)
    BY KeptTwice DEF Changed
  <1>2. /\ DOMAIN m2 = DOMAIN m \cup (N1 \cup N2)
        /\ \A a \in DOMAIN m : DOMAIN m2[a] = DOMAIN m[a]
    BY DEF Changed
  <1>3. \A b : (Unowned(m, b) /\ b \notin T1 \cup T2) => Unowned(m2, b)
    BY DEF Changed
  <1>4. \A a \in DOMAIN m : ("state" \in DOMAIN m[a] /\ m2[a].state = "READY") =>
                              m[a].state = "READY"
    BY DEF Changed
  <1>5. QED
    BY <1>1, <1>2, <1>3, <1>4 DEF Changed

(* A new structure whose links lead nowhere. *)
LEMMA AddUnlinked ==
    ASSUME NEW m, NEW m2, NEW low \in Nat, WellOwned(m, {}, low), NONE \notin DOMAIN m,
           NEW n, n \notin DOMAIN m, n # NONE, Unowned(m, n), NEW r, DOMAIN r \in Shapes,
           Added(m, m2, n, r), \A f \in DOMAIN r \cap Links : r[f] = NONE
    PROVE  WellOwned(m2, {}, low) /\ Changed(m, m2, {}, {NONE}, {n})
  <1>1. WellOwned(m2, {}, low)
    <2>1. PICK g : g = "none"
      OBVIOUS
    <2>2. QED
      BY AddOwned
  <1>2. QED
    BY <1>1, AddChange

LEMMA FreshAddress ==
    ASSUME TasksInv, freeing = <<>>, NEW n \in Nat, n \notin InUse, n > task_list[2] + 1
    PROVE  /\ n \notin DOMAIN memory /\ n # NONE /\ Unowned(memory, n)
           /\ n \notin Range(task_list) /\ n \notin Range(made)
           /\ n \notin {parts.process, parts.space, parts.task}
  <1> USE DEF TasksInv, StructureInv
  <1>1. Doomed = {}
    BY OrderlyEmpty, SelvesFacts DEF Doomed
  <1>2. n \notin BootPlaces /\ n # NONE
    <2>1. task_list[2] \in Nat /\ task_list[2] = task_list[1] + 1 /\ task_list[1] \in Nat
      BY StructureFacts DEF BootBelow
    <2>2. QED
      BY <2>1 DEF BootPlaces, NONE
  <1>3. n \notin DOMAIN memory
    BY <1>2 DEF BootBelow
  <1>4. Unowned(memory, n)
    BY <1>1, <1>2, <1>3 DEF Ownership, WellOwned, Unowned
  <1>5. n \notin Range(task_list)
    BY <1>3, StructureFacts
  <1>6. n \notin Range(made)
    BY <1>2, <1>3 DEF MadeSound, ProductSound, Range
  <1>7. parts.process = NONE \/ parts.process \in DOMAIN memory
    BY DEF PartsSound, ProcessPart, Part, Has
  <1>8. parts.space = NONE \/ parts.space \in DOMAIN memory \/ parts.space \in InUse
    BY DEF PartsSound, SpacePart, Part, Has
  <1>9. parts.task = NONE \/ parts.task \in DOMAIN memory
    BY DEF PartsSound, TaskPart, Part, Has
  <1>10. QED
    BY <1>2, <1>3, <1>4, <1>5, <1>6, <1>7, <1>8, <1>9

(* What a step of a creation that frees nothing keeps. *)
LEMMA CreationStep ==
    ASSUME TasksInv, freeing = <<>>, UNCHANGED freeing, UNCHANGED task_list,
           UNCHANGED current_task, UNCHANGED session,
           NEW S, NEW T, NEW N, Changed(memory, memory', S, T, N),
           task_list[2] \notin S,
           \A a \in Range(made) : a # NONE =>
              /\ a \notin S /\ a \notin T
              /\ Product = "process" => memory[a].task \notin S,
           \A low : low = task_list[2] + 1 => Above(low)', InUse \cup N \subseteq InUse',
           WellOwned(memory', {}, task_list[2])
    PROVE  /\ Ownership' /\ BootBelow' /\ FreeingSound' /\ Doomed' = {} /\ Doomed = {}
           /\ (stage # "context" /\ S \cap Range(task_list) = {}) => ListSound'
           /\ \A a \in Range(made) : a = NONE \/ ProductSound(a)'
  <1> USE DEF TasksInv, StructureInv
  <1>1. Doomed' = {} /\ Doomed = {} /\ Range(freeing') = {}
    BY OrderlyEmpty, SelvesFacts DEF Doomed
  <1>2. Ownership'
    BY <1>1 DEF Ownership
  <1>3. Kept(memory, memory', S)
    BY DEF Changed
  <1>4. BootBelow'
    <2>1. DOMAIN memory' \subseteq InUse' \cup BootPlaces
      BY DEF Changed, BootBelow
    <2>2. Len(task_list') >= 2
      BY DEF BootBelow
    <2>3. PICK low : low = task_list[2] + 1
      OBVIOUS
    <2>4. QED
      BY <1>3, <2>1, <2>2, <2>3, BootKept
  <1>5. FreeingSound'
    BY <1>1, OrderlyEmpty DEF FreeingSound
  <1>6. ASSUME stage # "context", S \cap Range(task_list) = {} PROVE ListSound'
    <2>1. ASSUME NEW t \in Range(task_list)
          PROVE  /\ t \notin S /\ t \notin Doomed'
                 /\ memory'[t].state = "READY" => memory[t].state = "READY"
      <3>1. Has(memory, t, TaskShape)
        BY ListedAreTasks
      <3>2. QED
        BY <1>1, <1>6, <3>1 DEF Changed, Has, TaskShape
    <2>2. current_task' = NONE \/ current_task' \in Range(task_list)
      BY DEF ListSound
    <2>3. QED
      BY <1>3, <1>6, <2>1, <2>2, ListKept
  <1>7. ASSUME NEW a \in Range(made), a # NONE PROVE ProductSound(a)'
    <2>1. ProductSound(a)
      BY <1>7 DEF MadeSound, Range
    <2>2. Unowned(memory', a) /\ a \notin Doomed' /\ a \notin S
      BY <1>1, <1>7, <2>1 DEF Changed, ProductSound
    <2>3. QED
      BY <1>3, <1>7, <2>1, <2>2, ProductKept
  <1>8. QED
    BY <1>1, <1>2, <1>4, <1>5, <1>6, <1>7

(* An allocation that succeeds, in the creation under way. *)
LEMMA GetsFacts ==
    ASSUME NoWrap, TasksInv, NEW kind \in (AlignedKinds \cup PlainKinds) \ {"grown"},
           Allocate(kind), freeing = <<>>, stage = kind, Returned # NONE, NEW n, n = Returned
    PROVE  /\ n \in Nat /\ n \notin InUse /\ n > task_list[2] + 1 /\ n > task_list[2]
           /\ InUse' = InUse \cup {n}
           /\ \A low : low = task_list[2] + 1 => Above(low)'
           /\ n \notin DOMAIN memory /\ n # NONE /\ Unowned(memory, n)
           /\ n \notin Range(task_list) /\ n \notin Range(made)
           /\ n \notin {parts.process, parts.space, parts.task}
           /\ Creating /\ Product \in Products /\ WellOwned(memory, {}, task_list[2])
           /\ Doomed = {} /\ NONE \notin DOMAIN memory /\ task_list[2] \in Nat
           /\ task_list[2] \in Range(task_list)
  <1> USE DEF TasksInv, StructureInv
  <1>1. PICK low \in Nat : low = task_list[2] + 1
    BY StructureFacts
  <1>2. Above(low)' /\ (Denied \/ (Granted(RoundUp(SizeOf[kind]), {}) /\ Returned > low))
    <2>1. Above(low)
      BY <1>1 DEF BootBelow
    <2>2. QED
      BY <2>1, AllocateEffect
  <1>3. Granted(RoundUp(SizeOf[kind]), {}) /\ n > low
    BY <1>2 DEF Denied
  <1>4. n \in Nat /\ n \notin InUse /\ InUse' = InUse \cup {n}
    BY <1>3 DEF Granted
  <1>5. Doomed = {} /\ task_list[2] \in Nat /\ NONE \notin DOMAIN memory
        /\ task_list[2] \in Range(task_list)
    BY StructureFacts, OrderlyEmpty, SelvesFacts DEF Doomed
  <1>6. stage \notin {"dispose", "destroy", "running", "prepare"}
    BY DEF AlignedKinds, PlainKinds
  <1>7. Creating
    BY <1>6 DEF ControlSound
  <1>8. Product \in Products
    BY <1>7, CreatingStages
  <1>9. WellOwned(memory, {}, task_list[2])
    BY <1>5 DEF Ownership
  <1>10. /\ n \notin DOMAIN memory /\ n # NONE /\ Unowned(memory, n)
         /\ n \notin Range(task_list) /\ n \notin Range(made)
         /\ n \notin {parts.process, parts.space, parts.task}
    BY <1>1, <1>3, <1>4, FreshAddress
  <1>11. n > task_list[2]
    BY <1>1, <1>3, <1>4, <1>5
  <1>12. QED
    BY <1>1, <1>2, <1>3, <1>4, <1>5, <1>7, <1>8, <1>9, <1>10, <1>11

LEMMA MadeMore ==
    ASSUME made \in Seq(Nat), MadeSound, NEW n, made' = Append(made, n),
           \A a \in Range(made) : a = NONE \/ ProductSound(a)',
           n = NONE \/ (ProductSound(n)' /\ n \notin Range(made))
    PROVE  MadeSound'
  <1>1. PICK l \in Nat : l = Len(made)
    OBVIOUS
  <1>2. /\ DOMAIN made = 1 .. l /\ DOMAIN made' = 1 .. l + 1 /\ made'[l + 1] = n
        /\ \A k \in 1 .. l : made'[k] = made[k]
    BY <1>1
  <1>3. ASSUME NEW k \in DOMAIN made' PROVE \E a : a = made'[k] /\ (a = NONE \/ ProductSound(a)')
    <2>1. CASE k = l + 1
      BY <1>2, <2>1
    <2>2. CASE k \in 1 .. l
      BY <1>2, <2>2 DEF Range
    <2>3. QED
      BY <1>2, <2>1, <2>2
  <1>4. ASSUME NEW j \in DOMAIN made', NEW k \in DOMAIN made', made'[j] = made'[k], made'[j] # NONE
        PROVE  j = k
    <2>1. CASE j \in 1 .. l /\ k \in 1 .. l
      BY <1>2, <1>4, <2>1 DEF MadeSound
    <2>2. CASE j = l + 1 /\ k \in 1 .. l
      BY <1>2, <1>4, <2>2 DEF Range
    <2>3. CASE j \in 1 .. l /\ k = l + 1
      BY <1>2, <1>4, <2>3 DEF Range
    <2>4. QED
      BY <1>2, <2>1, <2>2, <2>3
  <1>5. ASSUME NEW k \in DOMAIN made' PROVE made'[k] = NONE \/ ProductSound(made[k])'
    BY <1>3
  <1>6. QED
    BY <1>4, <1>5 DEF MadeSound

LEMMA MadeSame ==
    ASSUME MadeSound, UNCHANGED made, \A a \in Range(made) : a = NONE \/ ProductSound(a)'
    PROVE  MadeSound'
  <1>1. \A k \in DOMAIN made' : \E a : a = made'[k] /\ (a = NONE \/ ProductSound(a)')
    BY DEF Range
  <1>2. \A k \in DOMAIN made' : made'[k] = NONE \/ ProductSound(made[k])'
    BY <1>1
  <1>3. QED
    BY <1>2 DEF MadeSound

LEMMA ProcessMadeStructure ==
    ASSUME NoWrap, TasksInv, ProcessMade
    PROVE  StructureInv'
  <1> USE DEF TasksInv, StructureInv
  <1>1. PICK n : n = Returned
    OBVIOUS
  <1> DEFINE r == [image |-> Image(n, SizeOf.process, page_table'), state |-> "READY",
                   space |-> NONE, task |-> NONE]
  <1>2. /\ freeing = <<>> /\ stage = "process" /\ Allocate("process") /\ Returned # NONE
        /\ UNCHANGED current_task /\ UNCHANGED session
        /\ UNCHANGED task_list /\ UNCHANGED freeing
        /\ memory' = Put(memory, n, r) /\ Continue("space", [parts EXCEPT !.process = n])
    BY <1>1 DEF ProcessMade, Gets, Asks
  <1>3. /\ n \in Nat /\ n > task_list[2] + 1 /\ InUse' = InUse \cup {n}
        /\ \A low : low = task_list[2] + 1 => Above(low)'
        /\ n \notin DOMAIN memory /\ n # NONE /\ Unowned(memory, n)
        /\ n \notin Range(task_list) /\ n \notin Range(made)
        /\ Creating /\ Product \in Products /\ WellOwned(memory, {}, task_list[2])
        /\ Doomed = {} /\ NONE \notin DOMAIN memory /\ task_list[2] \in Nat
    BY <1>1, <1>2, GetsFacts DEF PlainKinds, AlignedKinds
  <1>4. /\ DOMAIN r = ProcessShape /\ r.space = NONE /\ r.task = NONE
        /\ DOMAIN r \in Shapes /\ \A f \in DOMAIN r \cap Links : r[f] = NONE
    <2>1. DOMAIN r = ProcessShape /\ r.space = NONE /\ r.task = NONE
      BY DEF ProcessShape
    <2> HIDE DEF r
    <2>2. QED
      BY <2>1, ShapeLinks DEF Shapes
  <1> HIDE DEF r
  <1>5. Added(memory, memory', n, r)
    BY <1>2, PutAdds
  <1>6. /\ Changed(memory, memory', {}, {NONE}, {n})
        /\ WellOwned(memory', {}, task_list[2])
    BY <1>3, <1>4, <1>5, AddUnlinked
  <1>7. Product = "process" /\ Product' = "process"
    BY <1>2, <1>3, SameCaller DEF Creating, StagesOf, Products
  <1>8. /\ Ownership' /\ BootBelow' /\ FreeingSound' /\ Doomed' = {} /\ ListSound'
        /\ \A a \in Range(made) : a = NONE \/ ProductSound(a)'
    <2>1. stage # "context" /\ {} \cap Range(task_list) = {}
      BY <1>2
    <2>2. InUse \cup {n} \subseteq InUse'
      BY <1>3
    <2>3. QED
      BY <1>2, <1>3, <1>6, <2>1, <2>2, CreationStep
  <1>9. /\ ControlSound' /\ Creating' /\ stage' = "space"
        /\ parts' = [parts EXCEPT !.process = n] /\ UNCHANGED made
    <2>1. "space" \in StagesOf(Product) /\ freeing' = <<>>
      BY <1>2, <1>7 DEF StagesOf
    <2>2. QED
      BY <1>2, <1>3, <2>1, ContinueControl
  <1>10. PartsSound'
    <2>1. parts \in [process : Nat, space : Nat, task : Nat] /\ parts.space = NONE
          /\ parts.task = NONE
      BY <1>2, <1>7 DEF PartsSound, SpacePart, TaskPart
    <2>2. /\ parts' \in [process : Nat, space : Nat, task : Nat]
          /\ parts'.process = n /\ parts'.space = NONE /\ parts'.task = NONE
      BY <1>3, <1>9, <2>1
    <2>3. Unowned(memory', n)
      BY <1>3, <1>6 DEF Changed
    <2>4. Part(parts.process, ProcessShape)' /\ memory'[n].task = NONE /\ memory'[n].space = NONE
      BY <1>3, <1>4, <1>5, <1>8, <1>9, <2>2, <2>3 DEF Part, Has, Added
    <2>5. ProcessPart'
      BY <1>7, <1>9, <2>2, <2>4 DEF ProcessPart
    <2>6. SpacePart' /\ TaskPart'
      BY <1>9, <2>2 DEF SpacePart, TaskPart
    <2>7. QED
      BY <1>9, <2>2, <2>5, <2>6 DEF PartsSound
  <1>11. MadeSound'
    BY <1>8, <1>9, MadeSame
  <1>12. RunningSound'
    BY <1>9 DEF RunningSound
  <1>13. QED
    BY <1>8, <1>9, <1>10, <1>11, <1>12

(* A part of the creation under way is still one after a step of it. *)
LEMMA PartKept ==
    ASSUME NEW p, NEW shape, Part(p, shape), NEW S, NEW T, NEW N,
           Changed(memory, memory', S, T, N), p \notin T, p \notin Doomed', UNCHANGED made
    PROVE  /\ Part(p, shape)'
           /\ p \notin S => \A f \in shape \ {"state"} : memory'[p][f] = memory[p][f]
  BY DEF Part, Has, Changed, Kept

(* What nothing owns and is no task is a block of the heap. *)
LEMMA UnownedAbove ==
    ASSUME TasksInv, NEW s, NEW shape, Has(memory, s, shape), shape # TaskShape,
           Unowned(memory, s)
    PROVE  s \in InUse /\ s \in Nat /\ s > task_list[2] + 1 /\ s > task_list[2]
  <1> USE DEF TasksInv, StructureInv
  <1>1. s # task_list[1] /\ s # task_list[2]
    BY StructureFacts, ListedAreTasks DEF Has
  <1>2. s # task_list[2] + 1
    <2>1. Has(memory, task_list[2], TaskShape)
      BY StructureFacts, ListedAreTasks
    <2>2. "context" \in LinksOf(memory, task_list[2])
      BY <2>1 DEF Has, LinksOf, Links, TaskShape
    <2>3. QED
      BY <2>1, <2>2 DEF BootBelow, Unowned, Has
  <1>3. s \in InUse
    BY <1>1, <1>2 DEF Has, BootBelow, BootPlaces
  <1>4. s \in Nat /\ s > task_list[2] + 1 /\ task_list[2] \in Nat
    BY <1>3, StructureFacts
  <1>5. QED
    BY <1>3, <1>4

LEMMA SpaceMadeStructure ==
    ASSUME NoWrap, TasksInv, SpaceMade
    PROVE  StructureInv'
  <1> USE DEF TasksInv, StructureInv
  <1>1. PICK n : n = Returned
    OBVIOUS
  <1>2. /\ freeing = <<>> /\ stage = "space" /\ Allocate("space") /\ Returned # NONE
        /\ UNCHANGED current_task /\ UNCHANGED session
        /\ UNCHANGED task_list /\ UNCHANGED freeing /\ UNCHANGED memory
        /\ Continue("directory", [parts EXCEPT !.space = n])
    BY <1>1 DEF SpaceMade, Gets, Asks
  <1>3. /\ n \in Nat /\ n > task_list[2] + 1 /\ InUse' = InUse \cup {n}
        /\ \A low : low = task_list[2] + 1 => Above(low)'
        /\ n \notin DOMAIN memory /\ n # NONE
        /\ Creating /\ Product \in Products /\ WellOwned(memory, {}, task_list[2])
    BY <1>1, <1>2, GetsFacts DEF PlainKinds, AlignedKinds
  <1>4. Changed(memory, memory', {}, {}, {}) /\ WellOwned(memory', {}, task_list[2])
    BY <1>2, <1>3, SameChange
  <1>5. Product \in {"process", "space"} /\ Product' = Product
    BY <1>2, <1>3, SameCaller DEF Creating, StagesOf, Products
  <1>6. /\ Ownership' /\ BootBelow' /\ FreeingSound' /\ Doomed' = {} /\ ListSound'
        /\ \A a \in Range(made) : a = NONE \/ ProductSound(a)'
    <2>1. stage # "context" /\ {} \cap Range(task_list) = {} /\ InUse \cup {} \subseteq InUse'
      BY <1>2, <1>3
    <2>2. QED
      BY <1>2, <1>3, <1>4, <2>1, CreationStep
  <1>7. /\ ControlSound' /\ Creating' /\ stage' = "directory"
        /\ parts' = [parts EXCEPT !.space = n] /\ UNCHANGED made
    <2>1. "directory" \in StagesOf(Product) /\ freeing' = <<>>
      BY <1>2, <1>5 DEF StagesOf
    <2>2. QED
      BY <1>2, <1>3, <2>1, ContinueControl
  <1>8. PartsSound'
    <2>1. parts \in [process : Nat, space : Nat, task : Nat] /\ parts.task = NONE
      BY <1>2 DEF PartsSound, TaskPart
    <2>2. /\ parts' \in [process : Nat, space : Nat, task : Nat]
          /\ parts'.process = parts.process /\ parts'.space = n /\ parts'.task = NONE
      BY <1>3, <1>7, <2>1
    <2>3. ProcessPart'
      <3>1. PICK p : p = parts.process
        OBVIOUS
      <3>2. CASE Product = "process"
        <4>1. Part(p, ProcessShape) /\ memory[p].task = NONE /\ memory[p].space = NONE
          BY <1>2, <1>3, <3>1, <3>2 DEF PartsSound, ProcessPart
        <4>2. Part(p, ProcessShape)'
          BY <1>4, <1>6, <1>7, <4>1, PartKept
        <4>3. p = parts'.process
          BY <2>2, <3>1
        <4>4. QED
          BY <1>2, <1>5, <1>7, <3>2, <4>1, <4>2, <4>3 DEF ProcessPart, Part
      <3>3. CASE Product # "process"
        BY <1>5, <2>2, <3>3 DEF PartsSound, ProcessPart
      <3>4. QED
        BY <3>2, <3>3
    <2>4. SpacePart' /\ TaskPart'
      BY <1>2, <1>3, <1>7, <2>2 DEF SpacePart, TaskPart
    <2>5. QED
      BY <1>7, <2>2, <2>3, <2>4 DEF PartsSound
  <1>9. MadeSound' /\ RunningSound'
    BY <1>6, <1>7, MadeSame DEF RunningSound
  <1>10. QED
    BY <1>6, <1>7, <1>8, <1>9

LEMMA ProcessPartKept ==
    ASSUME ProcessPart, Creating, Creating', UNCHANGED session, UNCHANGED made,
           stage # "process", stage' # "process", parts'.process = parts.process,
           \/ /\ stage \in {"space", "directory", "tables"}
              /\ stage' \in {"space", "directory", "tables"}
           \/ /\ stage \notin {"space", "directory", "tables"}
              /\ stage' \notin {"space", "directory", "tables"}
              /\ parts'.space = parts.space,
           NEW S, NEW T, NEW N, Changed(memory, memory', S, T, N),
           Product = "process" =>
              parts.process \notin S /\ parts.process \notin T /\ parts.process \notin Doomed'
    PROVE  ProcessPart'
  <1>1. PICK p : p = parts.process
    OBVIOUS
  <1>2. Product' = Product
    BY SameCaller
  <1>3. CASE Product = "process"
    <2>1. /\ Part(p, ProcessShape) /\ memory[p].task = NONE
          /\ memory[p].space = IF stage \in {"space", "directory", "tables"} THEN NONE ELSE parts.space
      BY <1>1, <1>3 DEF ProcessPart
    <2>2. /\ Part(p, ProcessShape)'
          /\ \A f \in ProcessShape \ {"state"} : memory'[p][f] = memory[p][f]
      BY <1>1, <1>3, <2>1, PartKept
    <2>3. memory'[p].task = memory[p].task /\ memory'[p].space = memory[p].space
      BY <2>2 DEF ProcessShape
    <2>4. p = parts'.process
      BY <1>1
    <2>5. Part(parts.process, ProcessShape)'
      BY <2>2, <2>4 DEF Part
    <2>6. QED
      BY <1>1, <1>2, <1>3, <2>1, <2>3, <2>5 DEF ProcessPart
  <1>4. CASE Product # "process"
    BY <1>2, <1>4 DEF ProcessPart
  <1>5. QED
    BY <1>3, <1>4

(* The structures of the creation under way are blocks, and differ. *)
LEMMA PartFacts ==
    ASSUME TasksInv, Creating
    PROVE  /\ parts \in [process : Nat, space : Nat, task : Nat]
           /\ Product = "process" /\ stage # "process" =>
                 /\ Part(parts.process, ProcessShape) /\ parts.process # NONE
                 /\ parts.process \notin Range(task_list)
           /\ Product # "process" => parts.process = NONE
           /\ \A a \in Range(made) : (a # NONE /\ Product = "process") =>
                 memory[a].task \in Range(task_list)
  <1> USE DEF TasksInv, StructureInv
  <1>1. parts \in [process : Nat, space : Nat, task : Nat]
    BY DEF PartsSound
  <1>2. ASSUME Product = "process", stage # "process"
        PROVE  /\ Part(parts.process, ProcessShape) /\ parts.process # NONE
               /\ parts.process \notin Range(task_list)
    <2>1. Part(parts.process, ProcessShape)
      BY <1>2 DEF PartsSound, ProcessPart
    <2>2. parts.process # NONE
      BY <2>1, StructureFacts DEF Part, Has
    <2>3. parts.process \notin Range(task_list)
      BY <2>1, ListedAreTasks, ShapesDiffer DEF Part, Has
    <2>4. QED
      BY <2>1, <2>2, <2>3
  <1>3. Product # "process" => parts.process = NONE
    BY DEF PartsSound, ProcessPart
  <1>4. \A a \in Range(made) : (a # NONE /\ Product = "process") =>
           memory[a].task \in Range(task_list)
    BY DEF MadeSound, ProductSound, Range
  <1>5. QED
    BY <1>1, <1>2, <1>3, <1>4

LEMMA DirectoryMadeStructure ==
    ASSUME NoWrap, TasksInv, DirectoryMade
    PROVE  StructureInv'
  <1> USE DEF TasksInv, StructureInv
  <1>1. PICK n, s : n = Returned /\ s = parts.space
    OBVIOUS
  <1> DEFINE r1 == [image |-> Image(n, SizeOf.directory, page_table')]
             r2 == [image |-> Image(s, SizeOf.space, page_table'), directory |-> n,
                    tables |-> NONE]
             m1 == Put(memory, n, r1)
  <1>2. /\ freeing = <<>> /\ stage = "directory" /\ Allocate("directory") /\ Returned # NONE
        /\ UNCHANGED current_task /\ UNCHANGED session
        /\ UNCHANGED task_list /\ UNCHANGED freeing
        /\ memory' = Put(m1, s, r2) /\ Continue("tables", parts)
    BY <1>1 DEF DirectoryMade, Gets, Asks
  <1>3. /\ n \in Nat /\ n > task_list[2] /\ InUse' = InUse \cup {n} /\ n \notin InUse
        /\ \A low : low = task_list[2] + 1 => Above(low)'
        /\ n \notin DOMAIN memory /\ n # NONE /\ Unowned(memory, n) /\ n # parts.process
        /\ n \notin Range(made)
        /\ Creating /\ Product \in Products /\ WellOwned(memory, {}, task_list[2])
        /\ NONE \notin DOMAIN memory /\ task_list[2] \in Nat
    BY <1>1, <1>2, GetsFacts DEF PlainKinds, AlignedKinds
  <1>4. /\ DOMAIN r1 = PlainShape /\ DOMAIN r1 \in Shapes /\ DOMAIN r1 \cap Links = {}
        /\ DOMAIN r2 = SpaceShape /\ DOMAIN r2 \in Shapes
        /\ DOMAIN r2 \cap Links = {"directory", "tables"}
        /\ r2.directory = n /\ r2.tables = NONE
    <2>1. DOMAIN r1 = PlainShape /\ DOMAIN r2 = SpaceShape /\ r2.directory = n /\ r2.tables = NONE
      BY DEF PlainShape, SpaceShape
    <2> HIDE DEF r1, r2
    <2>2. QED
      BY <2>1, ShapeLinks DEF Shapes
  <1>5. s \in InUse /\ s \notin DOMAIN memory /\ s # n /\ s \in Nat /\ s # NONE
    <2>1. s \in InUse /\ s \notin DOMAIN memory
      BY <1>1, <1>2 DEF PartsSound, SpacePart
    <2>2. s \in Nat /\ s # 0
      BY <2>1, StructureFacts
    <2>3. QED
      BY <1>3, <2>1, <2>2 DEF NONE
  <1> HIDE DEF r1, r2, m1
  <1>6. Added(memory, m1, n, r1)
    BY PutAdds DEF m1
  <1>7. Added(m1, memory', s, r2)
    BY <1>2, PutAdds
  <1>8. WellOwned(m1, {}, task_list[2]) /\ Changed(memory, m1, {}, {NONE}, {n})
    BY <1>3, <1>4, <1>6, AddUnlinked
  <1>9. /\ s \notin DOMAIN m1 /\ NONE \notin DOMAIN m1 /\ n \in DOMAIN m1
        /\ DOMAIN m1[n] = PlainShape /\ Unowned(m1, n) /\ Unowned(memory, s) /\ Unowned(m1, s)
    <2>1. DOMAIN m1 = DOMAIN memory \cup {n} /\ m1[n] = r1
      BY <1>6 DEF Added
    <2>2. Unowned(memory, s)
      BY <1>3, <1>5 DEF WellOwned, Unowned
    <2>3. Unowned(m1, n) /\ Unowned(m1, s)
      BY <1>3, <1>5, <1>8, <2>2 DEF Changed
    <2>4. QED
      BY <1>3, <1>4, <1>5, <2>1, <2>2, <2>3
  <1>10. WellOwned(memory', {}, task_list[2])
    <2>1. PICK g : g = "directory"
      OBVIOUS
    <2>2. \A f \in DOMAIN r2 \cap Links :
             \/ r2[f] = NONE
             \/ /\ f = g /\ r2[f] \in DOMAIN m1 /\ r2[f] \in Nat /\ r2[f] > task_list[2]
                /\ DOMAIN m1[r2[f]] = Target(f) /\ Unowned(m1, r2[f])
      BY <1>3, <1>4, <1>9, <2>1 DEF Target
    <2>3. QED
      BY <1>3, <1>4, <1>5, <1>7, <1>8, <1>9, <2>2, AddOwned
  <1>11. Changed(m1, memory', {}, {n, NONE}, {s})
    <2>1. \A f \in DOMAIN r2 \cap Links : r2[f] \in {n, NONE}
      BY <1>4
    <2>2. QED
      BY <1>7, <1>9, <2>1, AddChange
  <1>12. PICK S, T, N : /\ Changed(memory, memory', S, T, N)
                        /\ S = {} /\ T = {n, NONE} /\ N = {n, s}
    <2>1. Changed(memory, memory', {} \cup {}, {NONE} \cup {n, NONE}, {n} \cup {s})
      BY <1>8, <1>11, ChangeTwice
    <2>2. {NONE} \cup {n, NONE} = {n, NONE} /\ {n} \cup {s} = {n, s} /\ {} \cup {} = {}
      OBVIOUS
    <2>3. QED
      BY <2>1, <2>2
  <1>13. /\ Ownership' /\ BootBelow' /\ FreeingSound' /\ Doomed' = {} /\ ListSound'
         /\ \A a \in Range(made) : a = NONE \/ ProductSound(a)'
    <2>1. stage # "context" /\ S \cap Range(task_list) = {} /\ InUse \cup N \subseteq InUse'
          /\ task_list[2] \notin S /\ \A a \in Range(made) : a # NONE =>
              /\ a \notin S /\ a \notin T
              /\ Product = "process" => memory[a].task \notin S
      BY <1>2, <1>3, <1>5, <1>12
    <2>2. QED
      BY <1>2, <1>3, <1>10, <1>12, <2>1, CreationStep
  <1>14. /\ ControlSound' /\ Creating' /\ stage' = "tables" /\ parts' = parts /\ UNCHANGED made
    <2>1. "tables" \in StagesOf(Product) /\ freeing' = <<>>
      BY <1>2, <1>3 DEF StagesOf, Creating, Products
    <2>2. QED
      BY <1>2, <1>3, <2>1, ContinueControl
  <1>15. PartsSound'
    <2>1. ProcessPart'
      <3>1. Product = "process" =>
               parts.process \notin S /\ parts.process \notin T /\ parts.process \notin Doomed'
        BY <1>2, <1>3, <1>12, <1>13, PartFacts
      <3>2. ProcessPart
        BY DEF PartsSound
      <3>3. QED
        BY <1>2, <1>3, <1>12, <1>14, <3>1, <3>2, ProcessPartKept
    <2>2. SpacePart'
      <3>1. memory'[s] = r2 /\ s \in DOMAIN memory'
        BY <1>7 DEF Added
      <3>2. Unowned(memory', s)
        BY <1>5, <1>9, <1>12 DEF Changed
      <3>3. s \notin Range(made)
        BY <1>5 DEF MadeSound, ProductSound, Range
      <3>4. Part(parts.space, SpaceShape)'
        BY <1>1, <1>4, <1>13, <1>14, <3>1, <3>2, <3>3 DEF Part, Has
      <3>5. QED
        BY <1>1, <1>3, <1>4, <1>14, <3>1, <3>4 DEF SpacePart
    <2>3. TaskPart'
      BY <1>2, <1>14 DEF PartsSound, TaskPart
    <2>4. QED
      BY <1>14, <2>1, <2>2, <2>3 DEF PartsSound
  <1>16. MadeSound' /\ RunningSound'
    BY <1>13, <1>14, MadeSame DEF RunningSound
  <1>17. QED
    BY <1>13, <1>14, <1>15, <1>16

(* Setting a field of one structure and writing another can be done in either order. *)
LEMMA WriteOrder ==
    ASSUME NEW m, NEW m1, NEW m2, NEW k, NEW o, NEW g, NEW v, NEW n, NEW r,
           Rewritten(m, m1, o, g, v), Added(m1, m2, n, r), Added(m, k, n, r),
           n \notin DOMAIN m, o # n
    PROVE  Rewritten(k, m2, o, g, v)
  <1>1. DOMAIN m2 = DOMAIN k /\ DOMAIN k = DOMAIN m \cup {n} /\ m2[n] = r /\ k[n] = r
    BY DEF Rewritten, Added
  <1>2. \A a \in DOMAIN m : k[a] = m[a] /\ m2[a] = m1[a]
    BY DEF Rewritten, Added
  <1>3. ASSUME NEW a \in DOMAIN k
        PROVE  /\ DOMAIN m2[a] = DOMAIN k[a]
               /\ \A f \in DOMAIN k[a] : m2[a][f] = IF a = o /\ f = g THEN v ELSE k[a][f]
    <2>1. CASE a = n
      BY <1>1, <2>1
    <2>2. CASE a \in DOMAIN m
      BY <1>2, <2>2 DEF Rewritten
    <2>3. QED
      BY <1>1, <2>1, <2>2
  <1>4. QED
    BY <1>1, <1>3 DEF Rewritten

FieldSet(m, m2, o, g, v) ==
    \A a \in DOMAIN m : \A f \in DOMAIN m[a] :
       m2[a][f] = IF a = o /\ f = g THEN v ELSE m[a][f]

(* A plain structure written at n, which is linked from the field g of o. *)
LEMMA AddLinked ==
    ASSUME NEW m, NEW m2, NEW low \in Nat, WellOwned(m, {}, low), NONE \notin DOMAIN m,
           NEW n \in Nat, n \notin DOMAIN m, n # NONE, n > low, Unowned(m, n),
           NEW r, DOMAIN r = PlainShape, NEW o, o # n, NEW g, Target(g) = PlainShape,
           g # "state", NEW m1, Rewritten(m, m1, o, g, n), Added(m1, m2, n, r)
    PROVE  /\ WellOwned(m2, {}, low) /\ Changed(m, m2, {o}, {n, NONE}, {n})
           /\ FieldSet(m, m2, o, g, n)
  <1> DEFINE k == Put(m, n, r)
  <1>1. Added(m, k, n, r)
    BY PutAdds
  <1> HIDE DEF k
  <1>2. DOMAIN r \in Shapes /\ \A f \in DOMAIN r \cap Links : r[f] = NONE
    BY ShapeLinks DEF Shapes
  <1>3. WellOwned(k, {}, low) /\ Changed(m, k, {}, {NONE}, {n})
    BY <1>1, <1>2, AddUnlinked
  <1>4. Rewritten(k, m2, o, g, n)
    BY <1>1, WriteOrder
  <1>5. n \in DOMAIN k /\ DOMAIN k[n] = PlainShape /\ Unowned(k, n)
    BY <1>1, <1>3 DEF Added, Changed
  <1>6. WellOwned(m2, {}, low)
    BY <1>3, <1>4, <1>5, RewriteOwned
  <1>7. Changed(k, m2, {o}, {n}, {})
    BY <1>4, RewriteChange
  <1>8. Changed(m, m2, {o}, {n, NONE}, {n})
    <2>1. Changed(m, m2, {} \cup {o}, {NONE} \cup {n}, {n} \cup {})
      BY <1>3, <1>7, ChangeTwice
    <2>2. {} \cup {o} = {o} /\ {NONE} \cup {n} = {n, NONE} /\ {n} \cup {} = {n}
      OBVIOUS
    <2>3. QED
      BY <2>1, <2>2
  <1>9. QED
    BY <1>6, <1>8 DEF Rewritten, Added, FieldSet

LEMMA TablesMadeStructure ==
    ASSUME NoWrap, TasksInv, TablesMade
    PROVE  StructureInv'
  <1> USE DEF TasksInv, StructureInv
  <1>1. PICK n, s, p : n = Returned /\ s = parts.space /\ p = parts.process
    OBVIOUS
  <1> DEFINE r == [image |-> Image(n, SizeOf.tables, page_table')]
             m1 == [memory EXCEPT ![s].tables = n]
             m2 == Put(m1, n, r)
  <1>2. /\ freeing = <<>> /\ stage = "tables" /\ Allocate("tables") /\ Returned # NONE
        /\ UNCHANGED current_task /\ UNCHANGED session
        /\ UNCHANGED task_list /\ UNCHANGED freeing
        /\ p = NONE => memory' = m2 /\ Finish(s)
        /\ p # NONE => memory' = [m2 EXCEPT ![p].space = s] /\ Continue("task", parts)
    BY <1>1 DEF TablesMade, Gets, Asks, WithTables
  <1>3. /\ n \in Nat /\ n > task_list[2] /\ InUse' = InUse \cup {n} /\ n \notin InUse
        /\ \A low : low = task_list[2] + 1 => Above(low)'
        /\ n \notin DOMAIN memory /\ n # NONE /\ Unowned(memory, n) /\ n \notin Range(made)
        /\ Creating /\ Product \in Products /\ WellOwned(memory, {}, task_list[2])
        /\ NONE \notin DOMAIN memory /\ task_list[2] \in Nat
        /\ task_list[2] \in Range(task_list)
    BY <1>1, <1>2, GetsFacts DEF PlainKinds, AlignedKinds
  <1>4. DOMAIN r = PlainShape
    BY DEF PlainShape
  <1>5. /\ Part(s, SpaceShape) /\ memory[s].directory # NONE /\ memory[s].tables = NONE
    BY <1>1, <1>2 DEF PartsSound, SpacePart
  <1>6. /\ s \in DOMAIN memory /\ DOMAIN memory[s] = SpaceShape /\ Unowned(memory, s) /\ s # n
        /\ s \in Nat /\ s > task_list[2] + 1 /\ s > task_list[2] /\ s \notin Range(made)
        /\ s \notin Range(task_list) /\ s # NONE
    <2>1. s \in DOMAIN memory /\ DOMAIN memory[s] = SpaceShape /\ Unowned(memory, s)
          /\ s \notin Range(made)
      BY <1>5 DEF Part, Has
    <2>2. s \in Nat /\ s > task_list[2] + 1 /\ s > task_list[2]
      BY <1>5, ShapesDiffer, UnownedAbove DEF Part
    <2>3. s \notin Range(task_list)
      BY <2>1, ListedAreTasks, ShapesDiffer DEF Has
    <2>4. QED
      BY <1>3, <2>1, <2>2, <2>3
  <1>7. Product \in {"process", "space"} /\ Product' = Product
    BY <1>2, <1>3, SameCaller DEF Creating, StagesOf, Products
  <1> HIDE DEF r, m1, m2
  <1>8. Rewritten(memory, m1, s, "tables", n) /\ Added(m1, m2, n, r)
    BY ExceptRewrites, PutAdds DEF m1, m2
  <1>9. /\ WellOwned(m2, {}, task_list[2]) /\ Changed(memory, m2, {s}, {n, NONE}, {n})
        /\ FieldSet(memory, m2, s, "tables", n)
    <2>1. Target("tables") = PlainShape
      BY DEF Target
    <2>2. QED
      BY <1>3, <1>4, <1>6, <1>8, <2>1, AddLinked
  <1>10. CASE p = NONE
    <2>1. memory' = m2 /\ Finish(s)
      BY <1>2, <1>10
    <2>2. Product = "space"
      BY <1>1, <1>2, <1>3, <1>7, <1>10, PartFacts
    <2>3. /\ Ownership' /\ BootBelow' /\ FreeingSound' /\ Doomed' = {} /\ ListSound'
          /\ \A a \in Range(made) : a = NONE \/ ProductSound(a)'
      <3>1. PICK S, T, N : /\ Changed(memory, memory', S, T, N)
                           /\ S = {s} /\ T = {n, NONE} /\ N = {n}
        BY <1>9, <2>1
      <3>2. stage # "context" /\ S \cap Range(task_list) = {} /\ InUse \cup N \subseteq InUse'
            /\ task_list[2] \notin S /\ \A a \in Range(made) : a # NONE =>
                /\ a \notin S /\ a \notin T
                /\ Product = "process" => memory[a].task \notin S
        BY <1>2, <1>3, <1>6, <2>2, <3>1
      <3>3. WellOwned(memory', {}, task_list[2])
        BY <1>9, <2>1
      <3>4. QED
        BY <1>2, <1>3, <3>1, <3>2, <3>3, CreationStep
    <2>4. /\ ControlSound' /\ parts' = NoParts /\ made' = Append(made, s)
          /\ stage' \in {Product', "dispose"}
      BY <1>2, <1>3, <1>6, <2>1, FinishControl
    <2>5. PartsSound'
      BY <2>4, PartsEmpty
    <2>6. ProductSound(s)'
      <3>1. Unowned(memory', s) /\ s \in DOMAIN memory' /\ DOMAIN memory'[s] = SpaceShape
        BY <1>6, <1>9, <2>1 DEF Changed
      <3>2. task_list'[2] = task_list[2]
        BY <1>2
      <3>3. QED
        BY <1>6, <1>7, <2>2, <2>3, <3>1, <3>2 DEF ProductSound
    <2>7. MadeSound'
      <3>1. made \in Seq(Nat)
        BY DEF ControlSound
      <3>2. QED
        BY <1>6, <2>3, <2>4, <2>6, <3>1, MadeMore
    <2>8. RunningSound'
      BY <1>7, <2>4 DEF RunningSound
    <2>9. QED
      BY <2>3, <2>4, <2>5, <2>7, <2>8
  <1>11. CASE p # NONE
    <2>1. memory' = [m2 EXCEPT ![p].space = s] /\ Continue("task", parts)
      BY <1>2, <1>11
    <2>2. Product = "process" /\ Part(p, ProcessShape) /\ p \notin Range(task_list)
      BY <1>1, <1>2, <1>3, <1>11, PartFacts
    <2>3. p \in DOMAIN memory /\ DOMAIN memory[p] = ProcessShape /\ p \notin Range(made)
          /\ p # n /\ p # s /\ memory[p].task = NONE /\ Unowned(memory, p)
      <3>1. memory[p].task = NONE
        BY <1>1, <1>2, <1>3, <2>2 DEF PartsSound, ProcessPart
      <3>2. QED
        BY <1>3, <1>6, <2>2, <3>1, ShapesDiffer DEF Part, Has
    <2>4. Rewritten(m2, memory', p, "space", s)
      BY <2>1, ExceptRewrites
    <2>5. s \in DOMAIN m2 /\ DOMAIN m2[s] = SpaceShape /\ Unowned(m2, s)
      BY <1>6, <1>9 DEF Changed
    <2>6. WellOwned(memory', {}, task_list[2])
      <3>1. DOMAIN m2[s] = Target("space")
        BY <2>5 DEF Target
      <3>2. QED
        BY <1>3, <1>6, <1>9, <2>4, <2>5, <3>1, RewriteOwned
    <2>7. PICK S, T, N : /\ Changed(memory, memory', S, T, N)
                         /\ S = {s, p} /\ T = {n, NONE, s} /\ N = {n}
      <3>1. Changed(m2, memory', {p}, {s}, {})
        BY <2>4, RewriteChange
      <3>2. Changed(memory, memory', {s} \cup {p}, {n, NONE} \cup {s}, {n} \cup {})
        BY <1>9, <3>1, ChangeTwice
      <3>3. {s} \cup {p} = {s, p} /\ {n, NONE} \cup {s} = {n, NONE, s} /\ {n} \cup {} = {n}
        OBVIOUS
      <3>4. QED
        BY <3>2, <3>3
    <2>8. /\ Ownership' /\ BootBelow' /\ FreeingSound' /\ Doomed' = {} /\ ListSound'
          /\ \A a \in Range(made) : a = NONE \/ ProductSound(a)'
      <3>1. \A a \in Range(made) : a # NONE => memory[a].task \in Range(task_list)
        BY <1>3, <2>2, PartFacts
      <3>2. stage # "context" /\ S \cap Range(task_list) = {} /\ InUse \cup N \subseteq InUse'
            /\ task_list[2] \notin S /\ \A a \in Range(made) : a # NONE =>
                /\ a \notin S /\ a \notin T
                /\ Product = "process" => memory[a].task \notin S
        BY <1>2, <1>3, <1>6, <2>2, <2>3, <2>7, <3>1
      <3>3. QED
        BY <1>2, <1>3, <2>6, <2>7, <3>2, CreationStep
    <2>9. /\ ControlSound' /\ Creating' /\ stage' = "task" /\ parts' = parts /\ UNCHANGED made
      <3>1. "task" \in StagesOf(Product) /\ freeing' = <<>>
        BY <1>2, <2>2 DEF StagesOf
      <3>2. QED
        BY <1>2, <1>3, <2>1, <3>1, ContinueControl
    <2>10. PartsSound'
      <3>1. /\ memory'[p].task = NONE /\ memory'[p].space = s
            /\ memory'[s].directory = memory[s].directory /\ memory'[s].tables = n
        <4>1. /\ m2[p].task = memory[p].task /\ "task" \in DOMAIN memory[p]
              /\ "space" \in DOMAIN memory[p] /\ "tables" \in DOMAIN memory[s]
              /\ "directory" \in DOMAIN memory[s]
              /\ m2[s].directory = memory[s].directory /\ m2[s].tables = n
          BY <1>6, <1>9, <2>3 DEF ProcessShape, SpaceShape, FieldSet
        <4>2. p \in DOMAIN m2 /\ DOMAIN m2[p] = DOMAIN memory[p]
              /\ s \in DOMAIN m2 /\ DOMAIN m2[s] = DOMAIN memory[s]
          BY <1>6, <1>9, <2>3 DEF Changed
        <4>3. QED
          BY <2>3, <2>4, <4>1, <4>2 DEF Rewritten
      <3>2. Part(p, ProcessShape)'
        BY <1>3, <2>2, <2>3, <2>7, <2>8, <2>9, PartKept
      <3>3. Has(memory', s, SpaceShape)
        BY <1>6, <2>7 DEF Changed, Has
      <3>4. parts'.process = p /\ parts'.space = s
        BY <1>1, <2>9
      <3>5. ProcessPart'
        <4>1. Part(parts.process, ProcessShape)'
          BY <3>2, <3>4 DEF Part
        <4>2. QED
          BY <1>7, <2>2, <2>9, <3>1, <3>4, <4>1 DEF ProcessPart
      <3>6. SpacePart'
        BY <1>3, <1>5, <1>7, <2>2, <2>8, <2>9, <3>1, <3>3, <3>4 DEF SpacePart
      <3>7. TaskPart'
        BY <1>2, <2>9 DEF PartsSound, TaskPart
      <3>8. QED
        BY <2>9, <3>5, <3>6, <3>7 DEF PartsSound
    <2>11. MadeSound' /\ RunningSound'
      BY <2>8, <2>9, MadeSame DEF RunningSound
    <2>12. QED
      BY <2>8, <2>9, <2>10, <2>11
  <1>12. QED
    BY <1>10, <1>11

LEMMA TaskMadeStructure ==
    ASSUME NoWrap, TasksInv, TaskMade
    PROVE  StructureInv'
  <1> USE DEF TasksInv, StructureInv
  <1>1. PICK n : n = Returned
    OBVIOUS
  <1> DEFINE r == Task(n, page_table')
  <1>2. /\ freeing = <<>> /\ stage = "task" /\ Allocate("task") /\ Returned # NONE
        /\ UNCHANGED current_task /\ UNCHANGED session
        /\ UNCHANGED task_list /\ UNCHANGED freeing
        /\ memory' = Put(memory, n, r) /\ Continue("stack", [parts EXCEPT !.task = n])
    BY <1>1 DEF TaskMade, Gets, Asks
  <1>3. /\ n \in Nat /\ n > task_list[2] + 1 /\ InUse' = InUse \cup {n}
        /\ \A low : low = task_list[2] + 1 => Above(low)'
        /\ n \notin DOMAIN memory /\ n # NONE /\ Unowned(memory, n)
        /\ n \notin Range(task_list) /\ n \notin Range(made)
        /\ Creating /\ Product \in Products /\ WellOwned(memory, {}, task_list[2])
        /\ NONE \notin DOMAIN memory /\ task_list[2] \in Nat
    BY <1>1, <1>2, GetsFacts DEF PlainKinds, AlignedKinds
  <1>4. /\ DOMAIN r = TaskShape /\ r.context = NONE /\ r.process = NONE
        /\ DOMAIN r \in Shapes /\ \A f \in DOMAIN r \cap Links : r[f] = NONE
    <2>1. DOMAIN r = TaskShape /\ r.context = NONE /\ r.process = NONE
      BY DEF Task, TaskShape
    <2> HIDE DEF r
    <2>2. QED
      BY <2>1, ShapeLinks DEF Shapes
  <1> HIDE DEF r
  <1>5. Added(memory, memory', n, r)
    BY <1>2, PutAdds
  <1>6. PICK S, T, N : /\ Changed(memory, memory', S, T, N) /\ S = {} /\ T = {NONE} /\ N = {n}
                       /\ WellOwned(memory', {}, task_list[2])
    BY <1>3, <1>4, <1>5, AddUnlinked
  <1>7. Product \in {"process", "task"} /\ Product' = Product
    BY <1>2, <1>3, SameCaller DEF Creating, StagesOf, Products
  <1>8. /\ Ownership' /\ BootBelow' /\ FreeingSound' /\ Doomed' = {} /\ ListSound'
        /\ \A a \in Range(made) : a = NONE \/ ProductSound(a)'
    <2>1. stage # "context" /\ S \cap Range(task_list) = {} /\ InUse \cup N \subseteq InUse'
          /\ task_list[2] \notin S /\ \A a \in Range(made) : a # NONE =>
              /\ a \notin S /\ a \notin T
              /\ Product = "process" => memory[a].task \notin S
      BY <1>2, <1>3, <1>6
    <2>2. QED
      BY <1>2, <1>3, <1>6, <2>1, CreationStep
  <1>9. /\ ControlSound' /\ Creating' /\ stage' = "stack"
        /\ parts' = [parts EXCEPT !.task = n] /\ UNCHANGED made
    <2>1. "stack" \in StagesOf(Product) /\ freeing' = <<>>
      BY <1>2, <1>7 DEF StagesOf
    <2>2. QED
      BY <1>2, <1>3, <2>1, ContinueControl
  <1>10. PartsSound'
    <2>1. /\ parts' \in [process : Nat, space : Nat, task : Nat]
          /\ parts'.process = parts.process /\ parts'.space = parts.space /\ parts'.task = n
      BY <1>3, <1>9 DEF PartsSound
    <2>2. ProcessPart'
      <3>1. Product = "process" =>
               parts.process \notin S /\ parts.process \notin T /\ parts.process \notin Doomed'
        BY <1>2, <1>3, <1>6, <1>8, PartFacts
      <3>2. ProcessPart
        BY DEF PartsSound
      <3>3. QED
        BY <1>2, <1>3, <1>6, <1>9, <2>1, <3>1, <3>2, ProcessPartKept
    <2>3. SpacePart'
      <3>1. CASE Product = "process"
        <4>1. PICK s : s = parts.space /\ Has(memory, s, SpaceShape)
                       /\ memory[s].directory # NONE /\ memory[s].tables # NONE
          BY <1>2, <3>1 DEF PartsSound, SpacePart
        <4>2. /\ Has(memory', s, SpaceShape) /\ memory'[s].directory # NONE
              /\ memory'[s].tables # NONE
          BY <1>3, <1>5, <4>1 DEF Added, Has
        <4>3. QED
          BY <1>7, <1>8, <1>9, <2>1, <3>1, <4>1, <4>2 DEF SpacePart
      <3>2. CASE Product # "process"
        BY <1>2, <1>7, <1>9, <2>1, <3>2 DEF PartsSound, SpacePart
      <3>3. QED
        BY <3>1, <3>2
    <2>4. TaskPart'
      <3>1. memory'[n] = r /\ n \in DOMAIN memory'
        BY <1>5 DEF Added
      <3>2. Unowned(memory', n)
        BY <1>3, <1>6 DEF Changed
      <3>3. Part(parts.task, TaskShape)'
        BY <1>3, <1>4, <1>8, <1>9, <2>1, <3>1, <3>2 DEF Part, Has
      <3>4. QED
        BY <1>2, <1>3, <1>4, <1>9, <2>1, <3>1, <3>3 DEF TaskPart
    <2>5. QED
      BY <1>9, <2>1, <2>2, <2>3, <2>4 DEF PartsSound
  <1>11. MadeSound' /\ RunningSound'
    BY <1>8, <1>9, MadeSame DEF RunningSound
  <1>12. QED
    BY <1>8, <1>9, <1>10, <1>11

LEMMA BlockMadeStructure ==
    ASSUME NoWrap, TasksInv, BlockMade
    PROVE  StructureInv'
  <1> USE DEF TasksInv, StructureInv
  <1>1. PICK n : n = Returned
    OBVIOUS
  <1> DEFINE r == [image |-> Image(n, SizeOf.block, page_table')]
  <1>2. /\ freeing = <<>> /\ stage = "block" /\ Allocate("block") /\ Returned # NONE
        /\ UNCHANGED current_task /\ UNCHANGED session
        /\ UNCHANGED task_list /\ UNCHANGED freeing
        /\ memory' = Put(memory, n, r) /\ Finish(n)
    BY <1>1 DEF BlockMade, Gets, Asks
  <1>3. /\ n \in Nat /\ n > task_list[2] + 1 /\ InUse' = InUse \cup {n}
        /\ \A low : low = task_list[2] + 1 => Above(low)'
        /\ n \notin DOMAIN memory /\ n # NONE /\ Unowned(memory, n)
        /\ n \notin Range(task_list) /\ n \notin Range(made)
        /\ Creating /\ Product \in Products /\ WellOwned(memory, {}, task_list[2])
        /\ NONE \notin DOMAIN memory /\ task_list[2] \in Nat
    BY <1>1, <1>2, GetsFacts DEF PlainKinds, AlignedKinds
  <1>4. /\ DOMAIN r = PlainShape /\ DOMAIN r \in Shapes /\ \A f \in DOMAIN r \cap Links : r[f] = NONE
    <2>1. DOMAIN r = PlainShape
      BY DEF PlainShape
    <2> HIDE DEF r
    <2>2. QED
      BY <2>1, ShapeLinks DEF Shapes
  <1> HIDE DEF r
  <1>5. Added(memory, memory', n, r)
    BY <1>2, PutAdds
  <1>6. PICK S, T, N : /\ Changed(memory, memory', S, T, N) /\ S = {} /\ T = {NONE} /\ N = {n}
                       /\ WellOwned(memory', {}, task_list[2])
    BY <1>3, <1>4, <1>5, AddUnlinked
  <1>7. Product = "block" /\ Product' = Product
    BY <1>2, <1>3, SameCaller DEF Creating, StagesOf, Products
  <1>8. /\ Ownership' /\ BootBelow' /\ FreeingSound' /\ Doomed' = {} /\ ListSound'
        /\ \A a \in Range(made) : a = NONE \/ ProductSound(a)'
    <2>1. stage # "context" /\ S \cap Range(task_list) = {} /\ InUse \cup N \subseteq InUse'
          /\ task_list[2] \notin S /\ \A a \in Range(made) : a # NONE =>
              /\ a \notin S /\ a \notin T
              /\ Product = "process" => memory[a].task \notin S
      BY <1>2, <1>3, <1>6
    <2>2. QED
      BY <1>2, <1>3, <1>6, <2>1, CreationStep
  <1>9. /\ ControlSound' /\ parts' = NoParts /\ made' = Append(made, n)
        /\ stage' \in {Product', "dispose"}
    BY <1>2, <1>3, FinishControl
  <1>10. PartsSound'
    BY <1>9, PartsEmpty
  <1>11. ProductSound(n)'
    <2>1. Unowned(memory', n) /\ n \in DOMAIN memory' /\ DOMAIN memory'[n] = PlainShape
      BY <1>3, <1>4, <1>5, <1>6 DEF Changed, Added
    <2>2. task_list'[2] = task_list[2]
      BY <1>2
    <2>3. QED
      BY <1>3, <1>7, <1>8, <2>1, <2>2 DEF ProductSound
  <1>12. MadeSound'
    <2>1. made \in Seq(Nat)
      BY DEF ControlSound
    <2>2. QED
      BY <1>3, <1>8, <1>9, <1>11, <2>1, MadeMore
  <1>13. RunningSound'
    BY <1>7, <1>9 DEF RunningSound
  <1>14. QED
    BY <1>8, <1>9, <1>10, <1>12, <1>13

(* The task of the creation under way has been given its context, or is finished. *)
LEMMA ContextMade ==
    ASSUME NoWrap, TasksInv, freeing = <<>>, stage = "context", Allocate("context"),
           NEW t, t = parts.task, NEW m2,
           \/ Returned = NONE /\ m2 = [memory EXCEPT ![t].state = "FINISHED"]
           \/ /\ Returned # NONE
              /\ m2 = Put([memory EXCEPT ![t].context = Returned], Returned,
                          [image |-> Image(Returned, SizeOf.context, page_table')])
    PROVE  \E T, N : /\ Changed(memory, m2, {t}, T, N) /\ T \cap DOMAIN memory = {}
                     /\ WellOwned(m2, {}, task_list[2]) /\ InUse \cup N = InUse'
                     /\ \A low : low = task_list[2] + 1 => Above(low)'
                     /\ m2[t].process = memory[t].process
                     /\ m2[t].context # NONE \/ m2[t].state # "READY"
  <1> USE DEF TasksInv, StructureInv
  <1>1. Part(t, TaskShape)
    BY DEF PartsSound, TaskPart
  <1>2. t \in DOMAIN memory /\ DOMAIN memory[t] = TaskShape
    BY <1>1 DEF Part, Has
  <1>3. {"context", "state", "process"} \subseteq DOMAIN memory[t]
    BY <1>2 DEF TaskShape
  <1>4. CASE Returned = NONE
    <2>1. PICK low \in Nat : low = task_list[2] + 1
      BY StructureFacts
    <2>2. Above(low)' /\ (Denied \/ (Granted(RoundUp(SizeOf["context"]), {}) /\ Returned > low))
      <3>1. Above(low) /\ "context" \in AlignedKinds \cup PlainKinds
        BY <2>1 DEF BootBelow, PlainKinds
      <3>2. QED
        BY <3>1, AllocateEffect
    <2>3. InUse' = InUse /\ Above(low)'
      BY <1>4, <2>2 DEF Denied, Granted, NONE
    <2>4. Rewritten(memory, m2, t, "state", "FINISHED")
      BY <1>4, ExceptRewrites
    <2>5. Changed(memory, m2, {t}, {}, {})
      BY <2>4, RewriteChange DEF Links
    <2>6. WellOwned(m2, {}, task_list[2])
      <3>1. WellOwned(memory, {}, task_list[2]) /\ task_list[2] \in Nat /\ "state" \notin Links
        <4>1. Doomed = {}
          BY OrderlyEmpty, SelvesFacts DEF Doomed
        <4>2. "state" \notin Links
          BY DEF Links
        <4>3. QED
          BY <4>1, <4>2, StructureFacts DEF Ownership
      <3>2. QED
        BY <2>4, <3>1, RewriteOwned
    <2>7. m2[t].process = memory[t].process /\ m2[t].state = "FINISHED"
      BY <1>2, <1>3, <2>4 DEF Rewritten
    <2>8. InUse \cup {} = InUse' /\ {} \cap DOMAIN memory = {}
      BY <2>3
    <2>9. QED
      BY <2>1, <2>3, <2>5, <2>6, <2>7, <2>8
  <1>5. CASE Returned # NONE
    <2>1. PICK n : n = Returned
      OBVIOUS
    <2> DEFINE r == [image |-> Image(n, SizeOf.context, page_table')]
               m1 == [memory EXCEPT ![t].context = n]
    <2>2. m2 = Put(m1, n, r)
      BY <1>5, <2>1
    <2>3. DOMAIN r = PlainShape
      BY DEF PlainShape
    <2>4. /\ n \in Nat /\ n > task_list[2] /\ InUse' = InUse \cup {n}
          /\ \A low : low = task_list[2] + 1 => Above(low)'
          /\ n \notin DOMAIN memory /\ n # NONE /\ Unowned(memory, n)
          /\ WellOwned(memory, {}, task_list[2])
          /\ NONE \notin DOMAIN memory /\ task_list[2] \in Nat
      BY <1>5, <2>1, GetsFacts DEF PlainKinds, AlignedKinds
    <2> HIDE DEF r, m1
    <2>5. Rewritten(memory, m1, t, "context", n) /\ Added(m1, m2, n, r)
      BY <2>2, ExceptRewrites, PutAdds DEF m1
    <2>6. /\ WellOwned(m2, {}, task_list[2]) /\ Changed(memory, m2, {t}, {n, NONE}, {n})
          /\ FieldSet(memory, m2, t, "context", n)
      <3>1. Target("context") = PlainShape /\ t # n
        BY <1>2, <2>4 DEF Target
      <3>2. QED
        BY <2>3, <2>4, <2>5, <3>1, AddLinked
    <2>7. m2[t].process = memory[t].process /\ m2[t].context = n
      BY <1>2, <1>3, <2>6 DEF FieldSet
    <2>8. {n, NONE} \cap DOMAIN memory = {}
      BY <2>4
    <2>9. QED
      BY <2>4, <2>6, <2>7, <2>8
  <1>6. QED
    BY <1>4, <1>5

LEMMA ContextStructure ==
    ASSUME NoWrap, TasksInv, task_context
    PROVE  StructureInv'
  <1> USE DEF TasksInv, StructureInv
  <1>1. PICK t, p : t = parts.task /\ p = parts.process
    OBVIOUS
  <1>2. PICK m2 : /\ m2 = IF Returned = NONE THEN [memory EXCEPT ![t].state = "FINISHED"]
                          ELSE Put([memory EXCEPT ![t].context = Returned], Returned,
                                   [image |-> Image(Returned, SizeOf.context, page_table')])
                  /\ memory' = IF p = NONE THEN m2 ELSE [m2 EXCEPT ![p].task = t]
    BY <1>1 DEF task_context
  <1>3. /\ freeing = <<>> /\ stage = "context" /\ Allocate("context")
        /\ UNCHANGED current_task /\ UNCHANGED session
        /\ UNCHANGED task_list /\ UNCHANGED freeing
        /\ Finish(IF p = NONE THEN t ELSE p)
    BY <1>1 DEF task_context, Busy
  <1>4. PICK T1, N : /\ Changed(memory, m2, {t}, T1, N) /\ T1 \cap DOMAIN memory = {}
                     /\ WellOwned(m2, {}, task_list[2]) /\ InUse \cup N = InUse'
                     /\ \A low : low = task_list[2] + 1 => Above(low)'
                     /\ m2[t].process = memory[t].process
                     /\ m2[t].context # NONE \/ m2[t].state # "READY"
    BY <1>1, <1>2, <1>3, ContextMade
  <1>5. /\ Part(t, TaskShape) /\ t > task_list[2] + 1 /\ memory[t].process = p
        /\ t \in Range(task_list)
    BY <1>1, <1>3 DEF PartsSound, TaskPart
  <1>6. /\ t \in DOMAIN memory /\ DOMAIN memory[t] = TaskShape /\ Unowned(memory, t)
        /\ t \notin Range(made) /\ t \in Nat /\ t # NONE /\ t > task_list[2]
        /\ task_list[2] \in Nat /\ task_list[2] \in Range(task_list) /\ t # task_list[2]
    <2>1. task_list[2] \in Nat /\ task_list[2] \in Range(task_list) /\ t \in Nat
      BY <1>5, StructureFacts
    <2>2. t > task_list[2] /\ t # 0
      BY <1>5, <2>1
    <2>3. QED
      BY <1>5, <2>1, <2>2 DEF Part, Has, NONE
  <1>7. Creating
    BY <1>3 DEF ControlSound
  <1>8. Product \in {"process", "task"} /\ Product' = Product
    <2>1. Product \in Products
      BY <1>7, CreatingStages
    <2>2. QED
      BY <1>3, <1>7, <2>1, SameCaller DEF Creating, StagesOf, Products
  <1>9. p # NONE <=> Product = "process"
    BY <1>1, <1>3, <1>7, PartFacts
  <1>10. p # NONE => /\ p \in DOMAIN memory /\ DOMAIN memory[p] = ProcessShape
                     /\ Unowned(memory, p) /\ p \notin Range(made) /\ p # t
                     /\ p \notin Range(task_list) /\ p \in Nat /\ p > task_list[2] + 1
                     /\ memory[p].space # NONE
    <2> SUFFICES ASSUME p # NONE
                 PROVE  /\ p \in DOMAIN memory /\ DOMAIN memory[p] = ProcessShape
                        /\ Unowned(memory, p) /\ p \notin Range(made) /\ p # t
                        /\ p \notin Range(task_list) /\ p \in Nat /\ p > task_list[2] + 1
                        /\ memory[p].space # NONE
      OBVIOUS
    <2>1. Part(p, ProcessShape) /\ p \notin Range(task_list) /\ memory[p].space = parts.space
      BY <1>1, <1>3, <1>7, <1>9, PartFacts DEF PartsSound, ProcessPart
    <2>2. parts.space # NONE
      BY <1>3, <1>9, StructureFacts DEF PartsSound, SpacePart, Has
    <2>3. p \in Nat /\ p > task_list[2] + 1
      BY <2>1, UnownedAbove, ShapesDiffer DEF Part
    <2>4. QED
      BY <1>6, <2>1, <2>2, <2>3, ShapesDiffer DEF Part, Has
  <1>11. /\ WellOwned(memory', {}, task_list[2]) /\ memory'[t].process = p
         /\ memory'[t].context # NONE \/ memory'[t].state # "READY"
         /\ p # NONE => memory'[p].task = t /\ memory'[p].space = memory[p].space
         /\ \E S, T : Changed(memory, memory', S, T, N) /\ t \in S
                         /\ S = {t, p} \ {NONE}
                         /\ \A b \in T : b = t \/ b \notin DOMAIN memory
    <2>1. CASE p = NONE
      <3>1. memory' = m2 /\ {t} = {t, p} \ {NONE}
        BY <1>2, <1>6, <2>1
      <3>2. QED
        BY <1>4, <1>5, <2>1, <3>1
    <2>2. CASE p # NONE
      <3>1. Rewritten(m2, memory', p, "task", t)
        BY <1>2, <2>2, ExceptRewrites
      <3>2. /\ DOMAIN m2 = DOMAIN memory \cup N /\ DOMAIN m2[t] = TaskShape
            /\ DOMAIN m2[p] = ProcessShape /\ Unowned(m2, t)
        BY <1>4, <1>6, <1>10, <2>2 DEF Changed
      <3>3. WellOwned(memory', {}, task_list[2])
        <4>1. Target("task") = TaskShape
          BY DEF Target
        <4>2. t \in DOMAIN m2
          BY <1>6, <3>2
        <4>3. QED
          BY <1>4, <1>6, <3>1, <3>2, <4>1, <4>2, RewriteOwned
      <3>4. Changed(m2, memory', {p}, {t}, {})
        BY <3>1, RewriteChange
      <3>5. Changed(memory, memory', {t} \cup {p}, T1 \cup {t}, N \cup {})
        BY <1>4, <3>4, ChangeTwice
      <3>6. {t} \cup {p} = {t, p} \ {NONE} /\ N \cup {} = N
        BY <1>6, <2>2
      <3>7. PICK S, T : Changed(memory, memory', S, T, N) /\ S = {t, p} \ {NONE} /\ T = T1 \cup {t}
        BY <3>5, <3>6
      <3>8. t \in S /\ \A b \in T : b = t \/ b \notin DOMAIN memory
        BY <1>4, <1>6, <3>7
      <3>9. /\ memory'[t].process = m2[t].process /\ memory'[t].context = m2[t].context
            /\ memory'[t].state = m2[t].state
        <4>1. t \in DOMAIN m2 /\ {"process", "context", "state"} \subseteq DOMAIN m2[t]
          BY <1>6, <3>2 DEF TaskShape
        <4>2. QED
          BY <1>10, <2>2, <3>1, <4>1 DEF Rewritten
      <3>10. memory'[p].task = t /\ memory'[p].space = memory[p].space
        <4>1. p \in DOMAIN m2 /\ {"task", "space"} \subseteq DOMAIN m2[p]
          BY <1>10, <2>2, <3>2 DEF ProcessShape
        <4>2. memory'[p].task = t /\ memory'[p].space = m2[p].space
          BY <3>1, <4>1 DEF Rewritten
        <4>3. m2[p].space = memory[p].space
          BY <1>4, <1>10, <2>2 DEF Changed, Kept, ProcessShape
        <4>4. QED
          BY <4>2, <4>3
      <3>11. QED
        BY <1>4, <1>5, <3>3, <3>7, <3>8, <3>9, <3>10
    <2>3. QED
      BY <2>1, <2>2
  <1>12. PICK S, T : Changed(memory, memory', S, T, N) /\ S = {t, p} \ {NONE}
                       /\ \A b \in T : b = t \/ b \notin DOMAIN memory
    BY <1>11
  <1>13. /\ Ownership' /\ BootBelow' /\ FreeingSound' /\ Doomed' = {}
         /\ \A a \in Range(made) : a = NONE \/ ProductSound(a)'
    <2>1. ASSUME NEW a \in Range(made), a # NONE
          PROVE  /\ a \notin S /\ a \notin T
                 /\ Product = "process" => memory[a].task \notin S
      <3>1. a \in DOMAIN memory
        BY <2>1 DEF MadeSound, ProductSound, Range
      <3>2. ASSUME Product = "process" PROVE memory[a].task \notin S
        <4>1. DOMAIN memory[a] = ProcessShape /\ memory[a].task \in Range(task_list)
          BY <2>1, <3>2 DEF MadeSound, ProductSound, Range
        <4>2. "task" \in LinksOf(memory, a)
          BY <4>1 DEF LinksOf, Links, ProcessShape
        <4>3. QED
          BY <1>6, <1>10, <1>12, <3>1, <4>1, <4>2 DEF Unowned
      <3>3. QED
        BY <1>6, <1>10, <1>12, <2>1, <3>1, <3>2
    <2>2. task_list[2] \notin S /\ InUse \cup N \subseteq InUse'
      BY <1>4, <1>6, <1>10, <1>12
    <2>3. QED
      BY <1>3, <1>4, <1>11, <1>12, <2>1, <2>2, CreationStep
  <1>14. ListSound'
    <2>1. ASSUME NEW u \in Range(task_list)
          PROVE  /\ Has(memory', u, TaskShape) /\ u \notin Doomed'
                 /\ ~ (memory'[u].context = NONE /\ memory'[u].state = "READY")
      <3>1. Has(memory, u, TaskShape)
        BY ListedAreTasks
      <3>2. Has(memory', u, TaskShape)
        BY <1>12, <3>1 DEF Changed, Has
      <3>3. CASE u = t
        BY <1>11, <1>13, <3>2, <3>3
      <3>4. CASE u # t
        <4>1. u \notin S
          BY <1>10, <1>12, <3>4
        <4>2. memory'[u].context = memory[u].context
          BY <1>12, <3>1, <4>1 DEF Changed, Kept, Has, TaskShape
        <4>3. memory'[u].state = "READY" => memory[u].state = "READY"
          BY <1>12, <3>1 DEF Changed, Has, TaskShape
        <4>4. ~ (memory[u].context = NONE /\ memory[u].state = "READY")
          BY <1>1, <3>4 DEF ListSound
        <4>5. QED
          BY <1>13, <3>2, <4>2, <4>3, <4>4
      <3>5. QED
        BY <3>3, <3>4
    <2>2. Range(task_list') = Range(task_list) /\ task_list' = task_list
      BY <1>3
    <2>3. current_task' = NONE \/ current_task' \in Range(task_list)
      BY <1>3 DEF ListSound
    <2>4. QED
      BY <2>1, <2>2, <2>3 DEF ListSound
  <1>15. PICK final \in Nat : final = IF p = NONE THEN t ELSE p
    BY <1>6, <1>10
  <1>16. /\ ControlSound' /\ parts' = NoParts /\ made' = Append(made, final)
         /\ stage' \in {Product', "dispose"}
    BY <1>3, <1>7, <1>15, FinishControl
  <1>17. PartsSound'
    BY <1>16, PartsEmpty
  <1>18. ProductSound(final)' /\ final \notin Range(made)
    <2>1. /\ final \in DOMAIN memory /\ Unowned(memory, final) /\ final \notin Range(made)
          /\ final > task_list[2] + 1
      BY <1>5, <1>6, <1>10, <1>15
    <2>2. final \in DOMAIN memory' /\ DOMAIN memory'[final] = DOMAIN memory[final]
      BY <1>12, <2>1 DEF Changed
    <2>3. Unowned(memory', final)
      <3>1. CASE p = NONE
        <4>1. memory' = m2 /\ final = t
          BY <1>2, <1>15, <3>1
        <4>2. QED
          BY <1>4, <1>6, <4>1 DEF Changed
      <3>2. CASE p # NONE
        <4>1. final \notin T
          BY <1>10, <1>12, <1>15, <3>2
        <4>2. QED
          BY <1>12, <2>1, <4>1 DEF Changed
      <3>3. QED
        BY <3>1, <3>2
    <2>4. task_list' = task_list /\ task_list'[2] = task_list[2]
      BY <1>3
    <2>5. CASE p = NONE
      <3>1. final = t /\ Product' = "task" /\ memory'[final].process = NONE
        BY <1>8, <1>9, <1>11, <1>15, <2>5
      <3>2. final \in Range(task_list')
        BY <1>5, <2>4, <3>1
      <3>3. QED
        BY <1>13, <2>1, <2>2, <2>3, <2>4, <3>1, <3>2 DEF ProductSound
    <2>6. CASE p # NONE
      <3>1. final = p /\ Product' = "process" /\ DOMAIN memory'[final] = ProcessShape
            /\ memory'[final].space # NONE /\ memory'[final].task = t
            /\ memory'[t].process = final
        BY <1>8, <1>9, <1>10, <1>11, <1>15, <2>2, <2>6
      <3>2. memory'[final].task \in Range(task_list')
            /\ memory'[memory'[final].task].process = final
        BY <1>5, <2>4, <3>1
      <3>3. QED
        BY <1>13, <2>1, <2>2, <2>3, <2>4, <3>1, <3>2 DEF ProductSound
    <2>7. QED
      BY <2>1, <2>5, <2>6
  <1>19. MadeSound'
    <2>1. made \in Seq(Nat)
      BY DEF ControlSound
    <2>2. QED
      BY <1>13, <1>16, <1>18, <2>1, MadeMore
  <1>20. RunningSound'
    BY <1>8, <1>16 DEF RunningSound
  <1>21. QED
    BY <1>13, <1>14, <1>16, <1>17, <1>19, <1>20

-----------------------------------------------------------------------------
(* The addresses a step sets out to free. *)

(* The queue q frees the structures of D, each after what is read from its fields. *)
QueueSound(q, D) ==
    /\ Orderly(q) /\ Selves(Range(q)) = D
    /\ \A e \in Range(q) :
          /\ e.of \in D /\ e.of > task_list[2] + 1
          /\ e.field # "self" => e.of \in DOMAIN memory /\ e.field \in DOMAIN memory[e.of]

LEMMA QueueEmpty == QueueSound(<<>>, {})
  BY OrderlyEmpty, SelvesFacts DEF QueueSound

LEMMA QueueSelf ==
    ASSUME NEW a \in Nat, a > task_list[2] + 1
    PROVE  QueueSound(<<Self(a)>>, {a})
  <1> DEFINE q == <<Self(a)>>
  <1>1. Orderly(q) /\ Range(q) = {Self(a)}
    BY OrderlySelf
  <1> HIDE DEF q
  <1>2. Selves(Range(q)) = {a}
    BY <1>1, SelvesFacts
  <1>3. (Self(a)).of = a /\ (Self(a)).field = "self"
    BY EntryKinds
  <1>4. QueueSound(q, {a})
    BY <1>1, <1>2, <1>3 DEF QueueSound
  <1>5. QED
    BY <1>4 DEF q

LEMMA QueueField ==
    ASSUME NEW a \in Nat, a > task_list[2] + 1, NEW f \in {"context", "directory", "tables"},
           a \in DOMAIN memory, f \in DOMAIN memory[a]
    PROVE  QueueSound(<<Field(a, f), Self(a)>>, {a})
  <1> DEFINE q == <<Field(a, f), Self(a)>>
  <1>1. Orderly(q) /\ Range(q) = {Field(a, f), Self(a)}
    BY OrderlyField
  <1> HIDE DEF q
  <1>2. Selves(Range(q)) = {a}
    <2>1. Range(q) = {Field(a, f)} \cup {Self(a)} /\ f # "self"
      BY <1>1
    <2>2. Selves({Field(a, f)}) = {} /\ Selves({Self(a)}) = {a}
      BY <2>1, SelvesFacts
    <2>3. Selves({Field(a, f)} \cup {Self(a)}) = Selves({Field(a, f)}) \cup Selves({Self(a)})
      BY SelvesFacts
    <2>4. QED
      BY <2>1, <2>2, <2>3
  <1>3. /\ (Self(a)).of = a /\ (Self(a)).field = "self"
        /\ (Field(a, f)).of = a /\ (Field(a, f)).field = f
    BY EntryKinds
  <1>4. QueueSound(q, {a})
    BY <1>1, <1>2, <1>3 DEF QueueSound
  <1>5. QED
    BY <1>4 DEF q

LEMMA QueueSpace ==
    ASSUME NEW a \in Nat, a > task_list[2] + 1, Has(memory, a, SpaceShape)
    PROVE  QueueSound(SpaceDoom(a), {a})
  <1>1. /\ Orderly(SpaceDoom(a))
        /\ Range(SpaceDoom(a)) = {Field(a, "tables"), Field(a, "directory"), Self(a)}
    BY OrderlySpace
  <1>2. PICK q : q = SpaceDoom(a)
    OBVIOUS
  <1>3. Selves(Range(q)) = {a}
    <2>1. Range(q) = ({Field(a, "tables")} \cup {Field(a, "directory")}) \cup {Self(a)}
      BY <1>1, <1>2
    <2>2. /\ Selves({Field(a, "tables")}) = {} /\ Selves({Field(a, "directory")}) = {}
          /\ Selves({Self(a)}) = {a}
      BY SelvesFacts
    <2>3. \A S, T : Selves(S \cup T) = Selves(S) \cup Selves(T)
      BY SelvesFacts
    <2>4. Selves({Field(a, "tables")} \cup {Field(a, "directory")}) = {}
      BY <2>2, <2>3
    <2>5. QED
      BY <2>1, <2>2, <2>3, <2>4
  <1>4. {"tables", "directory"} \subseteq DOMAIN memory[a] /\ a \in DOMAIN memory
    BY DEF Has, SpaceShape
  <1>5. QueueSound(q, {a})
    BY <1>1, <1>2, <1>3, <1>4, EntryKinds DEF QueueSound
  <1>6. QED
    BY <1>2, <1>5

LEMMA QueueConcat ==
    ASSUME NEW p, NEW q, NEW D, NEW E, QueueSound(p, D), QueueSound(q, E), D \cap E = {}
    PROVE  QueueSound(p \o q, D \cup E)
  <1>1. Orderly(p \o q) /\ Range(p \o q) = Range(p) \cup Range(q)
    BY OrderlyConcat DEF QueueSound
  <1>2. PICK r : r = p \o q
    OBVIOUS
  <1>3. Selves(Range(r)) = D \cup E
    BY <1>1, <1>2, SelvesFacts DEF QueueSound
  <1>4. QueueSound(r, D \cup E)
    BY <1>1, <1>2, <1>3 DEF QueueSound
  <1>5. QED
    BY <1>2, <1>4

(* A step that only sets out to free D, and takes none of D's structures from the list or
   from what was made. *)
LEMMA FreeingStarts ==
    ASSUME TasksInv, freeing = <<>>, UNCHANGED memory, InUse' = InUse,
           \A low : low = task_list[2] + 1 => Above(low)',
           Len(task_list') >= 2, task_list'[1] = task_list[1], task_list'[2] = task_list[2],
           NEW D, QueueSound(freeing', D),
           \A a \in DOMAIN memory : \A f \in LinksOf(memory, a) : memory[a][f] \in D => a \in D
    PROVE  Ownership' /\ BootBelow' /\ FreeingSound' /\ Doomed' = D
  <1> USE DEF TasksInv, StructureInv
  <1>1. Doomed' = D /\ Doomed = {}
    BY OrderlyEmpty, SelvesFacts DEF Doomed, QueueSound
  <1>2. Ownership'
    <2>1. WellOwned(memory, D, task_list[2])
      BY <1>1, MoreDoomed DEF Ownership
    <2>2. QED
      BY <1>1, <2>1 DEF Ownership
  <1>3. BootBelow'
    <2>1. Kept(memory, memory', {}) /\ DOMAIN memory' \subseteq InUse' \cup BootPlaces
      BY SameMemory DEF BootBelow
    <2>2. PICK low : low = task_list[2] + 1
      OBVIOUS
    <2>3. QED
      BY <2>1, <2>2, BootKept
  <1>4. FreeingSound'
    BY <1>1 DEF FreeingSound, QueueSound
  <1>5. QED
    BY <1>1, <1>2, <1>3, <1>4

LEMMA UndoSound ==
    ASSUME TasksInv, Creating, freeing = <<>>, stage # "context"
    PROVE  \E D : /\ QueueSound(Undo(stage), D) /\ D \cap Range(task_list) = {}
                  /\ D \cap Range(made) = {}
                  /\ \A a \in DOMAIN memory : \A f \in LinksOf(memory, a) :
                        memory[a][f] \in D => a \in D
  <1> USE DEF TasksInv, StructureInv
  <1>1. PICK p, s, t : p = parts.process /\ s = parts.space /\ t = parts.task
    OBVIOUS
  <1>2. Doomed = {} /\ WellOwned(memory, {}, task_list[2])
    <2>1. Doomed = {}
      BY OrderlyEmpty, SelvesFacts DEF Doomed
    <2>2. QED
      BY <2>1 DEF Ownership
  <1>3. p # NONE => /\ Part(p, ProcessShape) /\ p \in Nat /\ p > task_list[2] + 1
                    /\ Product = "process" /\ stage # "process" /\ p \notin Range(task_list)
    <2>1. ASSUME p # NONE PROVE Product = "process" /\ stage # "process"
      BY <1>1, <2>1 DEF PartsSound, ProcessPart
    <2>2. ASSUME p # NONE PROVE Part(p, ProcessShape) /\ p \notin Range(task_list)
      BY <1>1, <2>1, <2>2, PartFacts
    <2>3. ASSUME p # NONE PROVE p \in Nat /\ p > task_list[2] + 1
      BY <2>2, <2>3, UnownedAbove, ShapesDiffer DEF Part
    <2>4. QED
      BY <2>1, <2>2, <2>3
  <1>4. PICK E : /\ QueueSound(OwnProcess, E) /\ E = {p} \ {NONE}
    <2>1. CASE p = NONE
      <3>1. OwnProcess = <<>> /\ {p} \ {NONE} = {}
        BY <1>1, <2>1 DEF OwnProcess
      <3>2. QED
        BY <3>1, QueueEmpty
    <2>2. CASE p # NONE
      <3>1. OwnProcess = <<Self(p)>> /\ {p} \ {NONE} = {p}
        BY <1>1, <2>2 DEF OwnProcess
      <3>2. QueueSound(<<Self(p)>>, {p})
        BY <1>3, <2>2, QueueSelf
      <3>3. QED
        BY <3>1, <3>2
    <2>3. QED
      BY <2>1, <2>2
  <1>5. /\ \A a \in E : Unowned(memory, a) /\ a \notin Range(made) /\ a \notin Range(task_list)
    BY <1>3, <1>4 DEF Part
  <1>6. PICK creator : creator = IF p = NONE THEN <<>> ELSE <<Self(s)>> \o OwnProcess
    OBVIOUS
  <1>7. PICK C : /\ C = IF p = NONE THEN {} ELSE {s, p}
                 /\ stage \in {"task", "stack"} =>
                      /\ QueueSound(creator, C)
                      /\ C \cap Range(task_list) = {} /\ C \cap Range(made) = {}
                      /\ \A a \in DOMAIN memory : \A f \in LinksOf(memory, a) :
                            memory[a][f] \in C => a \in C
                      /\ \A a \in C : Has(memory, a, SpaceShape) \/ Has(memory, a, ProcessShape)
    <2>1. CASE stage \in {"task", "stack"} /\ p # NONE
      <3>1. /\ Has(memory, s, SpaceShape) /\ memory[p].space = s
        BY <1>1, <1>3, <2>1 DEF PartsSound, SpacePart, ProcessPart
      <3>2. /\ p \in DOMAIN memory /\ DOMAIN memory[p] = ProcessShape /\ p # s
            /\ Unowned(memory, p) /\ p \notin Range(made)
        BY <1>3, <2>1, <3>1, ShapesDiffer DEF Part, Has
      <3>3. "space" \in LinksOf(memory, p) /\ s # NONE /\ s \in DOMAIN memory
        BY <3>1, <3>2, StructureFacts DEF LinksOf, Links, ProcessShape, Has
      <3>4. s \notin Range(task_list)
        BY <3>1, ListedAreTasks, ShapesDiffer DEF Has
      <3>5. s \notin Range(made)
        BY <3>1, <3>2, <3>3 DEF MadeSound, ProductSound, Range, Unowned
      <3>6. s \in Nat /\ s > task_list[2] + 1
        <4>1. s # task_list[2] + 1
          <5>1. Has(memory, task_list[2], TaskShape)
            BY StructureFacts, ListedAreTasks
          <5>2. "context" \in LinksOf(memory, task_list[2]) /\ task_list[2] \in DOMAIN memory
            BY <5>1 DEF Has, LinksOf, Links, TaskShape
          <5>3. memory[task_list[2]].context = s => task_list[2] = p
            BY <1>2, <3>1, <3>2, <3>3, <5>2 DEF WellOwned
          <5>4. QED
            BY <1>3, <2>1, <5>3, StructureFacts DEF BootBelow
        <4>2. s # task_list[1] /\ s # task_list[2]
          BY <3>4, StructureFacts
        <4>3. s \in InUse
          BY <3>3, <4>1, <4>2 DEF BootBelow, BootPlaces
        <4>4. QED
          BY <4>3, StructureFacts
      <3>7. QueueSound(<<Self(s)>> \o OwnProcess, {s} \cup {p})
        <4>1. QueueSound(<<Self(s)>>, {s})
          BY <3>6, QueueSelf
        <4>2. E = {p} /\ {s} \cap {p} = {}
          BY <1>4, <2>1, <3>2
        <4>3. QED
          BY <1>4, <4>1, <4>2, QueueConcat
      <3>8. {s} \cup {p} = {s, p}
        OBVIOUS
      <3>9. ASSUME NEW a \in DOMAIN memory, NEW f \in LinksOf(memory, a), memory[a][f] \in {s, p}
            PROVE  a \in {s, p}
        BY <1>2, <3>1, <3>2, <3>3, <3>9 DEF Unowned, WellOwned
      <3>10. QED
        BY <1>3, <1>6, <2>1, <3>1, <3>2, <3>4, <3>5, <3>7, <3>8, <3>9 DEF Has
    <2>2. CASE p = NONE
      BY <1>6, <2>2, QueueEmpty
    <2>3. CASE stage \notin {"task", "stack"}
      BY <2>3
    <2>4. QED
      BY <2>1, <2>2, <2>3
  <1>8. CASE stage \in {"process", "block"}
    <2>1. Undo(stage) = <<>>
      BY <1>8 DEF Undo
    <2>2. QED
      BY <2>1, QueueEmpty
  <1>9. CASE stage = "space"
    <2>1. Undo(stage) = OwnProcess
      BY <1>9 DEF Undo
    <2>2. QED
      BY <1>4, <1>5, <2>1 DEF Unowned
  <1>10. CASE stage \in {"directory", "tables"}
    <2>1. /\ s \in Nat /\ s > task_list[2] + 1 /\ Unowned(memory, s) /\ s \notin Range(made)
          /\ s \notin Range(task_list) /\ s # NONE
      <3>1. CASE stage = "directory"
        <4>1. s \in InUse /\ s \notin DOMAIN memory
          BY <1>1, <3>1 DEF PartsSound, SpacePart
        <4>2. s \in Nat /\ s > task_list[2] + 1 /\ s # NONE /\ s \notin Range(task_list)
          BY <4>1, StructureFacts DEF NONE
        <4>3. Unowned(memory, s)
          BY <1>2, <4>1, <4>2 DEF Unowned, WellOwned
        <4>4. s \notin Range(made)
          BY <4>1, <4>2 DEF MadeSound, ProductSound, Range
        <4>5. QED
          BY <4>2, <4>3, <4>4
      <3>2. CASE stage = "tables"
        <4>1. Part(s, SpaceShape)
          BY <1>1, <3>2 DEF PartsSound, SpacePart
        <4>2. s \in Nat /\ s > task_list[2] + 1
          BY <4>1, UnownedAbove, ShapesDiffer DEF Part
        <4>3. s \notin Range(task_list) /\ s # NONE
          BY <4>1, ListedAreTasks, StructureFacts, ShapesDiffer DEF Part, Has
        <4>4. QED
          BY <4>1, <4>2, <4>3 DEF Part
      <3>3. QED
        BY <1>10, <3>1, <3>2
    <2>2. s # p
      <3>1. CASE stage = "directory"
        BY <1>1, <1>3, <2>1, <3>1 DEF PartsSound, SpacePart, Part, Has
      <3>2. CASE stage = "tables"
        BY <1>1, <1>3, <2>1, <3>2, ShapesDiffer DEF PartsSound, SpacePart, Part, Has
      <3>3. QED
        BY <1>10, <3>1, <3>2
    <2>3. PICK q : QueueSound(q, {s}) /\ Undo(stage) = q \o OwnProcess
      <3>1. CASE stage = "directory"
        <4>1. Undo(stage) = <<Self(s)>> \o OwnProcess
          BY <1>1, <3>1 DEF Undo
        <4>2. QED
          BY <2>1, <4>1, QueueSelf
      <3>2. CASE stage = "tables"
        <4>1. Undo(stage) = <<Field(s, "directory"), Self(s)>> \o OwnProcess
          BY <1>1, <3>2 DEF Undo
        <4>2. s \in DOMAIN memory /\ "directory" \in DOMAIN memory[s]
          BY <1>1, <3>2 DEF PartsSound, SpacePart, Part, Has, SpaceShape
        <4>3. QED
          BY <2>1, <4>1, <4>2, QueueField
      <3>3. QED
        BY <1>10, <3>1, <3>2
    <2>4. QueueSound(Undo(stage), {s} \cup E)
      BY <1>4, <2>2, <2>3, QueueConcat
    <2>5. QED
      BY <1>5, <2>1, <2>4 DEF Unowned
  <1>11. CASE stage = "task"
    <2>1. Undo(stage) = creator
      BY <1>1, <1>11, <1>6 DEF Undo
    <2>2. QED
      BY <1>7, <1>11, <2>1
  <1>12. CASE stage = "stack"
    <2>1. Undo(stage) = <<Self(t)>> \o creator
      BY <1>1, <1>12, <1>6 DEF Undo
    <2>2. Part(t, TaskShape) /\ t > task_list[2] + 1 /\ t \notin Range(task_list) /\ t \in Nat
      BY <1>1, <1>12 DEF PartsSound, TaskPart
    <2>3. {t} \cap C = {}
      BY <1>7, <1>12, <2>2, ShapesDiffer DEF Part, Has
    <2>4. QueueSound(<<Self(t)>>, {t})
      BY <2>2, QueueSelf
    <2>5. QueueSound(Undo(stage), {t} \cup C)
      <3>1. QueueSound(creator, C)
        BY <1>7, <1>12
      <3>2. QueueSound(<<Self(t)>> \o creator, {t} \cup C)
        BY <2>3, <2>4, <3>1, QueueConcat
      <3>3. QED
        BY <2>1, <3>2
    <2>6. QED
      BY <1>7, <1>12, <2>2, <2>5 DEF Part, Unowned
  <1>13. stage \in {"process", "space", "directory", "tables", "task", "stack", "context", "block"}
    <2>1. Product \in Products
      BY CreatingStages
    <2>2. QED
      BY <2>1, StageSets DEF Creating
  <1>14. QED
    BY <1>8, <1>9, <1>10, <1>11, <1>12, <1>13

LEMMA FailsStructure ==
    ASSUME NoWrap, TasksInv,
           NEW kind \in {"process", "space", "directory", "tables", "task", "stack", "block"},
           Fails(kind)
    PROVE  StructureInv'
  <1> USE DEF TasksInv, StructureInv
  <1>1. /\ freeing = <<>> /\ stage = kind /\ stage # "context" /\ Allocate(kind)
        /\ Returned = NONE /\ UNCHANGED memory /\ UNCHANGED task_list /\ UNCHANGED current_task
        /\ UNCHANGED session /\ Finish(NONE) /\ freeing' = Undo(stage)
    BY DEF Fails, Asks
  <1>2. Creating
    BY <1>1 DEF ControlSound
  <1>3. InUse' = InUse /\ \A low : low = task_list[2] + 1 => Above(low)'
    <2>1. PICK low \in Nat : low = task_list[2] + 1
      BY StructureFacts
    <2>2. Above(low) /\ kind \in AlignedKinds \cup PlainKinds
      BY <2>1 DEF BootBelow, AlignedKinds, PlainKinds
    <2>3. Above(low)' /\ (Denied \/ (Granted(RoundUp(SizeOf[kind]), {}) /\ Returned > low))
      BY <1>1, <2>2, AllocateEffect
    <2>4. QED
      BY <1>1, <2>1, <2>3 DEF Denied, Granted, NONE
  <1>4. PICK D : /\ QueueSound(Undo(stage), D) /\ D \cap Range(task_list) = {}
                 /\ D \cap Range(made) = {}
                 /\ \A a \in DOMAIN memory : \A f \in LinksOf(memory, a) :
                       memory[a][f] \in D => a \in D
    BY <1>1, <1>2, UndoSound
  <1>5. Ownership' /\ BootBelow' /\ FreeingSound' /\ Doomed' = D
    <2>1. /\ Len(task_list') >= 2 /\ task_list'[1] = task_list[1] /\ task_list'[2] = task_list[2]
          /\ QueueSound(freeing', D)
      BY <1>1, <1>4 DEF BootBelow
    <2>2. QED
      BY <1>1, <1>3, <1>4, <2>1, FreeingStarts
  <1>6. ListSound'
    <2>1. Kept(memory, memory', {}) /\ \A t \in Range(task_list) : t \notin {} /\ t \notin Doomed'
          /\ (memory'[t].state = "READY" => memory[t].state = "READY")
      BY <1>1, <1>4, <1>5, SameMemory
    <2>2. current_task' = NONE \/ current_task' \in Range(task_list)
      BY <1>1 DEF ListSound
    <2>3. QED
      BY <1>1, <2>1, <2>2, ListKept
  <1>7. /\ ControlSound' /\ parts' = NoParts /\ made' = Append(made, NONE)
        /\ stage' \in {Product', "dispose"}
    <2>1. NONE \in Nat
      BY DEF NONE
    <2>2. QED
      BY <1>1, <1>2, <2>1, FinishControl
  <1>8. PartsSound'
    BY <1>7, PartsEmpty
  <1>9. MadeSound'
    <2>1. ASSUME NEW a \in Range(made), a # NONE PROVE ProductSound(a)'
      <3>1. ProductSound(a)
        BY <2>1 DEF MadeSound, Range
      <3>2. Unowned(memory', a) /\ a \notin Doomed' /\ Kept(memory, memory', {})
        BY <1>1, <1>4, <1>5, <3>1, SameMemory DEF ProductSound
      <3>3. QED
        BY <1>1, <3>1, <3>2, ProductKept
    <2>2. made \in Seq(Nat)
      BY DEF ControlSound
    <2>3. QED
      BY <1>7, <2>1, <2>2, MadeMore
  <1>10. RunningSound'
    <2>1. Product' \in Products
      <3>1. Product \in Products /\ Product' = Product
        BY <1>1, <1>2, CreatingStages, SameCaller
      <3>2. QED
        BY <3>1
    <2>2. QED
      BY <1>7, <2>1 DEF RunningSound, Products
  <1>11. QED
    BY <1>5, <1>6, <1>7, <1>8, <1>9, <1>10

NoRepeat(l) == \A j, k \in DOMAIN l : l[j] = l[k] => j = k
Starts(l, l2) == \A k \in DOMAIN l : l2[k] = l[k]

LEMMA AppendFacts ==
    ASSUME NEW l \in Seq(Nat), NEW t \in Nat, NEW l2, l2 = Append(l, t)
    PROVE  /\ l2 \in Seq(Nat) /\ Len(l2) = Len(l) + 1 /\ Range(l2) = Range(l) \cup {t}
           /\ Starts(l, l2)
           /\ (t \notin Range(l) /\ NoRepeat(l)) => NoRepeat(l2)
  <1>1. PICK n \in Nat : n = Len(l)
    OBVIOUS
  <1>2. /\ DOMAIN l = 1 .. n /\ DOMAIN l2 = 1 .. n + 1 /\ l2[n + 1] = t /\ l2 \in Seq(Nat)
        /\ \A k \in 1 .. n : l2[k] = l[k]
    BY <1>1
  <1>3. Range(l2) = Range(l) \cup {t}
    <2>1. n + 1 \in DOMAIN l2
      BY <1>2
    <2>2. \A k \in DOMAIN l2 : k \in 1 .. n \/ k = n + 1
      BY <1>2
    <2>3. \A k \in DOMAIN l2 : l2[k] \in Range(l) \cup {t}
      BY <1>2, <2>2 DEF Range
    <2>4. \A k \in DOMAIN l : l[k] \in Range(l2)
      BY <1>2 DEF Range
    <2>5. QED
      BY <1>2, <2>1, <2>3, <2>4 DEF Range
  <1>4. ASSUME t \notin Range(l), \A j, k \in DOMAIN l : l[j] = l[k] => j = k,
               NEW j \in DOMAIN l2, NEW k \in DOMAIN l2, l2[j] = l2[k]
        PROVE  j = k
    <2>1. (j \in 1 .. n \/ j = n + 1) /\ (k \in 1 .. n \/ k = n + 1)
      BY <1>2
    <2>2. \A i \in 1 .. n : l2[i] # t
      BY <1>2, <1>4 DEF Range
    <2>3. QED
      BY <1>2, <1>4, <2>1, <2>2
  <1>5. Len(l2) = Len(l) + 1
    OBVIOUS
  <1>6. QED
    BY <1>2, <1>3, <1>4, <1>5 DEF NoRepeat, Starts

LEMMA StackMadeStructure ==
    ASSUME NoWrap, TasksInv, StackMade
    PROVE  StructureInv'
  <1> USE DEF TasksInv, StructureInv
  <1>1. PICK n, t, p : n = Returned /\ t = parts.task /\ p = parts.process
    OBVIOUS
  <1>2. /\ freeing = <<>> /\ stage = "stack" /\ Allocate("stack") /\ Returned # NONE
        /\ UNCHANGED current_task /\ UNCHANGED session
        /\ memory' = [memory EXCEPT ![t].process = p] /\ task_list' = Append(task_list, t)
        /\ freeing' = <<Self(n)>> /\ Continue("context", parts)
    BY <1>1 DEF StackMade, Gets, Asks
  <1>3. /\ n \in Nat /\ n > task_list[2] + 1 /\ InUse' = InUse \cup {n}
        /\ \A low : low = task_list[2] + 1 => Above(low)'
        /\ n \notin DOMAIN memory /\ n # NONE /\ Unowned(memory, n)
        /\ n \notin Range(task_list) /\ n \notin Range(made)
        /\ n \notin {parts.process, parts.space, parts.task}
        /\ Creating /\ Product \in Products /\ WellOwned(memory, {}, task_list[2])
        /\ NONE \notin DOMAIN memory /\ task_list[2] \in Nat
    BY <1>1, <1>2, GetsFacts DEF PlainKinds, AlignedKinds
  <1>4. /\ Part(t, TaskShape) /\ t > task_list[2] + 1 /\ t \in Nat /\ memory[t].context = NONE
        /\ t \notin Range(task_list)
    BY <1>1, <1>2 DEF PartsSound, TaskPart
  <1>5. /\ t \in DOMAIN memory /\ DOMAIN memory[t] = TaskShape /\ Unowned(memory, t)
        /\ t \notin Range(made) /\ t # task_list[2]
    BY <1>3, <1>4 DEF Part, Has
  <1>6. Rewritten(memory, memory', t, "process", p)
    BY <1>2, ExceptRewrites
  <1>7. PICK S, T, N : /\ Changed(memory, memory', S, T, N) /\ S = {t} /\ T = {} /\ N = {}
    <2>1. "process" \notin Links
      BY DEF Links
    <2>2. Changed(memory, memory', {t}, {}, {})
      BY <1>6, <2>1, RewriteChange
    <2>3. QED
      BY <2>2
  <1>8. /\ task_list' \in Seq(Nat) /\ Len(task_list') = Len(task_list) + 1
        /\ Range(task_list') = Range(task_list) \cup {t}
        /\ \A j, k \in DOMAIN task_list' : task_list'[j] = task_list'[k] => j = k
        /\ Len(task_list') >= 2 /\ task_list'[1] = task_list[1] /\ task_list'[2] = task_list[2]
    <2>1. task_list \in Seq(Nat) /\ NoRepeat(task_list)
      BY DEF ListSound, NoRepeat
    <2>2. /\ task_list' \in Seq(Nat) /\ Len(task_list') = Len(task_list) + 1
          /\ Range(task_list') = Range(task_list) \cup {t}
          /\ Starts(task_list, task_list') /\ NoRepeat(task_list')
      BY <1>2, <1>4, <2>1, AppendFacts
    <2>3. 1 \in DOMAIN task_list /\ 2 \in DOMAIN task_list /\ Len(task_list) \in Nat
      BY <2>1 DEF BootBelow
    <2>4. Len(task_list) >= 2
      BY DEF BootBelow
    <2>5. QED
      BY <2>2, <2>3, <2>4 DEF NoRepeat, Starts
  <1>9. Doomed' = {n} /\ Range(freeing') = {Self(n)} /\ Orderly(freeing')
    BY <1>2, <1>3, OrderlySelf, SelvesFacts DEF Doomed
  <1>10. Ownership'
    <2>1. WellOwned(memory', {}, task_list[2])
      <3>1. "process" \notin Links
        BY DEF Links
      <3>2. QED
        BY <1>3, <1>6, <3>1, RewriteOwned
    <2>2. WellOwned(memory', {n}, task_list[2])
      BY <2>1, MoreDoomed
    <2>3. QED
      BY <1>8, <1>9, <2>2 DEF Ownership
  <1>11. Kept(memory, memory', S)
    BY <1>7 DEF Changed
  <1>12. BootBelow'
    <2>1. DOMAIN memory' \subseteq InUse' \cup BootPlaces
      BY <1>3, <1>7 DEF Changed, BootBelow
    <2>2. PICK low : low = task_list[2] + 1
      OBVIOUS
    <2>3. QED
      BY <1>3, <1>5, <1>7, <1>8, <1>11, <2>1, <2>2, BootKept
  <1>13. /\ ControlSound' /\ Creating' /\ stage' = "context" /\ parts' = parts /\ UNCHANGED made
    <2>1. "context" \in StagesOf(Product)
      BY <1>2, <1>3 DEF StagesOf, Creating, Products
    <2>2. QED
      BY <1>2, <1>3, <2>1, ContinueControl
  <1>14. ListSound'
    <2>1. ASSUME NEW u \in Range(task_list')
          PROVE  /\ Has(memory', u, TaskShape) /\ u \notin Doomed'
                 /\ (memory'[u].context = NONE /\ memory'[u].state = "READY") =>
                       (stage' = "context" /\ u = parts'.task)
      <3>1. CASE u = t
        BY <1>1, <1>3, <1>5, <1>7, <1>9, <1>13, <3>1 DEF Changed, Has
      <3>2. CASE u # t
        <4>1. u \in Range(task_list)
          BY <1>8, <3>2
        <4>2. Has(memory, u, TaskShape)
          BY <4>1, ListedAreTasks
        <4>3. Has(memory', u, TaskShape) /\ u \notin Doomed'
          BY <1>3, <1>7, <1>9, <4>1, <4>2 DEF Changed, Has
        <4>4. memory'[u].context = memory[u].context
          BY <1>7, <1>11, <3>2, <4>2 DEF Kept, Has, TaskShape
        <4>5. memory'[u].state = "READY" => memory[u].state = "READY"
          BY <1>7, <4>2 DEF Changed, Has, TaskShape
        <4>6. ~ (memory[u].context = NONE /\ memory[u].state = "READY")
          BY <1>2, <4>1 DEF ListSound
        <4>7. QED
          BY <4>3, <4>4, <4>5, <4>6
      <3>3. QED
        BY <3>1, <3>2
    <2>2. current_task' = NONE \/ current_task' \in Range(task_list')
      BY <1>2, <1>8 DEF ListSound
    <2>3. QED
      BY <1>8, <2>1, <2>2 DEF ListSound
  <1>15. FreeingSound'
    <2>1. Unowned(memory', n)
      BY <1>3, <1>7 DEF Changed
    <2>2. (Self(n)).of = n /\ (Self(n)).field = "self"
      BY EntryKinds
    <2>3. QED
      BY <1>3, <1>8, <1>9, <2>1, <2>2 DEF FreeingSound, Unowned
  <1>16. PartsSound'
    <2>1. ProcessPart'
      <3>1. Product = "process" =>
               parts.process \notin S /\ parts.process \notin T /\ parts.process \notin Doomed'
        <4>1. Product = "process" => Part(parts.process, ProcessShape)
          BY <1>2, <1>3, PartFacts
        <4>2. QED
          BY <1>3, <1>5, <1>7, <1>9, <4>1, ShapesDiffer DEF Part, Has
      <3>2. ProcessPart
        BY DEF PartsSound
      <3>3. QED
        BY <1>2, <1>3, <1>7, <1>13, <3>1, <3>2, ProcessPartKept
    <2>2. SpacePart'
      <3>1. Product' = Product
        BY <1>2, SameCaller
      <3>2. CASE Product = "process"
        <4>1. PICK s : s = parts.space /\ Has(memory, s, SpaceShape)
                       /\ memory[s].directory # NONE /\ memory[s].tables # NONE
          BY <1>2, <3>2 DEF PartsSound, SpacePart
        <4>2. s \notin S /\ {"directory", "tables"} \subseteq DOMAIN memory[s]
          BY <1>5, <1>7, <4>1, ShapesDiffer DEF Has, SpaceShape
        <4>3. /\ Has(memory', s, SpaceShape) /\ memory'[s].directory # NONE
              /\ memory'[s].tables # NONE
          BY <1>11, <4>1, <4>2 DEF Kept, Has
        <4>4. s \notin Doomed'
          BY <1>3, <1>9, <4>1
        <4>5. QED
          BY <1>13, <3>1, <3>2, <4>1, <4>3, <4>4 DEF SpacePart
      <3>3. CASE Product # "process"
        BY <1>2, <1>13, <3>1, <3>3 DEF PartsSound, SpacePart
      <3>4. QED
        BY <3>2, <3>3
    <2>3. TaskPart'
      <3>1. t \notin Doomed' /\ t \notin T
        BY <1>1, <1>3, <1>7, <1>9
      <3>2. Part(t, TaskShape)'
        BY <1>4, <1>7, <1>13, <3>1, PartKept
      <3>3. memory'[t].context = NONE /\ memory'[t].process = p
        BY <1>4, <1>5, <1>6 DEF Rewritten, TaskShape
      <3>4. parts'.task = t /\ parts'.process = p
        BY <1>1, <1>13
      <3>5. Part(parts.task, TaskShape)'
        BY <3>2, <3>4 DEF Part
      <3>6. QED
        BY <1>4, <1>8, <1>13, <3>3, <3>4, <3>5 DEF TaskPart
    <2>4. QED
      BY <1>13, <2>1, <2>2, <2>3 DEF PartsSound
  <1>17. MadeSound'
    <2>1. ASSUME NEW a \in Range(made), a # NONE PROVE ProductSound(a)'
      <3>1. ProductSound(a)
        BY <2>1 DEF MadeSound, Range
      <3>2. Unowned(memory', a) /\ a \notin Doomed' /\ a \notin S
        BY <1>3, <1>5, <1>7, <1>9, <2>1, <3>1 DEF Changed, ProductSound
      <3>3. Product = "process" => memory[a].task \notin S
        BY <1>4, <1>7, <3>1 DEF ProductSound
      <3>4. QED
        BY <1>2, <1>8, <1>11, <3>1, <3>2, <3>3, ProductKept
    <2>2. QED
      BY <1>13, <2>1, MadeSame
  <1>18. RunningSound'
    BY <1>13 DEF RunningSound
  <1>19. QED
    BY <1>10, <1>12, <1>13, <1>14, <1>15, <1>16, <1>17, <1>18

LEMMA GrowStructure ==
    ASSUME NoWrap, TasksInv, Grow
    PROVE  StructureInv'
  <1> USE DEF TasksInv, StructureInv
  <1>1. PICK n, old : n = Returned /\ old = made[1]
    OBVIOUS
  <1>2. /\ freeing = <<>> /\ UNCHANGED freeing /\ stage = "dispose" /\ Caller.dispose = "grow"
        /\ ~ (Caller.all /\ NONE \in Range(made))
        /\ \/ \E i \in SlotAt(old) : heap_realloc(i, SizeOf.grown)
           \/ Refused(RoundUp(SizeOf.grown), FALSE)
    BY <1>1 DEF Grow, Disposing, Busy
  <1>3. PICK low \in Nat : low = task_list[2] + 1
    BY StructureFacts
  <1>4. /\ Above(low)'
        /\ \/ Denied
           \/ /\ Returned \in Nat \ {0} /\ Returned \notin InUse /\ Returned > low
              /\ old \in InUse /\ InUse' = (InUse \ {old}) \cup {Returned}
    <2>1. Above(low)
      BY <1>3 DEF BootBelow
    <2>2. QED
      BY <1>2, <2>1, GrowEffect
  <1>5. /\ Product = "block" /\ 1 \in DOMAIN made /\ ProductSound(old) /\ session \in 1 .. 13
    <2>1. CallerSound(Caller) /\ session \in 1 .. 13
      BY CallerIsAt DEF ControlSound
    <2>2. Len(made) = 1 /\ made \in Seq(Nat) /\ Caller.all
      BY <1>2, <2>1, AllMade DEF CallerSound
    <2>3. 1 \in DOMAIN made /\ old \in Range(made) /\ old # NONE
      BY <1>1, <1>2, <2>2 DEF Range
    <2>4. ProductSound(old)
      BY <1>1, <2>3 DEF MadeSound
    <2>5. QED
      BY <1>2, <2>1, <2>3, <2>4 DEF Product, ProductOf
  <1>6. CASE Returned = NONE
    <2>1. Return(task_list, current_task) /\ UNCHANGED memory
      BY <1>6 DEF Grow
    <2>2. InUse' = InUse /\ Above(low)'
      BY <1>4, <1>6 DEF Denied, NONE
    <2>3. /\ DOMAIN memory' = DOMAIN memory /\ Kept(memory, memory', {})
          /\ \A t \in Range(task_list) : memory'[t].state = "READY" => memory[t].state = "READY"
      BY <2>1, SameMemory
    <2>4. \A l : l = task_list[2] + 1 => Above(l)'
      BY <1>3, <2>2
    <2>5. stage # "context"
      BY <1>2
    <2>6. QED
      BY <1>2, <2>1, <2>2, <2>3, <2>4, <2>5, ReturnStep
  <1>7. CASE Returned # NONE
    <2> DEFINE r == [image |-> Image(n, SizeOf.grown, page_table')]
               m1 == Without(memory, old)
    <2>1. /\ memory' = Put(m1, n, r) /\ made' = <<n>> /\ stage' = "destroy"
          /\ UNCHANGED task_list /\ UNCHANGED current_task /\ UNCHANGED session
          /\ UNCHANGED making /\ UNCHANGED parts
      BY <1>1, <1>7 DEF Grow
    <2>2. /\ n \in Nat /\ n # NONE /\ n \notin InUse /\ n > low
          /\ InUse' = (InUse \ {old}) \cup {n}
      BY <1>1, <1>4, <1>7 DEF Denied, NONE
    <2>3. /\ DOMAIN r = PlainShape /\ DOMAIN r \in Shapes
          /\ \A f \in DOMAIN r \cap Links : r[f] = NONE
      <3>1. DOMAIN r = PlainShape
        BY DEF PlainShape
      <3> HIDE DEF r
      <3>2. QED
        BY <3>1, ShapeLinks DEF Shapes
    <2>4. /\ n \notin DOMAIN memory /\ Unowned(memory, n) /\ n \notin Range(task_list)
      BY <1>2, <1>3, <2>2, FreshAddress
    <2>5. Doomed = {} /\ Doomed' = {} /\ Range(freeing') = {} /\ Orderly(freeing')
      BY <1>2, OrderlyEmpty, SelvesFacts DEF Doomed
    <2>6. /\ old \in DOMAIN memory /\ Unowned(memory, old) /\ DOMAIN memory[old] = PlainShape
          /\ old \notin Range(task_list) /\ old > low /\ old \in Nat
      <3>1. old \in DOMAIN memory /\ Unowned(memory, old) /\ DOMAIN memory[old] = PlainShape
            /\ old > low
        BY <1>3, <1>5 DEF ProductSound
      <3>2. old \notin Range(task_list)
        BY <3>1, ListedAreTasks, ShapesDiffer DEF Has
      <3>3. QED
        BY <3>1, <3>2, StructureFacts
    <2> HIDE DEF r, m1
    <2>7. Dropped(memory, m1, old) /\ Added(m1, memory', n, r)
      BY <2>1, WithoutDrops, PutAdds DEF m1
    <2>8. WellOwned(m1, {}, task_list[2]) /\ Kept(memory, m1, {old}) /\ Unowned(m1, n)
      <3>1. WellOwned(memory, {}, task_list[2])
        BY <2>5 DEF Ownership
      <3>2. \A a \in DOMAIN memory : \A f \in LinksOf(memory, a) :
               (memory[a][f] = old /\ old # NONE) => (a = old \/ a \in {})
        BY <2>6 DEF Unowned
      <3>3. WellOwned(m1, {}, task_list[2])
        BY <2>7, <3>1, <3>2, DropOwned
      <3>4. QED
        BY <2>4, <2>7, <3>3, DroppedKept
    <2>9. /\ DOMAIN m1 = DOMAIN memory \ {old} /\ n \notin DOMAIN m1 /\ NONE \notin DOMAIN m1
          /\ DOMAIN memory' = (DOMAIN memory \ {old}) \cup {n} /\ task_list[2] \in Nat
          /\ memory'[n] = r /\ \A a \in DOMAIN memory : a # old => memory'[a] = memory[a]
      BY <2>4, <2>7, StructureFacts DEF Dropped, Added
    <2>10. WellOwned(memory', {}, task_list[2]) /\ Changed(m1, memory', {}, {NONE}, {n})
      BY <2>2, <2>3, <2>7, <2>8, <2>9, AddUnlinked
    <2>11. Kept(memory, memory', {old})
      BY <2>9 DEF Kept
    <2>12. Ownership'
      BY <2>1, <2>5, <2>10 DEF Ownership
    <2>13. BootBelow'
      <3>1. old \notin BootPlaces
        <4>1. task_list[1] \in Nat /\ task_list[2] = task_list[1] + 1
          BY DEF BootBelow
        <4>2. QED
          BY <1>3, <2>6, <4>1 DEF BootPlaces
      <3>2. DOMAIN memory' \subseteq InUse' \cup BootPlaces
        BY <2>2, <2>9, <3>1 DEF BootBelow
      <3>3. Len(task_list') >= 2 /\ task_list[2] \notin {old}
        BY <2>1, <2>6, StructureFacts DEF BootBelow
      <3>4. QED
        BY <1>3, <1>4, <2>1, <2>11, <3>2, <3>3, BootKept
    <2>14. ListSound'
      <3>1. \A t \in Range(task_list) : /\ t \notin {old} /\ t \notin Doomed'
               /\ (memory'[t].state = "READY" => memory[t].state = "READY")
        BY <2>5, <2>6, <2>9, StructureFacts
      <3>2. (current_task' = NONE \/ current_task' \in Range(task_list)) /\ stage # "context"
        BY <1>2, <2>1 DEF ListSound
      <3>3. QED
        BY <2>1, <2>11, <3>1, <3>2, ListKept
    <2>15. FreeingSound'
      BY <2>5 DEF FreeingSound
    <2>16. Product' = "block" /\ ~ Creating /\ Caller' = Caller /\ (InShell' <=> InShell)
      BY <1>2, <1>5, <2>1, SameCaller, NotCreating
    <2>17. ControlSound'
      <3>1. ~ Creating'
        BY <2>1, <2>16 DEF Creating, StagesOf
      <3>2. made' \in Seq(Nat)
        BY <2>1, <2>2
      <3>3. making' = making /\ freeing' = <<>>
        BY <1>2, <2>1
      <3>4. making = <<>>
        BY <1>2, AllMade
      <3>5. (InShell' /\ stage' # "running") => current_task' = NONE
        BY <1>2, <2>1, <2>16 DEF ControlSound
      <3>6. making' \in Seq({Product'})
        BY <3>3, <3>4
      <3>7. QED
        BY <1>2, <1>5, <2>1, <2>16, <3>1, <3>2, <3>3, <3>4, <3>5, <3>6 DEF ControlSound
    <2>18. PartsSound'
      <3>1. parts' = NoParts
        BY <2>1, <2>16 DEF PartsSound
      <3>2. QED
        BY <2>1, <2>17, <3>1, PartsEmpty
    <2>19. ProductSound(n)'
      <3>1. Unowned(memory', n)
        BY <2>2, <2>8, <2>10 DEF Changed
      <3>2. n > task_list'[2] + 1
        BY <1>3, <2>1, <2>2
      <3>3. QED
        BY <2>3, <2>5, <2>9, <2>16, <3>1, <3>2 DEF ProductSound
    <2>20. MadeSound'
      <3>1. made' = Append(<<>>, n)
        BY <2>1
      <3>2. DOMAIN made' = {1} /\ made'[1] = n
        BY <2>1
      <3>3. \A k \in DOMAIN made' : \E a : a = made'[k] /\ ProductSound(a)'
        BY <2>19, <3>2
      <3>4. \A k \in DOMAIN made' : made'[k] = NONE \/ ProductSound(made[k])'
        BY <3>3
      <3>5. QED
        BY <3>2, <3>4 DEF MadeSound
    <2>21. RunningSound'
      BY <2>1 DEF RunningSound
    <2>22. QED
      BY <2>12, <2>13, <2>14, <2>15, <2>17, <2>18, <2>20, <2>21
  <1>8. QED
    BY <1>6, <1>7

(* Taking a task off the list: l2 is l without the tasks of R, not its first two. *)
Shortened(l, l2, R) ==
    /\ l2 \in Seq(Nat) /\ Len(l2) >= 2 /\ l2[1] = l[1] /\ l2[2] = l[2]
    /\ NoRepeat(l2) /\ Range(l2) = Range(l) \ R

LEMMA RemoveFacts ==
    ASSUME NEW l \in Seq(Nat), NoRepeat(l), NEW k \in DOMAIN l, k >= 3, NEW l2,
           l2 = RemoveAt(l, k)
    PROVE  Shortened(l, l2, {l[k]})
  <1>1. PICK n \in Nat : n = Len(l)
    OBVIOUS
  <1>2. DOMAIN l = 1 .. n /\ k \in 3 .. n
    BY <1>1
  <1> DEFINE u == SubSeq(l, 1, k - 1)
             v == SubSeq(l, k + 1, n)
  <1>3. /\ u \in Seq(Nat) /\ Len(u) = k - 1 /\ \A i \in 1 .. k - 1 : u[i] = l[i]
    BY <1>1, <1>2
  <1>4. /\ v \in Seq(Nat) /\ Len(v) = n - k /\ \A i \in 1 .. n - k : v[i] = l[k + i]
    <2>1. CASE k = n
      BY <1>1, <1>2, <2>1
    <2>2. CASE k # n
      <3>1. k + 1 \in 1 .. n /\ n \in 1 .. n
        BY <1>2, <2>2
      <3>2. v \in Seq(Nat) /\ Len(v) = n - (k + 1) + 1
        BY <1>1, <1>2, <3>1
      <3>3. \A i \in 1 .. n - k : v[i] = l[(k + 1) + i - 1]
        BY <1>1, <1>2, <3>1
      <3>4. \A i \in 1 .. n - k : (k + 1) + i - 1 = k + i
        BY <1>2
      <3>5. n - (k + 1) + 1 = n - k
        BY <1>2
      <3>6. QED
        BY <3>2, <3>3, <3>4, <3>5
    <2>3. QED
      BY <2>1, <2>2
  <1>5. l2 = u \o v
    BY <1>1 DEF RemoveAt
  <1> HIDE DEF u, v
  <1>6. /\ l2 \in Seq(Nat) /\ Len(l2) = n - 1
        /\ \A i \in 1 .. k - 1 : l2[i] = u[i]
        /\ \A i \in k .. n - 1 : l2[i] = v[i - (k - 1)]
    <2>1. u \in Seq(Nat) /\ v \in Seq(Nat)
      BY <1>3, <1>4
    <2>2. PICK a \in Nat, b \in Nat : a = Len(u) /\ b = Len(v)
      BY <2>1
    <2>3. /\ l2 \in Seq(Nat) /\ Len(l2) = a + b
          /\ \A i \in 1 .. a : l2[i] = u[i]
          /\ \A i \in a + 1 .. a + b : l2[i] = v[i - a]
      BY <1>5, <2>1, <2>2
    <2>4. a = k - 1 /\ b = n - k /\ a + b = n - 1 /\ a + 1 = k
      BY <1>2, <1>3, <1>4, <2>2
    <2>5. QED
      BY <2>3, <2>4
  <1>7. DOMAIN l2 = 1 .. n - 1
    BY <1>6
  <1>8. ASSUME NEW i \in 1 .. n - 1 PROVE l2[i] = IF i < k THEN l[i] ELSE l[i + 1]
    <2> i \in Nat /\ k \in Nat /\ i >= 1 /\ i <= n - 1 /\ k <= n
      BY <1>2
    <2>1. CASE i < k
      <3>1. i \in 1 .. k - 1
        BY <2>1
      <3>2. l2[i] = u[i] /\ u[i] = l[i]
        BY <1>3, <1>6, <3>1
      <3>3. QED
        BY <2>1, <3>2
    <2>2. CASE ~ (i < k)
      <3>1. i - (k - 1) \in 1 .. n - k /\ i \in k .. n - 1 /\ k + (i - (k - 1)) = i + 1
        BY <2>2
      <3>2. PICK j \in 1 .. n - k : j = i - (k - 1) /\ i \in k .. n - 1 /\ k + j = i + 1
        BY <3>1
      <3>3. l2[i] = v[j]
        BY <1>6, <3>2
      <3>4. v[j] = l[k + j]
        BY <1>4, <3>2
      <3>5. QED
        BY <2>2, <3>2, <3>3, <3>4
    <2>3. QED
      BY <2>1, <2>2
  <1>9. Len(l2) >= 2 /\ l2[1] = l[1] /\ l2[2] = l[2]
    BY <1>2, <1>6, <1>8
  <1>10. ASSUME NEW i \in 1 .. n - 1, NEW j \in 1 .. n - 1, l2[i] = l2[j] PROVE i = j
    <2>1. PICK x \in 1 .. n, y \in 1 .. n : /\ x = IF i < k THEN i ELSE i + 1
                                            /\ y = IF j < k THEN j ELSE j + 1
      BY <1>2
    <2>2. l2[i] = l[x] /\ l2[j] = l[y]
      BY <1>8, <2>1
    <2>3. x = y
      BY <1>2, <1>10, <2>2 DEF NoRepeat
    <2>4. QED
      BY <1>2, <2>1, <2>3
  <1>11. Range(l2) = Range(l) \ {l[k]}
    <2>1. ASSUME NEW i \in 1 .. n - 1 PROVE l2[i] \in Range(l) \ {l[k]}
      <3>1. PICK x \in 1 .. n : x = (IF i < k THEN i ELSE i + 1) /\ x # k
        BY <1>2
      <3>2. l2[i] = l[x]
        BY <1>8, <3>1
      <3>3. l[x] # l[k]
        BY <1>2, <3>1 DEF NoRepeat
      <3>4. QED
        BY <1>2, <3>2, <3>3 DEF Range
    <2>2. ASSUME NEW x \in 1 .. n, l[x] # l[k] PROVE l[x] \in Range(l2)
      <3>1. PICK i \in 1 .. n - 1 : x = IF i < k THEN i ELSE i + 1
        <4>1. CASE x < k
          BY <1>2, <4>1
        <4>2. CASE x > k
          <5>1. x - 1 \in 1 .. n - 1 /\ ~ (x - 1 < k) /\ x = (x - 1) + 1
            BY <1>2, <4>2
          <5>2. QED
            BY <5>1
        <4>3. x # k
          BY <2>2
        <4>4. QED
          BY <1>2, <4>1, <4>2, <4>3
      <3>2. l2[i] = l[x]
        BY <1>8, <3>1
      <3>3. QED
        BY <1>7, <3>2 DEF Range
    <2>3. QED
      BY <1>2, <1>7, <2>1, <2>2 DEF Range
  <1>12. QED
    BY <1>6, <1>7, <1>9, <1>10, <1>11 DEF NoRepeat, Shortened

(* What a structure owns was made after the boot program's task, unless it is that one. *)
LEMMA LinkAbove ==
    ASSUME TasksInv, NEW a \in DOMAIN memory, NEW f \in LinksOf(memory, a), memory[a][f] # NONE,
           a # task_list[2]
    PROVE  memory[a][f] \in Nat /\ memory[a][f] > task_list[2] + 1
  <1> USE DEF TasksInv, StructureInv
  <1>1. PICK v : v = memory[a][f]
    OBVIOUS
  <1>2. v \in Nat /\ v > task_list[2] /\ v # NONE
    BY <1>1 DEF Ownership, WellOwned
  <1>3. Has(memory, task_list[2], TaskShape)
    BY StructureFacts, ListedAreTasks
  <1>4. task_list[2] \in DOMAIN memory /\ "context" \in LinksOf(memory, task_list[2])
    BY <1>3 DEF Has, LinksOf, Links, TaskShape
  <1>5. memory[task_list[2]].context = v => task_list[2] = a
    BY <1>1, <1>2, <1>4 DEF Ownership, WellOwned
  <1>6. QED
    BY <1>1, <1>2, <1>5, StructureFacts DEF BootBelow

(* The queue q frees what the structures of D own, but for spaces and tasks. *)
Drains(q, D) ==
    \A b \in D : b \in DOMAIN memory =>
       \A f \in LinksOf(memory, b) : f \in {"space", "task"} \/ Field(b, f) \in Range(q)

LEMMA DrainConcat ==
    ASSUME NEW p, NEW q, NEW D, NEW E, QueueSound(p, D), QueueSound(q, E), D \cap E = {},
           Drains(p, D), Drains(q, E)
    PROVE  Drains(p \o q, D \cup E)
  <1>1. Range(p \o q) = Range(p) \cup Range(q)
    BY OrderlyConcat DEF QueueSound
  <1>2. QED
    BY <1>1 DEF Drains

LEMMA DrainSelf ==
    ASSUME NEW a, a \in DOMAIN memory => DOMAIN memory[a] \in {PlainShape, ProcessShape}
    PROVE  Drains(<<Self(a)>>, {a})
  <1>1. a \in DOMAIN memory => LinksOf(memory, a) \subseteq {"space", "task"}
    BY ShapeLinks DEF LinksOf
  <1>2. QED
    BY <1>1 DEF Drains

LEMMA DrainSpace ==
    ASSUME NEW a \in Nat, Has(memory, a, SpaceShape)
    PROVE  Drains(SpaceDoom(a), {a})
  <1>1. LinksOf(memory, a) = {"directory", "tables"}
    BY ShapeLinks DEF LinksOf, Has
  <1>2. Range(SpaceDoom(a)) = {Field(a, "tables"), Field(a, "directory"), Self(a)}
    BY OrderlySpace
  <1>3. QED
    BY <1>1, <1>2 DEF Drains

LEMMA QueueTask ==
    ASSUME TasksInv, NEW t \in Range(task_list), t > task_list[2] + 1
    PROVE  \E R : /\ QueueSound(TaskDoom(t), R) /\ R \subseteq {t} /\ current_task \notin R
                  /\ R = {x \in {t} : Destructible(x)} /\ Drains(TaskDoom(t), R)
  <1>1. Has(memory, t, TaskShape) /\ t \in Nat
    BY StructureFacts, ListedAreTasks
  <1>2. CASE Destructible(t)
    <2>1. TaskDoom(t) = <<Field(t, "context"), Self(t)>>
      BY <1>2 DEF TaskDoom
    <2>2. QueueSound(<<Field(t, "context"), Self(t)>>, {t})
      BY <1>1, QueueField DEF Has, TaskShape
    <2>3. current_task \notin {t} /\ {t} = {x \in {t} : Destructible(x)}
      BY <1>2 DEF Destructible
    <2>4. Drains(TaskDoom(t), {t})
      <3>1. Range(<<Field(t, "context"), Self(t)>>) = {Field(t, "context"), Self(t)}
        BY <1>1, OrderlyField
      <3>2. LinksOf(memory, t) = {"context"}
        BY <1>1, ShapeLinks DEF LinksOf, Has
      <3>3. QED
        BY <2>1, <3>1, <3>2 DEF Drains
    <2>5. QED
      BY <2>1, <2>2, <2>3, <2>4
  <1>3. CASE ~ Destructible(t)
    <2>1. TaskDoom(t) = <<>> /\ {} = {x \in {t} : Destructible(x)}
      BY <1>3 DEF TaskDoom
    <2>2. QED
      BY <2>1, QueueEmpty DEF Drains
  <1>4. QED
    BY <1>2, <1>3

(* What disposing of a frees: D, of which R are tasks that leave the list. *)
DoomSound(a, D, R) ==
    /\ QueueSound(Doom(a), D)
    /\ R = {x \in TaskOf(a) : Destructible(x)} /\ D \cap Range(task_list) \subseteq R
    /\ \E t \in Range(task_list) : R \subseteq {t} /\ current_task \notin R
    /\ \A x \in R : x > task_list[2] + 1
    /\ \A x \in DOMAIN memory : \A f \in LinksOf(memory, x) : memory[x][f] \in D => x \in D
    /\ \A b \in Range(made) : (b # a /\ b # NONE) =>
          /\ b \notin D /\ b \notin R
          /\ Product = "process" => memory[b].task \notin R
    /\ R \subseteq D /\ Drains(Doom(a), D)
    /\ a \in D \/ a \in Range(task_list) \/ Product = "none"
    /\ \A b \in D : b \in DOMAIN memory => \A f \in LinksOf(memory, b) :
          f \in {"space", "task"} => memory[b][f] \in D \/ memory[b][f] \in Range(task_list)

LEMMA DoomIsSound ==
    ASSUME TasksInv, freeing = <<>>, stage = "destroy", NEW a \in Range(made), a # NONE
    PROVE  \E D, R : DoomSound(a, D, R)
  <1> USE DEF TasksInv, StructureInv
  <1>1. ProductSound(a) /\ \A b \in Range(made) : b # NONE => ProductSound(b)
    BY DEF MadeSound, Range
  <1>2. WellOwned(memory, {}, task_list[2])
    BY OrderlyEmpty, SelvesFacts DEF Doomed, Ownership
  <1>3. a \in DOMAIN memory /\ a \in Nat /\ a > task_list[2] + 1 /\ Unowned(memory, a)
    BY <1>1, StructureFacts DEF ProductSound
  <1>4. CallerSound(Caller) /\ Caller.dispose # "keep"
    BY CallerIsAt DEF ControlSound
  <1>5. Caller.dispose \in Disposals
    BY <1>4 DEF CallerSound
  <1>6. \A t \in Range(task_list) : Has(memory, t, TaskShape)
    BY ListedAreTasks
  <1>7. task_list[1] \in Range(task_list)
    BY StructureFacts
  <1> DEFINE Safe(b, D) == b \in DOMAIN memory => \A f \in LinksOf(memory, b) :
          f \in {"space", "task"} => memory[b][f] \in D \/ memory[b][f] \in Range(task_list)
  <1>8. ASSUME NEW b, NEW D, b \in DOMAIN memory, DOMAIN memory[b] # ProcessShape
        PROVE  Safe(b, D)
    <2>1. DOMAIN memory[b] \in Shapes
      BY <1>8, <1>2 DEF WellOwned
    <2>2. "space" \notin LinksOf(memory, b) /\ "task" \notin LinksOf(memory, b)
      BY <1>8, <2>1, ShapeLinks DEF Shapes, LinksOf
    <2>3. QED
      BY <2>2
  <1> HIDE DEF Safe
  <1>9. CASE Caller.dispose \in {"block", "grow"}
    <2>1. Doom(a) = <<Self(a)>> /\ TaskOf(a) = {} /\ Product = "block"
      BY <1>9 DEF Doom, TaskOf, Product, ProductOf
    <2>2. QueueSound(<<Self(a)>>, {a})
      BY <1>3, QueueSelf
    <2>3. a \notin Range(task_list)
      BY <1>1, <1>6, <2>1, ShapesDiffer DEF ProductSound, Has
    <2>4. DOMAIN memory[a] = PlainShape
      BY <1>1, <2>1 DEF ProductSound
    <2>5. Drains(<<Self(a)>>, {a}) /\ Safe(a, {a})
      BY <1>8, <1>3, <2>4, DrainSelf, ShapesDiffer
    <2>6. DoomSound(a, {a}, {})
      BY <1>3, <1>7, <2>1, <2>2, <2>3, <2>5 DEF DoomSound, Unowned, Safe
    <2>7. QED
      BY <2>6
  <1>10. CASE Caller.dispose = "space"
    <2>1. Doom(a) = SpaceDoom(a) /\ TaskOf(a) = {} /\ Product = "space"
      BY <1>10 DEF Doom, TaskOf, Product, ProductOf
    <2>2. DOMAIN memory[a] = SpaceShape
      BY <1>1, <2>1 DEF ProductSound
    <2>3. QueueSound(SpaceDoom(a), {a})
      BY <1>3, <2>2, QueueSpace DEF Has
    <2>4. a \notin Range(task_list)
      BY <1>6, <2>2, ShapesDiffer DEF Has
    <2>5. Drains(SpaceDoom(a), {a}) /\ Safe(a, {a})
      BY <1>8, <1>3, <2>2, DrainSpace, ShapesDiffer DEF Has
    <2>6. DoomSound(a, {a}, {})
      BY <1>3, <1>7, <2>1, <2>3, <2>4, <2>5 DEF DoomSound, Unowned, Safe
    <2>7. QED
      BY <2>6
  <1>11. CASE Caller.dispose \in {"process", "instance", "identity"}
    <2>1. Product = "process"
      BY <1>11 DEF Product, ProductOf
    <2>2. PICK s, t : s = memory[a].space /\ t = memory[a].task
      OBVIOUS
    <2>3. DOMAIN memory[a] = ProcessShape /\ s # NONE /\ t \in Range(task_list)
      BY <1>1, <2>1, <2>2 DEF ProductSound
    <2>4. {"space", "task"} \subseteq LinksOf(memory, a)
      BY <2>3 DEF LinksOf, Links, ProcessShape
    <2>5. t # NONE /\ Has(memory, t, TaskShape) /\ a # task_list[2]
      BY <1>3, <1>6, <2>3, StructureFacts DEF Has
    <2>6. /\ s \in Nat /\ s > task_list[2] + 1 /\ t \in Nat /\ t > task_list[2] + 1
      BY <1>3, <2>2, <2>3, <2>4, <2>5, LinkAbove
    <2>7. Has(memory, s, SpaceShape)
      BY <1>2, <1>3, <2>2, <2>3, <2>4 DEF WellOwned, Has, Target
    <2>8. s # a /\ s # t /\ a # t /\ a \notin Range(task_list) /\ s \notin Range(task_list)
      BY <1>6, <2>3, <2>5, <2>7, ShapesDiffer DEF Has
    <2>9. \A x \in DOMAIN memory : \A f \in LinksOf(memory, x) :
             /\ memory[x][f] \in {s, t} => x = a
             /\ memory[x][f] # a
      BY <1>2, <1>3, <2>2, <2>3, <2>4, <2>5 DEF WellOwned, Unowned
    <2>10. ASSUME NEW b \in Range(made), b # a, b # NONE
           PROVE  b \notin {s, t, a} /\ memory[b].task # t
      <3>1. /\ b \in DOMAIN memory /\ DOMAIN memory[b] = ProcessShape /\ Unowned(memory, b)
        BY <1>1, <2>1, <2>10 DEF ProductSound
      <3>2. "task" \in LinksOf(memory, b)
        BY <3>1 DEF LinksOf, Links, ProcessShape
      <3>3. b # s /\ b # t
        BY <2>5, <2>7, <3>1, ShapesDiffer DEF Has
      <3>4. QED
        BY <2>9, <2>10, <3>1, <3>2, <3>3
    <2>11. QueueSound(SpaceDoom(s), {s}) /\ QueueSound(<<Self(a)>>, {a})
      BY <1>3, <2>6, <2>7, QueueSpace, QueueSelf
    <2>12. Drains(SpaceDoom(s), {s}) /\ Drains(<<Self(a)>>, {a})
      BY <1>3, <2>3, <2>6, <2>7, DrainSpace, DrainSelf
    <2>13. ASSUME NEW D, s \in D PROVE Safe(s, D) /\ Safe(t, D) /\ Safe(a, D)
      <3>1. Safe(s, D) /\ Safe(t, D)
        BY <1>8, <2>5, <2>7, ShapesDiffer DEF Has
      <3>2. LinksOf(memory, a) = {"space", "task"}
        BY <2>3, ShapeLinks DEF LinksOf
      <3>3. QED
        BY <2>2, <2>3, <2>13, <3>1, <3>2 DEF Safe
    <2>14. CASE Caller.dispose = "instance"
      <3>1. Doom(a) = SpaceDoom(s) \o <<Self(a)>> /\ TaskOf(a) = {}
        BY <2>2, <2>14 DEF Doom, TaskOf
      <3>2. QueueSound(SpaceDoom(s) \o <<Self(a)>>, {s} \cup {a})
        BY <2>8, <2>11, QueueConcat
      <3>3. Drains(SpaceDoom(s) \o <<Self(a)>>, {s} \cup {a})
        BY <2>8, <2>11, <2>12, DrainConcat
      <3>4. \A b \in {s} \cup {a} : Safe(b, {s} \cup {a})
        BY <2>13
      <3>5. DoomSound(a, {s} \cup {a}, {})
        BY <1>7, <2>8, <2>9, <2>10, <3>1, <3>2, <3>3, <3>4 DEF DoomSound, Safe
      <3>6. QED
        BY <3>5
    <2>15. CASE Caller.dispose \in {"process", "identity"}
      <3>1. Doom(a) = (TaskDoom(t) \o SpaceDoom(s)) \o <<Self(a)>> /\ TaskOf(a) = {t}
        BY <2>2, <2>15 DEF Doom, TaskOf, ProcessDoom
      <3>2. PICK R : /\ QueueSound(TaskDoom(t), R) /\ R \subseteq {t} /\ current_task \notin R
                     /\ R = {x \in {t} : Destructible(x)} /\ Drains(TaskDoom(t), R)
        BY <2>3, <2>6, QueueTask
      <3>3. QueueSound(TaskDoom(t) \o SpaceDoom(s), R \cup {s})
        BY <2>8, <2>11, <3>2, QueueConcat
      <3>4. QueueSound((TaskDoom(t) \o SpaceDoom(s)) \o <<Self(a)>>, (R \cup {s}) \cup {a})
        BY <2>8, <2>11, <3>2, <3>3, QueueConcat
      <3>5. Drains(TaskDoom(t) \o SpaceDoom(s), R \cup {s})
        BY <2>8, <2>11, <2>12, <3>2, DrainConcat
      <3>6. Drains((TaskDoom(t) \o SpaceDoom(s)) \o <<Self(a)>>, (R \cup {s}) \cup {a})
        BY <2>8, <2>11, <2>12, <3>2, <3>3, <3>5, DrainConcat
      <3>7. PICK D : D = (R \cup {s}) \cup {a}
        OBVIOUS
      <3>8. DoomSound(a, D, R)
        <4>1. QueueSound(Doom(a), D)
          BY <3>1, <3>4, <3>7
        <4>2. /\ R = {x \in TaskOf(a) : Destructible(x)} /\ D \cap Range(task_list) \subseteq R
              /\ \E y \in Range(task_list) : R \subseteq {y} /\ current_task \notin R
              /\ \A x \in R : x > task_list[2] + 1
          BY <2>3, <2>6, <2>8, <3>1, <3>2, <3>7
        <4>3. \A x \in DOMAIN memory : \A f \in LinksOf(memory, x) : memory[x][f] \in D => x \in D
          BY <2>9, <3>2, <3>7
        <4>4. \A b \in Range(made) : (b # a /\ b # NONE) =>
                 b \notin D /\ b \notin R /\ memory[b].task \notin R
          BY <2>10, <3>2, <3>7
        <4>5. /\ R \subseteq D /\ Drains(Doom(a), D) /\ a \in D
              /\ \A b \in D : Safe(b, D)
          BY <2>13, <3>1, <3>2, <3>7, <3>6
        <4>6. QED
          BY <4>1, <4>2, <4>3, <4>4, <4>5 DEF DoomSound, Safe
      <3>9. QED
        BY <3>8
    <2>16. QED
      BY <1>11, <2>14, <2>15
  <1>12. CASE Caller.dispose = "program"
    <2>1. Doom(a) = TaskDoom(a) /\ TaskOf(a) = {} /\ Product = "none"
      BY <1>12 DEF Doom, TaskOf, Product, ProductOf
    <2>2. a \notin Range(task_list)
      BY <1>1, <1>6, <2>1, ShapesDiffer DEF ProductSound, Has
    <2>3. TaskDoom(a) = <<>>
      BY <2>2 DEF TaskDoom, Destructible
    <2>4. DoomSound(a, {}, {})
      BY <1>7, <2>1, <2>3, QueueEmpty DEF DoomSound, Drains
    <2>5. QED
      BY <2>4
  <1>13. CASE Caller.dispose \in {"terminate", "utility"}
    <2>1. Doom(a) = TaskDoom(a) /\ TaskOf(a) = {a} /\ Product = "task"
      BY <1>13 DEF Doom, TaskOf, Product, ProductOf
    <2>2. a \in Range(task_list)
      BY <1>1, <2>1 DEF ProductSound
    <2>3. PICK R : /\ QueueSound(TaskDoom(a), R) /\ R \subseteq {a} /\ current_task \notin R
                   /\ R = {x \in {a} : Destructible(x)} /\ Drains(TaskDoom(a), R)
      BY <1>3, <2>2, QueueTask
    <2>4. \A b \in R : Safe(b, R)
      BY <1>8, <1>6, <2>2, <2>3, ShapesDiffer DEF Has
    <2>5. DoomSound(a, R, R)
      BY <1>3, <2>1, <2>2, <2>3, <2>4 DEF DoomSound, Unowned, Safe
    <2>6. QED
      BY <2>5
  <1>14. QED
    BY <1>4, <1>5, <1>9, <1>10, <1>11, <1>12, <1>13 DEF Disposals

LEMMA ListShrinks ==
    ASSUME TasksInv, NEW t \in Range(task_list), NEW R, R \subseteq {t},
           \A x \in R : x > task_list[2] + 1, NEW found,
           found = {k \in DOMAIN task_list : task_list[k] \in R}, NEW list,
           list = IF found = {} THEN task_list ELSE RemoveAt(task_list, CHOOSE k \in found : TRUE)
    PROVE  Shortened(task_list, list, R)
  <1> USE DEF TasksInv, StructureInv
  <1>1. task_list \in Seq(Nat) /\ NoRepeat(task_list) /\ Len(task_list) >= 2
    BY DEF ListSound, NoRepeat, BootBelow
  <1>2. CASE R = {}
    <2>1. found = {} /\ list = task_list
      BY <1>2
    <2>2. QED
      BY <1>1, <1>2, <2>1 DEF Shortened
  <1>3. CASE R = {t}
    <2>1. PICK k \in DOMAIN task_list : task_list[k] = t
      BY DEF Range
    <2>2. found = {k}
      BY <1>1, <1>3, <2>1 DEF NoRepeat
    <2>3. (CHOOSE i \in found : TRUE) = k
      BY <2>2
    <2>4. list = RemoveAt(task_list, k)
      BY <2>2, <2>3
    <2>5. task_list[1] \in Nat /\ task_list[2] = task_list[1] + 1 /\ t \in Nat
      BY StructureFacts DEF BootBelow
    <2>6. t > task_list[2] + 1
      BY <1>3
    <2>7. k # 1 /\ k # 2
      BY <2>1, <2>5, <2>6
    <2>8. k \in Nat /\ k >= 1
      BY <1>1
    <2>9. k >= 3
      BY <2>7, <2>8
    <2>10. Shortened(task_list, list, {task_list[k]})
      BY <1>1, <2>4, <2>9, RemoveFacts
    <2>11. QED
      BY <1>3, <2>1, <2>10
  <1>4. QED
    BY <1>2, <1>3

LEMMA MadeFrom ==
    ASSUME \A j, k \in DOMAIN made' : (made'[j] = made'[k] /\ made'[j] # NONE) => j = k,
           \A b \in Range(made') : b = NONE \/ ProductSound(b)'
    PROVE  MadeSound'
  <1>1. \A k \in DOMAIN made' : \E a : a = made'[k] /\ (a = NONE \/ ProductSound(a)')
    BY DEF Range
  <1>2. \A k \in DOMAIN made' : made'[k] = NONE \/ ProductSound(made[k])'
    BY <1>1
  <1>3. QED
    BY <1>2 DEF MadeSound

LEMMA DestroyNextStructure ==
    ASSUME TasksInv, DestroyNext
    PROVE  StructureInv'
  <1> USE DEF TasksInv, StructureInv
  <1>1. /\ freeing = <<>> /\ stage = "destroy" /\ made # <<>> /\ made' = Tail(made)
        /\ UNCHANGED heapVars /\ UNCHANGED memory /\ UNCHANGED current_task /\ UNCHANGED session
        /\ UNCHANGED making /\ UNCHANGED stage /\ UNCHANGED parts
    BY DEF DestroyNext, Busy
  <1>2. PICK a : a = Head(made)
    OBVIOUS
  <1>3. /\ made' \in Seq(Nat) /\ a \in Range(made) /\ Range(made') \subseteq Range(made)
        /\ \A j, k \in DOMAIN made' : (made'[j] = made'[k] /\ made'[j] # NONE) => j = k
        /\ \A b \in Range(made') : b = NONE \/ b # a
    <2>1. made \in Seq(Nat)
      BY DEF ControlSound
    <2>2. PICK n \in Nat : Len(made) = n + 1
      BY <1>1, <2>1
    <2>3. /\ DOMAIN made = 1 .. n + 1 /\ DOMAIN made' = 1 .. n /\ a = made[1] /\ made' \in Seq(Nat)
          /\ \A k \in 1 .. n : made'[k] = made[k + 1]
      BY <1>1, <1>2, <2>1, <2>2
    <2>4. \A k \in 1 .. n : k + 1 \in DOMAIN made /\ k + 1 # 1 /\ k \in Nat
      BY <2>3
    <2>5. 1 \in DOMAIN made
      BY <2>3
    <2>6. ASSUME NEW j \in 1 .. n, NEW k \in 1 .. n, made'[j] = made'[k], made'[j] # NONE
          PROVE  j = k
      <3>1. j + 1 = k + 1
        BY <2>3, <2>4, <2>6 DEF MadeSound
      <3>2. QED
        BY <3>1
    <2>7. \A k \in 1 .. n : made'[k] \in Range(made)
      BY <2>3, <2>4 DEF Range
    <2>8. \A k \in 1 .. n : made'[k] = NONE \/ made'[k] # a
      BY <2>3, <2>4, <2>5 DEF MadeSound
    <2>9. QED
      BY <2>3, <2>5, <2>6, <2>7, <2>8 DEF Range
  <1>4. InUse' = InUse /\ \A low : low = task_list[2] + 1 => Above(low)'
    BY <1>1, SameHeap
  <1>5. ~ Creating /\ Product \in Products /\ Product' = Product /\ Caller' = Caller
        /\ (InShell' <=> InShell) /\ ~ Creating'
    BY <1>1, NotCreating, SameCaller DEF Creating
  <1>6. ControlSound'
    <2>1. /\ session' \in 1 .. 13 /\ making' \in Seq({Product'}) /\ made' \in Seq(Nat)
          /\ making = <<>> /\ making' = <<>> /\ stage' = "destroy" /\ parts' = NoParts
      BY <1>1, <1>3, <1>5 DEF ControlSound, PartsSound
    <2>2. (InShell' /\ stage' # "running") => current_task' = NONE
      BY <1>1, <1>5 DEF ControlSound
    <2>3. Caller'.dispose # "keep"
      BY <1>1, <1>5 DEF ControlSound
    <2>4. QED
      BY <1>5, <2>1, <2>2, <2>3 DEF ControlSound
  <1>7. PartsSound'
    <2>1. parts' = NoParts
      BY <1>1, <1>5 DEF PartsSound
    <2>2. QED
      BY <1>1, <1>6, <2>1, PartsEmpty
  <1>8. RunningSound'
    BY <1>1 DEF RunningSound
  <1>9. CASE a = NONE
    <2>1. UNCHANGED freeing /\ UNCHANGED task_list
      BY <1>2, <1>9 DEF DestroyNext
    <2>2. /\ DOMAIN memory' = DOMAIN memory /\ Kept(memory, memory', {})
          /\ \A t \in Range(task_list) : memory'[t].state = "READY" => memory[t].state = "READY"
      BY <1>1, SameMemory
    <2>3. current_task' = NONE \/ current_task' \in Range(task_list)
      BY <1>1 DEF ListSound
    <2>4. /\ Ownership' /\ BootBelow' /\ ListSound' /\ FreeingSound'
          /\ \A x : ProductSound(x) => ProductSound(x)'
      BY <1>1, <1>4, <2>1, <2>2, <2>3, QuietStep
    <2>5. \A b \in Range(made') : b = NONE \/ ProductSound(b)'
      BY <1>3, <2>4 DEF MadeSound, Range
    <2>6. MadeSound'
      BY <1>3, <2>5, MadeFrom
    <2>7. QED
      BY <1>6, <1>7, <1>8, <2>4, <2>6
  <1>10. CASE a # NONE
    <2>1. PICK D, R : DoomSound(a, D, R)
      BY <1>1, <1>3, <1>10, DoomIsSound
    <2>2. PICK found : found = {k \in DOMAIN task_list : task_list[k] \in R}
      OBVIOUS
    <2>3. /\ freeing' = Doom(a)
          /\ task_list' = IF found = {} THEN task_list
                          ELSE RemoveAt(task_list, CHOOSE k \in found : TRUE)
      <3>1. found = {k \in DOMAIN task_list : /\ task_list[k] \in TaskOf(a)
                                              /\ Destructible(task_list[k])}
        BY <2>1, <2>2 DEF DoomSound
      <3>2. QED
        BY <1>2, <1>10, <3>1 DEF DestroyNext
    <2>4. PICK t \in Range(task_list) : R \subseteq {t} /\ current_task \notin R
      BY <2>1 DEF DoomSound
    <2>5. PICK list : list = task_list'
      OBVIOUS
    <2>6. /\ list \in Seq(Nat) /\ Len(list) >= 2 /\ list[1] = task_list[1]
          /\ list[2] = task_list[2] /\ NoRepeat(list) /\ Range(list) = Range(task_list) \ R
      <3>1. \A x \in R : x > task_list[2] + 1
        BY <2>1 DEF DoomSound
      <3>2. Shortened(task_list, list, R)
        BY <2>2, <2>3, <2>4, <2>5, <3>1, ListShrinks
      <3>3. QED
        BY <3>2 DEF Shortened
    <2>7. Ownership' /\ BootBelow' /\ FreeingSound' /\ Doomed' = D
      <3>1. QueueSound(freeing', D) /\ \A x \in DOMAIN memory : \A f \in LinksOf(memory, x) :
               memory[x][f] \in D => x \in D
        BY <2>1, <2>3 DEF DoomSound
      <3>2. QED
        BY <1>1, <1>4, <2>5, <2>6, <3>1, FreeingStarts
    <2>8. ListSound'
      <3>1. ASSUME NEW u \in Range(list)
            PROVE  /\ Has(memory, u, TaskShape) /\ u \notin D
                   /\ ~ (memory[u].context = NONE /\ memory[u].state = "READY")
        <4>1. u \in Range(task_list) /\ u \notin R
          BY <2>6
        <4>2. u \notin D
          BY <2>1, <4>1 DEF DoomSound
        <4>3. QED
          BY <1>1, <4>1, <4>2 DEF ListSound
      <3>2. current_task = NONE \/ current_task \in Range(list)
        BY <2>4, <2>6 DEF ListSound
      <3>3. QED
        BY <1>1, <2>5, <2>6, <2>7, <3>1, <3>2 DEF ListSound, NoRepeat
    <2>9. ASSUME NEW b \in Range(made'), b # NONE PROVE ProductSound(b)'
      <3>1. b \in Range(made) /\ b # a
        BY <1>3, <2>9
      <3>2. b \notin D /\ b \notin R /\ (Product = "process" => memory[b].task \notin R)
        BY <2>1, <2>9, <3>1 DEF DoomSound
      <3>3. ProductSound(b)
        BY <2>9, <3>1 DEF MadeSound, Range
      <3>4. memory' = memory /\ task_list'[2] = task_list[2] /\ Range(task_list') = Range(task_list) \ R
        BY <1>1, <2>5, <2>6
      <3>5. QED
        BY <1>5, <2>7, <3>2, <3>3, <3>4 DEF ProductSound
    <2>10. MadeSound'
      BY <1>3, <2>9, MadeFrom
    <2>11. QED
      BY <1>6, <1>7, <1>8, <2>7, <2>8, <2>10
  <1>11. QED
    BY <1>9, <1>10

(* What the next address to free is: doomed itself, or read from a doomed structure. *)
LEMMA DueFacts ==
    ASSUME TasksInv, freeing # <<>>, NEW r, r = Tail(freeing), NEW x, x = Due
    PROVE  /\ Orderly(r) /\ Range(r) \subseteq Range(freeing) /\ Range(r) \subseteq Entries
           /\ Selves(Range(r)) \subseteq Doomed
           /\ \A a \in Doomed : a = x \/ a \in Selves(Range(r))
           /\ \A a \in DOMAIN memory : \A f \in LinksOf(memory, a) :
                 (memory[a][f] = x /\ x # NONE) => (a = x \/ a \in Selves(Range(r)))
           /\ \A a \in DOMAIN memory :
                 (a \notin Doomed /\ (Unowned(memory, a) \/ DOMAIN memory[a] # PlainShape)) => a # x
           /\ \A e \in Range(r) : e.field # "self" => e.of # x
  <1> USE DEF TasksInv, StructureInv
  <1>1. PICK h : h = Head(freeing)
    OBVIOUS
  <1>2. /\ h \in Entries /\ Range(freeing) \subseteq Entries
        /\ Orderly(r) /\ Range(freeing) = {h} \cup Range(r)
        /\ \A e \in Range(r) : e.field # "self" => h # Self(e.of)
        /\ h.field # "self" => Self(h.of) \in Range(r)
    BY <1>1, OrderlyTail DEF FreeingSound
  <1>3. Doomed = Selves({h}) \cup Selves(Range(r))
    BY <1>2, SelvesFacts DEF Doomed
  <1>4. x = IF h.field = "self" THEN h.of ELSE memory[h.of][h.field]
    BY <1>1 DEF Due
  <1>5. Range(r) \subseteq Range(freeing) /\ Range(r) \subseteq Entries
    BY <1>2
  <1>6. CASE h.field = "self"
    <2>1. h = Self(x) /\ Selves({h}) = {x}
      <3>1. h = Self(h.of)
        BY <1>2, <1>6, EntryKinds
      <3>2. h = Self(x)
        BY <1>4, <1>6, <3>1
      <3>3. QED
        BY <3>2, SelvesFacts
    <2>2. x \in Doomed
      BY <1>3, <2>1
    <2>3. ASSUME NEW a \in DOMAIN memory, NEW f \in LinksOf(memory, a), memory[a][f] = x
          PROVE  a = x \/ a \in Selves(Range(r))
      <3>1. a \in Doomed
        BY <2>2, <2>3 DEF FreeingSound
      <3>2. QED
        BY <1>3, <2>1, <3>1
    <2>4. \A e \in Range(r) : e.field # "self" => e.of # x
      BY <1>2, <2>1
    <2>5. QED
      BY <1>2, <1>3, <1>5, <2>1, <2>2, <2>3, <2>4
  <1>7. CASE h.field # "self"
    <2>1. PICK o, g : o = h.of /\ g = h.field
      OBVIOUS
    <2>2. /\ h \in Range(freeing) /\ g \in {"context", "directory", "tables"} /\ x = memory[o][g]
      BY <1>2, <1>4, <1>7, <2>1, EntryKinds
    <2>3. o \in DOMAIN memory /\ g \in DOMAIN memory[o] /\ g \in LinksOf(memory, o)
      BY <1>7, <2>1, <2>2 DEF FreeingSound, LinksOf, Links
    <2>4. Selves({h}) = {}
      BY <1>7, <2>1 DEF Selves
    <2>5. o \in Selves(Range(r))
      BY <1>2, <1>5, <1>7, <2>1, SelvesFacts
    <2>6. x \in DOMAIN memory => DOMAIN memory[x] = PlainShape
      BY <2>2, <2>3 DEF Ownership, WellOwned, Target
    <2>7. ASSUME NEW a \in DOMAIN memory, NEW f \in LinksOf(memory, a), memory[a][f] = x, x # NONE
          PROVE  a = o
      BY <2>2, <2>3, <2>7 DEF Ownership, WellOwned
    <2>8. ASSUME NEW a \in DOMAIN memory, Unowned(memory, a) \/ DOMAIN memory[a] # PlainShape
          PROVE  a # x
      BY <2>2, <2>3, <2>6, <2>8 DEF Unowned
    <2>9. ASSUME NEW e \in Range(r), e.field # "self" PROVE e.of # x
      <3>1. e \in Range(freeing) /\ e.field \in {"context", "directory", "tables"}
        BY <1>2, <1>5, <2>9, EntryKinds
      <3>2. e.of \in DOMAIN memory /\ e.field \in DOMAIN memory[e.of]
        BY <2>9, <3>1 DEF FreeingSound
      <3>3. DOMAIN memory[e.of] # PlainShape
        BY <3>1, <3>2 DEF PlainShape
      <3>4. QED
        BY <2>6, <3>2, <3>3
    <2>10. QED
      BY <1>2, <1>3, <1>5, <2>4, <2>5, <2>7, <2>8, <2>9
  <1>8. QED
    BY <1>6, <1>7

LEMMA ReleaseStructure ==
    ASSUME TasksInv, Release
    PROVE  StructureInv'
  <1> USE DEF TasksInv, StructureInv
  <1>1. PICK r, x : r = Tail(freeing) /\ x = Due
    OBVIOUS
  <1>2. /\ freeing # <<>> /\ FreeAddress(x) /\ memory' = Without(memory, x) /\ freeing' = r
        /\ UNCHANGED task_list /\ UNCHANGED current_task /\ UNCHANGED session
        /\ UNCHANGED making /\ UNCHANGED stage /\ UNCHANGED parts /\ UNCHANGED made
    BY <1>1 DEF Release, Busy
  <1>3. /\ Orderly(r) /\ Range(r) \subseteq Range(freeing) /\ Range(r) \subseteq Entries
        /\ Selves(Range(r)) \subseteq Doomed
        /\ \A a \in Doomed : a = x \/ a \in Selves(Range(r))
        /\ \A a \in DOMAIN memory : \A f \in LinksOf(memory, a) :
              (memory[a][f] = x /\ x # NONE) => (a = x \/ a \in Selves(Range(r)))
        /\ \A a \in DOMAIN memory :
              (a \notin Doomed /\ (Unowned(memory, a) \/ DOMAIN memory[a] # PlainShape)) => a # x
        /\ \A e \in Range(r) : e.field # "self" => e.of # x
    BY <1>1, <1>2, DueFacts
  <1>4. /\ Doomed' = Selves(Range(r)) /\ Doomed' \subseteq Doomed
        /\ \A a \in Doomed : a = x \/ a \in Doomed'
    BY <1>2, <1>3 DEF Doomed
  <1>5. Dropped(memory, memory', x)
    BY <1>2, WithoutDrops
  <1>6. /\ Kept(memory, memory', {x}) /\ (\A b : Unowned(memory, b) => Unowned(memory', b))
        /\ DOMAIN memory' = DOMAIN memory \ {x}
        /\ \A a \in DOMAIN memory : a # x => memory'[a] = memory[a]
    BY <1>5, DroppedKept DEF Dropped
  <1>7. \A t \in Range(task_list) : t # x /\ t \in DOMAIN memory /\ t \notin Doomed
    <2>1. ASSUME NEW t \in Range(task_list) PROVE t # x /\ t \in DOMAIN memory /\ t \notin Doomed
      <3>1. t \notin Doomed /\ Has(memory, t, TaskShape)
        BY DEF ListSound
      <3>2. QED
        BY <1>3, <3>1, ShapesDiffer DEF Has
    <2>2. QED
      BY <2>1
  <1>8. Ownership'
    <2>1. WellOwned(memory', Doomed', task_list[2])
      <3>1. WellOwned(memory, Doomed, task_list[2])
        BY DEF Ownership
      <3>2. \A a \in DOMAIN memory : \A f \in LinksOf(memory, a) :
               (memory[a][f] = x /\ x # NONE) => (a = x \/ a \in Doomed')
        BY <1>3, <1>4
      <3>3. QED
        BY <1>4, <1>5, <3>1, <3>2, DropOwned
    <2>2. QED
      BY <1>2, <2>1 DEF Ownership
  <1>9. PICK low \in Nat : low = task_list[2] + 1
    BY StructureFacts
  <1>10. Above(low)' /\ InUse' = InUse \ {x}
    <2>1. Above(low)
      BY <1>9 DEF BootBelow
    <2>2. QED
      BY <1>2, <2>1, FreeEffect
  <1>11. BootBelow'
    <2>1. DOMAIN memory' \subseteq InUse' \cup BootPlaces
      BY <1>6, <1>10 DEF BootBelow
    <2>2. task_list[2] \notin {x} /\ Len(task_list') >= 2
      BY <1>2, <1>7, StructureFacts DEF BootBelow
    <2>3. QED
      BY <1>2, <1>6, <1>9, <1>10, <2>1, <2>2, BootKept
  <1>12. ListSound'
    <2>1. \A t \in Range(task_list) :
             /\ t \notin {x} /\ t \notin Doomed'
             /\ memory'[t].state = "READY" => memory[t].state = "READY"
      BY <1>4, <1>6, <1>7
    <2>2. current_task' = NONE \/ current_task' \in Range(task_list)
      BY <1>2 DEF ListSound
    <2>3. QED
      BY <1>2, <1>6, <2>1, <2>2, ListKept
  <1>13. FreeingSound'
    <2>1. ASSUME NEW e \in Range(r)
          PROVE  /\ e.of > task_list[2] + 1
                 /\ e.field # "self" => e.of \in DOMAIN memory' /\ e.field \in DOMAIN memory'[e.of]
      <3>1. /\ e.of > task_list[2] + 1
            /\ e.field # "self" => e.of \in DOMAIN memory /\ e.field \in DOMAIN memory[e.of]
        BY <1>3 DEF FreeingSound
      <3>2. QED
        BY <1>3, <1>6, <3>1
    <2>2. ASSUME NEW a \in DOMAIN memory', NEW f \in LinksOf(memory', a), memory'[a][f] \in Doomed'
          PROVE  a \in Doomed'
      <3>1. a \in DOMAIN memory /\ a # x /\ memory'[a] = memory[a]
        BY <1>6
      <3>2. f \in LinksOf(memory, a) /\ memory[a][f] \in Doomed
        BY <1>4, <2>2, <3>1 DEF LinksOf
      <3>3. a \in Doomed
        BY <3>1, <3>2 DEF FreeingSound
      <3>4. QED
        BY <1>4, <3>1, <3>3
    <2>3. QED
      BY <1>2, <1>3, <2>1, <2>2 DEF FreeingSound
  <1>14. Caller' = Caller /\ Product' = Product /\ (InShell' <=> InShell) /\ (Creating' <=> Creating)
    BY <1>2, SameCaller DEF Creating
  <1>15. ControlSound'
    BY <1>2, <1>14 DEF ControlSound
  <1>16. \A a, shape : Part(a, shape) => Part(a, shape)' /\ memory'[a] = memory[a]
    <2>1. ASSUME NEW a, NEW shape, Part(a, shape) PROVE Part(a, shape)' /\ memory'[a] = memory[a]
      <3>1. /\ a \in DOMAIN memory /\ DOMAIN memory[a] = shape /\ Unowned(memory, a)
            /\ a \notin Range(made) /\ a \notin Doomed
        BY <2>1 DEF Part, Has
      <3>2. a # x
        BY <1>3, <3>1
      <3>3. QED
        BY <1>2, <1>4, <1>6, <3>1, <3>2 DEF Part, Has
    <2>2. QED
      BY <2>1
  <1>17. PartsSound'
    <2>1. ProcessPart'
      <3>1. CASE Creating /\ Product = "process" /\ stage # "process"
        <4>1. PICK p : p = parts.process /\ Part(p, ProcessShape) /\ memory[p].task = NONE
                 /\ memory[p].space =
                       IF stage \in {"space", "directory", "tables"} THEN NONE ELSE parts.space
          BY <3>1 DEF PartsSound, ProcessPart
        <4>2. Part(p, ProcessShape)' /\ memory'[p] = memory[p]
          BY <1>16, <4>1
        <4>3. p = parts'.process
          BY <1>2, <4>1
        <4>4. Part(parts.process, ProcessShape)'
          BY <4>2, <4>3 DEF Part
        <4>5. QED
          BY <1>2, <1>14, <3>1, <4>1, <4>2, <4>3, <4>4 DEF ProcessPart
      <3>2. CASE ~ (Creating /\ Product = "process" /\ stage # "process")
        BY <1>2, <1>14, <3>2 DEF PartsSound, ProcessPart
      <3>3. QED
        BY <3>1, <3>2
    <2>2. SpacePart'
      <3>1. CASE stage = "directory"
        <4>1. parts = NoParts
          BY <1>2, <3>1 DEF ControlSound
        <4>2. NONE \in InUse
          BY <3>1, <4>1 DEF PartsSound, SpacePart, NoParts
        <4>3. QED
          BY <4>2, StructureFacts DEF NONE
      <3>2. CASE stage = "tables"
        <4>1. parts = NoParts
          BY <1>2, <3>2 DEF ControlSound
        <4>2. NONE \in DOMAIN memory
          BY <3>2, <4>1 DEF PartsSound, SpacePart, NoParts, Part, Has
        <4>3. QED
          BY <4>2, StructureFacts
      <3>3. CASE stage \in {"task", "stack", "context"} /\ Product = "process"
        <4>1. PICK s : /\ s = parts.space /\ Has(memory, s, SpaceShape) /\ s \notin Doomed
                       /\ memory[s].directory # NONE /\ memory[s].tables # NONE
          BY <3>3 DEF PartsSound, SpacePart
        <4>2. s # x
          BY <1>3, <4>1, ShapesDiffer DEF Has
        <4>3. memory'[s] = memory[s] /\ s \in DOMAIN memory' /\ s \notin Doomed'
          BY <1>4, <1>6, <4>1, <4>2 DEF Has
        <4>4. QED
          BY <1>2, <1>14, <3>3, <4>1, <4>3 DEF SpacePart, Has
      <3>4. CASE /\ stage \notin {"directory", "tables"}
                 /\ ~ (stage \in {"task", "stack", "context"} /\ Product = "process")
        BY <1>2, <1>14, <3>4 DEF PartsSound, SpacePart
      <3>5. QED
        BY <3>1, <3>2, <3>3, <3>4
    <2>3. TaskPart'
      <3>1. CASE stage \in {"stack", "context"}
        <4>1. PICK t : t = parts.task /\ Part(t, TaskShape) /\ t > task_list[2] + 1
                 /\ memory[t].context = NONE
                 /\ IF stage = "stack"
                    THEN t \notin Range(task_list) /\ memory[t].process = NONE
                    ELSE t \in Range(task_list) /\ memory[t].process = parts.process
          BY <3>1 DEF PartsSound, TaskPart
        <4>2. Part(t, TaskShape)' /\ memory'[t] = memory[t]
          BY <1>16, <4>1
        <4>3. t = parts'.task
          BY <1>2, <4>1
        <4>4. Part(parts.task, TaskShape)'
          BY <4>2, <4>3 DEF Part
        <4>5. QED
          BY <1>2, <3>1, <4>1, <4>2, <4>3, <4>4 DEF TaskPart
      <3>2. CASE stage \notin {"stack", "context"}
        BY <1>2, <3>2 DEF PartsSound, TaskPart
      <3>3. QED
        BY <3>1, <3>2
    <2>4. QED
      BY <1>2, <1>14, <2>1, <2>2, <2>3 DEF PartsSound
  <1>18. MadeSound'
    <2>1. ASSUME NEW a \in Range(made), a # NONE PROVE ProductSound(a)'
      <3>1. ProductSound(a)
        BY <2>1 DEF MadeSound, Range
      <3>2. a \notin {x} /\ Unowned(memory', a) /\ a \notin Doomed'
        BY <1>3, <1>4, <1>6, <3>1 DEF ProductSound
      <3>3. Product = "process" => memory[a].task \notin {x}
        BY <1>7, <3>1 DEF ProductSound
      <3>4. QED
        BY <1>2, <1>6, <3>1, <3>2, <3>3, ProductKept
    <2>2. QED
      BY <1>2, <2>1, MadeSame
  <1>19. RunningSound'
    BY <1>2 DEF RunningSound, ControlSound
  <1>20. QED
    BY <1>8, <1>11, <1>12, <1>13, <1>15, <1>17, <1>18, <1>19

(* The boot heap's two tasks and the one context. *)
LEMMA BootTasks ==
    ASSUME NEW end \in Nat, end >= 4, NEW table, NEW m, m = BootMemory(end, table)
    PROVE  /\ DOMAIN m = {end - 3, end - 2, end - 1}
           /\ DOMAIN m[end - 3] = TaskShape /\ DOMAIN m[end - 2] = TaskShape
           /\ DOMAIN m[end - 1] = PlainShape
           /\ m[end - 3].context = NONE /\ m[end - 3].state = "FINISHED"
           /\ m[end - 2].context = end - 1 /\ m[end - 2].process = NONE
  <1> DEFINE image == Image(end - 1, 1, table)
             task == [Task(end - 1, table) EXCEPT !.image = image]
  <1>1. /\ task = [image |-> image, state |-> "READY", process |-> NONE, context |-> NONE,
                   stack |-> NONE]
    BY DEF Task
  <1>2. PICK i : i = image
    OBVIOUS
  <1>3. task = [image |-> i, state |-> "READY", process |-> NONE, context |-> NONE,
                stack |-> NONE]
    BY <1>1, <1>2
  <1>4. PICK t : t = task
    OBVIOUS
  <1>5. m = [a \in {end - 3, end - 2, end - 1} |->
                CASE a = end - 3 -> [t EXCEPT !.state = "FINISHED"]
                  [] a = end - 2 -> [t EXCEPT !.context = end - 1]
                  [] a = end - 1 -> [image |-> i]]
    BY <1>2, <1>4 DEF BootMemory
  <1>6. t = [image |-> i, state |-> "READY", process |-> NONE, context |-> NONE, stack |-> NONE]
    BY <1>3, <1>4
  <1> HIDE DEF image, task
  <1>7. end - 3 # end - 2 /\ end - 3 # end - 1 /\ end - 2 # end - 1
    OBVIOUS
  <1>8. /\ DOMAIN m = {end - 3, end - 2, end - 1}
        /\ m[end - 3] = [t EXCEPT !.state = "FINISHED"]
        /\ m[end - 2] = [t EXCEPT !.context = end - 1]
        /\ m[end - 1] = [image |-> i]
    BY <1>5, <1>7
  <1>9. QED
    BY <1>6, <1>8 DEF TaskShape, PlainShape

LEMMA TasksInitStructure ==
    ASSUME TasksInit
    PROVE  StructureInv
  <1>1. PICK end \in BootEnds : /\ heap_pointer = end /\ memory = BootMemory(end, page_table)
                                /\ task_list = <<end - 3, end - 2>>
    BY DEF TasksInit
  <1>2. end \in Nat /\ end >= 4
    BY TasksAssumption, RegionFacts
  <1>3. PICK b, c, d \in Nat : b = end - 3 /\ c = end - 2 /\ d = end - 1
    BY <1>2
  <1>4. b # 0 /\ c = b + 1 /\ d = c + 1 /\ heap_pointer > c + 1 /\ d > c /\ b # c /\ b # d /\ c # d
    BY <1>1, <1>2, <1>3
  <1>5. /\ DOMAIN memory = {b, c, d} /\ DOMAIN memory[b] = TaskShape
        /\ DOMAIN memory[c] = TaskShape /\ DOMAIN memory[d] = PlainShape
        /\ memory[b].context = NONE /\ memory[b].state = "FINISHED"
        /\ memory[c].context = d /\ memory[c].process = NONE
    <2>1. /\ DOMAIN memory = {end - 3, end - 2, end - 1}
          /\ DOMAIN memory[end - 3] = TaskShape /\ DOMAIN memory[end - 2] = TaskShape
          /\ DOMAIN memory[end - 1] = PlainShape
          /\ memory[end - 3].context = NONE /\ memory[end - 3].state = "FINISHED"
          /\ memory[end - 2].context = end - 1 /\ memory[end - 2].process = NONE
      BY <1>1, <1>2, BootTasks
    <2>2. QED
      BY <1>3, <2>1
  <1>6. /\ task_list = <<b, c>> /\ task_list \in Seq(Nat) /\ Len(task_list) = 2
        /\ task_list[1] = b /\ task_list[2] = c /\ DOMAIN task_list = {1, 2}
        /\ Range(task_list) = {b, c}
    BY <1>1, <1>3 DEF Range
  <1>7. /\ current_task = NONE /\ session = 1 /\ making = BootSessions[1].makes
        /\ stage = BootSessions[1].makes[1] /\ parts = NoParts /\ made = <<>> /\ freeing = <<>>
        /\ \A i \in Slots : ~ Used(i)
    BY DEF TasksInit, Used
  <1>8. Doomed = {} /\ Range(freeing) = {} /\ Orderly(freeing)
    BY <1>7, OrderlyEmpty, SelvesFacts DEF Doomed
  <1>9. /\ LinksOf(memory, b) = {"context"} /\ LinksOf(memory, c) = {"context"}
        /\ LinksOf(memory, d) = {}
    BY <1>5, ShapeLinks DEF LinksOf
  <1>10. Ownership
    <2>1. Target("context") = PlainShape /\ NONE \in Nat /\ NONE # d /\ NONE \notin DOMAIN memory
      BY <1>4, <1>5 DEF Target, NONE
    <2>2. \A a \in DOMAIN memory : DOMAIN memory[a] \in Shapes
      BY <1>5 DEF Shapes
    <2>3. \A a \in DOMAIN memory : \A f \in LinksOf(memory, a) :
             f = "context" /\ (a = b \/ a = c)
      BY <1>5, <1>9
    <2>4. WellOwned(memory, {}, c)
      BY <1>4, <1>5, <2>1, <2>2, <2>3 DEF WellOwned
    <2>5. QED
      BY <1>6, <1>8, <2>4 DEF Ownership
  <1>11. BootBelow
    BY <1>4, <1>5, <1>6, <1>7 DEF BootBelow, Above, BootPlaces
  <1>12. ListSound
    BY <1>4, <1>5, <1>6, <1>7, <1>8 DEF ListSound, Has, NONE
  <1>13. FreeingSound
    BY <1>8 DEF FreeingSound
  <1>14. /\ Caller = address_space_create_test /\ ~ InShell /\ stage = "space"
         /\ making = <<"space">> /\ Caller.makes = <<"space">> /\ Caller.dispose = "space"
    BY <1>7, EveryCaller DEF Caller, InShell, BootSessions, address_space_create_test, Session
  <1>15. Product = "space" /\ Creating
    BY <1>14 DEF Product, ProductOf, Creating, StagesOf
  <1>16. ControlSound
    BY <1>7, <1>14, <1>15 DEF ControlSound
  <1>17. PartsSound
    BY <1>7, <1>14, <1>15
    DEF PartsSound, ProcessPart, SpacePart, TaskPart, NoParts, NONE
  <1>18. MadeSound /\ RunningSound
    BY <1>7, <1>14 DEF MadeSound, RunningSound
  <1>19. QED
    BY <1>10, <1>11, <1>12, <1>13, <1>16, <1>17, <1>18 DEF StructureInv

LEMMA StructureStep ==
    ASSUME NoWrap, TasksInv, [TasksNext]_vars
    PROVE  StructureInv'
  <1>1. CASE \/ process_create \/ address_space_create \/ space_directory \/ space_tables
             \/ task_create \/ task_create_user \/ syscall_alloc
    <2>1. CASE \E kind \in {"process", "space", "directory", "tables", "task", "stack", "block"} :
                  Fails(kind)
      BY <2>1, FailsStructure
    <2>2. CASE ProcessMade
      BY <2>2, ProcessMadeStructure
    <2>3. CASE SpaceMade
      BY <2>3, SpaceMadeStructure
    <2>4. CASE DirectoryMade
      BY <2>4, DirectoryMadeStructure
    <2>5. CASE TablesMade
      BY <2>5, TablesMadeStructure
    <2>6. CASE TaskMade
      BY <2>6, TaskMadeStructure
    <2>7. CASE StackMade
      BY <2>7, StackMadeStructure
    <2>8. CASE BlockMade
      BY <2>8, BlockMadeStructure
    <2>9. QED
      BY <1>1, <2>1, <2>2, <2>3, <2>4, <2>5, <2>6, <2>7, <2>8, CreationSteps
  <1>2. CASE task_context
    BY <1>2, ContextStructure
  <1>3. CASE GiveUp \/ EndSession
    BY <1>3, GiveUpStructure
  <1>4. CASE Keep
    BY <1>4, KeepStructure
  <1>5. CASE Grow
    BY <1>5, GrowStructure
  <1>6. CASE Run
    BY <1>6, RunStructure
  <1>7. CASE Stop
    BY <1>7, StopStructure
  <1>8. CASE Destroy({"space", "process", "instance", "block"})
    BY <1>8, DestroyStructure
  <1>9. CASE DestroyNext
    BY <1>9, DestroyNextStructure
  <1>10. CASE Release
    BY <1>10, ReleaseStructure
  <1>11. CASE UserPrepare
    BY <1>11, PrepareStructure
  <1>12. CASE UserSyscall \/ UserComputes \/ UNCHANGED vars
    <2>1. UNCHANGED <<heapVars, taskVars>>
      BY <1>12 DEF UserSyscall, UserComputes, vars
    <2>2. QED
      BY <2>1, UnchangedStep DEF TasksInv
  <1>13. QED
    BY <1>1, <1>2, <1>3, <1>4, <1>5, <1>6, <1>7, <1>8, <1>9, <1>10, <1>11, <1>12 DEF TasksNext

(* The inductive invariant of the kernel's structures. *)
LEMMA TasksInvHolds == NoWrap => (TasksSpec => []TasksInv)
  <1> SUFFICES ASSUME NoWrap PROVE TasksSpec => []TasksInv
    OBVIOUS
  <1>1. TasksInit => TasksInv
    BY TasksInitPlacement, TasksInitStructure DEF TasksInv
  <1>2. TasksInv /\ [TasksNext]_vars => TasksInv'
    <2>1. ASSUME TasksInv, [TasksNext]_vars PROVE PlacementInv'
      BY <2>1, TasksHeapStep, PlacementInvInductive DEF TasksInv
    <2>2. QED
      BY <2>1, StructureStep DEF TasksInv
  <1>3. QED
    BY <1>1, <1>2, PTL DEF TasksSpec

(* The types of the kernel's variables, for every instance: memory holds structures of the
   boot heap or of the heap's region only, the list only tasks that are there, and the
   current task is one of them or none. *)
THEOREM TasksTypes == NoWrap => (TasksSpec => []TasksTypeOK)
  <1> SUFFICES ASSUME NoWrap PROVE TasksSpec => []TasksTypeOK
    OBVIOUS
  <1>1. ASSUME TasksInv PROVE TasksTypeOK
    <2> USE <1>1 DEF TasksInv, StructureInv
    <2>1. HeapTypeOK
      BY DEF PlacementInv, FrameInv
    <2>2. DOMAIN memory \subseteq Addresses
      <3>1. ASSUME NEW a \in InUse PROVE a \in Addresses
        <4>1. PICK i \in Slots : Used(i) /\ a = paged_heap_blocks[i].address
          BY DEF InUse, Live
        <4>2. a \in Nat /\ a <= heap_pointer /\ heap_pointer \in Nat
          BY <2>1, <4>1 DEF PlacementInv, PointerAbove, HeapTypeOK
        <4>3. heap_pointer <= HEAP_PAGED_LIMIT
          BY DEF PlacementInv, PointerAbove
        <4>4. QED
          BY <4>2, <4>3, RegionFacts DEF Addresses
      <3>2. ASSUME NEW a \in BootPlaces PROVE a \in Addresses
        <4>1. /\ heap_pointer > task_list[2] + 1 /\ heap_pointer <= HEAP_PAGED_LIMIT
              /\ heap_pointer \in Nat /\ task_list[1] \in Nat /\ task_list[2] = task_list[1] + 1
          BY <2>1 DEF BootBelow, Above, PlacementInv, PointerAbove, HeapTypeOK
        <4>2. QED
          BY <4>1, RegionFacts DEF BootPlaces, Addresses
      <3>3. QED
        BY <3>1, <3>2 DEF BootBelow
    <2>3. \A t \in Range(task_list) : t \in DOMAIN memory
      BY StructureFacts
    <2>4. task_list \in Seq(DOMAIN memory)
      <3>1. task_list \in Seq(Nat)
        BY DEF ListSound
      <3>2. \A k \in 1 .. Len(task_list) : task_list[k] \in DOMAIN memory
        BY <2>3, <3>1 DEF Range
      <3>3. QED
        BY <3>1, <3>2
    <2>5. current_task \in DOMAIN memory \cup {NONE}
      BY <2>3 DEF ListSound
    <2>6. session \in 1 .. Len(BootSessions) + 1
      BY EveryCaller DEF ControlSound
    <2>7. \A k \in DOMAIN made : made[k] \in Addresses
      <3>1. NONE \in Addresses
        BY RegionFacts DEF NONE, Addresses
      <3>2. QED
        BY <2>2, <3>1 DEF MadeSound, ProductSound
    <2>8. QED
      BY <2>1, <2>2, <2>4, <2>5, <2>6, <2>7 DEF TasksTypeOK
  <1>2. QED
    BY <1>1, TasksInvHolds, PTL

-----------------------------------------------------------------------------
(* The timer's walk along the list. *)

LEMMA LeastIndex ==
    ASSUME NEW T \in SUBSET Nat, T # {}
    PROVE  \E x \in T : \A y \in T : x <= y
  <1>1. PICK x \in T : \A y \in T : ~ (<<y, x>> \in OpToRel(<, Nat))
    BY NatLessThanWellFounded, WFMin, Zenon
  <1>2. \A y \in T : ~ (y < x)
    BY <1>1 DEF OpToRel
  <1>3. QED
    BY <1>2

LEMMA NextIsReady ==
    ASSUME TasksInv, task_schedule_next # NONE
    PROVE  /\ task_schedule_next \in Range(task_list)
           /\ memory[task_schedule_next].state = "READY"
  <1> DEFINE n == Len(task_list)
             at == {k \in 1 .. n - 1 : task_list[k] = current_task}
             start == IF at = {} THEN 1 ELSE (CHOOSE k \in at : TRUE) + 1
             walk == [k \in 1 .. n |-> task_list[((start + k - 2) % n) + 1]]
             ready == {k \in 1 .. n : memory[walk[k]].state = "READY"}
  <1>1. n \in Nat /\ n >= 2 /\ DOMAIN task_list = 1 .. n
    BY DEF BootBelow, ListSound, TasksInv, StructureInv
  <1>2. task_schedule_next =
           IF ready = {} THEN NONE ELSE walk[CHOOSE k \in ready : \A j \in ready : k <= j]
    BY DEF task_schedule_next
  <1> HIDE DEF n
  <1>3. start \in Nat
    <2>1. at # {} => (CHOOSE k \in at : TRUE) \in at
      OBVIOUS
    <2>2. at \subseteq Nat
      BY <1>1
    <2>3. PICK c : c = (CHOOSE k \in at : TRUE)
      OBVIOUS
    <2>4. at # {} => c \in Nat
      BY <2>1, <2>2, <2>3
    <2>5. start = IF at = {} THEN 1 ELSE c + 1
      BY <2>3
    <2> HIDE DEF at, start
    <2>6. QED
      BY <2>4, <2>5
  <1> HIDE DEF start
  <1>4. walk = [k \in 1 .. n |-> task_list[((start + k - 2) % n) + 1]]
    OBVIOUS
  <1> HIDE DEF walk
  <1>5. ready = {k \in 1 .. n : memory[walk[k]].state = "READY"}
    OBVIOUS
  <1> HIDE DEF ready
  <1>6. ready # {} /\ ready \in SUBSET Nat
    BY <1>2, <1>5
  <1>7. PICK k \in ready : task_schedule_next = walk[k]
    BY <1>2, <1>6, LeastIndex
  <1>8. walk[k] \in Range(task_list)
    <2>1. k \in 1 .. n
      BY <1>5
    <2>2. (start + k - 2) % n \in 0 .. n - 1
      BY <1>1, <1>3, <2>1
    <2>3. ((start + k - 2) % n) + 1 \in 1 .. n
      BY <1>1, <2>2
    <2>4. QED
      BY <1>1, <1>4, <2>1, <2>3 DEF Range
  <1>9. QED
    BY <1>5, <1>7, <1>8

LEMMA TicksAreSound ==
    ASSUME TasksInv
    PROVE  TickSound
  <1> SUFFICES ASSUME TickPossible
               PROVE  /\ \A t \in Range(task_list) : t \in DOMAIN memory /\ t \notin Doomed
                      /\ current_task \in Range(task_list)
                      /\ \A p : (p = memory[current_task].process /\ p # NONE) =>
                            p \in Range(made) /\ p \in DOMAIN memory /\ p \notin Doomed
                      /\ task_schedule_next # NONE =>
                            /\ task_schedule_next \in Range(task_list)
                            /\ memory[task_schedule_next].context \in DOMAIN memory
    BY DEF TickSound
  <1> USE DEF TasksInv, StructureInv
  <1>1. stage = "running" /\ current_task # NONE
    BY DEF TickPossible, ControlSound
  <1>2. \A t \in Range(task_list) : t \in DOMAIN memory /\ t \notin Doomed
    BY DEF ListSound, Has
  <1>3. current_task \in Range(task_list)
    BY <1>1 DEF ListSound
  <1>4. ASSUME NEW p, p = memory[current_task].process, p # NONE
        PROVE  p \in Range(made) /\ p \in DOMAIN memory /\ p \notin Doomed
    <2>1. p \in Range(made)
      BY <1>1, <1>4 DEF RunningSound
    <2>2. ProductSound(p)
      BY <1>4, <2>1 DEF MadeSound, Range
    <2>3. QED
      BY <2>1, <2>2 DEF ProductSound
  <1>5. ASSUME task_schedule_next # NONE
        PROVE  /\ task_schedule_next \in Range(task_list)
               /\ memory[task_schedule_next].context \in DOMAIN memory
    <2>1. PICK t \in Range(task_list) : t = task_schedule_next /\ memory[t].state = "READY"
      BY <1>5, NextIsReady
    <2>2. memory[t].context # NONE
      BY <1>1, <2>1 DEF ListSound
    <2>3. t \in DOMAIN memory /\ DOMAIN memory[t] = TaskShape /\ t \notin Doomed
      BY DEF ListSound, Has
    <2>4. "context" \in LinksOf(memory, t)
      BY <2>3 DEF LinksOf, Links, TaskShape
    <2>5. memory[t].context \in DOMAIN memory
      BY <2>2, <2>3, <2>4 DEF Ownership, WellOwned
    <2>6. QED
      BY <2>1, <2>5
  <1>6. QED
    BY <1>2, <1>3, <1>4, <1>5

(* For every heap, every set of structure sizes and whichever allocations fail: the timer
   never finds a task on the list that was freed or is about to be, nor a current task
   whose process was, nor chooses a task without a context. *)
THEOREM SchedulerStructures == NoWrap => (TasksSpec => []TickSound)
  <1> SUFFICES ASSUME NoWrap PROVE TasksSpec => []TickSound
    OBVIOUS
  <1>1. TasksInv => TickSound
    BY TicksAreSound
  <1>2. QED
    BY <1>1, TasksInvHolds, PTL

-----------------------------------------------------------------------------
(* Nothing is lost. *)

LossInv == Complete /\ Accounted /\ TakenSound /\ GivenBack

(* From m to m2 links may be made, but none is cut. *)
LinksGrow(m, m2) ==
    \A b \in DOMAIN m : \A f \in LinksOf(m, b) :
       m[b][f] = NONE \/ (b \in DOMAIN m2 /\ f \in LinksOf(m2, b) /\ m2[b][f] = m[b][f])

LEMMA KeptGrows ==
    ASSUME NEW m, NEW m2, Kept(m, m2, {})
    PROVE  LinksGrow(m, m2)
  BY DEF Kept, LinksGrow, LinksOf, Links

LEMMA AddedGrows ==
    ASSUME NEW m, NEW m2, NEW n, NEW r, Added(m, m2, n, r), n \notin DOMAIN m
    PROVE  LinksGrow(m, m2)
  BY DEF Added, LinksGrow, LinksOf

LEMMA RewrittenGrows ==
    ASSUME NEW m, NEW m2, NEW o, NEW g, NEW v, Rewritten(m, m2, o, g, v),
           g \notin Links \/ m[o][g] = NONE
    PROVE  LinksGrow(m, m2)
  BY DEF Rewritten, LinksGrow, LinksOf

LEMMA GrowsTwice ==
    ASSUME NEW m, NEW m1, NEW m2, LinksGrow(m, m1), LinksGrow(m1, m2)
    PROVE  LinksGrow(m, m2)
  BY DEF LinksGrow

(* What is accounted for stays so, if what was made and the parts are. *)
LEMMA AccountedStays ==
    ASSUME TasksInv, Accounted, freeing = <<>>, failures' = {} => failures = {},
           LinksGrow(memory, memory'), \A b \in DOMAIN memory : b \notin Doomed',
           Range(task_list) \subseteq Range(task_list'),
           NEW N, InUse' \subseteq InUse \cup N, failures' = {} => \A a \in N : Held(a)',
           failures' = {} => \A a \in Range(made) : a \in InUse' => Held(a)',
           failures' = {} =>
              \A a \in {parts.process, parts.space, parts.task} : a = NONE \/ Held(a)'
    PROVE  Accounted'
  <1> SUFFICES ASSUME failures' = {}, NEW a, a \in InUse' PROVE Held(a)'
    BY DEF Accounted
  <1>1. CASE a \in N
    BY <1>1
  <1>2. CASE a \in InUse
    <2>1. Held(a) /\ a # NONE /\ Doomed = {}
      BY <1>2, StructureFacts, OrderlyEmpty, SelvesFacts DEF Accounted, NONE, Doomed
    <2>2. CASE a \in Range(task_list)
      BY <2>2 DEF Held
    <2>3. CASE a \in Range(made)
      BY <2>3
    <2>4. CASE a \in {parts.process, parts.space, parts.task}
      BY <2>1, <2>4
    <2>5. CASE \E b \in DOMAIN memory : \E f \in LinksOf(memory, b) : memory[b][f] = a
      BY <2>1, <2>5 DEF Held, LinksGrow
    <2>6. QED
      BY <2>1, <2>2, <2>3, <2>4, <2>5 DEF Held
  <1>3. QED
    BY <1>1, <1>2

(* Nor does a context get lost. *)
LEMMA ContextsStay ==
    ASSUME TasksInv, LinksGrow(memory, memory')
    PROVE  \A t \in Range(task_list) : memory'[t].context = NONE => memory[t].context = NONE
  <1>1. ASSUME NEW t \in Range(task_list), memory[t].context # NONE
        PROVE  memory'[t].context # NONE
    <2>1. Has(memory, t, TaskShape)
      BY ListedAreTasks
    <2>2. t \in DOMAIN memory /\ "context" \in LinksOf(memory, t)
      BY <2>1 DEF Has, LinksOf, Links, TaskShape
    <2>3. QED
      BY <1>1, <2>2 DEF LinksGrow
  <1>2. QED
    BY <1>1

(* Steps of the caller's own, within a session. *)
LEMMA QuietLoss ==
    ASSUME TasksInv, LossInv, UNCHANGED heapVars, freeing = <<>>, UNCHANGED freeing,
           UNCHANGED task_list, UNCHANGED made, UNCHANGED parts, UNCHANGED failures,
           UNCHANGED before, UNCHANGED session, Kept(memory, memory', {}), ~ Creating,
           stage # "context",
           stage' = "destroy" \/ stage # "destroy"
    PROVE  LossInv'
  <1> USE DEF LossInv
  <1>1. parts = NoParts /\ parts' = NoParts
    BY DEF TasksInv, StructureInv, PartsSound
  <1>2. Doomed' = {} /\ InUse' = InUse /\ LinksGrow(memory, memory')
    BY SameHeap, KeptGrows, OrderlyEmpty, SelvesFacts DEF Doomed
  <1>3. Product' = Product
    BY SameCaller
  <1>4. Complete'
    BY <1>2, <1>3, ContextsStay DEF Complete
  <1>5. Accounted'
    <2>1. \A a \in Range(made) : Held(a)'
      BY DEF Held
    <2>2. \A a \in {parts.process, parts.space, parts.task} : a = NONE
      BY <1>1 DEF NoParts
    <2>3. InUse' \subseteq InUse \cup {} /\ \A b \in DOMAIN memory : b \notin Doomed'
      BY <1>2
    <2>4. Range(task_list) \subseteq Range(task_list')
      OBVIOUS
    <2>5. QED
      BY <1>2, <2>1, <2>2, <2>3, <2>4, AccountedStays
  <1>6. TakenSound'
    BY <1>1 DEF TakenSound
  <1>7. GivenBack'
    <2>1. Pending = {} /\ Pending' = {}
      BY OrderlyEmpty DEF Pending
    <2>2. \A d, t : Leftover(d, t) => Leftover(d, t)'
      BY <1>3 DEF Leftover, BlockOf, heapVars, Live, Used, Free
    <2>3. QED
      BY <1>1, <1>2, <2>1, <2>2 DEF GivenBack
  <1>8. QED
    BY <1>4, <1>5, <1>6, <1>7

(* A caller that returns keeps nothing but tasks. *)
LEMMA ReturnLoss ==
    ASSUME TasksInv, LossInv, InUse' = InUse, freeing = <<>>, UNCHANGED freeing,
           failures' = {} => failures = {}, Kept(memory, memory', {}), stage # "context",
           ~ Creating, failures' = {} => Range(made) \subseteq Range(task_list),
           Return(task_list, current_task)
    PROVE  LossInv'
  <1> USE DEF LossInv
  <1>1. parts = NoParts /\ parts' = NoParts /\ made' = <<>> /\ task_list' = task_list
    BY DEF TasksInv, StructureInv, PartsSound, Return
  <1>2. Doomed' = {} /\ LinksGrow(memory, memory') /\ Range(made') = {}
    BY <1>1, KeptGrows, OrderlyEmpty, SelvesFacts DEF Doomed
  <1>3. Complete'
    BY <1>1, <1>2, ContextsStay DEF Complete
  <1>4. Accounted'
    <2>1. failures' = {} => \A a \in Range(made) : Held(a)'
      BY <1>1 DEF Held
    <2>2. \A a \in {parts.process, parts.space, parts.task} : a = NONE
      BY <1>1 DEF NoParts
    <2>3. InUse' \subseteq InUse \cup {} /\ \A b \in DOMAIN memory : b \notin Doomed'
      BY <1>2
    <2>4. Range(task_list) \subseteq Range(task_list')
      BY <1>1
    <2>5. QED
      BY <1>2, <2>1, <2>2, <2>3, <2>4, AccountedStays
  <1>5. TakenSound' /\ GivenBack'
    BY <1>1 DEF TakenSound, GivenBack
  <1>6. QED
    BY <1>3, <1>4, <1>5

LEMMA UnchangedLoss ==
    ASSUME LossInv, UNCHANGED <<heapVars, taskVars>>
    PROVE  LossInv'
  <1>1. /\ UNCHANGED memory /\ UNCHANGED task_list /\ UNCHANGED session /\ UNCHANGED stage
        /\ UNCHANGED parts /\ UNCHANGED made /\ UNCHANGED freeing /\ UNCHANGED failures
        /\ UNCHANGED before /\ UNCHANGED paged_heap_blocks
    BY DEF taskVars, heapVars
  <1>2. /\ InUse' = InUse /\ Product' = Product /\ Doomed' = Doomed /\ Pending' = Pending
        /\ (Creating' <=> Creating) /\ Taken' = Taken
    BY <1>1, SameCaller
    DEF InUse, Live, Free, Used, Doomed, Pending, Names, Creating, Taken
  <1>3. \A a, s : BlockOf(a, s)' <=> BlockOf(a, s)
    BY <1>1 DEF BlockOf, Live, Free, Used
  <1>4. \A a : Held(a) => Held(a)'
    BY <1>1, <1>2 DEF Held
  <1>5. \A d, t : Leftover(d, t) => Leftover(d, t)'
    BY <1>2, <1>3 DEF Leftover
  <1>6. Complete' /\ Accounted'
    BY <1>1, <1>2, <1>4 DEF LossInv, Complete, Accounted
  <1>7. TakenSound'
    BY <1>1, <1>2, <1>3 DEF LossInv, TakenSound
  <1>8. GivenBack'
    BY <1>1, <1>2, <1>5 DEF LossInv, GivenBack
  <1>9. QED
    BY <1>6, <1>7, <1>8 DEF LossInv

LEMMA CallerStepsLoss ==
    ASSUME TasksInv, LossInv,
           \/ Stop \/ UserPrepare \/ Destroy({"space", "process", "instance", "block"})
    PROVE  LossInv'
  <1> USE DEF TasksInv, StructureInv
  <1>1. /\ UNCHANGED heapVars /\ UNCHANGED freeing /\ UNCHANGED task_list /\ UNCHANGED made
        /\ UNCHANGED parts /\ UNCHANGED failures /\ UNCHANGED before /\ UNCHANGED session
        /\ stage \in {"running", "prepare", "dispose"}
        /\ (stage = "dispose" => freeing = <<>>)
    BY DEF Stop, UserPrepare, Destroy, Disposing, Busy
  <1>2. freeing = <<>>
    BY <1>1 DEF ControlSound
  <1>3. Kept(memory, memory', {})
    <2>1. CASE Stop
      BY <2>1, StopMemory DEF StateSet
    <2>2. CASE UserPrepare \/ Destroy({"space", "process", "instance", "block"})
      BY <2>2, SameMemory DEF UserPrepare, Destroy
    <2>3. QED
      BY <2>1, <2>2
  <1>4. ~ Creating /\ stage # "context" /\ stage # "destroy"
    BY <1>1, NotCreating
  <1>5. QED
    BY <1>1, <1>2, <1>3, <1>4, QuietLoss

LEMMA RunLoss ==
    ASSUME TasksInv, LossInv, Run
    PROVE  LossInv'
  <1> USE DEF TasksInv, StructureInv
  <1>1. /\ UNCHANGED heapVars /\ freeing = <<>> /\ UNCHANGED freeing /\ stage = "dispose"
        /\ UNCHANGED failures /\ UNCHANGED before
        /\ Disposing({"identity", "program", "terminate", "utility"})
    BY DEF Run, Disposing, Busy
  <1>2. ~ Creating /\ stage # "context" /\ stage # "destroy"
    BY <1>1, NotCreating
  <1>3. CASE ~ (NONE \notin Range(made) /\ memory[Chosen].context = NONE)
    <2>1. /\ UNCHANGED task_list /\ UNCHANGED made /\ UNCHANGED parts /\ UNCHANGED session
      BY <1>3 DEF Run
    <2>2. memory' = memory \/ memory' = [memory EXCEPT ![Chosen].state = "RUNNING"]
      BY <1>3 DEF Run
    <2>3. Kept(memory, memory', {})
      <3>1. CASE memory' = memory
        BY <3>1, SameMemory
      <3>2. CASE memory' = [memory EXCEPT ![Chosen].state = "RUNNING"]
        <4>1. StateSet(memory, memory')
          BY <3>2, StateWritten
        <4>2. QED
          BY <4>1 DEF StateSet
      <3>3. QED
        BY <2>2, <3>1, <3>2
    <2>4. QED
      BY <1>1, <1>2, <2>1, <2>3, QuietLoss
  <1>4. CASE NONE \notin Range(made) /\ memory[Chosen].context = NONE
    <2>1. Return(task_list, current_task) /\ UNCHANGED memory
      BY <1>4 DEF Run
    <2>2. Kept(memory, memory', {}) /\ InUse' = InUse
      BY <1>1, <2>1, SameMemory, SameHeap
    <2>3. CallerSound(Caller) /\ Caller.dispose \in {"identity", "program", "terminate", "utility"}
      BY <1>1, CallerIsAt DEF Disposing, ControlSound
    <2>4. ASSUME failures = {}, Caller.dispose = "identity" PROVE FALSE
      <3>1. Chosen \in Range(task_list)
        BY <1>1, <1>4, ChosenListed
      <3>2. Chosen = task_list[1]
        BY <1>2, <1>4, <2>4, <3>1 DEF LossInv, Complete
      <3>3. Len(made) = 1 /\ made \in Seq(Nat)
        BY <1>1, <2>3, <2>4, AllMade DEF CallerSound
      <3>4. PICK p : p = made[1] /\ p \in Range(made) /\ p # NONE
        BY <1>4, <3>3 DEF Range
      <3>5. 1 \in DOMAIN made
        BY <3>3
      <3>6. ProductSound(p) /\ Product = "process" /\ Chosen = memory[p].task
        BY <2>4, <3>4, <3>5 DEF MadeSound, Product, ProductOf, Chosen
      <3>7. p \in DOMAIN memory /\ DOMAIN memory[p] = ProcessShape /\ p > task_list[2] + 1
        BY <3>6 DEF ProductSound
      <3>8. "task" \in LinksOf(memory, p) /\ memory[p].task # NONE /\ p # task_list[2]
        BY <3>1, <3>6, <3>7, StructureFacts DEF LinksOf, Links, ProcessShape
      <3>9. memory[p].task > task_list[2] + 1
        BY <3>7, <3>8, LinkAbove
      <3>10. QED
        BY <3>2, <3>6, <3>9 DEF BootBelow
    <2>5. ASSUME failures = {} PROVE Range(made) \subseteq Range(task_list)
      <3>1. CASE Caller.dispose = "program"
        <4>1. made = <<>>
          BY <3>1 DEF LossInv, Complete, Product, ProductOf
        <4>2. QED
          BY <4>1, OrderlyEmpty
      <3>2. CASE Caller.dispose \in {"terminate", "utility"}
        <4>1. Product = "task"
          BY <3>2 DEF Product, ProductOf
        <4>2. \A a \in Range(made) : ProductSound(a)
          BY <1>4 DEF MadeSound, Range
        <4>3. QED
          BY <4>1, <4>2 DEF ProductSound
      <3>3. QED
        BY <2>3, <2>4, <2>5, <3>1, <3>2
    <2>6. QED
      BY <1>1, <1>2, <2>1, <2>2, <2>5, ReturnLoss
  <1>5. QED
    BY <1>3, <1>4

LEMMA ReturnsLoss ==
    ASSUME TasksInv, LossInv, GiveUp \/ EndSession \/ Keep
    PROVE  LossInv'
  <1> USE DEF TasksInv, StructureInv
  <1>1. /\ UNCHANGED heapVars /\ freeing = <<>> /\ UNCHANGED freeing /\ UNCHANGED failures
        /\ stage \in {"dispose", "destroy"} /\ Return(task_list, current_task)
    BY DEF GiveUp, EndSession, Keep, Disposing, Busy
  <1>2. ~ Creating /\ stage # "context"
    BY <1>1, NotCreating
  <1>3. Kept(memory, memory', {})
    <2>1. CASE GiveUp \/ EndSession
      BY <2>1, SameMemory DEF GiveUp, EndSession
    <2>2. CASE Keep
      <3>1. memory' = [memory EXCEPT ![made[1]].state = "FINISHED"]
        BY <2>2 DEF Keep
      <3>2. StateSet(memory, memory')
        BY <3>1, StateWritten
      <3>3. QED
        BY <3>2 DEF StateSet
    <2>3. QED
      BY <2>1, <2>2
  <1>4. failures = {} => Range(made) \subseteq Range(task_list)
    <2>1. CASE GiveUp
      BY <2>1 DEF GiveUp, LossInv, Complete
    <2>2. CASE EndSession
      BY <2>2, OrderlyEmpty DEF EndSession
    <2>3. CASE Keep
      <3>1. Product = "task" /\ Caller.all /\ NONE \notin Range(made)
        <4>1. Caller.dispose = "keep" /\ CallerSound(Caller)
          BY <2>3, CallerIsAt DEF Keep, Disposing, ControlSound
        <4>2. QED
          BY <2>3, <4>1 DEF Keep, Disposing, Product, ProductOf, CallerSound
      <3>2. \A a \in Range(made) : ProductSound(a)
        BY <3>1 DEF MadeSound, Range
      <3>3. QED
        BY <3>1, <3>2 DEF ProductSound
    <2>4. QED
      BY <2>1, <2>2, <2>3
  <1>5. InUse' = InUse
    BY <1>1, SameHeap
  <1>6. QED
    BY <1>1, <1>2, <1>3, <1>4, <1>5, ReturnLoss

LEMMA GrowLoss ==
    ASSUME NoWrap, TasksInv, LossInv, Grow
    PROVE  LossInv'
  <1> USE DEF TasksInv, StructureInv
  <1>1. PICK n, old : n = Returned /\ old = made[1]
    OBVIOUS
  <1>2. /\ freeing = <<>> /\ UNCHANGED freeing /\ stage = "dispose" /\ Caller.dispose = "grow"
        /\ ~ (Caller.all /\ NONE \in Range(made))
        /\ \/ \E i \in SlotAt(old) : heap_realloc(i, SizeOf.grown)
           \/ Refused(RoundUp(SizeOf.grown), FALSE)
    BY <1>1 DEF Grow, Disposing, Busy
  <1>3. PICK low \in Nat : low = task_list[2] + 1
    BY StructureFacts
  <1>4. \/ Denied
        \/ Returned \in Nat \ {0} /\ InUse' = (InUse \ {old}) \cup {Returned}
    <2>1. Above(low)
      BY <1>3 DEF BootBelow
    <2>2. QED
      BY <1>2, <2>1, GrowEffect
  <1>5. /\ Product = "block" /\ made \in Seq(Nat) /\ DOMAIN made = {1} /\ ProductSound(old)
        /\ ~ Creating /\ stage # "context"
    <2>1. CallerSound(Caller) /\ session \in 1 .. 13
      BY CallerIsAt DEF ControlSound
    <2>2. Len(made) = 1 /\ made \in Seq(Nat) /\ Caller.all
      BY <1>2, <2>1, AllMade DEF CallerSound
    <2>3. DOMAIN made = {1} /\ old \in Range(made) /\ old # NONE
      BY <1>1, <1>2, <2>2 DEF Range
    <2>4. ProductSound(old)
      BY <1>1, <2>3 DEF MadeSound
    <2>5. QED
      BY <1>2, <2>2, <2>3, <2>4, NotCreating DEF Product, ProductOf
  <1>6. CASE Returned = NONE
    <2>1. Return(task_list, current_task) /\ UNCHANGED memory /\ failures' = failures \cup {"grown"}
      BY <1>6 DEF Grow
    <2>2. InUse' = InUse /\ Kept(memory, memory', {}) /\ failures' # {}
      BY <1>4, <1>6, <2>1, SameMemory DEF Denied, NONE
    <2>3. QED
      BY <1>2, <1>5, <2>1, <2>2, ReturnLoss
  <1>7. CASE Returned # NONE
    <2> DEFINE r == [image |-> Image(n, SizeOf.grown, page_table')]
               m1 == Without(memory, old)
    <2>1. /\ memory' = Put(m1, n, r) /\ made' = <<n>> /\ stage' = "destroy"
          /\ UNCHANGED task_list /\ UNCHANGED session /\ UNCHANGED parts /\ UNCHANGED failures
      BY <1>1, <1>7 DEF Grow
    <2>2. n # NONE /\ InUse' = (InUse \ {old}) \cup {n}
      BY <1>1, <1>4, <1>7 DEF Denied
    <2> HIDE DEF r, m1
    <2>3. Dropped(memory, m1, old) /\ Added(m1, memory', n, r)
      BY <2>1, WithoutDrops, PutAdds DEF m1
    <2>4. parts = NoParts /\ Doomed = {} /\ Doomed' = {} /\ Product' = Product
      BY <1>2, <1>5, <2>1, OrderlyEmpty, SelvesFacts, SameCaller DEF Doomed, PartsSound
    <2>5. /\ old \in DOMAIN memory /\ DOMAIN memory[old] = PlainShape
          /\ old \notin Range(task_list) /\ LinksOf(memory, old) = {}
      <3>1. old \in DOMAIN memory /\ DOMAIN memory[old] = PlainShape
        BY <1>5 DEF ProductSound
      <3>2. QED
        BY <3>1, ListedAreTasks, ShapesDiffer, ShapeLinks DEF Has, LinksOf
    <2>6. n \notin Range(task_list) /\ n \notin DOMAIN memory
      <3>1. n \in Nat /\ n \notin InUse /\ n > task_list[2] + 1
        <4>1. Above(low)
          BY <1>3 DEF BootBelow
        <4>2. Denied \/ (Returned \in Nat \ {0} /\ Returned \notin InUse /\ Returned > low)
          BY <1>2, <4>1, GrowEffect
        <4>3. QED
          BY <1>1, <1>3, <1>7, <4>2 DEF Denied
      <3>2. QED
        BY <1>2, <3>1, FreshAddress
    <2>7. \A b \in DOMAIN memory : b # old => b \in DOMAIN memory' /\ memory'[b] = memory[b]
      BY <2>3, <2>6 DEF Dropped, Added
    <2>8. Range(made') = {n} /\ Range(made) = {old}
      BY <1>1, <1>5, <2>1 DEF Range
    <2>9. Complete'
      <3>1. \A t \in Range(task_list) : memory'[t] = memory[t]
        BY <2>5, <2>7, StructureFacts
      <3>2. QED
        BY <1>2, <1>5, <2>1, <2>2, <2>4, <2>8, <3>1 DEF LossInv, Complete
    <2>10. Accounted'
      <3>1. SUFFICES ASSUME failures' = {}, NEW a, a \in InUse' PROVE Held(a)'
        BY DEF Accounted
      <3>2. CASE a = n
        BY <2>8, <3>2 DEF Held
      <3>3. CASE a # n
        <4>1. a \in InUse /\ a # old /\ a # NONE
          BY <2>2, <3>1, <3>3, StructureFacts DEF NONE
        <4>2. Held(a)
          BY <2>1, <3>1, <4>1 DEF LossInv, Accounted
        <4>3. a \notin Range(made) /\ a \notin {parts.process, parts.space, parts.task}
          BY <2>4, <2>8, <4>1 DEF NoParts
        <4>4. CASE a \in Range(task_list)
          BY <2>1, <4>4 DEF Held
        <4>5. CASE \E b \in DOMAIN memory : \E f \in LinksOf(memory, b) : memory[b][f] = a
          <5>1. PICK b \in DOMAIN memory : \E f \in LinksOf(memory, b) : memory[b][f] = a
            BY <4>5
          <5>2. b # old
            BY <2>5, <5>1
          <5>3. QED
            BY <2>4, <2>7, <5>1, <5>2 DEF Held, LinksOf
        <4>6. QED
          BY <2>4, <4>2, <4>3, <4>4, <4>5 DEF Held
      <3>4. QED
        BY <3>2, <3>3
    <2>11. TakenSound' /\ GivenBack'
      BY <2>1, <2>4 DEF TakenSound, GivenBack
    <2>12. QED
      BY <2>9, <2>10, <2>11 DEF LossInv
  <1>8. QED
    BY <1>6, <1>7

LEMMA HeadAndTail ==
    ASSUME NEW q \in Seq(Nat), q # <<>>
    PROVE  /\ Head(q) \in Range(q) /\ Range(Tail(q)) \subseteq Range(q)
           /\ Range(q) \subseteq Range(Tail(q)) \cup {Head(q)}
  <1>1. PICK n \in Nat : Len(q) = n + 1
    OBVIOUS
  <1>2. PICK r : r = Tail(q)
    OBVIOUS
  <1>3. /\ DOMAIN q = 1 .. n + 1 /\ DOMAIN r = 1 .. n /\ Head(q) = q[1]
        /\ \A k \in 1 .. n : r[k] = q[k + 1]
    BY <1>1, <1>2
  <1>4. ASSUME NEW k \in 1 .. n + 1 PROVE q[k] \in Range(r) \cup {Head(q)}
    <2>1. CASE k = 1
      BY <1>3, <2>1
    <2>2. CASE k # 1
      <3>1. PICK j \in 1 .. n : k = j + 1
        BY <1>1, <2>2
      <3>2. QED
        BY <1>3, <3>1 DEF Range
    <2>3. QED
      BY <2>1, <2>2
  <1>5. 1 \in 1 .. n + 1 /\ \A k \in 1 .. n : k + 1 \in 1 .. n + 1
    OBVIOUS
  <1>6. Range(q) \subseteq Range(r) \cup {Head(q)}
    BY <1>3, <1>4 DEF Range
  <1>7. Range(r) \subseteq Range(q) /\ Head(q) \in Range(q)
    <2>1. \A k \in 1 .. n : r[k] \in Range(q)
      BY <1>3, <1>5 DEF Range
    <2>2. q[1] \in Range(q)
      BY <1>3, <1>5 DEF Range
    <2>3. QED
      BY <1>3, <2>1, <2>2 DEF Range
  <1>8. QED
    BY <1>2, <1>6, <1>7

LEMMA DestroyNextLoss ==
    ASSUME TasksInv, LossInv, DestroyNext
    PROVE  LossInv'
  <1> USE DEF TasksInv, StructureInv, LossInv
  <1>1. /\ freeing = <<>> /\ stage = "destroy" /\ made # <<>> /\ made' = Tail(made)
        /\ UNCHANGED heapVars /\ UNCHANGED memory /\ UNCHANGED session
        /\ UNCHANGED stage /\ UNCHANGED parts /\ UNCHANGED failures
    BY DEF DestroyNext, Busy
  <1>2. PICK a : a = Head(made)
    OBVIOUS
  <1>3. /\ a \in Range(made) /\ Range(made') \subseteq Range(made)
        /\ Range(made) \subseteq Range(made') \cup {a}
    BY <1>1, <1>2, HeadAndTail DEF ControlSound
  <1>4. /\ Product' = Product /\ Product # "none" /\ parts = NoParts /\ parts' = NoParts
        /\ InUse' = InUse /\ Doomed = {}
    BY <1>1, SameCaller, SameHeap, NotCreating, OrderlyEmpty, SelvesFacts
    DEF Complete, PartsSound, Doomed
  <1>5. TakenSound' /\ GivenBack'
    BY <1>1, <1>4 DEF TakenSound, GivenBack
  <1>6. CASE a = NONE
    <2>1. failures # {}
      BY <1>3, <1>6 DEF Complete
    <2>2. Complete' /\ Accounted'
      BY <1>1, <1>4, <2>1 DEF Complete, Accounted
    <2>3. QED
      BY <1>5, <2>2
  <1>7. CASE a # NONE
    <2>1. PICK D, R : DoomSound(a, D, R)
      BY <1>1, <1>3, <1>7, DoomIsSound
    <2>2. PICK found : found = {k \in DOMAIN task_list : task_list[k] \in R}
      OBVIOUS
    <2>3. /\ freeing' = Doom(a)
          /\ task_list' = IF found = {} THEN task_list
                          ELSE RemoveAt(task_list, CHOOSE k \in found : TRUE)
      <3>1. found = {k \in DOMAIN task_list : /\ task_list[k] \in TaskOf(a)
                                              /\ Destructible(task_list[k])}
        BY <2>1, <2>2 DEF DoomSound
      <3>2. QED
        BY <1>2, <1>7, <3>1 DEF DestroyNext
    <2>4. PICK list : list = task_list'
      OBVIOUS
    <2>5. list[1] = task_list[1] /\ Range(list) = Range(task_list) \ R
      <3>1. PICK t \in Range(task_list) : R \subseteq {t}
        BY <2>1 DEF DoomSound
      <3>2. \A x \in R : x > task_list[2] + 1
        BY <2>1 DEF DoomSound
      <3>3. Shortened(task_list, list, R)
        BY <2>2, <2>3, <2>4, <3>1, <3>2, ListShrinks
      <3>4. QED
        BY <3>3 DEF Shortened
    <2>6. /\ Doomed' = D /\ R \subseteq D /\ Drains(Doom(a), D)
          /\ a \in D \/ a \in Range(task_list)
          /\ \A b \in D : b \in DOMAIN memory => \A f \in LinksOf(memory, b) :
                f \in {"space", "task"} => memory[b][f] \in D \/ memory[b][f] \in Range(task_list)
      BY <1>4, <2>1, <2>3 DEF DoomSound, QueueSound, Doomed
    <2>7. Complete'
      BY <1>1, <1>3, <1>4, <2>4, <2>5 DEF Complete
    <2>8. \A x : (x \in D \/ x \in Range(task_list)) => Held(x)'
      BY <2>4, <2>5, <2>6 DEF Held
    <2>9. ASSUME failures = {}, NEW x \in InUse PROVE Held(x)'
      <3>1. Held(x) /\ x # NONE
        BY <2>9, StructureFacts DEF Accounted, NONE
      <3>2. CASE x \in Range(task_list)
        BY <2>8, <3>2
      <3>3. CASE x \in Range(made)
        <4>1. CASE x = a
          BY <2>6, <2>8, <4>1
        <4>2. CASE x # a
          BY <1>3, <3>3, <4>2 DEF Held
        <4>3. QED
          BY <4>1, <4>2
      <3>4. CASE \E b \in DOMAIN memory : \E f \in LinksOf(memory, b) : memory[b][f] = x
        <4>1. PICK b, f : b \in DOMAIN memory /\ f \in LinksOf(memory, b) /\ memory[b][f] = x
          BY <3>4
        <4>2. CASE b \in D /\ f \in {"space", "task"}
          BY <2>6, <2>8, <4>1, <4>2
        <4>3. CASE b \in D => Field(b, f) \in Range(freeing')
          BY <1>1, <2>6, <4>1, <4>3 DEF Held
        <4>4. CASE b \in D /\ f \notin {"space", "task"}
          BY <2>3, <2>6, <4>1, <4>3, <4>4 DEF Drains
        <4>5. QED
          BY <4>2, <4>3, <4>4
      <3>5. x \notin {parts.process, parts.space, parts.task} /\ x \notin Doomed
        BY <1>4, <3>1 DEF NoParts
      <3>6. QED
        BY <3>1, <3>2, <3>3, <3>4, <3>5 DEF Held
    <2>10. Accounted'
      BY <1>1, <1>4, <2>9 DEF Accounted
    <2>11. QED
      BY <1>5, <2>7, <2>10
  <1>8. QED
    BY <1>6, <1>7

(* What is due is one of the addresses still to free; the others stay due. *)
LEMMA PendingFalls ==
    ASSUME TasksInv, Release, NEW x, x = Due
    PROVE  /\ x \in Pending \cup {NONE} /\ Pending' \subseteq Pending
           /\ Pending \subseteq Pending' \cup {x}
           /\ \A b, f : Field(b, f) \in Range(freeing) =>
                 Field(b, f) \in Range(freeing') \/ x = memory[b][f] \/ f = "self"
  <1> USE DEF TasksInv, StructureInv
  <1>1. PICK h, r : h = Head(freeing) /\ r = Tail(freeing)
    OBVIOUS
  <1>2. freeing # <<>> /\ freeing' = r /\ memory' = Without(memory, x)
    BY <1>1 DEF Release, Busy
  <1>3. Range(freeing) = {h} \cup Range(r)
    BY <1>1, <1>2, OrderlyTail DEF FreeingSound
  <1>4. x = Names(h)
    BY <1>1 DEF Due, Names
  <1>5. ASSUME NEW e \in Range(r) PROVE Names(e)' = Names(e)
    <2>1. e.field # "self" => e.of # x /\ e.of \in DOMAIN memory
      BY <1>1, <1>2, <1>3, DueFacts DEF FreeingSound
    <2>2. Dropped(memory, memory', x)
      BY <1>2, WithoutDrops
    <2>3. QED
      BY <2>1, <2>2 DEF Names, Dropped
  <1>6. x \in Pending \cup {NONE} /\ Pending' \subseteq Pending /\ Pending \subseteq Pending' \cup {x}
    BY <1>2, <1>3, <1>4, <1>5 DEF Pending
  <1>7. ASSUME NEW b, NEW f, Field(b, f) = h PROVE x = memory[b][f] \/ f = "self"
    BY <1>4, <1>7, EntryKinds DEF Names
  <1>8. QED
    BY <1>2, <1>3, <1>6, <1>7

LEMMA ReleaseLoss ==
    ASSUME TasksInv, LossInv, Release
    PROVE  LossInv'
  <1> USE DEF TasksInv, StructureInv, LossInv
  <1>1. PICK r, x : r = Tail(freeing) /\ x = Due
    OBVIOUS
  <1>2. /\ freeing # <<>> /\ FreeAddress(x) /\ memory' = Without(memory, x) /\ freeing' = r
        /\ UNCHANGED task_list /\ UNCHANGED session /\ UNCHANGED stage /\ UNCHANGED parts
        /\ UNCHANGED made /\ UNCHANGED failures /\ UNCHANGED before
    BY <1>1 DEF Release, Busy
  <1>3. /\ Selves(Range(r)) \subseteq Doomed
        /\ \A a \in Doomed : a = x \/ a \in Selves(Range(r))
        /\ \A a \in DOMAIN memory :
              (a \notin Doomed /\ (Unowned(memory, a) \/ DOMAIN memory[a] # PlainShape)) => a # x
        /\ \A e \in Range(r) : e.field # "self" => e.of # x
    BY <1>1, <1>2, DueFacts
  <1>4. Doomed' \subseteq Doomed /\ \A a \in Doomed : a = x \/ a \in Doomed'
    BY <1>2, <1>3 DEF Doomed
  <1>5. DOMAIN memory' = DOMAIN memory \ {x} /\ \A a \in DOMAIN memory : a # x => memory'[a] = memory[a]
    BY <1>2, WithoutDrops DEF Dropped
  <1>6. /\ InUse' = InUse \ {x}
        /\ \A j \in Slots : Live(j) /\ paged_heap_blocks[j].address # x =>
              paged_heap_blocks'[j] = paged_heap_blocks[j]
    <2>1. PICK low \in Nat : low = task_list[2] + 1
      BY StructureFacts
    <2>2. Above(low)
      BY <2>1 DEF BootBelow
    <2>3. QED
      BY <1>2, <2>2, FreeEffect
  <1>7. Product' = Product /\ (Creating' <=> Creating)
    BY <1>2, SameCaller DEF Creating
  <1>8. /\ x \in Pending \cup {NONE} /\ Pending' \subseteq Pending
        /\ Pending \subseteq Pending' \cup {x}
        /\ \A b, f : Field(b, f) \in Range(freeing) =>
              Field(b, f) \in Range(freeing') \/ x = memory[b][f] \/ f = "self"
    BY <1>1, PendingFalls
  <1>9. Complete'
    <2>1. \A t \in Range(task_list) : memory'[t] = memory[t]
      <3>1. ASSUME NEW t \in Range(task_list) PROVE t # x /\ t \in DOMAIN memory
        <4>1. t \notin Doomed /\ Has(memory, t, TaskShape)
          BY DEF ListSound
        <4>2. QED
          BY <1>3, <4>1, ShapesDiffer DEF Has
      <3>2. QED
        BY <1>5, <3>1
    <2>2. QED
      BY <1>2, <1>7, <2>1 DEF Complete
  <1>10. Accounted'
    <2>1. SUFFICES ASSUME failures = {}, NEW y, y \in InUse, y # x PROVE Held(y)'
      BY <1>2, <1>6 DEF Accounted
    <2>2. Held(y)
      BY <2>1 DEF Accounted
    <2>3. CASE \/ y \in Range(task_list) \/ y \in Range(made)
               \/ y \in {parts.process, parts.space, parts.task} \/ y \in Doomed
      BY <1>2, <1>4, <2>1, <2>3 DEF Held
    <2>4. CASE \E b \in DOMAIN memory : \E f \in LinksOf(memory, b) :
                  memory[b][f] = y /\ (b \in Doomed => Field(b, f) \in Range(freeing))
      <3>1. PICK b, f : /\ b \in DOMAIN memory /\ f \in LinksOf(memory, b) /\ memory[b][f] = y
                        /\ b \in Doomed => Field(b, f) \in Range(freeing)
        BY <2>4
      <3>2. f # "self" /\ (Field(b, f)).of = b /\ (Field(b, f)).field = f
        BY <3>1, EntryKinds DEF LinksOf, Links
      <3>3. b \in Doomed => Field(b, f) \in Range(freeing')
        BY <1>8, <2>1, <3>1, <3>2
      <3>4. b # x
        <4>1. ASSUME b = x PROVE b \in Doomed
          <5>1. DOMAIN memory[b] # PlainShape
            BY <3>1, ShapeLinks DEF LinksOf
          <5>2. QED
            BY <1>3, <3>1, <4>1, <5>1
        <4>2. QED
          BY <1>2, <1>3, <3>2, <3>3, <4>1
      <3>5. b \in DOMAIN memory' /\ f \in LinksOf(memory', b) /\ memory'[b][f] = y
        BY <1>5, <3>1, <3>4 DEF LinksOf
      <3>6. QED
        BY <1>4, <3>3, <3>5 DEF Held
    <2>5. QED
      BY <2>2, <2>3, <2>4 DEF Held
  <1>11. TakenSound'
    BY <1>2, <1>7 DEF TakenSound, ControlSound
  <1>12. GivenBack'
    <2>1. SUFFICES ASSUME made # <<>>, made[Len(made)] = NONE, parts = NoParts, stage # "destroy"
                   PROVE  /\ before \subseteq InUse' /\ before \cap Pending' = {}
                          /\ LET kept == InUse' \ (before \cup Pending')
                             IN  kept = {} \/ \E d, t \in kept : kept = {d, t} /\ Leftover(d, t)'
      BY <1>2 DEF GivenBack
    <2>2. /\ before \subseteq InUse /\ before \cap Pending = {}
          /\ LET kept == InUse \ (before \cup Pending)
             IN  kept = {} \/ \E d, t \in kept : kept = {d, t} /\ Leftover(d, t)
      BY <2>1 DEF GivenBack
    <2>3. NONE \notin InUse
      BY StructureFacts DEF NONE
    <2>4. PICK kept : kept = InUse \ (before \cup Pending)
      OBVIOUS
    <2>5. kept = InUse' \ (before \cup Pending') /\ x \notin kept /\ x \notin before
      BY <1>6, <1>8, <2>2, <2>3, <2>4
    <2>6. ASSUME NEW d, NEW s, BlockOf(d, s), d # x PROVE BlockOf(d, s)'
      BY <1>6, <2>6 DEF BlockOf, Live, Used, Free
    <2>7. ASSUME NEW d \in kept, NEW t \in kept, Leftover(d, t) PROVE Leftover(d, t)'
      BY <1>7, <2>5, <2>6, <2>7 DEF Leftover
    <2>8. QED
      BY <1>6, <1>8, <2>2, <2>4, <2>5, <2>7
  <1>13. QED
    BY <1>9, <1>10, <1>11, <1>12

LEMMA ShortRanges ==
    ASSUME NEW S, NEW a \in S, NEW b \in S, NEW q
    PROVE  /\ q = <<>> => q \in Seq(S) /\ Range(q) = {}
           /\ q = <<a>> => q \in Seq(S) /\ Range(q) = {a}
           /\ q = <<a, b>> => q \in Seq(S) /\ Range(q) = {a, b}
  <1>1. ASSUME q = <<>> PROVE q \in Seq(S) /\ Range(q) = {}
    BY <1>1, OrderlyEmpty
  <1>2. ASSUME q = <<a>> PROVE q \in Seq(S) /\ Range(q) = {a}
    <2>1. q \in Seq(S) /\ DOMAIN q = {1} /\ q[1] = a
      BY <1>2
    <2>2. QED
      BY <2>1 DEF Range
  <1>3. ASSUME q = <<a, b>> PROVE q \in Seq(S) /\ Range(q) = {a, b}
    <2>1. q \in Seq(S) /\ DOMAIN q = {1, 2} /\ q[1] = a /\ q[2] = b
      BY <1>3
    <2>2. QED
      BY <2>1 DEF Range
  <1>4. QED
    BY <1>1, <1>2, <1>3

(* What is given back on the way out, by the allocation that failed. *)
LEMMA PendingUndo ==
    ASSUME NEW kind \in {"process", "space", "directory", "tables", "task", "stack", "block"},
           freeing' = Undo(kind), UNCHANGED memory, NEW p, NEW s, NEW t,
           p = parts.process, s = parts.space, t = parts.task
    PROVE  Pending' = {x \in {p, s, t, memory[s].directory} \ {NONE} :
              \/ x = p /\ kind \in {"space", "directory", "tables", "task", "stack"}
              \/ x = s /\ kind \in {"directory", "tables"}
              \/ x = s /\ kind \in {"task", "stack"} /\ p # NONE
              \/ x = memory[s].directory /\ kind = "tables"
              \/ x = t /\ kind = "stack"}
  <1>1. PICK sp, ss, st, sd : /\ sp = Self(p) /\ ss = Self(s) /\ st = Self(t)
                              /\ sd = Field(s, "directory")
    OBVIOUS
  <1>2. PICK S : sp \in S /\ ss \in S /\ st \in S /\ sd \in S
    <2>1. sp \in {sp, ss, st, sd} /\ ss \in {sp, ss, st, sd}
      OBVIOUS
    <2>2. st \in {sp, ss, st, sd} /\ sd \in {sp, ss, st, sd}
      OBVIOUS
    <2>3. QED
      BY <2>1, <2>2
  <1>3. PICK qp, qs, qt, qd : qp = <<sp>> /\ qs = <<ss>> /\ qt = <<st>> /\ qd = <<sd, ss>>
    OBVIOUS
  <1>4. /\ qp \in Seq(S) /\ Range(qp) = {sp} /\ qs \in Seq(S) /\ Range(qs) = {ss}
        /\ qt \in Seq(S) /\ Range(qt) = {st} /\ qd \in Seq(S) /\ Range(qd) = {sd, ss}
    <2>1. qp \in Seq(S) /\ Range(qp) = {sp}
      BY <1>2, <1>3, ShortRanges
    <2>2. qs \in Seq(S) /\ Range(qs) = {ss}
      BY <1>2, <1>3, ShortRanges
    <2>3. qt \in Seq(S) /\ Range(qt) = {st}
      BY <1>2, <1>3, ShortRanges
    <2>4. qd \in Seq(S) /\ Range(qd) = {sd, ss}
      BY <1>2, <1>3, ShortRanges
    <2>5. QED
      BY <2>1, <2>2, <2>3, <2>4
  <1>5. PICK own \in Seq(S) : Range(own) = {x \in {sp} : p # NONE} /\ own = OwnProcess
    <2>1. CASE p = NONE
      <3>1. OwnProcess = <<>> /\ {} = {x \in {sp} : p # NONE}
        BY <2>1 DEF OwnProcess
      <3>2. OwnProcess \in Seq(S) /\ Range(OwnProcess) = {}
        BY <1>2, <3>1, ShortRanges
      <3>3. QED
        BY <3>1, <3>2
    <2>2. CASE p # NONE
      <3>1. OwnProcess = qp /\ {sp} = {x \in {sp} : p # NONE}
        BY <1>1, <1>3, <2>2 DEF OwnProcess
      <3>2. QED
        BY <1>4, <3>1
    <2>3. QED
      BY <2>1, <2>2
  <1>6. /\ Range(qs \o own) = {ss} \cup Range(own) /\ qs \o own \in Seq(S)
        /\ Range(qd \o own) = {sd, ss} \cup Range(own)
    BY <1>4, RangeConcat
  <1>7. PICK creator \in Seq(S) : /\ Range(creator) = {x \in {ss, sp} : p # NONE}
                                  /\ creator = IF p = NONE THEN <<>> ELSE qs \o own
    <2>1. CASE p = NONE
      <3>1. PICK none : none = <<>>
        OBVIOUS
      <3>2. none \in Seq(S) /\ Range(none) = {} /\ {} = {x \in {ss, sp} : p # NONE}
        BY <1>2, <2>1, <3>1, ShortRanges
      <3>3. QED
        BY <2>1, <3>1, <3>2
    <2>2. CASE p # NONE
      BY <1>5, <1>6, <2>2
    <2>3. QED
      BY <2>1, <2>2
  <1>8. Range(qt \o creator) = {st} \cup Range(creator)
    BY <1>4, RangeConcat
  <1>9. Undo(kind) = CASE kind \in {"process", "block"} -> <<>>
                       [] kind = "space" -> own
                       [] kind = "directory" -> qs \o own
                       [] kind = "tables" -> qd \o own
                       [] kind = "task" -> creator
                       [] kind = "stack" -> qt \o creator
    BY <1>1, <1>3, <1>5, <1>7 DEF Undo
  <1>10. /\ Names(sp) = p /\ Names(ss) = s /\ Names(st) = t /\ Names(sd) = memory[s].directory
    BY <1>1 DEF Names, Self, Field
  <1>11. Pending' = {Names(e) : e \in Range(Undo(kind))} \ {NONE}
    BY DEF Pending, Names
  <1>12. CASE kind \in {"process", "block"}
    <2>1. Range(Undo(kind)) = {}
      BY <1>9, <1>12, OrderlyEmpty
    <2>2. QED
      BY <1>11, <1>12, <2>1
  <1>13. CASE kind = "space"
    <2>1. Range(Undo(kind)) = {x \in {sp} : p # NONE}
      BY <1>5, <1>9, <1>13
    <2>2. QED
      BY <1>10, <1>11, <1>13, <2>1
  <1>14. CASE kind = "directory"
    <2>1. Range(Undo(kind)) = {ss} \cup {x \in {sp} : p # NONE}
      BY <1>5, <1>6, <1>9, <1>14
    <2>2. QED
      BY <1>10, <1>11, <1>14, <2>1
  <1>15. CASE kind = "tables"
    <2>1. Range(Undo(kind)) = {sd, ss} \cup {x \in {sp} : p # NONE}
      BY <1>5, <1>6, <1>9, <1>15
    <2>2. QED
      BY <1>10, <1>11, <1>15, <2>1
  <1>16. CASE kind = "task"
    <2>1. Range(Undo(kind)) = {x \in {ss, sp} : p # NONE}
      BY <1>7, <1>9, <1>16
    <2>2. QED
      BY <1>10, <1>11, <1>16, <2>1
  <1>17. CASE kind = "stack"
    <2>1. Range(Undo(kind)) = {st} \cup {x \in {ss, sp} : p # NONE}
      BY <1>7, <1>8, <1>9, <1>17
    <2>2. QED
      BY <1>10, <1>11, <1>17, <2>1
  <1>18. QED
    BY <1>12, <1>13, <1>14, <1>15, <1>16, <1>17

(* The parts there are when an allocation fails. *)
LEMMA PartsAt ==
    ASSUME TasksInv, Creating, freeing = <<>>, NEW p, NEW s, NEW t,
           p = parts.process, s = parts.space, t = parts.task
    PROVE  /\ stage \in {"process", "block"} => p = NONE
           /\ stage \in {"process", "block", "space"} => s = NONE
           /\ stage \notin {"stack", "context"} => t = NONE
           /\ stage \in {"directory", "tables"} => s # NONE
           /\ stage = "directory" => s \notin DOMAIN memory
           /\ stage = "tables" => s \in DOMAIN memory /\ memory[s].tables = NONE
           /\ stage \in {"stack", "context"} => t # NONE /\ Has(memory, t, TaskShape)
           /\ stage \in {"task", "stack", "context"} =>
                 /\ p = NONE <=> s = NONE
                 /\ p # NONE =>
                       /\ Product = "process" /\ Has(memory, p, ProcessShape)
                       /\ Has(memory, s, SpaceShape)
                       /\ memory[s].directory # NONE /\ memory[s].tables # NONE
  <1> USE DEF TasksInv, StructureInv, PartsSound
  <1>1. Product \in Products /\ NONE \notin DOMAIN memory /\ NONE \notin InUse
    BY CreatingStages, StructureFacts DEF NONE
  <1>2. stage = "block" => Product # "process"
    BY DEF Creating, StagesOf
  <1>3. stage \in {"process", "block"} => p = NONE
    BY <1>2 DEF ProcessPart
  <1>4. stage \in {"process", "block", "space"} => s = NONE
    BY DEF SpacePart
  <1>5. stage \notin {"stack", "context"} => t = NONE
    BY DEF TaskPart
  <1>6. stage = "directory" => s # NONE /\ s \notin DOMAIN memory
    BY <1>1 DEF SpacePart
  <1>7. stage = "tables" => s # NONE /\ s \in DOMAIN memory /\ memory[s].tables = NONE
    BY <1>1 DEF SpacePart, Part, Has
  <1>8. stage \in {"stack", "context"} => t # NONE /\ Has(memory, t, TaskShape)
    BY <1>1 DEF TaskPart, Part, Has
  <1>9. ASSUME stage \in {"task", "stack", "context"}
        PROVE  /\ p = NONE <=> s = NONE
               /\ p # NONE =>
                     /\ Product = "process" /\ Has(memory, p, ProcessShape)
                     /\ Has(memory, s, SpaceShape)
                     /\ memory[s].directory # NONE /\ memory[s].tables # NONE
    <2>1. CASE Product = "process"
      <3>1. Has(memory, p, ProcessShape)
        BY <1>9, <2>1 DEF ProcessPart, Part
      <3>2. /\ Has(memory, s, SpaceShape) /\ memory[s].directory # NONE
            /\ memory[s].tables # NONE
        BY <1>9, <2>1 DEF SpacePart
      <3>3. QED
        BY <1>1, <2>1, <3>1, <3>2 DEF Has
    <2>2. CASE Product # "process"
      BY <1>9, <2>2 DEF ProcessPart, SpacePart
    <2>3. QED
      BY <2>1, <2>2
  <1>10. QED
    BY <1>3, <1>4, <1>5, <1>6, <1>7, <1>8, <1>9

(* The page directory and the tables of an address space are blocks of their own. *)
LEMMA SpaceLinks ==
    ASSUME TasksInv, freeing = <<>>, NEW s, Has(memory, s, SpaceShape),
           memory[s].directory # NONE, NEW d, NEW u, d = memory[s].directory,
           u = memory[s].tables
    PROVE  /\ d # u /\ Has(memory, d, PlainShape)
           /\ u # NONE => Has(memory, u, PlainShape)
  <1>1. WellOwned(memory, {}, task_list[2])
    BY OrderlyEmpty, SelvesFacts DEF TasksInv, StructureInv, Ownership, Doomed
  <1>2. s \in DOMAIN memory /\ {"directory", "tables"} \subseteq LinksOf(memory, s)
    BY ShapeLinks DEF Has, LinksOf
  <1>3. Target("directory") = PlainShape /\ Target("tables") = PlainShape
    BY DEF Target
  <1>4. QED
    BY <1>1, <1>2, <1>3 DEF WellOwned, Has

LEMMA FailsLoss ==
    ASSUME NoWrap, TasksInv, LossInv,
           NEW kind \in {"process", "space", "directory", "tables", "task", "stack", "block"},
           Fails(kind)
    PROVE  LossInv'
  <1> USE DEF TasksInv, StructureInv, LossInv
  <1>1. /\ freeing = <<>> /\ stage = kind /\ stage # "context" /\ Allocate(kind)
        /\ Returned = NONE /\ UNCHANGED memory /\ UNCHANGED session /\ parts' = NoParts
        /\ freeing' = Undo(kind) /\ failures' = failures \cup {kind}
        /\ before' = IF parts = NoParts THEN InUse ELSE before
    BY DEF Fails, Asks, Finish
  <1>2. Creating /\ Product # "none" /\ Product' = Product
    BY <1>1, CreatingStages, SameCaller DEF ControlSound
  <1>3. InUse' = InUse /\ UNCHANGED paged_heap_blocks
    <2>1. PICK low \in Nat : low = task_list[2] + 1
      BY StructureFacts
    <2>2. Above(low) /\ kind \in AlignedKinds \cup PlainKinds
      BY <2>1 DEF BootBelow, AlignedKinds, PlainKinds
    <2>3. Denied
      BY <1>1, <2>2, AllocateEffect DEF Granted, NONE
    <2>4. QED
      BY <2>3 DEF Denied
  <1>4. Complete' /\ Accounted' /\ TakenSound'
    <2>1. failures' # {}
      BY <1>1
    <2>2. QED
      BY <1>1, <1>2, <2>1 DEF Complete, Accounted, TakenSound
  <1>5. PICK p, s, t : p = parts.process /\ s = parts.space /\ t = parts.task
    OBVIOUS
  <1>6. PICK d, u : d = memory[s].directory /\ u = memory[s].tables
    OBVIOUS
  <1>7. Pending' = {x \in {p, s, t, d} \ {NONE} :
           \/ x = p /\ kind \in {"space", "directory", "tables", "task", "stack"}
           \/ x = s /\ kind \in {"directory", "tables"}
           \/ x = s /\ kind \in {"task", "stack"} /\ p # NONE
           \/ x = d /\ kind = "tables"
           \/ x = t /\ kind = "stack"}
    BY <1>1, <1>5, <1>6, PendingUndo
  <1>8. /\ kind \in {"process", "block"} => p = NONE
        /\ kind \in {"process", "block", "space"} => s = NONE
        /\ kind # "stack" => t = NONE
        /\ kind \in {"directory", "tables"} => s # NONE
        /\ kind = "directory" => s \notin DOMAIN memory
        /\ kind = "tables" => s \in DOMAIN memory /\ u = NONE
        /\ kind = "stack" => t # NONE /\ Has(memory, t, TaskShape)
        /\ kind \in {"task", "stack"} =>
              /\ p = NONE <=> s = NONE
              /\ p # NONE => /\ Product = "process" /\ Has(memory, p, ProcessShape)
                             /\ Has(memory, s, SpaceShape) /\ d # NONE /\ u # NONE
    BY <1>1, <1>2, <1>5, <1>6, PartsAt
  <1>9. parts = NoParts <=> (p = NONE /\ s = NONE /\ t = NONE)
    BY <1>5 DEF PartsSound, NoParts
  <1>10. Taken = ({p, s, t} \ {NONE}) \cup (IF s \in DOMAIN memory THEN {d, u} \ {NONE} ELSE {})
    BY <1>5, <1>6 DEF Taken
  <1>11. /\ before' \subseteq InUse' /\ before' \cap Pending' = {}
         /\ LET kept == InUse' \ (before' \cup Pending')
            IN  kept = {} \/ \E x, y \in kept : kept = {x, y} /\ Leftover(x, y)'
    <2>1. CASE parts = NoParts
      <3>1. Pending' = {}
        BY <1>7, <1>8, <1>9, <2>1
      <3>2. QED
        BY <1>1, <1>3, <2>1, <3>1
    <2>2. CASE parts # NoParts
      <3>1. /\ InUse = before \cup Taken /\ before \cap Taken = {} /\ before' = before
            /\ (kind \in {"tables", "task", "stack"} /\ s # NONE) =>
                  BlockOf(d, RoundUp(SizeOf.directory))
            /\ (kind \in {"task", "stack"} /\ s # NONE) => BlockOf(u, RoundUp(SizeOf.tables))
        BY <1>1, <1>2, <1>5, <1>6, <2>2 DEF TakenSound
      <3>2. CASE kind \in {"task", "stack"} /\ p # NONE
        <4>1. d # u /\ Has(memory, d, PlainShape) /\ Has(memory, u, PlainShape)
          BY <1>1, <1>6, <1>8, <3>2, SpaceLinks
        <4>2. d \notin {p, s, t} /\ u \notin {p, s, t}
          <5>1. t = NONE \/ Has(memory, t, TaskShape)
            BY <1>8, <3>2
          <5>2. QED
            BY <1>8, <3>2, <4>1, <5>1, ShapesDiffer, StructureFacts DEF Has
        <4>3. Taken = Pending' \cup {d, u} /\ Pending' \cap {d, u} = {}
          <5>1. Pending' = {p, s, t} \ {NONE}
            BY <1>7, <1>8, <3>2
          <5>2. s \in DOMAIN memory
            BY <1>8, <3>2 DEF Has
          <5>3. QED
            BY <1>8, <1>10, <3>2, <4>2, <5>1, <5>2
        <4>4. Leftover(d, u)'
          <5>1. Product = "process" /\ BlockOf(d, RoundUp(SizeOf.directory))
                /\ BlockOf(u, RoundUp(SizeOf.tables))
            BY <1>8, <3>1, <3>2
          <5>2. BlockOf(d, RoundUp(SizeOf.directory))' /\ BlockOf(u, RoundUp(SizeOf.tables))'
            BY <1>3, <5>1 DEF BlockOf, Live, Used, Free
          <5>3. QED
            BY <1>2, <4>1, <5>1, <5>2 DEF Leftover
        <4>5. PICK kept : kept = InUse' \ (before' \cup Pending')
          OBVIOUS
        <4>6. kept = {d, u}
          BY <1>3, <3>1, <4>3, <4>5
        <4>7. QED
          BY <1>3, <3>1, <4>3, <4>4, <4>5, <4>6
      <3>3. CASE ~ (kind \in {"task", "stack"} /\ p # NONE)
        <4>1. Pending' = Taken
          <5>1. CASE kind \in {"process", "block", "space"}
            BY <1>7, <1>8, <1>10, <5>1, StructureFacts
          <5>2. CASE kind = "directory"
            BY <1>7, <1>8, <1>10, <5>2
          <5>3. CASE kind = "tables"
            BY <1>7, <1>8, <1>10, <5>3
          <5>4. CASE kind \in {"task", "stack"}
            BY <1>7, <1>8, <1>10, <3>3, <5>4, StructureFacts
          <5>5. QED
            BY <5>1, <5>2, <5>3, <5>4
        <4>2. QED
          BY <1>3, <3>1, <4>1
      <3>4. QED
        BY <3>2, <3>3
    <2>3. QED
      BY <2>1, <2>2
  <1>12. GivenBack'
    BY <1>11 DEF GivenBack
  <1>13. QED
    BY <1>4, <1>12

(* An allocation of a creation that succeeds: the block is kept, by the creation under way
   or by what it belongs to. *)
LEMMA GotLoss ==
    ASSUME TasksInv, LossInv, Creating, freeing = <<>>, NEW n, InUse' = InUse \cup {n},
           UNCHANGED failures, UNCHANGED session, LinksGrow(memory, memory'),
           Doomed' \cap DOMAIN memory = {}, stage # "context",
           Range(task_list) \subseteq Range(task_list'), task_list'[1] = task_list[1],
           \A t \in Range(task_list') \ Range(task_list) : stage' = "context" /\ t = parts'.task,
           Range(made) \subseteq Range(made'), NONE \in Range(made') => NONE \in Range(made),
           Held(n)', \A a \in {parts.process, parts.space, parts.task} : a = NONE \/ Held(a)',
           TakenSound', parts' # NoParts \/ made'[Len(made')] # NONE
    PROVE  LossInv'
  <1> USE DEF LossInv
  <1>1. Product' = Product /\ Product # "none"
    BY SameCaller, CreatingStages DEF TasksInv, StructureInv
  <1>2. Complete'
    <2>1. \A t \in Range(task_list) : memory'[t].context = NONE => memory[t].context = NONE
      BY ContextsStay
    <2>2. QED
      BY <1>1, <2>1 DEF Complete
  <1>3. Accounted'
    <2>1. \A a \in Range(made) : Held(a)'
      BY DEF Held
    <2>2. \A b \in DOMAIN memory : b \notin Doomed'
      OBVIOUS
    <2>3. InUse' \subseteq InUse \cup {n} /\ \A a \in {n} : Held(a)'
      OBVIOUS
    <2>4. QED
      BY <2>1, <2>2, <2>3, AccountedStays
  <1>4. GivenBack'
    BY DEF GivenBack
  <1>5. QED
    BY <1>2, <1>3, <1>4

(* What the creation under way has taken grows by the block. *)
LEMMA TakenGrows ==
    ASSUME TasksInv, TakenSound, Creating, stage # "context", NEW n, InUse' = InUse \cup {n},
           n \notin InUse, before' = IF parts = NoParts THEN InUse ELSE before,
           Taken' = Taken \cup {n}
    PROVE  InUse' = before' \cup Taken' /\ before' \cap Taken' = {}
  <1>1. CASE parts = NoParts
    <2>1. parts.process = NONE /\ parts.space = NONE /\ parts.task = NONE
      BY <1>1 DEF NoParts
    <2>2. Taken = {}
      BY <2>1, StructureFacts DEF Taken
    <2>3. QED
      BY <1>1, <2>2
  <1>2. CASE parts # NoParts
    BY <1>2 DEF TakenSound
  <1>3. QED
    BY <1>1, <1>2

(* The heap marks the block with its size and leaves the others alone. *)
LEMMA BlocksStay ==
    ASSUME NoWrap, TasksInv, NEW kind \in AlignedKinds \cup PlainKinds, Allocate(kind),
           Returned # NONE
    PROVE  /\ \A a, size : BlockOf(a, size) => BlockOf(a, size)'
           /\ \A a : a = Returned => BlockOf(a, RoundUp(SizeOf[kind]))'
  <1> USE DEF TasksInv, StructureInv
  <1>1. PICK low \in Nat : low = task_list[2] + 1
    BY StructureFacts
  <1>2. Above(low)
    BY <1>1 DEF BootBelow
  <1>3. PICK z : z = RoundUp(SizeOf[kind])
    OBVIOUS
  <1>4. Granted(z, {})
    BY <1>2, <1>3, AllocateEffect DEF Denied
  <1>5. \A a, size : BlockOf(a, size) => BlockOf(a, size)'
    BY <1>4 DEF Granted, BlockOf, Live, Used, Free
  <1>6. \A a : a = Returned => BlockOf(a, z)'
    BY <1>4 DEF Granted, BlockOf
  <1>7. QED
    BY <1>3, <1>5, <1>6

LEMMA ProcessMadeLoss ==
    ASSUME NoWrap, TasksInv, LossInv, ProcessMade
    PROVE  LossInv'
  <1> USE DEF TasksInv, StructureInv
  <1>1. PICK n : n = Returned
    OBVIOUS
  <1> DEFINE r == [image |-> Image(n, SizeOf.process, page_table'), state |-> "READY",
                   space |-> NONE, task |-> NONE]
  <1>2. /\ freeing = <<>> /\ stage = "process" /\ Allocate("process") /\ Returned # NONE
        /\ UNCHANGED session /\ UNCHANGED task_list /\ UNCHANGED freeing /\ UNCHANGED failures
        /\ memory' = Put(memory, n, r) /\ Continue("space", [parts EXCEPT !.process = n])
        /\ before' = IF parts = NoParts THEN InUse ELSE before
    BY <1>1 DEF ProcessMade, Gets, Asks
  <1> HIDE DEF r
  <1>3. /\ n \notin InUse /\ InUse' = InUse \cup {n} /\ n \notin DOMAIN memory /\ n # NONE
        /\ Creating /\ NONE \notin DOMAIN memory
    BY <1>1, <1>2, GetsFacts DEF PlainKinds, AlignedKinds
  <1>4. Added(memory, memory', n, r)
    BY <1>2, PutAdds
  <1>5. /\ parts.process = NONE /\ parts.space = NONE /\ parts.task = NONE
        /\ parts'.process = n /\ parts'.space = NONE /\ parts'.task = NONE
        /\ stage' = "space" /\ UNCHANGED made /\ parts' # NoParts
    <2>1. parts.process = NONE /\ parts.space = NONE /\ parts.task = NONE
      BY <1>2, <1>3, PartsAt
    <2>2. QED
      BY <1>2, <1>3, <2>1 DEF Continue, PartsSound, NoParts
  <1>6. NONE \notin DOMAIN memory' /\ LinksGrow(memory, memory') /\ Doomed' = {}
    BY <1>2, <1>3, <1>4, AddedGrows, OrderlyEmpty, SelvesFacts DEF Added, Doomed
  <1>7. TakenSound'
    <2>1. Taken' = Taken \cup {n}
      BY <1>3, <1>5, <1>6 DEF Taken
    <2>2. InUse' = before' \cup Taken' /\ before' \cap Taken' = {}
      BY <1>2, <1>3, <2>1, TakenGrows DEF LossInv
    <2>3. QED
      BY <1>5, <2>2 DEF TakenSound
  <1>8. Held(n)' /\ \A a \in {parts.process, parts.space, parts.task} : a = NONE \/ Held(a)'
    BY <1>5 DEF Held
  <1>9. QED
    BY <1>2, <1>3, <1>5, <1>6, <1>7, <1>8, GotLoss

LEMMA SpaceMadeLoss ==
    ASSUME NoWrap, TasksInv, LossInv, SpaceMade
    PROVE  LossInv'
  <1> USE DEF TasksInv, StructureInv
  <1>1. PICK n, p : n = Returned /\ p = parts.process
    OBVIOUS
  <1>2. /\ freeing = <<>> /\ stage = "space" /\ Allocate("space") /\ Returned # NONE
        /\ UNCHANGED session /\ UNCHANGED task_list /\ UNCHANGED freeing /\ UNCHANGED failures
        /\ UNCHANGED memory /\ Continue("directory", [parts EXCEPT !.space = n])
        /\ before' = IF parts = NoParts THEN InUse ELSE before
    BY <1>1 DEF SpaceMade, Gets, Asks
  <1>3. /\ n \notin InUse /\ InUse' = InUse \cup {n} /\ n \notin DOMAIN memory /\ n # NONE
        /\ Creating /\ NONE \notin DOMAIN memory
    BY <1>1, <1>2, GetsFacts DEF PlainKinds, AlignedKinds
  <1>4. /\ parts.space = NONE /\ parts.task = NONE
        /\ parts'.process = p /\ parts'.space = n /\ parts'.task = NONE
        /\ stage' = "directory" /\ UNCHANGED made /\ parts' # NoParts
    <2>1. parts.space = NONE /\ parts.task = NONE
      BY <1>2, <1>3, PartsAt
    <2>2. QED
      BY <1>1, <1>2, <1>3, <2>1 DEF Continue, PartsSound, NoParts
  <1>5. LinksGrow(memory, memory') /\ Doomed' = {}
    BY <1>2, OrderlyEmpty, SelvesFacts DEF LinksGrow, Doomed
  <1>6. TakenSound'
    <2>1. Taken' = Taken \cup {n}
      BY <1>1, <1>2, <1>3, <1>4 DEF Taken
    <2>2. InUse' = before' \cup Taken' /\ before' \cap Taken' = {}
      BY <1>2, <1>3, <2>1, TakenGrows DEF LossInv
    <2>3. QED
      BY <1>4, <2>2 DEF TakenSound
  <1>7. Held(n)' /\ \A a \in {parts.process, parts.space, parts.task} : a = NONE \/ Held(a)'
    BY <1>1, <1>4 DEF Held
  <1>8. QED
    BY <1>2, <1>3, <1>4, <1>5, <1>6, <1>7, GotLoss

LEMMA DirectoryMadeLoss ==
    ASSUME NoWrap, TasksInv, LossInv, DirectoryMade
    PROVE  LossInv'
  <1> USE DEF TasksInv, StructureInv
  <1>1. PICK n, p, s : n = Returned /\ p = parts.process /\ s = parts.space
    OBVIOUS
  <1> DEFINE r1 == [image |-> Image(n, SizeOf.directory, page_table')]
             r2 == [image |-> Image(s, SizeOf.space, page_table'), directory |-> n,
                    tables |-> NONE]
             m1 == Put(memory, n, r1)
  <1>2. /\ freeing = <<>> /\ stage = "directory" /\ Allocate("directory") /\ Returned # NONE
        /\ UNCHANGED session /\ UNCHANGED task_list /\ UNCHANGED freeing /\ UNCHANGED failures
        /\ memory' = Put(m1, s, r2) /\ Continue("tables", parts)
        /\ before' = IF parts = NoParts THEN InUse ELSE before
    BY <1>1 DEF DirectoryMade, Gets, Asks
  <1>3. r2.directory = n /\ r2.tables = NONE
    OBVIOUS
  <1> HIDE DEF r1, r2, m1
  <1>4. /\ n \notin InUse /\ InUse' = InUse \cup {n} /\ n \notin DOMAIN memory /\ n # NONE
        /\ n \notin {parts.process, parts.space, parts.task} /\ Creating
    BY <1>1, <1>2, GetsFacts DEF PlainKinds, AlignedKinds
  <1>5. Added(memory, m1, n, r1) /\ Added(m1, memory', s, r2)
    BY <1>2, PutAdds DEF m1
  <1>6. /\ s # NONE /\ s \notin DOMAIN memory /\ parts.task = NONE
        /\ parts' = parts /\ stage' = "tables" /\ UNCHANGED made /\ parts' # NoParts
    <2>1. s # NONE /\ s \notin DOMAIN memory /\ parts.task = NONE
      BY <1>1, <1>2, <1>4, PartsAt
    <2>2. QED
      BY <1>1, <1>2, <2>1 DEF Continue, NoParts
  <1>7. /\ s \in DOMAIN memory' /\ memory'[s].directory = n /\ memory'[s].tables = NONE
    BY <1>3, <1>5 DEF Added
  <1>8. LinksGrow(memory, memory') /\ Doomed' = {}
    <2>1. s \notin DOMAIN m1
      BY <1>1, <1>4, <1>5, <1>6 DEF Added
    <2>2. LinksGrow(memory, m1) /\ LinksGrow(m1, memory')
      BY <1>4, <1>5, <2>1, AddedGrows
    <2>3. QED
      BY <1>2, <2>2, GrowsTwice, OrderlyEmpty, SelvesFacts DEF Doomed
  <1>9. TakenSound'
    <2>1. Taken' = Taken \cup {n}
      BY <1>1, <1>4, <1>6, <1>7 DEF Taken
    <2>2. InUse' = before' \cup Taken' /\ before' \cap Taken' = {}
      BY <1>2, <1>4, <2>1, TakenGrows DEF LossInv
    <2>3. BlockOf(n, RoundUp(SizeOf.directory))'
      BY <1>1, <1>2, BlocksStay DEF AlignedKinds
    <2>4. PICK d : d = memory'[parts'.space].directory
      OBVIOUS
    <2>5. BlockOf(d, RoundUp(SizeOf.directory))'
      BY <1>1, <1>6, <1>7, <2>3, <2>4
    <2>6. QED
      BY <1>6, <2>2, <2>4, <2>5 DEF TakenSound, BlockOf
  <1>10. Held(n)' /\ \A a \in {parts.process, parts.space, parts.task} : a = NONE \/ Held(a)'
    <2>1. "directory" \in LinksOf(memory', s)
      BY <1>5 DEF Added, LinksOf, Links, r2
    <2>2. QED
      BY <1>6, <1>7, <1>8, <2>1 DEF Held
  <1>11. QED
    BY <1>2, <1>4, <1>6, <1>8, <1>9, <1>10, GotLoss

LEMMA TablesMadeLoss ==
    ASSUME NoWrap, TasksInv, LossInv, TablesMade
    PROVE  LossInv'
  <1> USE DEF TasksInv, StructureInv
  <1>1. PICK n, s, p, d : /\ n = Returned /\ s = parts.space /\ p = parts.process
                          /\ d = memory[s].directory
    OBVIOUS
  <1> DEFINE r == [image |-> Image(n, SizeOf.tables, page_table')]
             m1 == [memory EXCEPT ![s].tables = n]
             m2 == Put(m1, n, r)
  <1>2. /\ freeing = <<>> /\ stage = "tables" /\ Allocate("tables") /\ Returned # NONE
        /\ UNCHANGED session /\ UNCHANGED task_list /\ UNCHANGED freeing /\ UNCHANGED failures
        /\ before' = IF parts = NoParts THEN InUse ELSE before
        /\ p = NONE => memory' = m2 /\ Finish(s)
        /\ p # NONE => memory' = [m2 EXCEPT ![p].space = s] /\ Continue("task", parts)
    BY <1>1 DEF TablesMade, Gets, Asks, WithTables
  <1> HIDE DEF r, m1, m2
  <1>3. /\ n \notin InUse /\ InUse' = InUse \cup {n} /\ n \notin DOMAIN memory /\ n # NONE
        /\ n \notin {parts.process, parts.space, parts.task} /\ Creating
    BY <1>1, <1>2, GetsFacts DEF PlainKinds, AlignedKinds
  <1>4. Rewritten(memory, m1, s, "tables", n) /\ Added(m1, m2, n, r)
    BY ExceptRewrites, PutAdds DEF m1, m2
  <1>5. /\ s # NONE /\ s \in Nat /\ Has(memory, s, SpaceShape) /\ memory[s].tables = NONE
        /\ d # NONE /\ parts.task = NONE
    <2>1. s # NONE /\ parts.task = NONE /\ s \in Nat
      BY <1>1, <1>2, <1>3, PartsAt DEF PartsSound
    <2>2. QED
      BY <1>1, <1>2, <2>1 DEF PartsSound, SpacePart, Part
  <1>6. LinksGrow(memory, m2)
    <2>1. LinksGrow(memory, m1)
      BY <1>4, <1>5, RewrittenGrows
    <2>2. n \notin DOMAIN m1
      BY <1>3, <1>4 DEF Rewritten
    <2>3. LinksGrow(m1, m2)
      BY <1>4, <2>2, AddedGrows
    <2>4. QED
      BY <2>1, <2>3, GrowsTwice
  <1>7. /\ s \in DOMAIN m2 /\ DOMAIN m2[s] = SpaceShape /\ m2[s].directory = d
        /\ m2[s].tables = n
    <2>1. s \in DOMAIN memory /\ {"directory", "tables"} \subseteq DOMAIN memory[s]
          /\ DOMAIN memory[s] = SpaceShape
      BY <1>5 DEF Has, SpaceShape
    <2>2. s \in DOMAIN m1 /\ s # n /\ m2[s] = m1[s] /\ s \in DOMAIN m2
      BY <1>3, <1>4, <2>1 DEF Rewritten, Added
    <2>3. DOMAIN m1[s] = SpaceShape /\ m1[s].directory = d /\ m1[s].tables = n
      BY <1>1, <1>4, <2>1 DEF Rewritten
    <2>4. QED
      BY <2>2, <2>3
  <1>8. Doomed' = {}
    BY <1>2, OrderlyEmpty, SelvesFacts DEF Doomed
  <1>9. CASE p = NONE
    <2>1. memory' = m2 /\ made' = Append(made, s) /\ parts' = NoParts
      BY <1>2, <1>9 DEF Finish
    <2>2. PICK l \in Nat : l = Len(made)
      BY DEF ControlSound
    <2>3. /\ Range(made') = Range(made) \cup {s} /\ made'[Len(made')] = s
      <3>1. made \in Seq(Nat) /\ s \in Nat
        BY <1>5 DEF ControlSound
      <3>2. Range(made') = Range(made) \cup {s}
        BY <2>1, <3>1, AppendFacts
      <3>3. Len(made') = l + 1 /\ made'[l + 1] = s
        BY <2>1, <2>2, <3>1
      <3>4. QED
        BY <3>2, <3>3
    <2>4. "tables" \in LinksOf(memory', s)
      BY <1>7, <2>1 DEF LinksOf, Links, SpaceShape
    <2>5. Held(n)' /\ \A a \in {parts.process, parts.space, parts.task} : a = NONE \/ Held(a)'
      BY <1>1, <1>5, <1>7, <1>8, <1>9, <2>1, <2>3, <2>4 DEF Held
    <2>6. TakenSound'
      BY <2>1 DEF TakenSound
    <2>7. made'[Len(made')] # NONE /\ (NONE \in Range(made') => NONE \in Range(made))
      BY <1>5, <2>3
    <2>8. QED
      BY <1>2, <1>3, <1>6, <1>8, <2>1, <2>3, <2>5, <2>6, <2>7, GotLoss
  <1>10. CASE p # NONE
    <2>1. memory' = [m2 EXCEPT ![p].space = s] /\ UNCHANGED made /\ parts' = parts
          /\ stage' = "task"
      BY <1>2, <1>10 DEF Continue
    <2>2. Rewritten(m2, memory', p, "space", s)
      BY <2>1, ExceptRewrites
    <2>3. /\ Product = "process" /\ Has(memory, p, ProcessShape) /\ memory[p].space = NONE
      BY <1>1, <1>2, <1>10 DEF PartsSound, ProcessPart, Part
    <2>4. m2[p].space = NONE
      <3>1. p \in DOMAIN memory /\ "space" \in DOMAIN memory[p] /\ p # n
        BY <1>1, <1>3, <2>3 DEF Has, ProcessShape
      <3>2. m2[p] = m1[p] /\ p \in DOMAIN m1
        BY <1>4, <3>1 DEF Rewritten, Added
      <3>3. m1[p].space = memory[p].space
        BY <1>4, <3>1 DEF Rewritten
      <3>4. QED
        BY <2>3, <3>2, <3>3
    <2>5. LinksGrow(memory, memory')
      <3>1. LinksGrow(m2, memory')
        BY <2>2, <2>4, RewrittenGrows
      <3>2. QED
        BY <1>6, <3>1, GrowsTwice
    <2>6. /\ s \in DOMAIN memory' /\ DOMAIN memory'[s] = SpaceShape
          /\ memory'[s].directory = d /\ memory'[s].tables = n
      <3>1. {"directory", "tables"} \subseteq DOMAIN m2[s]
        BY <1>7 DEF SpaceShape
      <3>2. QED
        BY <1>7, <2>2, <3>1 DEF Rewritten
    <2>7. s \in DOMAIN memory /\ parts' # NoParts
      BY <1>1, <1>5, <1>10, <2>1 DEF Has, NoParts
    <2>8. "tables" \in LinksOf(memory', s)
      BY <2>6 DEF LinksOf, Links, SpaceShape
    <2>9. Held(n)' /\ \A a \in {parts.process, parts.space, parts.task} : a = NONE \/ Held(a)'
      BY <1>8, <2>1, <2>6, <2>8 DEF Held
    <2>10. TakenSound'
      <3>1. Taken' = Taken \cup {n}
        BY <1>1, <1>3, <1>5, <2>1, <2>6, <2>7 DEF Taken
      <3>2. InUse' = before' \cup Taken' /\ before' \cap Taken' = {}
        BY <1>2, <1>3, <3>1, TakenGrows DEF LossInv
      <3>3. PICK zd, zt : zd = RoundUp(SizeOf.directory) /\ zt = RoundUp(SizeOf.tables)
        OBVIOUS
      <3>4. BlockOf(d, zd)
        BY <1>1, <1>2, <1>3, <1>5, <2>1, <2>7, <3>3 DEF LossInv, TakenSound
      <3>5. BlockOf(d, zd)' /\ BlockOf(n, zt)'
        BY <1>1, <1>2, <3>3, <3>4, BlocksStay DEF AlignedKinds
      <3>6. PICK x, y : x = memory'[parts'.space].directory /\ y = memory'[parts'.space].tables
        OBVIOUS
      <3>7. x = d /\ y = n
        BY <1>1, <2>1, <2>6, <3>6
      <3>8. BlockOf(x, zd)' /\ BlockOf(y, zt)'
        BY <3>5, <3>7
      <3>9. QED
        BY <3>2, <3>3, <3>6, <3>8 DEF TakenSound, BlockOf
    <2>11. QED
      BY <1>2, <1>3, <1>8, <2>1, <2>5, <2>7, <2>9, <2>10, GotLoss
  <1>11. QED
    BY <1>9, <1>10

LEMMA TaskMadeLoss ==
    ASSUME NoWrap, TasksInv, LossInv, TaskMade
    PROVE  LossInv'
  <1> USE DEF TasksInv, StructureInv
  <1>1. PICK n, p, s : n = Returned /\ p = parts.process /\ s = parts.space
    OBVIOUS
  <1> DEFINE r == Task(n, page_table')
  <1>2. /\ freeing = <<>> /\ stage = "task" /\ Allocate("task") /\ Returned # NONE
        /\ UNCHANGED session /\ UNCHANGED task_list /\ UNCHANGED freeing /\ UNCHANGED failures
        /\ memory' = Put(memory, n, r) /\ Continue("stack", [parts EXCEPT !.task = n])
        /\ before' = IF parts = NoParts THEN InUse ELSE before
    BY <1>1 DEF TaskMade, Gets, Asks
  <1> HIDE DEF r
  <1>3. /\ n \notin InUse /\ InUse' = InUse \cup {n} /\ n \notin DOMAIN memory /\ n # NONE
        /\ n \notin {parts.process, parts.space, parts.task} /\ Creating
        /\ NONE \notin DOMAIN memory
    BY <1>1, <1>2, GetsFacts DEF PlainKinds, AlignedKinds
  <1>4. Added(memory, memory', n, r)
    BY <1>2, PutAdds
  <1>5. /\ parts.task = NONE /\ (s # NONE => s \in DOMAIN memory)
        /\ parts'.process = p /\ parts'.space = s /\ parts'.task = n
        /\ stage' = "stack" /\ UNCHANGED made /\ parts' # NoParts
    <2>1. parts.task = NONE /\ (s # NONE => s \in DOMAIN memory)
      BY <1>1, <1>2, <1>3, PartsAt DEF Has
    <2>2. QED
      BY <1>1, <1>2, <1>3, <2>1 DEF Continue, PartsSound, NoParts
  <1>6. LinksGrow(memory, memory') /\ Doomed' = {}
    BY <1>2, <1>3, <1>4, AddedGrows, OrderlyEmpty, SelvesFacts DEF Doomed
  <1>7. (s \in DOMAIN memory' <=> s \in DOMAIN memory) /\ (s # NONE => memory'[s] = memory[s])
    BY <1>1, <1>3, <1>4, <1>5 DEF Added
  <1>8. TakenSound'
    <2>1. Taken' = Taken \cup {n}
      <3>1. s \in DOMAIN memory => memory'[s] = memory[s]
        BY <1>3, <1>7
      <3>2. QED
        BY <1>1, <1>3, <1>5, <1>7, <3>1 DEF Taken
    <2>2. InUse' = before' \cup Taken' /\ before' \cap Taken' = {}
      BY <1>2, <1>3, <2>1, TakenGrows DEF LossInv
    <2>3. PICK zd, zt, d, u : /\ zd = RoundUp(SizeOf.directory) /\ zt = RoundUp(SizeOf.tables)
                              /\ d = memory[s].directory /\ u = memory[s].tables
      OBVIOUS
    <2>4. ASSUME s # NONE
          PROVE  BlockOf(d, zd)' /\ BlockOf(u, zt)' /\ d = memory'[s].directory
                 /\ u = memory'[s].tables
      <3>1. parts # NoParts
        BY <1>1, <2>4 DEF NoParts
      <3>2. BlockOf(d, zd) /\ BlockOf(u, zt)
        BY <1>1, <1>2, <1>3, <2>3, <2>4, <3>1 DEF LossInv, TakenSound
      <3>3. QED
        BY <1>2, <1>7, <2>3, <2>4, <3>2, BlocksStay DEF PlainKinds
    <2>5. PICK x, y : x = memory'[parts'.space].directory /\ y = memory'[parts'.space].tables
      OBVIOUS
    <2>6. s # NONE => BlockOf(x, zd)' /\ BlockOf(y, zt)'
      BY <1>5, <2>4, <2>5
    <2>7. QED
      BY <1>5, <2>2, <2>3, <2>5, <2>6 DEF TakenSound, BlockOf
  <1>9. Held(n)' /\ \A a \in {parts.process, parts.space, parts.task} : a = NONE \/ Held(a)'
    BY <1>1, <1>5 DEF Held
  <1>10. QED
    BY <1>2, <1>3, <1>5, <1>6, <1>8, <1>9, GotLoss

LEMMA StackMadeLoss ==
    ASSUME NoWrap, TasksInv, LossInv, StackMade
    PROVE  LossInv'
  <1> USE DEF TasksInv, StructureInv
  <1>1. PICK n, t, p : n = Returned /\ t = parts.task /\ p = parts.process
    OBVIOUS
  <1>2. /\ freeing = <<>> /\ stage = "stack" /\ Allocate("stack") /\ Returned # NONE
        /\ UNCHANGED session /\ UNCHANGED failures
        /\ memory' = [memory EXCEPT ![t].process = p] /\ task_list' = Append(task_list, t)
        /\ freeing' = <<Self(n)>> /\ Continue("context", parts)
    BY <1>1 DEF StackMade, Gets, Asks
  <1>3. /\ n \in Nat /\ InUse' = InUse \cup {n} /\ n \notin DOMAIN memory /\ Creating
    BY <1>1, <1>2, GetsFacts DEF PlainKinds, AlignedKinds
  <1>4. t # NONE /\ t \in Nat /\ parts' = parts /\ parts' # NoParts /\ stage' = "context"
        /\ UNCHANGED made
    <2>1. t # NONE /\ t \in Nat
      BY <1>1, <1>2, <1>3, PartsAt DEF PartsSound
    <2>2. QED
      BY <1>1, <1>2, <2>1 DEF Continue, NoParts
  <1>5. LinksGrow(memory, memory')
    <2>1. Rewritten(memory, memory', t, "process", p) /\ "process" \notin Links
      BY <1>2, ExceptRewrites DEF Links
    <2>2. QED
      BY <2>1, RewrittenGrows
  <1>6. Doomed' = {n}
    <2>1. Range(freeing') = {Self(n)}
      BY <1>2, <1>3, OrderlySelf
    <2>2. QED
      BY <2>1, SelvesFacts DEF Doomed
  <1>7. Range(task_list') = Range(task_list) \cup {t} /\ task_list'[1] = task_list[1]
    <2>1. task_list \in Seq(Nat) /\ 1 \in DOMAIN task_list
      BY DEF ListSound, BootBelow
    <2>2. Range(task_list') = Range(task_list) \cup {t} /\ Starts(task_list, task_list')
      BY <1>2, <1>4, <2>1, AppendFacts
    <2>3. QED
      BY <2>1, <2>2 DEF Starts
  <1>8. Held(n)' /\ \A a \in {parts.process, parts.space, parts.task} : a = NONE \/ Held(a)'
    BY <1>4, <1>6 DEF Held
  <1>9. TakenSound'
    BY <1>4 DEF TakenSound
  <1>10. \A u \in Range(task_list') \ Range(task_list) : stage' = "context" /\ u = parts'.task
    BY <1>1, <1>4, <1>7
  <1>11. Doomed' \cap DOMAIN memory = {} /\ Range(task_list) \subseteq Range(task_list')
    BY <1>3, <1>6, <1>7
  <1>12. QED
    BY <1>2, <1>3, <1>4, <1>5, <1>7, <1>8, <1>9, <1>10, <1>11, GotLoss

LEMMA FinishedMade ==
    ASSUME TasksInv, NEW x \in Nat, x # NONE, Finish(x)
    PROVE  /\ Range(made') = Range(made) \cup {x} /\ made'[Len(made')] # NONE /\ parts' = NoParts
           /\ Range(made) \subseteq Range(made') /\ (NONE \in Range(made') => NONE \in Range(made))
  <1>1. made \in Seq(Nat) /\ made' = Append(made, x) /\ parts' = NoParts
    BY DEF TasksInv, StructureInv, ControlSound, Finish
  <1>2. Range(made') = Range(made) \cup {x}
    BY <1>1, AppendFacts
  <1>3. PICK l \in Nat : l = Len(made)
    BY <1>1
  <1>4. Len(made') = l + 1 /\ made'[l + 1] = x
    BY <1>1, <1>3
  <1>5. QED
    BY <1>1, <1>2, <1>4

LEMMA BlockMadeLoss ==
    ASSUME NoWrap, TasksInv, LossInv, BlockMade
    PROVE  LossInv'
  <1> USE DEF TasksInv, StructureInv
  <1>1. PICK n : n = Returned
    OBVIOUS
  <1> DEFINE r == [image |-> Image(n, SizeOf.block, page_table')]
  <1>2. /\ freeing = <<>> /\ stage = "block" /\ Allocate("block") /\ Returned # NONE
        /\ UNCHANGED session /\ UNCHANGED task_list /\ UNCHANGED freeing /\ UNCHANGED failures
        /\ memory' = Put(memory, n, r) /\ Finish(n)
    BY <1>1 DEF BlockMade, Gets, Asks
  <1> HIDE DEF r
  <1>3. /\ n \in Nat /\ InUse' = InUse \cup {n} /\ n \notin DOMAIN memory /\ n # NONE /\ Creating
    BY <1>1, <1>2, GetsFacts DEF PlainKinds, AlignedKinds
  <1>4. Added(memory, memory', n, r)
    BY <1>2, PutAdds
  <1>5. parts.process = NONE /\ parts.space = NONE /\ parts.task = NONE
    BY <1>2, <1>3, PartsAt
  <1>6. /\ Range(made') = Range(made) \cup {n} /\ made'[Len(made')] # NONE /\ parts' = NoParts
        /\ Range(made) \subseteq Range(made') /\ (NONE \in Range(made') => NONE \in Range(made))
    BY <1>2, <1>3, FinishedMade
  <1>7. LinksGrow(memory, memory') /\ Doomed' = {}
    BY <1>2, <1>3, <1>4, AddedGrows, OrderlyEmpty, SelvesFacts DEF Doomed
  <1>8. TakenSound'
    BY <1>6 DEF TakenSound
  <1>9. Held(n)' /\ \A a \in {parts.process, parts.space, parts.task} : a = NONE \/ Held(a)'
    BY <1>5, <1>6 DEF Held
  <1>10. QED
    BY <1>2, <1>3, <1>6, <1>7, <1>8, <1>9, GotLoss

LEMMA ContextLoss ==
    ASSUME NoWrap, TasksInv, LossInv, task_context
    PROVE  LossInv'
  <1> USE DEF TasksInv, StructureInv, LossInv
  <1>1. PICK t, p, s, n : t = parts.task /\ p = parts.process /\ s = parts.space /\ n = Returned
    OBVIOUS
  <1>2. PICK final : final = IF p = NONE THEN t ELSE p
    OBVIOUS
  <1>3. /\ freeing = <<>> /\ stage = "context" /\ Allocate("context") /\ UNCHANGED session
        /\ UNCHANGED task_list /\ UNCHANGED freeing /\ Finish(final)
        /\ failures' = IF n = NONE THEN failures \cup {"context"} ELSE failures
    BY <1>1, <1>2 DEF task_context, Busy
  <1>4. Creating
    BY <1>3 DEF ControlSound
  <1>5. /\ Product' = Product /\ Product # "none"
        /\ t # NONE /\ t \in Nat /\ t \in Range(task_list) /\ Has(memory, t, TaskShape)
        /\ memory[t].context = NONE
        /\ p \in Nat /\ (p = NONE => s = NONE)
        /\ (p # NONE => Has(memory, p, ProcessShape))
    <2>1. Product' = Product /\ Product # "none"
      BY <1>3, <1>4, SameCaller, CreatingStages
    <2>2. /\ t # NONE /\ Has(memory, t, TaskShape) /\ (p = NONE => s = NONE)
          /\ (p # NONE => Has(memory, p, ProcessShape))
      BY <1>1, <1>3, <1>4, PartsAt
    <2>3. t \in Nat /\ p \in Nat /\ t \in Range(task_list) /\ memory[t].context = NONE
      BY <1>1, <1>3 DEF PartsSound, TaskPart
    <2>4. QED
      BY <2>1, <2>2, <2>3
  <1>6. /\ Range(made') = Range(made) \cup {final} /\ made'[Len(made')] # NONE
        /\ parts' = NoParts /\ (NONE \in Range(made') => NONE \in Range(made))
    BY <1>2, <1>3, <1>5, FinishedMade
  <1>7. TakenSound' /\ GivenBack'
    BY <1>6 DEF TakenSound, GivenBack
  <1>8. CASE n = NONE
    <2>1. failures' # {}
      BY <1>3, <1>8
    <2>2. QED
      BY <1>5, <1>7, <2>1 DEF Complete, Accounted
  <1>9. CASE n # NONE
    <2> DEFINE r == [image |-> Image(n, SizeOf.context, page_table')]
               m1 == [memory EXCEPT ![t].context = n]
               m2 == Put(m1, n, r)
    <2>1. memory' = IF p = NONE THEN m2 ELSE [m2 EXCEPT ![p].task = t]
      BY <1>1, <1>9 DEF task_context
    <2>2. UNCHANGED failures
      BY <1>3, <1>9
    <2> HIDE DEF r, m1, m2
    <2>3. InUse' = InUse \cup {n} /\ n \notin DOMAIN memory /\ n \notin {p, s, t}
      BY <1>1, <1>3, <1>9, GetsFacts DEF PlainKinds, AlignedKinds
    <2>4. Rewritten(memory, m1, t, "context", n) /\ Added(m1, m2, n, r)
      BY ExceptRewrites, PutAdds DEF m1, m2
    <2>5. LinksGrow(memory, m2)
      <3>1. LinksGrow(memory, m1)
        BY <1>5, <2>4, RewrittenGrows
      <3>2. n \notin DOMAIN m1
        BY <2>3, <2>4 DEF Rewritten
      <3>3. LinksGrow(m1, m2)
        BY <2>4, <3>2, AddedGrows
      <3>4. QED
        BY <3>1, <3>3, GrowsTwice
    <2>6. t \in DOMAIN m2 /\ DOMAIN m2[t] = TaskShape /\ m2[t].context = n
      <3>1. t \in DOMAIN memory /\ "context" \in DOMAIN memory[t] /\ DOMAIN memory[t] = TaskShape
        BY <1>5 DEF Has, TaskShape
      <3>2. t \in DOMAIN m1 /\ m1[t].context = n /\ DOMAIN m1[t] = TaskShape
        BY <2>4, <3>1 DEF Rewritten
      <3>3. QED
        BY <2>3, <2>4, <3>2 DEF Added
    <2>7. /\ LinksGrow(memory, memory') /\ t \in DOMAIN memory' /\ DOMAIN memory'[t] = TaskShape
          /\ memory'[t].context = n
      <3>1. CASE p = NONE
        BY <2>1, <2>5, <2>6, <3>1
      <3>2. CASE p # NONE
        <4>1. Rewritten(m2, memory', p, "task", t)
          BY <2>1, <3>2, ExceptRewrites
        <4>2. m2[p].task = NONE
          <5>1. p \in DOMAIN memory /\ "task" \in DOMAIN memory[p] /\ memory[p].task = NONE
            BY <1>1, <1>3, <1>5, <3>2 DEF PartsSound, ProcessPart, Has, ProcessShape
          <5>2. p \in DOMAIN m1 /\ m1[p].task = NONE
            BY <2>4, <5>1 DEF Rewritten
          <5>3. QED
            BY <2>3, <2>4, <5>2 DEF Added
        <4>3. LinksGrow(m2, memory')
          BY <4>1, <4>2, RewrittenGrows
        <4>4. LinksGrow(memory, memory')
          BY <2>5, <4>3, GrowsTwice
        <4>5. "context" \in DOMAIN m2[t]
          BY <2>6 DEF TaskShape
        <4>6. QED
          BY <2>6, <4>1, <4>4, <4>5 DEF Rewritten
      <3>3. QED
        BY <3>1, <3>2
    <2>8. Doomed' = {}
      BY <1>3, OrderlyEmpty, SelvesFacts DEF Doomed
    <2>9. Complete'
      <3>1. \A u \in Range(task_list) : memory'[u].context = NONE => memory[u].context = NONE
        BY <2>7, ContextsStay
      <3>2. n # NONE /\ memory'[t].context = n
        BY <1>9, <2>7
      <3>3. QED
        BY <1>1, <1>3, <1>5, <1>6, <2>2, <3>1, <3>2 DEF Complete
    <2>10. Accounted'
      <3>1. Held(n)'
        <4>1. "context" \in LinksOf(memory', t)
          BY <2>7 DEF LinksOf, Links, TaskShape
        <4>2. QED
          BY <2>7, <2>8, <4>1 DEF Held
      <3>2. \A a \in Range(made) : Held(a)'
        BY <1>6 DEF Held
      <3>3. t = NONE \/ Held(t)'
        BY <1>3, <1>5 DEF Held
      <3>4. p = NONE \/ Held(p)'
        BY <1>2, <1>6 DEF Held
      <3>5. s = NONE \/ Held(s)'
        <4>1. CASE p # NONE /\ s # NONE
          <5>1. memory[p].space = s
            BY <1>1, <1>3, <4>1 DEF PartsSound, ProcessPart
          <5>2. p \in DOMAIN memory /\ "space" \in LinksOf(memory, p)
            BY <1>5, <4>1 DEF Has, LinksOf, Links, ProcessShape
          <5>3. p \in DOMAIN memory' /\ "space" \in LinksOf(memory', p) /\ memory'[p]["space"] = s
            BY <2>7, <4>1, <5>1, <5>2 DEF LinksGrow
          <5>4. QED
            BY <2>8, <5>3 DEF Held
        <4>2. QED
          BY <1>5, <4>1
      <3>6. \A a \in {parts.process, parts.space, parts.task} : a = NONE \/ Held(a)'
        BY <1>1, <3>3, <3>4, <3>5
      <3>7. /\ \A b \in DOMAIN memory : b \notin Doomed'
            /\ InUse' \subseteq InUse \cup {n} /\ \A a \in {n} : Held(a)'
            /\ Range(task_list) \subseteq Range(task_list')
        BY <1>3, <2>3, <2>8, <3>1
      <3>8. QED
        BY <1>3, <2>2, <2>7, <3>2, <3>6, <3>7, AccountedStays
    <2>11. QED
      BY <1>7, <2>9, <2>10
  <1>10. QED
    BY <1>8, <1>9

LEMMA LossStep ==
    ASSUME NoWrap, TasksInv, LossInv, [TasksNext]_vars
    PROVE  LossInv'
  <1>1. CASE \/ process_create \/ address_space_create \/ space_directory \/ space_tables
             \/ task_create \/ task_create_user \/ syscall_alloc
    <2>1. CASE \E kind \in {"process", "space", "directory", "tables", "task", "stack", "block"} :
                  Fails(kind)
      BY <2>1, FailsLoss
    <2>2. CASE ProcessMade
      BY <2>2, ProcessMadeLoss
    <2>3. CASE SpaceMade
      BY <2>3, SpaceMadeLoss
    <2>4. CASE DirectoryMade
      BY <2>4, DirectoryMadeLoss
    <2>5. CASE TablesMade
      BY <2>5, TablesMadeLoss
    <2>6. CASE TaskMade
      BY <2>6, TaskMadeLoss
    <2>7. CASE StackMade
      BY <2>7, StackMadeLoss
    <2>8. CASE BlockMade
      BY <2>8, BlockMadeLoss
    <2>9. QED
      BY <1>1, <2>1, <2>2, <2>3, <2>4, <2>5, <2>6, <2>7, <2>8, CreationSteps
  <1>2. CASE task_context
    BY <1>2, ContextLoss
  <1>3. CASE GiveUp \/ EndSession \/ Keep
    BY <1>3, ReturnsLoss
  <1>4. CASE Grow
    BY <1>4, GrowLoss
  <1>5. CASE Run
    BY <1>5, RunLoss
  <1>6. CASE Stop \/ UserPrepare \/ Destroy({"space", "process", "instance", "block"})
    BY <1>6, CallerStepsLoss
  <1>7. CASE DestroyNext
    BY <1>7, DestroyNextLoss
  <1>8. CASE Release
    BY <1>8, ReleaseLoss
  <1>9. CASE UserSyscall \/ UserComputes \/ UNCHANGED vars
    <2>1. UNCHANGED <<heapVars, taskVars>>
      BY <1>9 DEF UserSyscall, UserComputes, vars
    <2>2. QED
      BY <2>1, UnchangedLoss
  <1>10. QED
    BY <1>1, <1>2, <1>3, <1>4, <1>5, <1>6, <1>7, <1>8, <1>9 DEF TasksNext

LEMMA InitLoss ==
    ASSUME TasksInit
    PROVE  LossInv
  <1>1. TasksInv
    BY TasksInitPlacement, TasksInitStructure DEF TasksInv
  <1>2. parts = NoParts /\ made = <<>> /\ InUse = {}
    BY DEF TasksInit, InUse, Live, Used
  <1>3. PICK end : memory = BootMemory(end, page_table) /\ task_list = <<end - 3, end - 2>>
                   /\ end \in Nat /\ end >= 4
    BY TasksAssumption, RegionFacts DEF TasksInit
  <1>4. Range(task_list) = {task_list[1], task_list[2]}
    BY <1>3 DEF Range
  <1>5. memory[task_list[2]].context # NONE
    BY <1>1, StructureFacts DEF TasksInv, StructureInv, BootBelow, NONE
  <1>6. QED
    BY <1>2, <1>4, <1>5, OrderlyEmpty DEF LossInv, Complete, Accounted, TakenSound, GivenBack

(* Between two sessions without a failure no process is left. *)
LEMMA NoProcessLeft ==
    ASSUME TasksInv, LossInv, freeing = <<>>, made = <<>>, parts = NoParts, failures = {}
    PROVE  /\ \A a \in InUse : a \in Range(task_list) \/
                 \E b \in DOMAIN memory : \E f \in LinksOf(memory, b) : memory[b][f] = a
           /\ \A c \in DOMAIN memory : DOMAIN memory[c] # ProcessShape
  <1> USE DEF TasksInv, StructureInv, LossInv
  <1>1. Doomed = {} /\ Range(made) = {} /\ NONE \notin InUse
    BY OrderlyEmpty, SelvesFacts, StructureFacts DEF Doomed, NONE
  <1>2. parts.process = NONE /\ parts.space = NONE /\ parts.task = NONE
    BY DEF NoParts
  <1>3. ASSUME NEW a \in InUse
        PROVE  a \in Range(task_list) \/
                 \E b \in DOMAIN memory : \E f \in LinksOf(memory, b) : memory[b][f] = a
    BY <1>1, <1>2 DEF Accounted, Held
  <1>4. ASSUME NEW c \in DOMAIN memory, DOMAIN memory[c] = ProcessShape PROVE FALSE
    <2>1. c \notin Range(task_list)
      BY <1>4, ListedAreTasks, ShapesDiffer DEF Has
    <2>2. ASSUME NEW b \in DOMAIN memory, NEW f \in LinksOf(memory, b), memory[b][f] = c
          PROVE  FALSE
      <3>1. DOMAIN memory[c] = Target(f)
        BY <2>2 DEF Ownership, WellOwned
      <3>2. QED
        BY <1>4, <3>1, ShapesDiffer DEF Target
    <2>3. c \in InUse
      <3>1. Unowned(memory, c) /\ Has(memory, c, ProcessShape)
        BY <1>4, <2>2 DEF Unowned, Has
      <3>2. QED
        BY <3>1, UnownedAbove, ShapesDiffer
    <2>4. QED
      BY <1>3, <2>1, <2>2, <2>3
  <1>5. QED
    BY <1>3, <1>4

LEMMA SessionsLeaveTasks ==
    ASSUME TasksInv, LossInv, freeing = <<>>, made = <<>>, parts = NoParts, failures = {}
    PROVE  InUse \subseteq Owned
  <1> USE DEF TasksInv, StructureInv
  <1>1. ASSUME NEW a \in InUse, a \notin Range(task_list) PROVE a \in Owned
    <2>1. PICK b, f : b \in DOMAIN memory /\ f \in LinksOf(memory, b) /\ memory[b][f] = a
      BY <1>1, NoProcessLeft
    <2>2. DOMAIN memory[b] \in {TaskShape, SpaceShape}
      <3>1. DOMAIN memory[b] \in Shapes
        BY <2>1 DEF Ownership, WellOwned
      <3>2. DOMAIN memory[b] # ProcessShape
        BY <2>1, NoProcessLeft
      <3>3. DOMAIN memory[b] # PlainShape
        BY <2>1, ShapeLinks DEF LinksOf
      <3>4. QED
        BY <3>1, <3>2, <3>3 DEF Shapes
    <2>3. b \in Range(task_list)
      <3>1. SUFFICES ASSUME b \notin Range(task_list) PROVE FALSE
        OBVIOUS
      <3>2. ASSUME NEW c \in DOMAIN memory, NEW g \in LinksOf(memory, c), memory[c][g] = b
            PROVE  FALSE
        <4>1. DOMAIN memory[b] = Target(g)
          BY <2>1, <3>2 DEF Ownership, WellOwned
        <4>2. g \in {"space", "task"}
          BY <2>2, <4>1, ShapesDiffer DEF Target
        <4>3. DOMAIN memory[c] \in Shapes /\ g \in DOMAIN memory[c]
          BY <3>2 DEF Ownership, WellOwned, LinksOf
        <4>4. DOMAIN memory[c] = ProcessShape
          BY <4>2, <4>3 DEF Shapes, TaskShape, ProcessShape, SpaceShape, PlainShape
        <4>5. QED
          BY <4>4, NoProcessLeft
      <3>3. b \in InUse
        <4>1. b # task_list[1] /\ b # task_list[2]
          BY <3>1, StructureFacts
        <4>2. b # task_list[2] + 1
          <5>1. Has(memory, task_list[2], TaskShape)
            BY StructureFacts, ListedAreTasks
          <5>2. task_list[2] \in DOMAIN memory /\ "context" \in LinksOf(memory, task_list[2])
            BY <5>1 DEF Has, LinksOf, Links, TaskShape
          <5>3. QED
            BY <3>2, <5>2 DEF BootBelow
        <4>3. QED
          BY <2>1, <4>1, <4>2 DEF BootBelow, BootPlaces
      <3>4. QED
        BY <3>1, <3>2, <3>3, NoProcessLeft
    <2>4. f = "context"
      <3>1. Has(memory, b, TaskShape)
        BY <2>3, ListedAreTasks
      <3>2. QED
        BY <2>1, <3>1, ShapeLinks DEF Has, LinksOf
    <2>5. QED
      BY <2>1, <2>3, <2>4 DEF Owned
  <1>2. QED
    BY <1>1 DEF Owned

(* A set of addresses is that of two blocks of these two sizes. *)
TwoSized(kept, zd, zt) ==
    /\ Cardinality(kept) = 2
    /\ {paged_heap_blocks[i].size : i \in UNION {SlotAt(a) : a \in kept}} = {zd, zt}

(* Two blocks whose sizes are known. *)
LEMMA TwoBlocks ==
    ASSUME AddressesDistinct, NEW d, NEW t, d # t, NEW zd, NEW zt, BlockOf(d, zd),
           BlockOf(t, zt), NEW kept, kept = {d, t}
    PROVE  TwoSized(kept, zd, zt)
  <1>1. Cardinality(kept) = 2
    <2>1. IsFiniteSet({t}) /\ Cardinality({t}) = 1
      BY FS_Singleton
    <2>2. d \notin {t} /\ kept = {t} \cup {d}
      OBVIOUS
    <2>3. Cardinality({t} \cup {d}) = Cardinality({t}) + 1
      BY <2>1, <2>2, FS_AddElement
    <2>4. QED
      BY <2>1, <2>2, <2>3
  <1>2. PICK i \in Slots : Live(i) /\ paged_heap_blocks[i].address = d /\ paged_heap_blocks[i].size = zd
    BY DEF BlockOf
  <1>3. PICK j \in Slots : Live(j) /\ paged_heap_blocks[j].address = t /\ paged_heap_blocks[j].size = zt
    BY DEF BlockOf
  <1>4. SlotAt(d) = {i} /\ SlotAt(t) = {j}
    BY <1>2, <1>3 DEF SlotAt, AddressesDistinct, Live
  <1>5. UNION {SlotAt(a) : a \in kept} = {i, j}
    BY <1>4
  <1>6. QED
    BY <1>1, <1>2, <1>3, <1>5 DEF TwoSized

LEMMA FailuresGiveBack ==
    ASSUME TasksInv, LossInv, freeing = <<>>, made # <<>>, made[Len(made)] = NONE,
           parts = NoParts, stage # "destroy"
    PROVE  \/ InUse = before
           \/ /\ Caller.makes[Len(made)] = "process"
              /\ before \subseteq InUse /\ Cardinality(InUse \ before) = 2
              /\ {paged_heap_blocks[i].size : i \in UNION {SlotAt(a) : a \in InUse \ before}}
                   = {RoundUp(SizeOf.directory), RoundUp(SizeOf.tables)}
  <1> USE DEF TasksInv, StructureInv
  <1>1. Pending = {}
    BY OrderlyEmpty DEF Pending
  <1>2. PICK kept : kept = InUse \ before
    OBVIOUS
  <1>3. before \subseteq InUse /\ (kept = {} \/ \E d, t \in kept : kept = {d, t} /\ Leftover(d, t))
    BY <1>1, <1>2 DEF LossInv, GivenBack
  <1>4. CASE kept = {}
    BY <1>2, <1>3, <1>4
  <1>5. CASE \E d, t \in kept : kept = {d, t} /\ Leftover(d, t)
    <2>1. PICK d, t : kept = {d, t} /\ Leftover(d, t)
      BY <1>5
    <2>2. PICK zd, zt : zd = RoundUp(SizeOf.directory) /\ zt = RoundUp(SizeOf.tables)
      OBVIOUS
    <2>3. Product = "process" /\ d # t /\ BlockOf(d, zd) /\ BlockOf(t, zt)
      BY <2>1, <2>2 DEF Leftover
    <2>4. TwoSized(kept, zd, zt)
      <3>1. AddressesDistinct
        BY DEF PlacementInv
      <3>2. QED
        BY <2>1, <2>3, <3>1, TwoBlocks
    <2>5. Caller.makes[Len(made)] = "process"
      <3>1. CallerSound(Caller) /\ made \in Seq(Nat) /\ making \in Seq({Product})
            /\ Len(made) + Len(making) = Len(Caller.makes)
        BY CallerIsAt DEF ControlSound
      <3>2. Caller.makes \in Seq({"process"})
        BY <2>3, <3>1 DEF CallerSound, Product
      <3>3. PICK m, k, l \in Nat : m = Len(made) /\ k = Len(making) /\ l = Len(Caller.makes)
        BY <3>1, <3>2
      <3>4. m # 0 /\ m + k = l
        BY <3>1, <3>3
      <3>5. m \in 1 .. l
        BY <3>4
      <3>6. QED
        BY <3>2, <3>3, <3>5
    <2>6. QED
      BY <1>2, <1>3, <2>2, <2>4, <2>5 DEF TwoSized
  <1>6. QED
    BY <1>3, <1>4, <1>5

(* For every heap and every set of structure sizes: a creation that fails, whichever of its
   allocations fails, gives back every block it took, except that process_create without
   its task keeps a page directory and its tables; and as long as nothing has failed, what
   a caller leaves in use are the tasks on the list and their contexts. *)
THEOREM NothingIsLost == NoWrap => (TasksSpec => []NothingLost)
  <1> SUFFICES ASSUME NoWrap PROVE TasksSpec => []NothingLost
    OBVIOUS
  <1>1. TasksInit => LossInv
    BY InitLoss
  <1>2. TasksInv /\ LossInv /\ [TasksNext]_vars => LossInv'
    BY LossStep
  <1>3. TasksInv /\ LossInv => NothingLost
    <2>1. SUFFICES ASSUME TasksInv, LossInv PROVE NothingLost
      OBVIOUS
    <2>2. (Busy <=> freeing # <<>>) /\ Last(made) = made[Len(made)]
      BY DEF Busy, Last
    <2>3. QED
      BY <2>1, <2>2, FailuresGiveBack, SessionsLeaveTasks DEF NothingLost
  <1>4. QED
    BY <1>1, <1>2, <1>3, TasksInvHolds, PTL DEF TasksSpec

=============================================================================
