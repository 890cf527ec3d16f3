------------------------------ MODULE UserMemory ------------------------------
(***************************************************************************)
(* What the kernel reads and writes for a Ring 3 program (src/kernel.c):   *)
(* the loader that fills the user code page from a program image, and the  *)
(* system calls that write a structure or read a path through a pointer in *)
(* the user stack page.  Sizes and pointers come from the image and the    *)
(* program, as unsigned ints whose sums wrap.                              *)
(***************************************************************************)
EXTENDS Integers

CONSTANTS MODULUS,          \* 2^32
          USER_CODE_BASE, USER_CODE_SIZE,
          USER_STACK_BASE, USER_STACK_SIZE,
          VGA_MEMORY_PAGE,  \* the third page open to Ring 3, of the same size
          PROGRAM_HEADER,   \* sizeof(initraos_program_header_t)
          EventSize,        \* sizeof(security_audit_event_t)
          IdentitySize,     \* sizeof(security_identity_info_t)
          InfoSize,         \* sizeof(vfs_security_info_t)
          Words,            \* values of the fields of a program header
          Pointers          \* values a program may pass as an address

ASSUME UserAssumption ==
    /\ {USER_CODE_BASE, USER_CODE_SIZE, USER_STACK_BASE, USER_STACK_SIZE} \subseteq Nat \ {0}
    /\ MODULUS \in Nat /\ USER_CODE_BASE + USER_CODE_SIZE < MODULUS
    /\ USER_STACK_BASE + USER_STACK_SIZE < MODULUS
    /\ {EventSize, IdentitySize, InfoSize} \subseteq Nat
    /\ PROGRAM_HEADER \in Nat /\ Words \cup Pointers \subseteq 0 .. MODULUS - 1

USER_STACK_TOP == USER_STACK_BASE + USER_STACK_SIZE

VARIABLES entry_point, \* where the program loaded last starts; 0: none
          access       \* history: the bytes the last step read and wrote for a program

userVars == <<entry_point, access>>

Plus(a, b) == (a + b) % MODULUS
Minus(a, b) == (a - b) % MODULUS
Bytes(a, n) == {Plus(a, k) : k \in 0 .. n - 1}

CodePage == Bytes(USER_CODE_BASE, USER_CODE_SIZE)
StackPage == Bytes(USER_STACK_BASE, USER_STACK_SIZE)
VgaPage == Bytes(VGA_MEMORY_PAGE, USER_STACK_SIZE)

NoAccess == [read |-> {}, written |-> {}]

UserInit == entry_point = 0 /\ access = NoAccess

-----------------------------------------------------------------------------
(* Images: the length of the file, whether magic and version are right, and the
   sizes and entry the header declares. *)
Images == [length : Words, proper : BOOLEAN, code_size : Words, data_size : Words,
           bss_size : Words, entry : Words]

PayloadSize(image) == Plus(image.code_size, image.data_size)

(* The checks of user_program_load, in order.  The fifth subtracts a payload that
   may be larger than the region. *)
Accepts(image) ==
    LET total == Plus(PayloadSize(image), image.bss_size)
    IN  /\ image.length >= PROGRAM_HEADER /\ image.proper
        /\ image.code_size # 0
        /\ PayloadSize(image) >= image.code_size
        /\ image.bss_size <= Minus(USER_CODE_SIZE, PayloadSize(image))
        /\ PayloadSize(image) <= image.length - PROGRAM_HEADER
        /\ total >= PayloadSize(image) /\ total <= USER_CODE_SIZE
        /\ image.entry < image.code_size

Loadable == {image \in Images : Accepts(image)}

(* user_space_prepare and the utilities' own: code and data are copied, bss and the
   stack page are cleared. *)
Load(image) ==
    /\ image \in Loadable
    /\ entry_point' = USER_CODE_BASE + image.entry
    /\ access' = [read |-> {},
                  written |-> Bytes(USER_CODE_BASE, PayloadSize(image)) \cup StackPage \cup
                              Bytes(USER_CODE_BASE, Plus(PayloadSize(image), image.bss_size))]

LoadFails == Loadable # Images /\ UNCHANGED entry_point /\ access' = NoAccess

-----------------------------------------------------------------------------
(* The pages paging_init opens to Ring 3, writable. *)
UserPage(a) == a \in CodePage \cup StackPage \cup VgaPage

(* Mutant: the bound on the start of the buffer is one too large. *)
buffer_one_too_long(address, size) ==
    /\ size # 0 /\ size <= USER_STACK_SIZE
    /\ address >= USER_STACK_BASE /\ address <= USER_STACK_TOP - size + 1
    /\ UserPage(address)

security_user_buffer_valid(address, size) ==
    /\ size # 0 /\ size <= USER_STACK_SIZE
    /\ address >= USER_STACK_BASE /\ address <= USER_STACK_TOP - size
    /\ UserPage(address)

(* The string starts in the page and ends before the page does. *)
security_user_string_valid(address, contents) ==
    /\ address >= USER_STACK_BASE /\ address < USER_STACK_TOP
    /\ UserPage(address)
    /\ \E b \in StackPage : b >= address /\ contents[b] = 0

(* The bytes of the path, terminator included. *)
PathBytes(address, contents) ==
    {b \in Bytes(address, MODULUS - address) :
        \A c \in StackPage : address <= c /\ c < b => contents[c] # 0}

(* A call that stores a structure through a pointer, if it has something to store. *)
StoreThrough(address, size, available) ==
    /\ access' = [read |-> {},
                  written |-> IF security_user_buffer_valid(address, size) /\ available
                              THEN Bytes(address, size) ELSE {}]
    /\ UNCHANGED entry_point

(* SYSCALL_SECURITY_AUDIT_READ and SYSCALL_SECURITY_AUDIT_FILTER_READ. *)
syscall_audit_read(address, found) == StoreThrough(address, EventSize, found)

(* SYSCALL_SECURITY_IDENTITY: only a task of a process has one. *)
syscall_identity(address, backed) == StoreThrough(address, IdentitySize, backed)

(* SYSCALL_SECURITY_FS_INFO: both pointers are checked before the path is looked up,
   and the structure is written after. *)
syscall_fs_info(path, address, contents, found) ==
    LET valid == security_user_string_valid(path, contents)
                   /\ security_user_buffer_valid(address, InfoSize)
    IN  /\ access' = [read |-> IF valid THEN PathBytes(path, contents) ELSE {},
                      written |-> IF valid /\ found THEN Bytes(address, InfoSize) ELSE {}]
        /\ UNCHANGED entry_point

(* A system call of the running program, with whatever it put on its stack. *)
UserCall(backed) ==
    \/ \E address \in Pointers, found \in BOOLEAN : syscall_audit_read(address, found)
    \/ \E address \in Pointers : syscall_identity(address, backed)
    \/ \E path, address \in Pointers, contents \in [StackPage -> {0, 1}], found \in BOOLEAN :
          syscall_fs_info(path, address, contents, found)

-----------------------------------------------------------------------------
(* Whatever a program header declares and whatever pointers a program passes, the
   kernel writes for it only inside the user code and stack pages, reads no path past
   the end of the stack page, and starts it inside its code. *)
UserAccessInBounds ==
    /\ access.written \subseteq CodePage \cup StackPage
    /\ access.read \subseteq StackPage
    /\ entry_point # 0 => entry_point \in CodePage
=============================================================================
