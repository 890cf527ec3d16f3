# A TLA+ model of InitraOS

InitraOS is a small teaching kernel for 32-bit x86: a boot chain, one C kernel
(`src/kernel.c`, with assembly in `src/kernel.asm`), a security core
(`src/security.c`) and a file system layer (`src/fs/`). This directory holds
specifications of its parts, the TLC configurations that check them on small
instances, and TLAPS proofs of the main results for every size.

Names follow the source: an action or operator called `heap_free` or
`initrafs_file_write` is the C function of that name. `PROJECT.json` gives, for
every definition, the lines it models.

## 1. The system

| Part | State it keeps | Operations | Interacts with |
| --- | --- | --- | --- |
| Security core (`security.c`) | ring of 16 audit events, head, count, 32-bit sequence | `security_init`, `security_authorize`, `security_resource_authorize`, `security_audit_get`, `security_audit_get_filtered` | called by system calls and boot tests |
| Paged heap (`kernel.c`) | table of 80 blocks, `heap_pointer` | `heap_alloc_paged`, `heap_alloc_paged_aligned`, `heap_free`, `heap_realloc` | frame allocator, page tables; used by tasks, processes, SYSCALL_ALLOC |
| Frame allocator, paging | frame bitmap, page directory and tables | `frame_alloc`, `frame_free`, map and unmap | heap, address spaces |
| Boot heap | list of blocks with headers | first fit, split, merge | the first tasks, before paging |
| Tasks and processes | task records, current task, process list, address spaces | create, destroy, schedule, terminate, exit | heap, paging, shell |
| Shell and keyboard | line buffer, cursor, request flags and filter words | keyboard interrupt, timer interrupt, main loop | starts the utilities |
| Ring 3 utilities (`kernel.asm`) | their registers | secinfo, secusers, secperm, secaudit | system calls |
| System calls, loader | the entry point loaded last | dispatch on `int 0x80`, pointer checks; header checks, copying and clearing | everything above |
| InitraFS files | superblock, block and inode bitmaps with counters, inode pairs with a checksum | mount, create, read, write, free | block device |
| InitraFS directories | 32 entries per directory, table of inodes by number | lookup, add, remove, list, rmdir, path walk | files, VFS |
| VFS (`fs/vfs.c`) | registered file system, mount flag, open files, identity | register, mount, open, read, write, close, rmdir | InitraFS |
| Boot chain, long mode | none kept | straight-line code | |

What is hard here, and what makes each part right:

- **Interrupts.** The main loop and the Ring 3 programs run with interrupts on,
  and the keyboard handler writes the same line, row, request flags and filter
  words. Right means: the line stays in its buffer, the prompt on the screen, no
  request is lost, a utility runs with the filter somebody asked for, and the
  prompt comes back whenever what the utility asks for can be had.
- **Address reuse.** The heap reuses freed slots at their old address and shares
  pages between neighbouring aligned blocks. Right means: live blocks are disjoint
  and backed, a frame backs one page, nothing leaks, a failed call hurts nobody.
- **Partial failure.** A frame, a block, an inode or a device call may be missing
  halfway through an operation, which then rolls back. Right means: the roll-back
  gives back exactly what the operation took.
- **Ownership.** A process owns an address space with a directory and tables, and a
  task with a context; every one is a block of the heap, made and freed one call at a
  time. Right means: whichever call fails, what was made is given back, nothing that is
  still used is freed or mapped over, and a utility leaves the heap as it found it.
- **Untrusted sizes and pointers.** Right means: whatever a program header declares or
  a program passes, the kernel reads and writes only the user pages for it.
- **Duplicated state.** Two inodes and a checksum per file, two counters of free
  blocks, a head, a count and a sequence for the audit ring: they are updated at
  different lines and must agree after every call.
- **Limits and widths.** The full ring, the full table, the full line, 32-bit sums.

Everything that runs in the kernel is sequential otherwise: system calls and
interrupt handlers enter with interrupts off, so each is one action.
Nothing survives a power cycle (the block device is memory), so there is no crash
recovery to model. The hazards are listed line by line in `PROJECT.json`.

## 2. Modules

| Module | Models |
| --- | --- |
| `AuditLog` | abstract: a log of the newest decisions, oldest dropped first |
| `SecurityAudit` | the ring of `security.c` and the two reading functions |
| `SecurityAuditProofs` | proofs about it |
| `Allocator` | abstract: disjoint blocks, each at least as large as asked for |
| `BootHeap` | the heap before paging is on |
| `BootHeapProofs` | proofs about it |
| `PagedHeap` | heap, page-table entries and frames after paging is on |
| `PagedHeapProofs`, `UniformRequestProofs` | proofs: for all requests; for requests of equally many pages |
| `UserMemory` | the loader and the system calls that touch user memory |
| `Tasks` (`MCTasks`) | address spaces, processes and tasks, on top of `PagedHeap` and `UserMemory` |
| `TasksProofs` | proofs about both, on top of `PagedHeapProofs` |
| `Shell` (`MCShell`) | keyboard, timer, main loop, utilities, on top of `SecurityAudit` |
| `ShellProofs` | proofs about it, on top of `SecurityAuditProofs` |
| `ByteFiles` | abstract: files are strings of bytes |
| `FileStore` | InitraFS allocators and files over a failing device |
| `FileStoreProofs` | proofs about it |
| `Namespace` (`MCNamespace`) | InitraFS directories, paths and permissions under the VFS |
| `NamespaceProofs` | proofs about it |

`Shell` EXTENDS `SecurityAudit`: the utility secaudit causes and reads real events
of the ring. `Tasks` EXTENDS `PagedHeap` and `UserMemory`: every structure is a block
of the heap, and the task that runs makes system calls. `SecurityAudit` is shown to
implement `AuditLog`, `FileStore` to implement `ByteFiles`, and both `BootHeap` and,
for requests that all take the same number of pages, `PagedHeap` to implement
`Allocator`, all with `INSTANCE ... WITH`: for those, switching paging on changes
nothing.

### SecurityAudit

The four static variables of `security.c` are the state. Recording writes at
`(head + count) % N` while there is room and over the head otherwise. The sequence
is an unsigned 32-bit number: `SeqModulus` is its modulus, and the run makes it
wrap. `security_audit_get_filtered` is the scan with its two counters, written as a
recursive function and compared with `SelectSeq` over the events in order.

### PagedHeap

State: the table of blocks, `heap_pointer`, the entry of every page of the region,
the frame bitmap, and a history variable with the size asked for. Pages start
identity mapped, as `paging_init` leaves them. An allocation first looks for a
freed slot, then places a block behind `heap_pointer`; it maps page by page and, if
`frame_alloc` fails, runs the clean-up loop of the code over the pages mapped so far. Unsigned sums are taken
modulo `UINT`. Contents of blocks are left out.

### BootHeap

State: the list of blocks in the order of their `next` pointers and `heap_pointer`; a
block is its address, size and free flag, with a header of `HEADER` bytes before it.
`heap_alloc` takes the first free block that is large enough and splits it if the rest
holds a header and a word, or extends the heap; `heap_free` merges with the neighbour
on either side and ignores an address that is not in use, so a second free is an input
of the run; `heap_realloc` keeps a block that is large enough and moves it otherwise,
also one that was freed before, which the code does not refuse.

A free last block is never joined with the space beyond `heap_pointer`, so a request
that would only fit across the two is refused. `RefusesWithoutRoom` says this: `Room`
counts the runs on one side of `heap_pointer`, and a request that could be held twice
by an unused run anywhere is never refused.

### UserMemory

`Accepts` is the list of checks of `user_program_load` in the order of the code, with
sums and differences modulo `MODULUS`. A step records in `access` the bytes it read and
wrote for a program. The images are linked into the kernel and well formed; the model
tries every header over `Words`, since the checks are there for all of them. The
system calls take any pointer of `Pointers`, and the string check any contents of
the stack page. `UserPage` is what `paging_init` opens to Ring 3.

### Tasks

`kernel_main` creates things in a fixed order: twelve of its calls (tests, the boot
program, the termination test) are the sessions of `BootSessions`, each with what it
creates, whether it gives up on a failure and how it disposes of what it has; then
the shell's utilities come, for ever. One step is one call of the heap, so that each
can be the one that finds no frame or no room. `parts` are the structures of the
creation under way, `freeing` the `heap_free` calls still to come: an address that the
code reads from a field is read when its turn comes, and not before. A structure
is stored with the frames that backed it when it was written; it is `Intact` while the
page table still says so. Registers, identifiers and the entries of page tables are left
out. So are the branches of a test behind a comparison of fields it has just written,
and the tests that map one page and unmap it.

The first kernel task and the boot program's are made before paging, on pages that stay
mapped onto themselves. `TickPossible` says when the timer may look at the
tasks: while one runs, or in the shell with a current task.

Two things met on the way. When an address space gets its directory but not its page
tables, the directory is freed, its slot is reused for something small, and mapping its
header takes the page before it, where by then a process, a task or its context may be:
the contents are lost. This is a defect of the code: `IntactUnlessTablesFail`
holds up to that failure and says nothing after it, and without its condition TLC finds
the loss in 28 states. It comes from the branch of the heap that the finding of
`HeapReuse` is about, and is recorded there. What the kernel reads from
a lost structure depends on what the new frame holds; the model goes on as though the
contents were those written, so after such a loss `TickSound`, `NothingLost` and
`UtilitiesRepeat` are about which blocks are allocated and listed, not about contents.
And `task_create_user`'s branch for a missing context is never taken in these
layouts: the stack freed just before leaves a slot and frames enough. The branch is in
the model (`task_context`, `Run`), and the theorems cover it.

### Shell

A line is a buffer of keys; commands are spelled with one or two keys (`Spelling`),
which keeps typing, comparing, erasing and overflowing a line intact with a small
alphabet. One action is one step between which an interrupt can come: polling a
flag, clearing it, reading the filter value, reading its type, the load and the
store of `keyboard_row++`, and at the end of a utility leaving its task (`LeaveTask`),
`task_destroy`, which refuses the current task, emptying the line, testing and wrapping
the row, printing the prompt. If no context can be had for a task, the launch reports
an error and all utilities but secusers leave the finished task on the list
(`stranded`). A utility is the sequence of its system calls: a refused
one ends in the `jmp $` of the program, one that writes past the video page is a page
fault, and `isr_page_fault` halts for good. The history variable `asked` collects
the filters requested since the last poll.

### FileStore

State: mount flag, block bitmap with the allocator's and the superblock's counter,
inode bitmap and counter, the two inodes of every file, what the stored checksum was
computed from, and the device's blocks. A write allocates all missing blocks in
ascending order, or as many as there are; then the device is written block by block
and may fail at any of them; the roll-back unmaps and frees what the write took. A
buffer consists of equal bytes, so that a read shows which write a byte is from.
Releasing a file is the sequence of the kernel's own procedure (unmap and free each
block, free the inode). A block or an inode is taken back only if
`initrafs_block_free` or `initrafs_inode_free` would: in range, not the root's, and
marked (`Accepted`); the counters go down by what was taken and up by what was accepted
back, also within a write that is rolled back (`Counted`). InitraFS has no call that deletes a file. The checksum is
abstracted to the fields it covers: two different inodes never have equal checksums.
A failing device write leaves the block as it was, as the memory device does.

### Namespace

State: what the VFS keeps (registered and active file system, open files, identity
of the caller), the table of inodes, and for every inode structure its number, type,
owner, links, size and entries. A path is a sequence of names, "." and "..". One
action is one VFS call; a call that fails changes nothing and is no step. Creating
and removing files is done by callers out of InitraFS primitives, as the boot tests
do, and each such sequence is one action: nothing else runs between its calls. The lowest free
number is taken. If a creation fails, the caller closes the file it has opened itself,
if any, unmounts and unregisters (the `fail` label of the test); the last two are
refused while another file is open. `vfs_seek` takes any position, one past the end
included (`Positions`).

`vfs_open` returns a slot with a pointer to the inode. The pointer outlives removal
of the file and reuse of its number. One assumption is made on callers: a structure
an open file points to is not given to another inode, as no code in the repository
does; numbers are reused freely. The permission check is complete: owner, group or other by the first that
fits, on directories of mode 0755 and files of mode 0644, the modes callers use.

Two things met on the way, outside the properties: callers raise the `link_count` of
a directory without recomputing its checksum (only files are ever verified), and
`initrafs_vfs_rmdir_test` may read `mounted` of an instance that is still
uninitialised.

## 3. Runs

| Run | Bounds | Shows |
| --- | --- | --- |
| `SecurityAudit` | ring of 3, sequence modulo 5, 2 pids | the ring overwrites, is cleared and wraps its sequence; type, order, filtered reads, refinement of `AuditLog` |
| `BootHeap` | 2-byte header and word, 26 bytes of heap, sizes 2, 3, 6, 9 | the list tiles the heap, free neighbours are merged, a request is refused exactly without room on either side of `heap_pointer`, refinement of `Allocator` |
| `HeapPlacement` | 16-byte pages, 4-byte header, 4 pages, 3 slots, 4 frames; sizes of one and two pages, one that is rounded up to 0, and aligned | frames are exclusive, blocks in the region, addresses distinct, with reuse and failure |
| `HeapUniform` | 8 pages, 5 slots, 7 frames, sizes 13, 20, 28, all of two pages | requests of equally many pages: mapped, no leak, calls that fail with one page mapped harmless, refinement of `Allocator` (disjoint, large enough) |
| `HeapReuse` | sizes 3 and 15 | **violation** of disjointness: a freed slot is reused for a larger size |
| `Shell` | 5 commands of one key, 2-byte buffer, 2 shell rows, with and without a file system | type and line bounds, prompt on the screen, life of the task, no lost request |
| `ShellLive` | ring of 2, one audit line, secaudit with and without a filter, secperm, with and without a file system | every request is served unless a utility never ends; a utility ends if what it asks for can be had and shown, and never ends if not |
| `ShellPageFault` | ring of 16, five lines, the six decisions of a boot | **violation**: secaudit faults on its sixth line |
| `ShellTorn` | secaudit with two filters | **violation**: a run whose filter mixes two commands |
| `FileStore` | 2 bytes per block, 2 direct blocks, 4-block device, 2 files, 2 byte values | ownership, no leak, counters, usable files, refinement of `ByteFiles` |
| `Tasks` | 16-byte pages, 75 of them, 20 slots, 0 to 28 frames left, seven ends of the boot heap; words of 4 bits, user pages of 3 bytes | structures stay intact unless page tables fail, the timer finds only live tasks, failures give back, utilities repeat for ever, user memory in bounds |
| `Namespace` | 3 structures and the root, 2 free numbers, 2 names, directories of 4 entries, 2 file systems for 1 place, 1 open file, 3 callers, paths of 3 components | the table stays a tree, lookup retraces its steps, links, mounting, who may write and remove |

The bounds are the smallest in which every branch is reached: a ring that is
overwritten twice round, pages that hold one small and half a large block, fewer
frames than pages, and in `HeapUniform` an odd number of them (an allocation fails
before its first and before its second page), a line that
fills its buffer and reaches the edge, a device with fewer free blocks than the two
files can hold (a write fails at its first and at its second block). The fifth
command of `Shell` gives two different filters. In `Namespace` there are more
structures than numbers, so that a number moves to another structure while a file is
open; a directory with both names used is full; two nested levels and three
components reach every combination of "..", a name and the root. Symmetry is used
there only: structures and file systems are compared for equality and nothing else,
and the run checks safety.

In `BootHeap` the sizes leave rests of a header and less, of a header and a word, and
more. In `Tasks` a space has one page of directory and two of tables instead of one and
four, a stack is one page, everything else less, as in the kernel; the heap region has
room for the ten spaces of a boot or, if the boot heap ends late, for none, one or a
few, and the number of frames left runs through every value up to the most a boot
needs, so that every allocation is once the first to fail. Reused slots of all kinds
meet before the shell starts; `UtilitiesRepeat` compares the heap after every utility
with the heap after the first, so the loop is closed. `SizeOf` keeps the order of
the kernel's sizes. Words of 4 bits reach a payload, a bss and a buffer whose sums
wrap.

Deadlock is checked except in `ShellLive` and the two violation runs of the shell: the
machine stops for good when secaudit faults.

What the violations mean:

- *HeapReuse*: the reuse branch of `heap_alloc_paged` never compares sizes; three
  calls (an allocation, a reallocation that moves it, a larger allocation in the slot
  it left) give two live blocks one page.
- *ShellPageFault*: six decisions are recorded at boot and secaudit adds its own;
  five lines fit the video page that Ring 3 may write. `UtilitiesEnd` of `ShellLive`
  says in general when a utility ends and when it does not.
- *ShellTorn*: the request flag is cleared first and the two filter words are read
  after it, with interrupts on. The request is pending again, so the right filter
  runs next; `LastFilterRun` shows that it always does.

The same models show more consequences that have no run of their own. With aligned
requests, the header of a block lies on the page of the block before it, and freeing
either unmaps that page under the other (`LiveBlocksMapped` with sizes 3, and 16
aligned); `IntactUnlessTablesFail` shows that in the kernel this hurts after one failure
only. With the
sizes of `HeapReuse`, a page mapped over a neighbour's loses the neighbour's frame
for good, and a failure in that branch unmaps the neighbour. A size within a word of
2^32 is rounded up to 0 and its block is smaller than the request; one within a
header of 2^32 passes the bounds checks with a wrapped sum and is recorded as it is
(`PlacementSound` fails with size 126 in `HeapPlacement`). Hence the conditions `NoWrap`
and `UniformRequests` of the theorems. `secaudit --denied` spins for ever once the ring
holds an allowed event, because it reads as many events through the filter as there
are without it; so does secperm without a file system. `Answerable` states both, and
`ShellLive` has them.

## 4. Fairness

`ShellSpec` assumes weak fairness of the main loop's steps, of the Ring 3 program's
steps and of the timer interrupt: the processor executes one of the first two
whenever it can and the PIT interrupts for ever. Nothing is assumed of the keyboard.
`hlt` is left on any interrupt, so a request made after its flag was polled is
found at the next tick. The other specifications state safety only.

## 5. Proofs

All theorems hold for every value of the constants that satisfies the named
assumptions, which TLC evaluates in the runs: `AuditAssumption`, `HeapAssumption`,
`BootAssumption`, `StoreAssumption`, `NamespaceAssumption`, `ShellAssumption`,
`UserAssumption` and `TasksAssumption` (the sizes of the kernel's structures are among
the sizes the heap is asked for, and the boot heap, which holds the first two tasks and
a context, ends inside the heap region). Every inductive invariant below was checked by
TLC before it was proved.

- **Audit ring.** `AuditTypeCorrect`, `SequencesConsecutive`, `AuditRefinement` and
  `FilteredReadSelects`. The type invariant is inductive; order needs the lemma that
  recording changes one position and moves every other event by at most one place, also
  when the ring is full and the head moves. For the filtered read, `MatchedCounts` shows
  that the scan's counter is defined and counts, and `Counting` that counting a set
  from below numbers it in ascending order, without gaps.
- **Boot heap.** `BlocksAlwaysTile`, `AlwaysCoalesced`, `RefusalsJustified`,
  `BootTypeCorrect` and `BootRefinement`. `BootInv` joins tiling (`ListOK`), merging
  (`Merged`) and "`requested` follows the list". Merging is not inductive without
  tiling, since `heap_free` looks at neighbours on the list, not in memory. That a
  refusal is justified needs both: a free run between two live blocks is one free block.
  The bound for runs across `heap_pointer` follows: one of the two sides holds half.
  The steps are reduced to three, an element put into the list, taken out, or replaced.
- **Paged heap, all requests.** `HeapTypeCorrect` and `HeapFramesExclusive`. Inductive:
  types, "a mapped frame is marked" and "no frame twice". Mapping takes an unmarked
  frame, unmapping clears entry and mark together, so even the faulty reuse keeps it.
  `HeapPlacement` adds, for requests whose sums do not wrap (`NoWrap`), that every
  placed block ends at or below `heap_pointer`: a new block is above all others.
- **Paged heap, requests of equally many pages.** `UniformRequestsSafe`,
  `UniformFramesReturned`, `UniformFailureHarmless` and `UniformRefinement`, for every k
  such that all requests take k pages and none is aligned. `UniformInv(k)` says each
  used slot is exactly k pages from a page boundary on (`RunEach`), two slots share none
  (`RunsApart`), and a frame is marked exactly if a page of a live slot is mapped to it
  (`FramesFollowBlocks`). A call that runs out of frames has mapped some of its k pages
  and no others; the clean-up undoes these, which are no live block's by `RunsApart`.
  The violation of `HeapReuse` and the shared header page are exactly what
  `UniformRequests` excludes.
- **Kernel, memory.** `KernelFramesExclusive` and `KernelPlacement`: every step of
  `Tasks` is a step of the heap or leaves it alone, so the heap's invariants carry over
  to everything that processes, spaces and tasks do. `UserAccessBounded` is arithmetic
  about one step: what the checks of the loader and of the system calls let through
  ends below the modulus, so a region is the interval it looks like.
- **Kernel, structures.** `TasksTypes` and `SchedulerStructures` (`TickSound`), for
  every heap, every structure size and whichever allocations fail, if no request wraps
  (`NoWrap`). None is inductive: that a freed task is never left on the list depends on
  who else points to it and on what the caller still holds. `TasksInv` joins the heap's
  `PlacementInv` with `StructureInv`:
    - `Ownership`: a link leads to a structure of the right shape, and no two links to
      the same one, so a structure is freed once;
    - `BootBelow`: the structures of the boot heap are below every block, so no free
      reaches them and the two boot tasks stay listed;
    - `ListSound`: listed tasks are there, listed once, not about to be freed, and have a
      context if they may be chosen;
    - `FreeingSound`: what is queued for freeing comes with its owner, and a field of a
      structure before the structure itself;
    - `ControlSound`, `PartsSound`, `MadeSound`, `RunningSound`: what a caller holds at
      each stage of a creation, after it, and while its task runs.

  One lemma per action shows that a step keeps it; the steps are reduced to a few moves
  of memory (a structure is added, a link is made, a structure is removed with its
  links doomed). `TickSound` says that the timer finds no task that was freed or is
  about to be, no current task whose process was, and chooses none without a context.
  That a structure still has the contents written to it depends on how pages are shared,
  which is `IntactUnlessTablesFail` of the run and has no theorem.
- **Kernel, nothing lost.** `NothingIsLost`, relative to `TasksInv`. `LossInv` says that
  without a failure nothing asked for is missing (`Complete`) and every block in use is
  held by the list, the caller, a link or the freeing queue (`Accounted`); that during
  a creation the blocks in use are those from before and those taken since
  (`TakenSound`); and that after a failed one what is still to be freed is exactly the
  difference, up to the page directory and tables that `process_create` keeps without
  its task (`GivenBack`). The last two need the sizes of those two blocks and that
  addresses are distinct, or a block could be counted for another.
- **Shell.** `ShellTypeCorrect`, `PromptStaysOnScreen`, `TaskMatchesProgram` and
  `LastFilterIsRun`. `ShellInv` says for every value of `pc` what the keyboard handler
  may have changed under the main loop: the row is past the screen only between the
  report of a utility and the wrap (`RowInv`), a task exists only between launch and
  `task_destroy`, which finds it no longer current (`TaskInv`), and a word of the filter is stale only while a newer request is
  pending (`FilterInv`).
- **Files.** `StoreTypeCorrect`, `StoreBlocksOwned`, `StoreNothingLeaked`,
  `StoreFilesUsable`, `StoreCountersAgree` and `StoreRefinement`. None is inductive
  alone: that a roll-back restores the inode needs that the blocks taken were free and
  the places empty; that a write may be rolled back without touching a neighbour needs
  that owners are marked. `StoreInv` joins them with `InstanceInv` (the root's block and
  inode stay marked; nothing is marked when unmounted). `WriteCases` reduces a write to
  two outcomes: everything but the device is as before, or the missing blocks of the
  range are fresh ones. `RangeInFile` is the arithmetic of offsets and blocks. The
  refinement rests on `WrittenByte`, one byte of the file after a write that stopped at
  any block: a byte outside the range is not touched because its block was mapped
  before, so it is read and not zeroed; other files are untouched because no place of
  theirs shares a block.
- **Directories.** `NameTypeCorrect`, `TreeIsSound`, `MountIsHeld`, `OwnersWrite`,
  `RemovalsLegal` and `LookupIsRetracing`. `NameInv` states the tree over nodes instead
  of over searches in the table (`EntriesLead`, `NodesListed`, `ListedOnce`,
  `LinksCounted`, marked and unique numbers): a search finds at most one node only
  because numbers are unique, which in turn needs that a number is marked while a node
  has it. The action properties and the lookup follow from it.

Induction over data is done through sets: the least number principle follows from
`NatLessThanWellFounded` and `WFMin`, and the numbers for which a statement holds are
all of them if 0 is one and every successor. That gives the walk along a path of any
length and the counter of the filtered scan.

Only model-checked: liveness of the shell (`RequestsServed`, `UtilitiesEnd`), which
needs fairness and ENABLED; and of `Tasks` the two invariants about pages,
`IntactUnlessTablesFail` and `UtilitiesRepeat`. Whether a block's header page is shared with
a structure still in use, and whether a utility finds the holes the last one left,
follows from the sizes of the structures and from the exact sequence of the twelve
sessions since boot: with other sizes, pages that are shared can be those of structures
in use, as happens even here once the page tables of a space did not fit. They are
statements about one layout, not about every value of the constants.

## 6. Not modelled

The boot chain, the switch to long mode and the 64-bit kernel are straight-line code
that keeps no state; build and test tools are not part of the running system. Of the
boot-time tests, those that make or free something are sessions of `Tasks`, those of
the file system are the sequences of `FileStore` and `Namespace`, and the audit events
they leave are initial states of `Shell`; the comparisons they print verdicts on are
left out. Which frames the E820 map offers is a constant. Drawing, serial output and
the exact text of commands are left out. Listing a directory and
`vfs_get_security_info` change nothing; `vfs_mkdir` and `vfs_unlink` fail on InitraFS,
which provides neither. No process's page directory is ever loaded, so its entries
have no effect; the timer's choice of a task is never acted on. `SYSCALL_WRITE` and
`SYSCALL_YIELD` do nothing.

## 7. Plan

Of the safety properties the runs check, only the two about pages named above have no
theorem. What a change of the code would call for next: with a header page of its own for each aligned block, or one
that is not unmapped while a neighbour uses it, `IntactUnlessTablesFail` would hold for
every size and without its condition, and could be proved. Of the code not
modelled, the E820 parsing behind the constant `Frames` comes first.
