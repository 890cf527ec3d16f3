------------------------------ MODULE Namespace ------------------------------
(***************************************************************************)
(* The VFS (src/fs/vfs.c) over the directories of InitraFS                 *)
(* (src/fs/initrafs.c): registration and mounting, the table of inodes,    *)
(* path lookup, open files, the caller's identity and directory removal.   *)
(*                                                                         *)
(* Objects are the inode structures, with their entries, that the callers  *)
(* own; a structure is used again only when no open file points to it.     *)
(* InitraFS is mounted exactly while it is the active file system, so its  *)
(* instance is one set of variables.  Data is left to FileStore: a file    *)
(* has a size, and one byte is read or written at a time.                  *)
(***************************************************************************)
EXTENDS Integers, Sequences, FiniteSets

CONSTANTS Objects, Root,       \* inode structures; the instance's own one is Root
          Names,               \* names that can be given, not "." and ".."
          ENTRIES,             \* INITRAFS_INSTANCE_DIRECTORY_ENTRIES
          INODE_COUNT,         \* INITRAFS_DEFAULT_INODE_COUNT
          FileSystems, VFS_MAX_FILESYSTEMS, VFS_MAX_OPEN_FILES,
          Identities,          \* callers: pairs of uid and gid
          Owners,              \* owners files are given: pairs of uid and gid
          MaxSize,             \* no file is longer
          Positions,           \* positions asked for; any unsigned int is taken
          PathLength,          \* bound on the components of a path
          None

ASSUME NamespaceAssumption ==
    /\ Root \notin Objects /\ None \notin Objects \cup {Root} /\ None \notin FileSystems
    /\ Names \cap {".", ".."} = {}
    /\ ENTRIES \in Nat /\ ENTRIES >= 2 /\ INODE_COUNT \in Nat /\ INODE_COUNT > 1
    /\ VFS_MAX_FILESYSTEMS \in Nat /\ VFS_MAX_OPEN_FILES \in Nat
    /\ Identities \subseteq [uid : Nat, gid : Nat] /\ Owners \subseteq [uid : Nat, gid : Nat]
    /\ MaxSize \in Nat /\ PathLength \in Nat /\ Positions \subseteq Nat

VARIABLES vfs_filesystems,        \* registered
          vfs_active_filesystem,
          vfs_open_files,         \* inode and position of each slot
          caller,                 \* vfs_caller_uid and vfs_caller_gid
          nodes,                  \* structures in the table of inodes
          inode,                  \* number, type, owner, link count and size
          entries,                \* the used entries of each directory, by name
          inode_bitmap

vfsVars == <<vfs_filesystems, vfs_active_filesystem, vfs_open_files, caller>>
treeVars == <<nodes, inode, entries, inode_bitmap>>
nameVars == <<vfsVars, treeVars>>

INITRAFS_UNUSED_INODE == 0
INITRAFS_ROOT_INODE == 1
Kernel == [uid |-> 0, gid |-> 0]
Handles == 1 .. VFS_MAX_OPEN_FILES
Components == Names \cup {".", ".."}
Paths == UNION {[1 .. n -> Components] : n \in 0 .. PathLength}
Closed == [inode |-> None, position |-> 0]

NewInode(number, type, owner, links) ==
    [number |-> number, type |-> type, owner |-> owner, link_count |-> links, size |-> 0]

Entry(number, type) == [inode |-> number, type |-> type]

(* initrafs_root_directory_init: a directory starts with its own two entries. *)
NewEntries(self, parent) ==
    [name \in {".", ".."} |-> Entry(IF name = "." THEN self ELSE parent, "directory")]
NoEntries == [name \in {} |-> Entry(0, "file")]

NameInit ==
    /\ vfs_filesystems = {} /\ vfs_active_filesystem = None
    /\ vfs_open_files = [h \in Handles |-> Closed]
    /\ caller = Kernel
    /\ nodes = {}
    /\ inode = [o \in Objects \cup {Root} |-> NewInode(0, "file", Kernel, 0)]
    /\ entries = [o \in Objects \cup {Root} |-> NoEntries]
    /\ inode_bitmap = {}

-----------------------------------------------------------------------------
(* Registration, mounting and identity. *)

filesystem_register(fs) ==
    /\ fs \notin vfs_filesystems /\ Cardinality(vfs_filesystems) < VFS_MAX_FILESYSTEMS
    /\ vfs_filesystems' = vfs_filesystems \cup {fs}
    /\ UNCHANGED <<vfs_active_filesystem, vfs_open_files, caller, treeVars>>

filesystem_unregister(fs) ==
    /\ fs \in vfs_filesystems /\ vfs_active_filesystem # fs
    /\ vfs_filesystems' = vfs_filesystems \ {fs}
    /\ UNCHANGED <<vfs_active_filesystem, vfs_open_files, caller, treeVars>>

(* initrafs_instance_init: the root is the only inode. *)
vfs_mount(fs) ==
    /\ fs \in vfs_filesystems /\ vfs_active_filesystem = None
    /\ vfs_active_filesystem' = fs
    /\ nodes' = {Root}
    /\ inode' = [inode EXCEPT ![Root] =
                    NewInode(INITRAFS_ROOT_INODE, "directory", Kernel, 2)]
    /\ entries' = [entries EXCEPT ![Root] =
                      NewEntries(INITRAFS_ROOT_INODE, INITRAFS_ROOT_INODE)]
    /\ inode_bitmap' = {INITRAFS_UNUSED_INODE, INITRAFS_ROOT_INODE}
    /\ UNCHANGED <<vfs_filesystems, vfs_open_files, caller>>

(* Nothing of the instance is kept. *)
ClearInstance == nodes' = {} /\ inode_bitmap' = {} /\ UNCHANGED <<inode, entries>>

AllClosed == \A h \in Handles : vfs_open_files[h].inode = None

(* Mutant: open files are not looked at. *)
unmount_unchecked(fs) ==
    /\ vfs_active_filesystem = fs
    /\ vfs_active_filesystem' = None
    /\ ClearInstance
    /\ UNCHANGED <<vfs_filesystems, vfs_open_files, caller>>

vfs_unmount(fs) ==
    /\ vfs_active_filesystem = fs /\ AllClosed
    /\ vfs_active_filesystem' = None
    /\ ClearInstance
    /\ UNCHANGED <<vfs_filesystems, vfs_open_files, caller>>

vfs_set_caller_identity(who) ==
    /\ caller' = who
    /\ UNCHANGED <<vfs_filesystems, vfs_active_filesystem, vfs_open_files, treeVars>>

-----------------------------------------------------------------------------
(* Permissions: 0755 for directories, 0644 for files. *)

Mode(o) ==
    IF inode[o].type = "directory"
    THEN [owner |-> {"read", "write", "execute"}, group |-> {"read", "execute"},
          other |-> {"read", "execute"}]
    ELSE [owner |-> {"read", "write"}, group |-> {"read"}, other |-> {"read"}]

(* The first class that fits decides, even if a later one would allow more. *)
Class(o) ==
    IF caller.uid = inode[o].owner.uid THEN "owner"
    ELSE IF caller.gid = inode[o].owner.gid THEN "group" ELSE "other"

initrafs_inode_check_permission(o, wanted) == wanted \subseteq Mode(o)[Class(o)]

-----------------------------------------------------------------------------
(* The table of inodes and paths. *)

(* At most one structure has a number. *)
initrafs_namespace_find(number) == {o \in nodes : inode[o].number = number}

Nowhere == [inode |-> INITRAFS_UNUSED_INODE, depth |-> 0]

(* Mutant: the depth is not counted, so that ".." of the root is the root. *)
step_without_depth(at, component) ==
    LET directories == {o \in initrafs_namespace_find(at.inode) : inode[o].type = "directory"}
    IN  IF at = Nowhere \/ directories = {} THEN Nowhere
        ELSE LET known == entries[CHOOSE o \in directories : TRUE]
             IN  IF component \in DOMAIN known
                 THEN [inode |-> known[component].inode, depth |-> 0] ELSE Nowhere

(* One component further: from a directory only, and never above the root. *)
PathStep(at, component) ==
    LET directories == {o \in initrafs_namespace_find(at.inode) : inode[o].type = "directory"}
        known == entries[CHOOSE o \in directories : TRUE]
    IN  IF at = Nowhere \/ directories = {} THEN Nowhere
        ELSE IF component = "." THEN at
        ELSE IF component \notin DOMAIN known \/ (component = ".." /\ at.depth = 0) THEN Nowhere
        ELSE [inode |-> known[component].inode,
              depth |-> IF component = ".." THEN at.depth - 1 ELSE at.depth + 1]

(* The number a path leads to, 0 if it fails. *)
initrafs_path_lookup(path) ==
    LET walk[i \in 0 .. Len(path)] ==
            IF i = 0 THEN [inode |-> INITRAFS_ROOT_INODE, depth |-> 0]
            ELSE PathStep(walk[i - 1], path[i])
    IN  walk[Len(path)].inode

(* The structures a path leads to, one or none. *)
initrafs_vfs_lookup(path) ==
    IF vfs_active_filesystem = None THEN {}
    ELSE initrafs_namespace_find(initrafs_path_lookup(path))

-----------------------------------------------------------------------------
(* Open files. *)

vfs_open(path) ==
    \E o \in initrafs_vfs_lookup(path), h \in Handles :
        /\ vfs_open_files[h].inode = None
        /\ \A g \in Handles : g < h => vfs_open_files[g].inode # None
        /\ vfs_open_files' = [vfs_open_files EXCEPT ![h] = [inode |-> o, position |-> 0]]
        /\ UNCHANGED <<vfs_filesystems, vfs_active_filesystem, caller, treeVars>>

Open(h) == vfs_open_files[h].inode # None

vfs_close(h) ==
    /\ Open(h)
    /\ vfs_open_files' = [vfs_open_files EXCEPT ![h] = Closed]
    /\ UNCHANGED <<vfs_filesystems, vfs_active_filesystem, caller, treeVars>>

vfs_seek(h, position) ==
    /\ Open(h)
    /\ vfs_open_files' = [vfs_open_files EXCEPT ![h].position = position]
    /\ UNCHANGED <<vfs_filesystems, vfs_active_filesystem, caller, treeVars>>

(* Mutant: the node is found by the number alone. *)
reached_by_number(h) ==
    {o \in initrafs_namespace_find(inode[vfs_open_files[h].inode].number) :
        inode[o].type = "file"}

(* The file a slot reaches: its structure must still be the one with its number. *)
Reached(h) ==
    {o \in initrafs_namespace_find(inode[vfs_open_files[h].inode].number) :
        o = vfs_open_files[h].inode /\ inode[o].type = "file"}

(* Mutant: the position moves although nothing was read. *)
advance_always(h) ==
    vfs_open_files' = [vfs_open_files EXCEPT ![h].position = @ + 1]

Advance(h) ==
    vfs_open_files' = [vfs_open_files EXCEPT ![h].position =
        IF \E o \in Reached(h) : @ < inode'[o].size THEN @ + 1 ELSE @]

(* A byte before the end is read; at the end the result is 0. *)
vfs_read(h) ==
    /\ Open(h)
    /\ \E o \in Reached(h) : initrafs_inode_check_permission(o, {"read"})
    /\ UNCHANGED <<vfs_filesystems, vfs_active_filesystem, caller, treeVars>>
    /\ Advance(h)

(* A byte at or before the end is written; what fails changes nothing. *)
vfs_write(h) ==
    LET position == vfs_open_files[h].position
    IN  /\ Open(h)
        /\ \E o \in Reached(h) :
              /\ initrafs_inode_check_permission(o, {"write"})
              /\ position <= inode[o].size /\ position < MaxSize
              /\ inode' = [inode EXCEPT ![o].size = IF position = @ THEN @ + 1 ELSE @]
        /\ Advance(h)
        /\ UNCHANGED <<vfs_filesystems, vfs_active_filesystem, caller, nodes, entries,
                       inode_bitmap>>

-----------------------------------------------------------------------------
(* Creating and removing. *)

FreeInodes == (INITRAFS_ROOT_INODE + 1 .. INODE_COUNT - 1) \ inode_bitmap

Lowest(numbers) == {n \in numbers : \A m \in numbers : n <= m}

(* initrafs_directory_add: a free entry, and no other of this name. *)
RoomFor(parent, name) ==
    name \notin DOMAIN entries[parent] /\ Cardinality(DOMAIN entries[parent]) < ENTRIES

WithEntry(known, name, entry) ==
    [n \in DOMAIN known \cup {name} |-> IF n = name THEN entry ELSE known[n]]

Unused(o) == o \notin nodes /\ \A h \in Handles : vfs_open_files[h].inode # o

(* A caller makes a directory: the inode, the entry in the parent, the parent's link,
   the table. *)
CreateDirectory(o, parent, name) ==
    /\ Unused(o) /\ parent \in nodes /\ inode[parent].type = "directory"
    /\ RoomFor(parent, name)
    /\ \E number \in Lowest(FreeInodes) :
          /\ inode_bitmap' = inode_bitmap \cup {number}
          /\ inode' = [inode EXCEPT ![o] = NewInode(number, "directory", Kernel, 2),
                                    ![parent].link_count = @ + 1]
          /\ entries' = [entries EXCEPT
                ![o] = NewEntries(number, inode[parent].number),
                ![parent] = WithEntry(@, name, Entry(number, "directory"))]
    /\ nodes' = nodes \cup {o}
    /\ UNCHANGED vfsVars

(* A caller makes a file and gives it an owner. *)
CreateFile(o, parent, name, owner) ==
    /\ Unused(o) /\ parent \in nodes /\ inode[parent].type = "directory"
    /\ RoomFor(parent, name)
    /\ \E number \in Lowest(FreeInodes) :
          /\ inode_bitmap' = inode_bitmap \cup {number}
          /\ inode' = [inode EXCEPT ![o] = NewInode(number, "file", owner, 1)]
          /\ entries' = [entries EXCEPT
                ![o] = NoEntries,
                ![parent] = WithEntry(@, name, Entry(number, "file"))]
    /\ nodes' = nodes \cup {o}
    /\ UNCHANGED vfsVars

(* A caller whose creation fails, for want of an inode or of an entry, gives up: it
   closes the file it has opened, if any, unmounts and unregisters.  While somebody else's
   file is open the file system is not unmounted, and, being active, not unregistered. *)
CreateFailed(parent, name, own) ==
    /\ parent \in nodes /\ inode[parent].type = "directory"
    /\ ~ RoomFor(parent, name) \/ FreeInodes = {}
    /\ caller' = Kernel
    /\ vfs_open_files' = [h \in Handles |-> IF h \in own THEN Closed ELSE vfs_open_files[h]]
    /\ IF \E h \in Handles \ own : Open(h)
       THEN UNCHANGED <<vfs_filesystems, vfs_active_filesystem, treeVars>>
       ELSE /\ vfs_active_filesystem' = None
            /\ vfs_filesystems' = vfs_filesystems \ {vfs_active_filesystem}
            /\ ClearInstance

(* initrafs_directory_remove. *)
WithoutEntry(known, name) == [n \in DOMAIN known \ {name} |-> known[n]]

(* Removal of a file by a caller: its entry, its number, its node. *)
RemoveFile(o, parent, name) ==
    /\ o \in nodes /\ inode[o].type = "file" /\ parent \in nodes
    /\ name \in DOMAIN entries[parent] /\ entries[parent][name].inode = inode[o].number
    /\ entries' = [entries EXCEPT ![parent] = WithoutEntry(@, name)]
    /\ inode_bitmap' = inode_bitmap \ {inode[o].number}
    /\ nodes' = nodes \ {o}
    /\ UNCHANGED <<vfsVars, inode>>

(* Mutant: a directory with entries is removed as well. *)
is_empty_unchecked(o) == inode[o].type = "directory"

initrafs_directory_is_empty(o) ==
    inode[o].type = "directory" /\ DOMAIN entries[o] \subseteq {".", ".."}

ParentOf(o) == initrafs_namespace_find(entries[o][".."].inode)

(* Mutant: the node is left in the table. *)
remove_keeps_node(o, parent, name) ==
    /\ entries' = [entries EXCEPT ![parent] = WithoutEntry(@, name)]
    /\ inode' = [inode EXCEPT ![parent].link_count = @ - 1]
    /\ inode_bitmap' = inode_bitmap \ {inode[o].number}
    /\ UNCHANGED <<nodes, vfsVars>>

(* The last part of initrafs_path_remove_directory: the parent's entry by its name, the
   parent's link, the node, the inode. *)
RemoveFound(o, parent, name) ==
    /\ entries' = [entries EXCEPT ![parent] = WithoutEntry(@, name)]
    /\ inode' = [inode EXCEPT ![parent].link_count = @ - 1]
    /\ nodes' = nodes \ {o}
    /\ inode_bitmap' = inode_bitmap \ {inode[o].number}
    /\ UNCHANGED vfsVars

(* The directory must be empty and known to its parent by its number; the name that is
   removed there is the last of the path, which may not be "." or "..". *)
initrafs_path_remove_directory(path) ==
    \E o \in initrafs_namespace_find(initrafs_path_lookup(path)) \ {Root} :
        /\ initrafs_directory_is_empty(o)
        /\ path[Len(path)] \in Names
        /\ \E parent \in ParentOf(o) :
              /\ \E name \in DOMAIN entries[parent] :
                    entries[parent][name] = Entry(inode[o].number, "directory")
              /\ path[Len(path)] \in DOMAIN entries[parent]
              /\ RemoveFound(o, parent, path[Len(path)])

(* initrafs_vfs_rmdir: the root is protected; the caller needs the parent. *)
vfs_rmdir(path) ==
    /\ \E o \in initrafs_vfs_lookup(path) \ {Root} :
          /\ inode[o].type = "directory"
          /\ \E parent \in ParentOf(o) :
                initrafs_inode_check_permission(parent, {"write", "execute"})
    /\ initrafs_path_remove_directory(path)

NameNext ==
    \/ \E fs \in FileSystems : \/ filesystem_register(fs) \/ filesystem_unregister(fs)
                               \/ vfs_mount(fs) \/ vfs_unmount(fs)
    \/ \E who \in Identities : vfs_set_caller_identity(who)
    \/ \E path \in Paths : vfs_open(path) \/ vfs_rmdir(path)
    \/ \E h \in Handles : vfs_close(h) \/ vfs_read(h) \/ vfs_write(h)
    \/ \E h \in Handles, position \in Positions : vfs_seek(h, position)
    \/ \E o \in Objects, parent \in Objects \cup {Root}, name \in Names :
          \/ CreateDirectory(o, parent, name) \/ RemoveFile(o, parent, name)
          \/ \E owner \in Owners : CreateFile(o, parent, name, owner)
    \/ \E parent \in Objects \cup {Root}, name \in Names, own \in {{}} \cup {{h} : h \in Handles} :
          CreateFailed(parent, name, own)

NameSpec == NameInit /\ [][NameNext]_nameVars

-----------------------------------------------------------------------------
Numbers == 0 .. INODE_COUNT - 1
EntryType == [inode : Numbers, type : {"file", "directory"}]

(* Where an open file may be: where it was put, or as far as the longest file goes. *)
Offsets == Positions \cup 0 .. MaxSize

(* Type invariant.  A position past the end of the file, where any seek may put it, is
   never moved further by reading or writing. *)
NameTypeOK ==
    /\ vfs_filesystems \subseteq FileSystems
    /\ vfs_active_filesystem \in FileSystems \cup {None}
    /\ vfs_open_files \in [Handles -> [inode : Objects \cup {Root, None}, position : Offsets]]
    /\ caller \in Identities \cup {Kernel}
    /\ nodes \subseteq Objects \cup {Root}
    /\ inode \in [Objects \cup {Root} ->
                    [number : Numbers, type : {"file", "directory"},
                     owner : Owners \cup {Kernel}, link_count : Nat, size : 0 .. MaxSize]]
    /\ \A o \in Objects \cup {Root} :
          /\ DOMAIN entries[o] \subseteq Components
          /\ \A name \in DOMAIN entries[o] : entries[o][name] \in EntryType
    /\ inode_bitmap \subseteq Numbers

(* The link count of a directory is two and one for every directory in it. *)
LinksCounted ==
    \A d \in nodes : inode[d].type = "directory" =>
        inode[d].link_count =
            2 + Cardinality({name \in DOMAIN entries[d] \ {".", ".."} :
                                entries[d][name].type = "directory"})

(* The table of inodes is a tree through every creation, removal and reuse of a
   number: the marked numbers are the nodes' own, an entry names a node of its type,
   every node but the root has exactly one entry, ".." is the directory that entry
   is in, and link counts agree with the entries. *)
TreeSound ==
    /\ LinksCounted
    /\ \A n \in Numbers : n # 0 => (n \in inode_bitmap <=> initrafs_namespace_find(n) # {})
    /\ \A o, p \in nodes : inode[o].number = inode[p].number => o = p
    /\ \A d \in nodes : \A name \in DOMAIN entries[d] \ {".", ".."} :
          \E o \in initrafs_namespace_find(entries[d][name].inode) :
              /\ o # Root /\ inode[o].type = entries[d][name].type
              /\ inode[o].type = "directory" => entries[o][".."].inode = inode[d].number
    /\ \A o \in nodes \ {Root} : \E d \in nodes, name \in Names :
          /\ name \in DOMAIN entries[d] /\ entries[d][name].inode = inode[o].number
          /\ \A e \in nodes, other \in Names :
                other \in DOMAIN entries[e] /\ entries[e][other].inode = inode[o].number
                    => e = d /\ other = name

(* The numbers visited on the way down, last one first; << >> after a failure.  ".."
   goes back to where the walk came from, whatever the directory says. *)
Trail(path) ==
    LET child(number, name) ==
            {entries[d][name].inode :
                d \in {d \in initrafs_namespace_find(number) : name \in DOMAIN entries[d]}}
        directory(number) ==
            \E d \in initrafs_namespace_find(number) : inode[d].type = "directory"
        trail[i \in 0 .. Len(path)] ==
            IF i = 0 THEN <<INITRAFS_ROOT_INODE>>
            ELSE LET so_far == trail[i - 1]
                     name == path[i]
                 IN  IF so_far = << >> \/ ~ directory(so_far[1]) THEN << >>
                     ELSE IF name = "." THEN so_far
                     ELSE IF name = ".." THEN Tail(so_far)
                     ELSE IF child(so_far[1], name) = {} THEN << >>
                     ELSE <<CHOOSE n \in child(so_far[1], name) : TRUE>> \o so_far
    IN  trail[Len(path)]

(* Path lookup, which follows the ".." entries and only counts its depth, ends where
   retracing the steps would, and fails exactly when that fails or leaves the root. *)
LookupRetraces ==
    vfs_active_filesystem # None =>
        \A path \in Paths :
            initrafs_path_lookup(path)
                = IF Trail(path) = << >> THEN INITRAFS_UNUSED_INODE ELSE Trail(path)[1]

(* The active file system stays registered, and a file is open only while a file
   system is active: unmounting never pulls it away. *)
MountHeld ==
    /\ vfs_active_filesystem # None => vfs_active_filesystem \in vfs_filesystems
    /\ \A h \in Handles : Open(h) => vfs_active_filesystem # None

(* A file grows only by its owner, through an open file that was opened on that very
   file, also when identities changed since or its number was used before. *)
OnlyOwnerWrites ==
    [][\A o \in nodes \cap nodes' :
          inode'[o].number = inode[o].number /\ inode'[o].size # inode[o].size =>
              /\ caller.uid = inode[o].owner.uid
              /\ \E h \in Handles : vfs_open_files[h].inode = o]_nameVars

(* While a file system is mounted, a directory disappears only if it was empty, was not
   the root, and the caller owned the directory its entry was in. *)
RemovalLegal ==
    [][vfs_active_filesystem' # None =>
          \A o \in nodes \ nodes' : inode[o].type = "directory" =>
              /\ o # Root
              /\ \A name \in Names : name \notin DOMAIN entries[o]
              /\ \A d \in nodes : \A name \in DOMAIN entries[d] :
                    entries[d][name].inode = inode[o].number /\ name \in Names
                        => caller.uid = inode[d].owner.uid]_nameVars
=============================================================================
