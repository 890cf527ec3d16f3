--------------------------- MODULE NamespaceProofs ---------------------------
(***************************************************************************)
(* The VFS and the directories of InitraFS for every number of inodes,     *)
(* names, entries, open files and callers: the table of inodes is a tree,  *)
(* lookup follows it, mounting is held by open files, and only owners      *)
(* write and remove.                                                       *)
(***************************************************************************)
EXTENDS Namespace, FiniteSetTheorems, SequenceTheorems, WellFoundedInduction, TLAPS

Structures == Objects \cup {Root}
Directory(o) == inode[o].type = "directory"

InodeType == [number : Numbers, type : {"file", "directory"}, owner : Owners \cup {Kernel},
              link_count : Nat, size : 0 .. MaxSize]

(* An instance exists exactly while it is mounted, with its root. *)
InstanceInv ==
    /\ vfs_active_filesystem = None => nodes = {}
    /\ vfs_active_filesystem # None =>
          Root \in nodes /\ inode[Root].number = INITRAFS_ROOT_INODE /\ Directory(Root)

(* A directory has its own two entries, a file has none. *)
NodesInv ==
    /\ DOMAIN entries = Structures
    /\ \A o \in nodes :
          /\ inode[o].number # INITRAFS_UNUSED_INODE
          /\ Directory(o) => {".", ".."} \subseteq DOMAIN entries[o]
          /\ ~ Directory(o) => DOMAIN entries[o] = {}
          /\ IsFiniteSet(DOMAIN entries[o])

(* The parts of TreeSound, over nodes rather than over the sets a search returns. *)
Holds(d, name, o) == name \in DOMAIN entries[d] /\ entries[d][name].inode = inode[o].number

UniqueNumbers == \A o, p \in nodes : inode[o].number = inode[p].number => o = p

MarkedNumbers ==
    \A n \in Numbers \ {0} : n \in inode_bitmap <=> \E o \in nodes : inode[o].number = n

EntriesLead ==
    \A d \in nodes, name \in Names : name \in DOMAIN entries[d] =>
        \E o \in nodes \ {Root} :
            /\ Holds(d, name, o) /\ inode[o].type = entries[d][name].type
            /\ Directory(o) => entries[o][".."].inode = inode[d].number

NodesListed == \A o \in nodes \ {Root} : \E d \in nodes, name \in Names : Holds(d, name, o)

ListedOnce ==
    \A o \in nodes \ {Root}, d, e \in nodes, name, other \in Names :
        Holds(d, name, o) /\ Holds(e, other, o) => d = e /\ name = other

TreeInv == /\ NodesInv /\ UniqueNumbers /\ MarkedNumbers /\ EntriesLead /\ NodesListed
           /\ ListedOnce /\ LinksCounted

NameInv == NameTypeOK /\ MountHeld /\ InstanceInv /\ TreeInv

-----------------------------------------------------------------------------
LEMMA NameConstants ==
    /\ Root \notin Objects /\ None \notin Structures /\ None \notin FileSystems
    /\ "." \notin Names /\ ".." \notin Names
    /\ INODE_COUNT \in Nat /\ INODE_COUNT > 1 /\ MaxSize \in Nat
  BY NamespaceAssumption DEF Structures

(* The named parts say what TreeSound says. *)
LEMMA TreeParts ==
    ASSUME NameTypeOK, TreeInv
    PROVE  TreeSound
  <1>1. \A n \in Numbers : n # 0 => (n \in inode_bitmap <=> initrafs_namespace_find(n) # {})
    BY DEF TreeInv, MarkedNumbers, initrafs_namespace_find
  <1>2. ASSUME NEW d \in nodes, NEW name \in DOMAIN entries[d] \ {".", ".."}
        PROVE  \E o \in initrafs_namespace_find(entries[d][name].inode) :
                  /\ o # Root /\ inode[o].type = entries[d][name].type
                  /\ inode[o].type = "directory" => entries[o][".."].inode = inode[d].number
    <2>1. name \in Names
      BY DEF NameTypeOK, Components
    <2>2. QED
      BY <2>1 DEF TreeInv, EntriesLead, Holds, Directory, initrafs_namespace_find
  <1>3. ASSUME NEW o \in nodes \ {Root}
        PROVE  \E d \in nodes, name \in Names :
          /\ name \in DOMAIN entries[d] /\ entries[d][name].inode = inode[o].number
          /\ \A e \in nodes, other \in Names :
                other \in DOMAIN entries[e] /\ entries[e][other].inode = inode[o].number
                    => e = d /\ other = name
    BY DEF TreeInv, NodesListed, ListedOnce, Holds
  <1>4. LinksCounted /\ \A o, p \in nodes : inode[o].number = inode[p].number => o = p
    BY DEF TreeInv, UniqueNumbers
  <1>5. QED
    BY <1>1, <1>2, <1>3, <1>4 DEF TreeSound

(* Nothing leads to the root but "." and "..". *)
LEMMA RootUnlisted ==
    ASSUME TreeInv, NEW d \in nodes, NEW name \in Names, Root \in nodes
    PROVE  ~ Holds(d, name, Root)
  <1> SUFFICES ASSUME Holds(d, name, Root) PROVE FALSE
    OBVIOUS
  <1>1. PICK o \in nodes \ {Root} : Holds(d, name, o)
    BY DEF Holds, TreeInv, EntriesLead
  <1>2. QED
    BY <1>1 DEF Holds, TreeInv, UniqueNumbers

(* A step that changes neither nodes nor entries nor what the tree says of an inode. *)
LEMMA TreeKept ==
    ASSUME TreeInv, NameTypeOK, UNCHANGED <<nodes, entries, inode_bitmap>>,
           \A o \in nodes : /\ inode'[o].number = inode[o].number
                            /\ inode'[o].type = inode[o].type
                            /\ inode'[o].link_count = inode[o].link_count
    PROVE  TreeInv'
  <1>1. NodesInv' /\ UniqueNumbers' /\ MarkedNumbers'
    BY DEF TreeInv, NodesInv, UniqueNumbers, MarkedNumbers, Directory
  <1>2. EntriesLead' /\ NodesListed' /\ ListedOnce'
    BY DEF TreeInv, EntriesLead, NodesListed, ListedOnce, Holds, Directory
  <1>3. LinksCounted'
    BY DEF TreeInv, LinksCounted
  <1>4. QED
    BY <1>1, <1>2, <1>3 DEF TreeInv

-----------------------------------------------------------------------------
(* Adding a node: what creating a directory and creating a file have in common. *)
AddNode(o, parent, name, number, kind) ==
    /\ nodes' = nodes \cup {o}
    /\ inode_bitmap' = inode_bitmap \cup {number}
    /\ inode'[o].number = number /\ inode'[o].type = kind
    /\ \A p \in nodes : /\ inode'[p].number = inode[p].number
                        /\ inode'[p].type = inode[p].type
                        /\ inode'[p].link_count =
                              IF p = parent /\ kind = "directory"
                              THEN inode[p].link_count + 1 ELSE inode[p].link_count
    /\ DOMAIN entries' = Structures
    /\ entries'[parent] = WithEntry(entries[parent], name, Entry(number, kind))
    /\ \A p \in nodes \ {parent} : entries'[p] = entries[p]
    /\ kind = "file" => entries'[o] = NoEntries
    /\ kind = "directory" => /\ entries'[o] = NewEntries(number, inode[parent].number)
                             /\ inode'[o].link_count = 2

LEMMA AddNodeTree ==
    ASSUME TreeInv, NameTypeOK, NEW o \in Objects \ nodes, NEW parent \in nodes,
           Directory(parent), NEW name \in Names, name \notin DOMAIN entries[parent],
           NEW number \in Numbers, number \notin inode_bitmap, number # 0,
           NEW kind \in {"file", "directory"}, AddNode(o, parent, name, number, kind)
    PROVE  TreeInv'
  <1> USE NameConstants
  <1>0. /\ o # parent /\ o # Root
        /\ \A p \in nodes : inode[p].number # number
        /\ \A p \in nodes : p # o
    BY DEF TreeInv, MarkedNumbers, Structures
  (* The entries afterwards. *)
  <1>1. /\ DOMAIN entries'[parent] = DOMAIN entries[parent] \cup {name}
        /\ entries'[parent][name].inode = number /\ entries'[parent][name].type = kind
        /\ \A n \in DOMAIN entries[parent] : entries'[parent][n] = entries[parent][n]
    BY DEF AddNode, WithEntry, Entry
  <1>2. /\ kind = "file" => DOMAIN entries'[o] = {}
        /\ kind = "directory" => /\ DOMAIN entries'[o] = {".", ".."}
                                 /\ entries'[o][".."].inode = inode[parent].number
    BY DEF AddNode, NoEntries, NewEntries, Entry
  <1>3. ASSUME NEW d \in nodes', NEW n \in Names
        PROVE  n \in DOMAIN entries'[d] <=>
                 (d = parent /\ n = name) \/ (d \in nodes /\ n \in DOMAIN entries[d])
    BY <1>0, <1>1, <1>2 DEF AddNode
  <1>4. ASSUME NEW d \in nodes, NEW n \in DOMAIN entries[d]
        PROVE  n \in DOMAIN entries'[d] /\ entries'[d][n] = entries[d][n]
    BY <1>0, <1>1 DEF AddNode
  <1>5. /\ \A p \in nodes : inode'[p].number = inode[p].number /\ inode'[p].type = inode[p].type
        /\ inode'[o].number = number /\ inode'[o].type = kind
        /\ nodes' = nodes \cup {o} /\ inode_bitmap' = inode_bitmap \cup {number}
    BY DEF AddNode
  <1>6. NodesInv'
    <2>1. ASSUME NEW p \in nodes'
          PROVE  /\ inode'[p].number # 0
                 /\ inode'[p].type = "directory" => {".", ".."} \subseteq DOMAIN entries'[p]
                 /\ ~ (inode'[p].type = "directory") => DOMAIN entries'[p] = {}
                 /\ IsFiniteSet(DOMAIN entries'[p])
      <3>1. CASE p = o
        <4>1. IsFiniteSet({}) /\ IsFiniteSet({".", ".."})
          <5>1. IsFiniteSet({"."} \cup {".."})
            BY FS_Singleton, FS_AddElement
          <5>2. {"."} \cup {".."} = {".", ".."}
            OBVIOUS
          <5>3. QED
            BY <5>1, <5>2, FS_EmptySet
        <4>2. QED
          BY <1>2, <1>5, <3>1, <4>1
      <3>2. CASE p = parent
        <4>1. IsFiniteSet(DOMAIN entries'[p])
          BY <1>1, <3>2, FS_AddElement DEF TreeInv, NodesInv
        <4>2. QED
          BY <1>1, <1>5, <3>2, <4>1
          DEF TreeInv, NodesInv, Directory, INITRAFS_UNUSED_INODE
      <3>3. CASE p \in nodes \ {parent}
        <4>1. entries'[p] = entries[p]
          BY <3>3 DEF AddNode
        <4>2. QED
          BY <1>5, <3>3, <4>1 DEF TreeInv, NodesInv, Directory, INITRAFS_UNUSED_INODE
      <3>4. QED
        BY <1>5, <3>1, <3>2, <3>3
    <2>2. QED
      BY <2>1 DEF AddNode, NodesInv, Directory, INITRAFS_UNUSED_INODE
  <1>7. UniqueNumbers'
    BY <1>0, <1>5 DEF TreeInv, UniqueNumbers
  <1>8. MarkedNumbers'
    BY <1>0, <1>5 DEF TreeInv, MarkedNumbers
  <1>9. EntriesLead'
    <2> SUFFICES ASSUME NEW d \in nodes', NEW n \in Names, n \in DOMAIN entries'[d]
                 PROVE  \E p \in nodes' \ {Root} :
                          /\ entries'[d][n].inode = inode'[p].number
                          /\ inode'[p].type = entries'[d][n].type
                          /\ inode'[p].type = "directory"
                               => entries'[p][".."].inode = inode'[d].number
      BY DEF EntriesLead, Holds, Directory
    <2>1. CASE d = parent /\ n = name
      BY <1>0, <1>1, <1>2, <1>5, <2>1
    <2>2. CASE d \in nodes /\ n \in DOMAIN entries[d]
      <3>1. PICK p \in nodes \ {Root} :
               /\ entries[d][n].inode = inode[p].number
               /\ inode[p].type = entries[d][n].type
               /\ inode[p].type = "directory" => entries[p][".."].inode = inode[d].number
        BY <2>2 DEF TreeInv, EntriesLead, Holds, Directory
      <3>2. inode[p].type = "directory" => entries'[p][".."] = entries[p][".."]
        BY <1>4 DEF TreeInv, NodesInv, Directory
      <3>3. QED
        BY <1>4, <1>5, <2>2, <3>1, <3>2
    <2>3. QED
      BY <1>3, <2>1, <2>2
  <1>10. NodesListed'
    <2> SUFFICES ASSUME NEW p \in nodes' \ {Root}
                 PROVE  \E d \in nodes', n \in Names :
                          /\ n \in DOMAIN entries'[d]
                          /\ entries'[d][n].inode = inode'[p].number
      BY DEF NodesListed, Holds
    <2>1. CASE p = o
      BY <1>1, <1>5, <2>1
    <2>2. CASE p \in nodes
      <3>1. PICK d \in nodes, n \in Names : Holds(d, n, p)
        BY <2>2 DEF TreeInv, NodesListed
      <3>2. n \in DOMAIN entries'[d] /\ entries'[d][n].inode = inode'[p].number
        BY <1>4, <1>5, <2>2, <3>1 DEF Holds
      <3>3. QED
        BY <1>5, <3>2
    <2>3. QED
      BY <1>5, <2>1, <2>2
  <1>11. ListedOnce'
    <2>1. ASSUME NEW p \in nodes', NEW d \in nodes', NEW n \in Names,
                 n \in DOMAIN entries'[d], entries'[d][n].inode = inode'[p].number
          PROVE  \/ p = o /\ d = parent /\ n = name
                 \/ p \in nodes /\ d \in nodes /\ Holds(d, n, p)
      <3>1. CASE d = parent /\ n = name
        BY <1>0, <1>1, <1>5, <2>1, <3>1
      <3>2. CASE d \in nodes /\ n \in DOMAIN entries[d]
        <4>1. PICK q \in nodes : entries[d][n].inode = inode[q].number
          BY <3>2 DEF TreeInv, EntriesLead, Holds
        <4>2. entries[d][n].inode = inode'[p].number
          BY <1>4, <2>1, <3>2
        <4>3. p \in nodes
          BY <1>0, <1>5, <4>1, <4>2
        <4>4. QED
          BY <1>5, <3>2, <4>2, <4>3 DEF Holds
      <3>3. QED
        BY <1>3, <2>1, <3>1, <3>2
    <2>2. QED
      BY <1>0, <2>1 DEF TreeInv, ListedOnce, Holds
  <1>12. LinksCounted'
    <2> SUFFICES ASSUME NEW d \in nodes', inode'[d].type = "directory"
                 PROVE  inode'[d].link_count =
                          2 + Cardinality({n \in DOMAIN entries'[d] \ {".", ".."} :
                                              entries'[d][n].type = "directory"})
      BY DEF LinksCounted
    <2>1. CASE d = o
      <3> DEFINE new == {n \in DOMAIN entries'[d] \ {".", ".."} : entries'[d][n].type = "directory"}
      <3>1. new = {}
        BY <1>2, <1>5, <2>1
      <3>2. inode'[d].link_count = 2
        BY <1>5, <2>1 DEF AddNode
      <3> HIDE DEF new
      <3>3. Cardinality(new) = 0
        BY <3>1, FS_EmptySet
      <3>4. QED
        BY <3>2, <3>3 DEF new
    <2>2. CASE d = parent
      <3> DEFINE old == {n \in DOMAIN entries[d] \ {".", ".."} : entries[d][n].type = "directory"}
                 new == {n \in DOMAIN entries'[d] \ {".", ".."} : entries'[d][n].type = "directory"}
      <3>1. new = IF kind = "directory" THEN old \cup {name} ELSE old
        BY <1>1, <2>2
      <3>2. name \notin old /\ old \subseteq DOMAIN entries[d]
        BY <2>2
      <3>3. IsFiniteSet(old)
        BY <2>2, <3>2, FS_Subset DEF TreeInv, NodesInv
      <3>4. inode[d].link_count = 2 + Cardinality(old)
        BY <2>2 DEF TreeInv, LinksCounted, Directory
      <3>5. inode'[d].link_count =
              IF kind = "directory" THEN inode[d].link_count + 1 ELSE inode[d].link_count
        BY <2>2 DEF AddNode
      <3> HIDE DEF old, new
      <3>6. Cardinality(old) \in Nat
        BY <3>3, FS_CardinalityType
      <3>7. Cardinality(new) = IF kind = "directory" THEN Cardinality(old) + 1 ELSE Cardinality(old)
        BY <3>1, <3>2, <3>3, FS_AddElement
      <3>8. QED
        BY <3>4, <3>5, <3>6, <3>7 DEF new
    <2>3. CASE d \in nodes \ {parent}
      <3>1. /\ entries'[d] = entries[d] /\ inode'[d].link_count = inode[d].link_count
            /\ inode[d].type = "directory"
        BY <2>3 DEF AddNode
      <3>2. QED
        BY <2>3, <3>1 DEF TreeInv, LinksCounted
    <2>4. QED
      BY <1>5, <2>1, <2>2, <2>3
  <1>13. QED
    BY <1>6, <1>7, <1>8, <1>9, <1>10, <1>11, <1>12 DEF TreeInv

-----------------------------------------------------------------------------
(* Dropping a node that holds no names: what removing a file and removing an empty
   directory have in common. *)
DropNode(o, parent, name) ==
    /\ nodes' = nodes \ {o}
    /\ inode_bitmap' = inode_bitmap \ {inode[o].number}
    /\ \A p \in nodes : /\ inode'[p].number = inode[p].number
                        /\ inode'[p].type = inode[p].type
                        /\ inode'[p].link_count =
                              IF p = parent /\ Directory(o)
                              THEN inode[p].link_count - 1 ELSE inode[p].link_count
    /\ DOMAIN entries' = Structures
    /\ entries'[parent] = WithoutEntry(entries[parent], name)
    /\ \A p \in nodes \ {parent} : entries'[p] = entries[p]

LEMMA DropNodeTree ==
    ASSUME TreeInv, NameTypeOK, NEW o \in nodes \ {Root}, NEW parent \in nodes,
           NEW name \in Names, Holds(parent, name, o),
           \A n \in Names : n \notin DOMAIN entries[o], DropNode(o, parent, name)
    PROVE  TreeInv'
  <1> USE NameConstants
  <1>0. o # parent /\ name \in DOMAIN entries[parent]
    BY DEF Holds
  <1>1. /\ \A p \in nodes : inode'[p].number = inode[p].number /\ inode'[p].type = inode[p].type
        /\ nodes' = nodes \ {o} /\ inode_bitmap' = inode_bitmap \ {inode[o].number}
    BY DEF DropNode
  (* The entries afterwards. *)
  <1>2. /\ DOMAIN entries'[parent] = DOMAIN entries[parent] \ {name}
        /\ \A n \in DOMAIN entries'[parent] : entries'[parent][n] = entries[parent][n]
    BY DEF DropNode, WithoutEntry
  <1>3. ASSUME NEW d \in nodes
        PROVE  /\ \A n \in DOMAIN entries'[d] :
                     /\ n \in DOMAIN entries[d] /\ entries'[d][n] = entries[d][n]
                     /\ ~ (d = parent /\ n = name)
               /\ \A n \in DOMAIN entries[d] :
                     ~ (d = parent /\ n = name) => n \in DOMAIN entries'[d]
    BY <1>2 DEF DropNode
  (* No other entry leads to the node. *)
  <1>4. ASSUME NEW d \in nodes, NEW n \in Names, Holds(d, n, o)
        PROVE  d = parent /\ n = name
    BY <1>4 DEF TreeInv, ListedOnce
  <1>5. PICK p \in nodes \ {Root} :
           Holds(parent, name, p) /\ inode[p].type = entries[parent][name].type
    BY <1>0 DEF TreeInv, EntriesLead
  <1>6. entries[parent][name].type = inode[o].type
    <2>1. p = o
      BY <1>5 DEF TreeInv, UniqueNumbers, Holds
    <2>2. QED
      BY <1>5, <2>1
  <1>7. NodesInv'
    <2>1. ASSUME NEW q \in nodes'
          PROVE  /\ inode'[q].number # 0
                 /\ inode'[q].type = "directory" => {".", ".."} \subseteq DOMAIN entries'[q]
                 /\ ~ (inode'[q].type = "directory") => DOMAIN entries'[q] = {}
                 /\ IsFiniteSet(DOMAIN entries'[q])
      <3>1. q \in nodes
        BY <1>1
      <3>2. DOMAIN entries'[q] \subseteq DOMAIN entries[q]
        BY <1>3, <3>1
      <3>3. IsFiniteSet(DOMAIN entries'[q])
        BY <3>1, <3>2, FS_Subset DEF TreeInv, NodesInv
      <3>4. QED
        BY <1>1, <1>3, <3>1, <3>2, <3>3
        DEF TreeInv, NodesInv, Directory, INITRAFS_UNUSED_INODE
    <2>2. QED
      BY <2>1 DEF DropNode, NodesInv, Directory, INITRAFS_UNUSED_INODE
  <1>8. UniqueNumbers'
    BY <1>1 DEF TreeInv, UniqueNumbers
  <1>9. MarkedNumbers'
    BY <1>1 DEF TreeInv, MarkedNumbers, UniqueNumbers
  <1>10. EntriesLead'
    <2> SUFFICES ASSUME NEW d \in nodes', NEW n \in Names, n \in DOMAIN entries'[d]
                 PROVE  \E q \in nodes' \ {Root} :
                          /\ entries'[d][n].inode = inode'[q].number
                          /\ inode'[q].type = entries'[d][n].type
                          /\ inode'[q].type = "directory"
                               => entries'[q][".."].inode = inode'[d].number
      BY DEF EntriesLead, Holds, Directory
    <2>1. /\ d \in nodes /\ n \in DOMAIN entries[d] /\ entries'[d][n] = entries[d][n]
          /\ ~ (d = parent /\ n = name)
      BY <1>1, <1>3
    <2>2. PICK q \in nodes \ {Root} :
             /\ Holds(d, n, q) /\ inode[q].type = entries[d][n].type
             /\ inode[q].type = "directory" => entries[q][".."].inode = inode[d].number
      BY <2>1 DEF TreeInv, EntriesLead, Directory
    <2>3. q # o
      BY <1>4, <2>1, <2>2
    <2>4. inode[q].type = "directory" => entries'[q][".."] = entries[q][".."]
      BY <1>3 DEF TreeInv, NodesInv, Directory
    <2>5. QED
      BY <1>1, <2>1, <2>2, <2>3, <2>4 DEF Holds
  <1>11. NodesListed'
    <2> SUFFICES ASSUME NEW q \in nodes' \ {Root}
                 PROVE  \E d \in nodes', n \in Names :
                          /\ n \in DOMAIN entries'[d]
                          /\ entries'[d][n].inode = inode'[q].number
      BY DEF NodesListed, Holds
    <2>1. q \in nodes \ {Root} /\ q # o
      BY <1>1
    <2>2. PICK d \in nodes, n \in Names : Holds(d, n, q)
      BY <2>1 DEF TreeInv, NodesListed
    <2>3. d # o
      BY <2>2 DEF Holds
    <2>4. ~ (d = parent /\ n = name)
      BY <2>1, <2>2 DEF Holds, TreeInv, UniqueNumbers
    <2>5. QED
      BY <1>1, <1>3, <2>1, <2>2, <2>3, <2>4 DEF Holds
  <1>12. ListedOnce'
    <2>1. ASSUME NEW q \in nodes', NEW d \in nodes', NEW n \in Names,
                 n \in DOMAIN entries'[d], entries'[d][n].inode = inode'[q].number
          PROVE  q \in nodes /\ d \in nodes /\ Holds(d, n, q)
      BY <1>1, <1>3, <2>1 DEF Holds
    <2>2. QED
      BY <2>1 DEF TreeInv, ListedOnce, Holds
  <1>13. LinksCounted'
    <2> SUFFICES ASSUME NEW d \in nodes', inode'[d].type = "directory"
                 PROVE  inode'[d].link_count =
                          2 + Cardinality({n \in DOMAIN entries'[d] \ {".", ".."} :
                                              entries'[d][n].type = "directory"})
      BY DEF LinksCounted
    <2>1. CASE d = parent
      <3> DEFINE old == {n \in DOMAIN entries[d] \ {".", ".."} : entries[d][n].type = "directory"}
                 new == {n \in DOMAIN entries'[d] \ {".", ".."} : entries'[d][n].type = "directory"}
      <3>1. new = IF Directory(o) THEN old \ {name} ELSE old
        BY <1>2, <1>6, <2>1 DEF Directory
      <3>2. old \subseteq DOMAIN entries[d] /\ (Directory(o) => name \in old)
        BY <1>0, <1>6, <2>1 DEF Directory
      <3>3. IsFiniteSet(old)
        BY <2>1, <3>2, FS_Subset DEF TreeInv, NodesInv
      <3>4. inode[d].link_count = 2 + Cardinality(old)
        BY <1>1, <2>1 DEF TreeInv, LinksCounted
      <3>5. inode'[d].link_count =
              IF Directory(o) THEN inode[d].link_count - 1 ELSE inode[d].link_count
        BY <2>1 DEF DropNode
      <3> HIDE DEF old, new
      <3>6. Cardinality(old) \in Nat
        BY <3>3, FS_CardinalityType
      <3>7. Cardinality(new) = IF Directory(o) THEN Cardinality(old) - 1 ELSE Cardinality(old)
        BY <3>1, <3>2, <3>3, FS_RemoveElement
      <3>8. QED
        BY <3>4, <3>5, <3>6, <3>7 DEF new
    <2>2. CASE d # parent
      <3>1. /\ d \in nodes /\ entries'[d] = entries[d] /\ inode[d].type = "directory"
            /\ inode'[d].link_count = inode[d].link_count
        BY <1>1, <2>2 DEF DropNode
      <3>2. QED
        BY <3>1 DEF TreeInv, LinksCounted
    <2>3. QED
      BY <2>1, <2>2
  <1>14. QED
    BY <1>7, <1>8, <1>9, <1>10, <1>11, <1>12, <1>13 DEF TreeInv

-----------------------------------------------------------------------------
(* Induction, by the least number principle. *)
LEMMA LeastNatural ==
    ASSUME NEW T \in SUBSET Nat, T # {}
    PROVE  \E x \in T : \A y \in T : x <= y
  <1>1. PICK x \in T : \A y \in T : ~ (<<y, x>> \in OpToRel(<, Nat))
    BY NatLessThanWellFounded, WFMin, Zenon
  <1>2. \A y \in T : ~ (y < x)
    BY <1>1 DEF OpToRel
  <1>3. QED
    BY <1>2

LEMMA SetInduction ==
    ASSUME NEW T \in SUBSET Nat, 0 \in T, \A n \in T : n + 1 \in T
    PROVE  T = Nat
  <1> SUFFICES ASSUME Nat \ T # {} PROVE FALSE
    OBVIOUS
  <1>1. PICK x \in Nat \ T : \A y \in Nat \ T : x <= y
    BY LeastNatural
  <1>2. x # 0 /\ x - 1 \in Nat /\ x - 1 \in T
    BY <1>1
  <1>3. QED
    BY <1>1, <1>2

(* w is the walk along the first n components of the path. *)
Start == [inode |-> INITRAFS_ROOT_INODE, depth |-> 0]

Walks(path, n, w) ==
    w = [i \in 0 .. n |-> IF i = 0 THEN Start ELSE PathStep(w[i - 1], path[i])]

LEMMA WalkExists ==
    ASSUME NEW path, NEW n \in Nat
    PROVE  \E w : Walks(path, n, w)
  <1> DEFINE T == {m \in Nat : \E w : Walks(path, m, w)}
  <1>1. 0 \in T
    <2>1. Walks(path, 0, [i \in 0 .. 0 |-> Start])
      BY DEF Walks
    <2>2. QED
      BY <2>1
  <1>2. ASSUME NEW m \in T PROVE m + 1 \in T
    <2>1. PICK w : Walks(path, m, w)
      OBVIOUS
    <2> DEFINE v == [i \in 0 .. m + 1 |->
                        IF i = m + 1 THEN PathStep(w[m], path[m + 1]) ELSE w[i]]
    <2>2. Walks(path, m + 1, v)
      <3>1. ASSUME NEW i \in 0 .. m + 1
            PROVE  v[i] = IF i = 0 THEN Start ELSE PathStep(v[i - 1], path[i])
        BY <2>1 DEF Walks
      <3>2. DOMAIN v = 0 .. m + 1 /\ v = [i \in DOMAIN v |-> v[i]]
        OBVIOUS
      <3> HIDE DEF v
      <3>3. QED
        BY <3>1, <3>2 DEF Walks
    <2>3. QED
      BY <2>2
  <1>3. T = Nat
    <2> HIDE DEF T
    <2>1. T \in SUBSET Nat
      BY DEF T
    <2>2. QED
      BY <1>1, <1>2, <2>1, SetInduction
  <1>4. QED
    BY <1>3

LEMMA WalkStep ==
    ASSUME NEW path, NEW n \in Nat, NEW w, Walks(path, n, w)
    PROVE  /\ w[0] = Start
           /\ \A i \in 1 .. n : w[i] = PathStep(w[i - 1], path[i])
  <1>1. ASSUME NEW i \in 0 .. n
        PROVE  w[i] = IF i = 0 THEN Start ELSE PathStep(w[i - 1], path[i])
    BY DEF Walks
  <1>2. QED
    BY <1>1

(* Path lookup ends where the walk along the whole path does. *)
LEMMA LookupWalks ==
    ASSUME NEW path, Len(path) \in Nat
    PROVE  \E w : /\ Walks(path, Len(path), w)
                  /\ initrafs_path_lookup(path) = w[Len(path)].inode
  <1> DEFINE c == CHOOSE w : Walks(path, Len(path), w)
  <1>1. Walks(path, Len(path), c)
    BY WalkExists
  <1>2. initrafs_path_lookup(path) = c[Len(path)].inode
    BY DEF initrafs_path_lookup, Walks, Start
  <1>3. QED
    BY <1>1, <1>2

(* The paths of every length. *)
LEMMA PathLengths ==
    ASSUME NEW path \in Paths
    PROVE  Len(path) \in Nat /\ \A i \in 1 .. Len(path) : path[i] \in Components
  <1>1. PICK n \in 0 .. PathLength : path \in [1 .. n -> Components]
    BY DEF Paths
  <1>2. n \in Nat
    BY NamespaceAssumption
  <1>3. path \in Seq(Components) /\ Len(path) = n
    BY <1>1, <1>2
  <1>4. QED
    BY <1>1, <1>2, <1>3

(* A path that ends in a name leads to a node through the entry of that name in a
   directory. *)
LEMMA LastStep ==
    ASSUME NEW path \in Paths, NEW o \in nodes,
           inode[o].number = initrafs_path_lookup(path),
           inode[o].number # 0, path[Len(path)] \in Names, o # Root, InstanceInv, TreeInv
    PROVE  \E d \in nodes : Directory(d) /\ Holds(d, path[Len(path)], o)
  <1> DEFINE n == Len(path)
  <1>1. n \in Nat
    BY PathLengths
  <1>2. PICK w : Walks(path, n, w) /\ initrafs_path_lookup(path) = w[n].inode
    BY <1>1, LookupWalks
  <1>3. n # 0
    <2>1. n = 0 => w[n] = Start
      BY <1>1, <1>2 DEF Walks
    <2>2. vfs_active_filesystem # None
      BY DEF InstanceInv
    <2>3. n = 0 => inode[o].number = inode[Root].number /\ Root \in nodes
      BY <1>2, <2>1, <2>2 DEF Start, InstanceInv
    <2>4. QED
      BY <2>3 DEF TreeInv, UniqueNumbers
  <1>4. w[n] = PathStep(w[n - 1], path[n])
    <2>1. n \in 1 .. n
      BY <1>1, <1>3
    <2>2. QED
      BY <1>1, <1>2, <2>1, WalkStep
  <1> DEFINE at == w[n - 1]
             directories == {d \in initrafs_namespace_find(at.inode) : Directory(d)}
             d == CHOOSE d \in directories : TRUE
  <1>5. path[n] # "." /\ path[n] # ".."
    BY NameConstants
  <1>6. /\ directories # {}
        /\ path[n] \in DOMAIN entries[d]
        /\ entries[d][path[n]].inode = inode[o].number
    <2>1. w[n].inode # 0
      BY <1>2
    <2>2. PathStep(at, path[n]) =
            IF at = Nowhere \/ directories = {} THEN Nowhere
            ELSE IF path[n] = "." THEN at
            ELSE IF path[n] \notin DOMAIN entries[d] \/ (path[n] = ".." /\ at.depth = 0)
            THEN Nowhere
            ELSE [inode |-> entries[d][path[n]].inode,
                  depth |-> IF path[n] = ".." THEN at.depth - 1 ELSE at.depth + 1]
      BY DEF PathStep, Directory
    <2>3. Nowhere.inode = 0
      BY DEF Nowhere, INITRAFS_UNUSED_INODE
    <2> HIDE DEF at, directories, d, n
    <2>4. w[n] = PathStep(at, path[n])
      BY <1>4 DEF at
    <2>5. QED
      BY <1>2, <1>5, <2>1, <2>2, <2>3, <2>4
  <1>7. d \in directories
    BY <1>6
  <1>8. d \in nodes /\ Directory(d)
    BY <1>7 DEF initrafs_namespace_find
  <1>9. QED
    BY <1>6, <1>8 DEF Holds

-----------------------------------------------------------------------------
(* The steps. *)

(* A position before the end of a file may move on by one. *)
LEMMA OffsetsMoved ==
    /\ 0 \in Offsets /\ Offsets \subseteq Nat
    /\ \A p \in Offsets : \A size \in 0 .. MaxSize : p < size => p + 1 \in Offsets
  BY NamespaceAssumption DEF Offsets

LEMMA NameInitInv == NameInit => NameInv
  <1> SUFFICES ASSUME NameInit PROVE NameInv
    OBVIOUS
  <1> USE NameConstants
  <1>1. NameTypeOK
    <2>1. NewInode(0, "file", Kernel, 0) \in InodeType
      BY DEF NewInode, InodeType, Numbers
    <2>2. /\ Closed \in [inode : Objects \cup {Root, None}, position : Offsets]
          /\ DOMAIN NoEntries = {}
      BY OffsetsMoved DEF Closed, NoEntries
    <2>3. QED
      BY <2>1, <2>2 DEF NameInit, NameTypeOK, InodeType
  <1>2. MountHeld /\ InstanceInv
    BY DEF NameInit, MountHeld, InstanceInv, Open, Closed
  <1>3. TreeInv
    BY DEF NameInit, TreeInv, NodesInv, UniqueNumbers, MarkedNumbers, EntriesLead,
           NodesListed, ListedOnce, LinksCounted, Structures
  <1>4. QED
    BY <1>1, <1>2, <1>3 DEF NameInv

(* What every call that leaves the tree alone needs shown. *)
LEMMA TreeSteadyInv ==
    ASSUME NameInv, UNCHANGED treeVars, NameTypeOK', MountHeld', InstanceInv'
    PROVE  NameInv'
  BY TreeKept DEF NameInv, treeVars

LEMMA RegistrationStep ==
    ASSUME NameInv, NEW fs \in FileSystems,
           filesystem_register(fs) \/ filesystem_unregister(fs)
    PROVE  NameInv'
  <1>1. UNCHANGED <<vfs_active_filesystem, vfs_open_files, caller, treeVars>>
    BY DEF filesystem_register, filesystem_unregister
  <1>2. /\ vfs_filesystems' \subseteq FileSystems
        /\ vfs_active_filesystem # None => vfs_active_filesystem \in vfs_filesystems'
    BY DEF filesystem_register, filesystem_unregister, NameInv, NameTypeOK, MountHeld
  <1>3. NameTypeOK' /\ MountHeld' /\ InstanceInv'
    BY <1>1, <1>2
    DEF NameInv, NameTypeOK, MountHeld, InstanceInv, Open, Directory, treeVars
  <1>4. QED
    BY <1>1, <1>3, TreeSteadyInv

LEMMA CallerStep ==
    ASSUME NameInv, NEW who \in Identities, vfs_set_caller_identity(who)
    PROVE  NameInv'
  <1>1. /\ caller' = who
        /\ UNCHANGED <<vfs_filesystems, vfs_active_filesystem, vfs_open_files, treeVars>>
    BY DEF vfs_set_caller_identity
  <1>2. NameTypeOK' /\ MountHeld' /\ InstanceInv'
    BY <1>1 DEF NameInv, NameTypeOK, MountHeld, InstanceInv, Open, Directory, treeVars
  <1>3. QED
    BY <1>1, <1>2, TreeSteadyInv

(* Opening, closing, seeking and reading change one slot of the open files. *)
LEMMA SlotStep ==
    ASSUME NameInv, UNCHANGED <<vfs_filesystems, vfs_active_filesystem, caller, treeVars>>,
           NEW h \in Handles, NEW slot \in [inode : Objects \cup {Root, None}, position : Offsets],
           vfs_open_files' = [vfs_open_files EXCEPT ![h] = slot],
           slot.inode # None => vfs_active_filesystem # None
    PROVE  NameInv'
  <1>1. NameTypeOK'
    BY DEF NameInv, NameTypeOK, treeVars
  <1>2. MountHeld' /\ InstanceInv'
    BY DEF NameInv, NameTypeOK, MountHeld, InstanceInv, Open, Directory, treeVars
  <1>3. QED
    BY <1>1, <1>2, TreeSteadyInv

LEMMA SlotMoved ==
    ASSUME NEW A, NEW B, NEW r \in [inode : A, position : B], NEW p
    PROVE  [r EXCEPT !.position = p] = [inode |-> r.inode, position |-> p]
  OBVIOUS

LEMMA OpenFileStep ==
    ASSUME NameInv, NEW h \in Handles,
           \/ \E path \in Paths : vfs_open(path)
           \/ vfs_close(h) \/ vfs_read(h)
           \/ \E position \in Positions : vfs_seek(h, position)
    PROVE  NameInv'
  <1> USE NameConstants
  <1> DEFINE Slot == [inode : Objects \cup {Root, None}, position : Offsets]
  <1>1. CASE \E path \in Paths : vfs_open(path)
    <2>0. PICK path \in Paths : vfs_open(path)
      BY <1>1
    <2>1. PICK o \in initrafs_vfs_lookup(path), g \in Handles :
             /\ vfs_open_files' = [vfs_open_files EXCEPT ![g] = [inode |-> o, position |-> 0]]
             /\ UNCHANGED <<vfs_filesystems, vfs_active_filesystem, caller, treeVars>>
      BY <2>0 DEF vfs_open
    <2>2. o \in nodes /\ vfs_active_filesystem # None
      BY DEF initrafs_vfs_lookup, initrafs_namespace_find
    <2>3. [inode |-> o, position |-> 0] \in Slot
      BY <2>2, OffsetsMoved DEF NameInv, NameTypeOK
    <2>4. QED
      BY <2>1, <2>2, <2>3, SlotStep
  <1>2. CASE vfs_close(h)
    <2>1. Closed \in Slot /\ Closed.inode = None
      BY OffsetsMoved DEF Closed
    <2>2. QED
      BY <1>2, <2>1, SlotStep DEF vfs_close
  <1>3. ASSUME NEW position \in Offsets, Open(h),
               UNCHANGED <<vfs_filesystems, vfs_active_filesystem, caller, treeVars>>,
               vfs_open_files' = [vfs_open_files EXCEPT ![h].position = position]
        PROVE  NameInv'
    <2> DEFINE slot == [inode |-> vfs_open_files[h].inode, position |-> position]
    <2>1. vfs_open_files \in [Handles -> Slot] /\ vfs_open_files[h] \in Slot
      BY DEF NameInv, NameTypeOK
    <2>2. slot \in Slot
      BY <2>1
    <2>3. vfs_open_files' = [vfs_open_files EXCEPT ![h] = slot]
      <3>1. [vfs_open_files[h] EXCEPT !.position = position] = slot
        BY <2>1, SlotMoved
      <3>2. QED
        BY <1>3, <3>1, Zenon
    <2>4. vfs_active_filesystem # None
      BY <1>3 DEF NameInv, MountHeld
    <2> HIDE DEF slot
    <2>5. QED
      BY <1>3, <2>2, <2>3, <2>4, SlotStep
  <1>4. CASE vfs_read(h)
    <2>1. Open(h) /\ UNCHANGED <<vfs_filesystems, vfs_active_filesystem, caller, treeVars>>
      BY <1>4 DEF vfs_read
    <2>2. PICK position : position =
             IF \E o \in Reached(h) : vfs_open_files[h].position < inode'[o].size
             THEN vfs_open_files[h].position + 1 ELSE vfs_open_files[h].position
      OBVIOUS
    <2>3. vfs_open_files' = [vfs_open_files EXCEPT ![h].position = position]
      BY <1>4, <2>2 DEF vfs_read, Advance, NameInv, NameTypeOK
    <2>4. position \in Offsets
      <3>1. vfs_open_files[h].position \in Offsets
        BY DEF NameInv, NameTypeOK
      <3>2. \A o \in Reached(h) : inode'[o].size \in 0 .. MaxSize
        BY <2>1 DEF NameInv, NameTypeOK, Reached, initrafs_namespace_find, treeVars
      <3>3. QED
        BY <2>2, <3>1, <3>2, OffsetsMoved
    <2>5. QED
      BY <1>3, <2>1, <2>3, <2>4
  <1>5. QED
    BY <1>1, <1>2, <1>3, <1>4 DEF vfs_seek, Offsets

LEMMA SizeSet ==
    ASSUME NEW r \in InodeType, NEW s
    PROVE  [r EXCEPT !.size = s]
              = [number |-> r.number, type |-> r.type, owner |-> r.owner,
                 link_count |-> r.link_count, size |-> s]
  BY DEF InodeType

(* Writing changes the size of one file at most. *)
LEMMA WriteChange ==
    ASSUME NameInv, NEW h \in Handles, vfs_write(h)
    PROVE  \E o \in nodes :
             /\ o = vfs_open_files[h].inode
             /\ inode[o].type = "file" /\ initrafs_inode_check_permission(o, {"write"})
             /\ inode' \in [Structures -> InodeType]
             /\ \A p \in Structures \ {o} : inode'[p] = inode[p]
             /\ inode'[o].number = inode[o].number /\ inode'[o].type = inode[o].type
             /\ inode'[o].link_count = inode[o].link_count
  <1> USE NameConstants
  <1> DEFINE position == vfs_open_files[h].position
  <1>1. PICK o \in Reached(h) :
           /\ initrafs_inode_check_permission(o, {"write"})
           /\ position <= inode[o].size /\ position < MaxSize
           /\ inode' = [inode EXCEPT ![o].size = IF position = @ THEN @ + 1 ELSE @]
    BY DEF vfs_write
  <1>2. o \in nodes /\ o = vfs_open_files[h].inode /\ inode[o].type = "file"
    BY DEF Reached, initrafs_namespace_find
  <1>3. /\ inode \in [Structures -> InodeType] /\ o \in Structures
        /\ position \in Nat
    BY <1>2, OffsetsMoved DEF NameInv, NameTypeOK, InodeType, Structures
  <1> DEFINE size == IF position = inode[o].size THEN inode[o].size + 1 ELSE inode[o].size
             new == [number |-> inode[o].number, type |-> inode[o].type,
                     owner |-> inode[o].owner, link_count |-> inode[o].link_count,
                     size |-> size]
  <1>4. inode[o] \in InodeType
    BY <1>3
  <1>5. size \in 0 .. MaxSize
    <2>1. inode[o].size \in 0 .. MaxSize
      BY <1>4 DEF InodeType
    <2>2. QED
      BY <1>1, <1>3, <2>1
  <1>6. new \in InodeType
    <2> HIDE DEF size
    <2>1. QED
      BY <1>4, <1>5 DEF InodeType
  <1>7. inode' = [inode EXCEPT ![o] = new]
    <2>1. [inode[o] EXCEPT !.size = size] = new
      BY <1>4, SizeSet
    <2>2. QED
      BY <1>1, <2>1, Zenon
  <1>8. new.number = inode[o].number /\ new.type = inode[o].type
        /\ new.link_count = inode[o].link_count
    OBVIOUS
  <1> HIDE DEF new, size
  <1>9. inode'[o] = new /\ inode' \in [Structures -> InodeType]
        /\ \A p \in Structures \ {o} : inode'[p] = inode[p]
    BY <1>3, <1>6, <1>7
  <1>10. QED
    BY <1>1, <1>2, <1>8, <1>9

LEMMA WriteStep ==
    ASSUME NameInv, NEW h \in Handles, vfs_write(h)
    PROVE  NameInv'
  <1> USE NameConstants
  <1> DEFINE Slot == [inode : Objects \cup {Root, None}, position : Offsets]
  <1>1. PICK o \in nodes :
             /\ o = vfs_open_files[h].inode
             /\ inode' \in [Structures -> InodeType]
             /\ \A p \in Structures \ {o} : inode'[p] = inode[p]
             /\ inode'[o].number = inode[o].number /\ inode'[o].type = inode[o].type
             /\ inode'[o].link_count = inode[o].link_count
    BY WriteChange
  <1>2. nodes \subseteq Structures
    BY DEF NameInv, NameTypeOK, Structures
  <1>3. \A p \in nodes : /\ inode'[p].number = inode[p].number
                         /\ inode'[p].type = inode[p].type
                         /\ inode'[p].link_count = inode[p].link_count
    BY <1>1, <1>2
  <1>4. /\ UNCHANGED <<vfs_filesystems, vfs_active_filesystem, caller, nodes, entries,
                       inode_bitmap>>
        /\ Open(h) /\ Advance(h)
    BY DEF vfs_write
  <1>5. TreeInv'
    BY <1>3, <1>4, TreeKept DEF NameInv
  <1> DEFINE position ==
             IF \E p \in Reached(h) : vfs_open_files[h].position < inode'[p].size
             THEN vfs_open_files[h].position + 1 ELSE vfs_open_files[h].position
             slot == [inode |-> vfs_open_files[h].inode, position |-> position]
  <1>6. vfs_open_files \in [Handles -> Slot] /\ vfs_open_files[h] \in Slot
    BY DEF NameInv, NameTypeOK
  <1>7. position \in Offsets
    <2>1. \A p \in Reached(h) : inode'[p].size \in 0 .. MaxSize
      BY <1>1, <1>2 DEF Reached, initrafs_namespace_find, InodeType
    <2>2. vfs_open_files[h].position \in Offsets
      BY <1>6
    <2>3. QED
      BY <2>1, <2>2, OffsetsMoved
  <1>8. vfs_open_files' = [vfs_open_files EXCEPT ![h] = slot]
    <2>1. [vfs_open_files[h] EXCEPT !.position = position] = slot
      BY <1>6, SlotMoved
    <2>2. QED
      BY <1>4, <2>1, Zenon DEF Advance
  <1>9. slot \in Slot /\ slot.inode = vfs_open_files[h].inode
    <2> HIDE DEF position
    <2>1. QED
      BY <1>6, <1>7
  <1> HIDE DEF slot
  <1>10. /\ vfs_open_files' \in [Handles -> Slot]
         /\ \A g \in Handles : vfs_open_files'[g].inode = vfs_open_files[g].inode
    BY <1>6, <1>8, <1>9
  <1>11. NameTypeOK'
    BY <1>1, <1>4, <1>10 DEF NameInv, NameTypeOK, InodeType, Structures
  <1>12. MountHeld'
    BY <1>4, <1>10 DEF NameInv, MountHeld, Open
  <1>13. InstanceInv'
    BY <1>3, <1>4 DEF NameInv, InstanceInv, Directory
  <1>14. QED
    BY <1>5, <1>11, <1>12, <1>13 DEF NameInv

(* Mounting makes the root the only node. *)
LEMMA MountStep ==
    ASSUME NameInv, NEW fs \in FileSystems, vfs_mount(fs)
    PROVE  NameInv'
  <1> USE NameConstants
  <1> DEFINE new == NewInode(INITRAFS_ROOT_INODE, "directory", Kernel, 2)
             own == NewEntries(INITRAFS_ROOT_INODE, INITRAFS_ROOT_INODE)
  <1>1. /\ fs \in vfs_filesystems
        /\ vfs_active_filesystem' = fs /\ nodes' = {Root}
        /\ inode' = [inode EXCEPT ![Root] = new]
        /\ entries' = [entries EXCEPT ![Root] = own]
        /\ inode_bitmap' = {0, 1}
        /\ UNCHANGED <<vfs_filesystems, vfs_open_files, caller>>
    BY DEF vfs_mount, INITRAFS_UNUSED_INODE, INITRAFS_ROOT_INODE
  <1>2. /\ new \in InodeType /\ new.number = 1 /\ new.type = "directory"
        /\ new.link_count = 2
    BY DEF NewInode, InodeType, INITRAFS_ROOT_INODE, Numbers
  <1>3. /\ DOMAIN own = {".", ".."} /\ IsFiniteSet(DOMAIN own)
        /\ \A name \in DOMAIN own : own[name] \in EntryType
    <2>1. DOMAIN own = {".", ".."} /\ \A name \in DOMAIN own : own[name] \in EntryType
      BY DEF NewEntries, Entry, EntryType, Numbers, INITRAFS_ROOT_INODE
    <2>2. IsFiniteSet({"."} \cup {".."})
      BY FS_Singleton, FS_AddElement
    <2>3. {"."} \cup {".."} = {".", ".."}
      OBVIOUS
    <2>4. QED
      BY <2>1, <2>2, <2>3
  <1> HIDE DEF new, own
  <1>4. /\ inode \in [Structures -> InodeType] /\ DOMAIN entries = Structures
        /\ Root \in Structures
    BY DEF NameInv, NameTypeOK, InodeType, Structures, TreeInv, NodesInv
  <1>5. /\ inode' \in [Structures -> InodeType] /\ inode'[Root] = new
        /\ DOMAIN entries' = Structures /\ entries'[Root] = own
        /\ \A p \in Structures \ {Root} : entries'[p] = entries[p]
    BY <1>1, <1>2, <1>4
  <1>6. NameTypeOK'
    <2>1. ASSUME NEW p \in Structures
          PROVE  /\ DOMAIN entries'[p] \subseteq Components
                 /\ \A name \in DOMAIN entries'[p] : entries'[p][name] \in EntryType
      <3>1. CASE p = Root
        BY <1>3, <1>5, <3>1 DEF Components
      <3>2. CASE p # Root
        BY <1>5, <3>2 DEF NameInv, NameTypeOK, Structures
      <3>3. QED
        BY <3>1, <3>2
    <2>2. QED
      BY <1>1, <1>5, <2>1 DEF NameInv, NameTypeOK, InodeType, Structures, Numbers
  <1>7. MountHeld' /\ InstanceInv'
    BY <1>1, <1>2, <1>5
    DEF NameInv, MountHeld, Open, InstanceInv, Directory, INITRAFS_ROOT_INODE
  <1>8. TreeInv'
    <2>1. NodesInv' /\ UniqueNumbers' /\ MarkedNumbers'
      BY <1>1, <1>2, <1>3, <1>5
      DEF NodesInv, UniqueNumbers, MarkedNumbers, Directory, INITRAFS_UNUSED_INODE
    <2>2. EntriesLead' /\ NodesListed' /\ ListedOnce'
      BY <1>1, <1>3, <1>5 DEF EntriesLead, NodesListed, ListedOnce, Holds
    <2>3. LinksCounted'
      <3> DEFINE held == {name \in DOMAIN entries'[Root] \ {".", ".."} :
                             entries'[Root][name].type = "directory"}
      <3>1. held = {}
        BY <1>3, <1>5
      <3> HIDE DEF held
      <3>2. Cardinality(held) = 0
        BY <3>1, FS_EmptySet
      <3>3. inode'[Root].link_count = 2 + Cardinality(held)
        BY <1>2, <1>5, <3>2
      <3>4. QED
        BY <1>1, <3>3 DEF LinksCounted, held
    <2>4. QED
      BY <2>1, <2>2, <2>3 DEF TreeInv
  <1>9. QED
    BY <1>6, <1>7, <1>8 DEF NameInv

(* Whatever was mounted, nothing of it is left. *)
LEMMA ClearedInv ==
    ASSUME NameInv, ClearInstance, vfs_active_filesystem' = None, NameTypeOK',
           \A h \in Handles : vfs_open_files'[h].inode = None
    PROVE  NameInv'
  <1>1. MountHeld' /\ InstanceInv'
    BY DEF MountHeld, InstanceInv, Open, ClearInstance
  <1>2. TreeInv'
    BY DEF NameInv, ClearInstance, TreeInv, NodesInv, UniqueNumbers, MarkedNumbers,
           EntriesLead, NodesListed, ListedOnce, LinksCounted
  <1>3. QED
    BY <1>1, <1>2 DEF NameInv

LEMMA UnmountStep ==
    ASSUME NameInv, NEW fs \in FileSystems, vfs_unmount(fs)
    PROVE  NameInv'
  <1>1. /\ vfs_active_filesystem' = None /\ ClearInstance /\ AllClosed
        /\ UNCHANGED <<vfs_filesystems, vfs_open_files, caller>>
    BY DEF vfs_unmount
  <1>2. NameTypeOK'
    BY <1>1 DEF NameInv, NameTypeOK, ClearInstance
  <1>3. QED
    BY <1>1, <1>2, ClearedInv DEF AllClosed

LEMMA CreateFailedStep ==
    ASSUME NameInv, NEW parent, NEW name, NEW own, CreateFailed(parent, name, own)
    PROVE  NameInv'
  <1> USE NameConstants
  <1> DEFINE Slot == [inode : Objects \cup {Root, None}, position : Offsets]
  <1>1. /\ caller' = Kernel
        /\ vfs_open_files' = [h \in Handles |->
                                 IF h \in own THEN Closed ELSE vfs_open_files[h]]
    BY DEF CreateFailed
  <1>2. Closed \in Slot /\ Closed.inode = None
    BY OffsetsMoved DEF Closed
  <1>3. vfs_open_files' \in [Handles -> Slot]
    BY <1>1, <1>2 DEF NameInv, NameTypeOK
  <1>4. CASE \E h \in Handles \ own : Open(h)
    <2>1. /\ UNCHANGED treeVars /\ vfs_filesystems' = vfs_filesystems
          /\ vfs_active_filesystem' = vfs_active_filesystem
      BY <1>4 DEF CreateFailed
    <2>2. NameTypeOK'
      BY <1>1, <1>3, <2>1 DEF NameInv, NameTypeOK, treeVars
    <2>3. MountHeld' /\ InstanceInv'
      BY <1>1, <1>2, <2>1 DEF NameInv, MountHeld, InstanceInv, Open, Directory, treeVars
    <2>4. QED
      BY <2>1, <2>2, <2>3, TreeSteadyInv
  <1>5. CASE ~ \E h \in Handles \ own : Open(h)
    <2>1. /\ vfs_active_filesystem' = None /\ ClearInstance
          /\ vfs_filesystems' = vfs_filesystems \ {vfs_active_filesystem}
      BY <1>5 DEF CreateFailed
    <2>2. NameTypeOK'
      BY <1>1, <1>3, <2>1 DEF NameInv, NameTypeOK, ClearInstance
    <2>3. \A h \in Handles : vfs_open_files'[h].inode = None
      BY <1>1, <1>2, <1>5 DEF Open
    <2>4. QED
      BY <2>1, <2>2, <2>3, ClearedInv
  <1>6. QED
    BY <1>4, <1>5

-----------------------------------------------------------------------------
(* A new node's number is a free one. *)
LEMMA FreeNumber ==
    ASSUME NameTypeOK, NEW number \in Lowest(FreeInodes)
    PROVE  number \in Numbers /\ number \notin inode_bitmap /\ number > 1
  BY NameConstants DEF Lowest, FreeInodes, INITRAFS_ROOT_INODE, Numbers

LEMMA LinkSet ==
    ASSUME NEW r \in InodeType, NEW l
    PROVE  [r EXCEPT !.link_count = l]
              = [number |-> r.number, type |-> r.type, owner |-> r.owner,
                 link_count |-> l, size |-> r.size]
  BY DEF InodeType

(* The types of the entries after one is added or removed. *)
EntriesTyped(e) == DOMAIN e \subseteq Components /\ \A n \in DOMAIN e : e[n] \in EntryType

LEMMA EntryTypes ==
    ASSUME NameTypeOK, NEW parent \in Structures, NEW name \in Names, NEW number \in Numbers,
           NEW kind \in {"file", "directory"}, NEW above \in Numbers
    PROVE  /\ EntriesTyped(WithEntry(entries[parent], name, Entry(number, kind)))
           /\ EntriesTyped(WithoutEntry(entries[parent], name))
           /\ EntriesTyped(NewEntries(number, above))
           /\ EntriesTyped(NoEntries)
  <1>1. EntriesTyped(entries[parent])
    BY DEF NameTypeOK, Structures, EntriesTyped
  <1>2. Entry(number, kind) \in EntryType
    BY DEF Entry, EntryType
  <1>3. EntriesTyped(WithEntry(entries[parent], name, Entry(number, kind)))
    BY <1>1, <1>2 DEF WithEntry, Components, EntriesTyped
  <1>4. EntriesTyped(WithoutEntry(entries[parent], name))
    BY <1>1 DEF WithoutEntry, EntriesTyped
  <1>5. EntriesTyped(NewEntries(number, above))
    BY DEF NewEntries, Entry, EntryType, Components, EntriesTyped
  <1>6. EntriesTyped(NoEntries)
    BY DEF NoEntries, EntriesTyped
  <1>7. QED
    BY <1>3, <1>4, <1>5, <1>6

(* A node is added while something is mounted and nothing of the VFS changes. *)
LEMMA AddedInv ==
    ASSUME NameInv, NEW o \in Objects \ nodes, NEW parent \in nodes, Directory(parent),
           NEW name \in Names, name \notin DOMAIN entries[parent],
           NEW number \in Numbers, number \notin inode_bitmap, number > 1,
           NEW kind \in {"file", "directory"}, AddNode(o, parent, name, number, kind),
           inode' \in [Structures -> InodeType], UNCHANGED vfsVars,
           \A p \in Structures \ {o, parent} : entries'[p] = entries[p]
    PROVE  NameInv'
  <1> USE NameConstants
  <1>1. TreeInv'
    BY AddNodeTree DEF NameInv
  <1>2. nodes \subseteq Structures /\ parent \in Structures /\ inode[parent].number \in Numbers
    BY DEF NameInv, NameTypeOK, Structures
  <1>3. /\ entries'[parent] = WithEntry(entries[parent], name, Entry(number, kind))
        /\ entries'[o] \in {NoEntries, NewEntries(number, inode[parent].number)}
        /\ nodes' = nodes \cup {o} /\ inode_bitmap' = inode_bitmap \cup {number}
    BY DEF AddNode
  <1>4. ASSUME NEW p \in Structures PROVE EntriesTyped(entries'[p])
    <2>1. CASE p \in {o, parent}
      BY <1>2, <1>3, <2>1, EntryTypes DEF NameInv
    <2>2. CASE p \notin {o, parent}
      BY <2>2 DEF NameInv, NameTypeOK, Structures, EntriesTyped
    <2>3. QED
      BY <2>1, <2>2
  <1>5. NameTypeOK'
    BY <1>2, <1>3, <1>4 DEF NameInv, NameTypeOK, InodeType, Structures, vfsVars, EntriesTyped
  <1>6. MountHeld'
    BY DEF NameInv, MountHeld, Open, vfsVars
  <1>7. InstanceInv'
    <2>1. vfs_active_filesystem # None
      BY DEF NameInv, InstanceInv
    <2>2. /\ Root \in nodes /\ inode[Root].number = INITRAFS_ROOT_INODE
          /\ inode[Root].type = "directory"
      BY <2>1 DEF NameInv, InstanceInv, Directory
    <2>3. inode'[Root].number = inode[Root].number /\ inode'[Root].type = inode[Root].type
      BY <2>2 DEF AddNode
    <2>4. QED
      BY <1>3, <2>1, <2>2, <2>3 DEF InstanceInv, Directory, vfsVars
  <1>8. QED
    BY <1>1, <1>5, <1>6, <1>7 DEF NameInv

LEMMA CreateFileStep ==
    ASSUME NameInv, NEW o \in Objects, NEW parent \in Structures, NEW name \in Names,
           NEW owner \in Owners, CreateFile(o, parent, name, owner)
    PROVE  NameInv'
  <1> USE NameConstants
  <1>1. /\ o \in Objects \ nodes /\ parent \in nodes /\ Directory(parent)
        /\ name \notin DOMAIN entries[parent]
        /\ nodes' = nodes \cup {o} /\ UNCHANGED vfsVars
    BY DEF CreateFile, Unused, RoomFor, Directory
  <1>2. PICK number \in Lowest(FreeInodes) :
          /\ inode_bitmap' = inode_bitmap \cup {number}
          /\ inode' = [inode EXCEPT ![o] = NewInode(number, "file", owner, 1)]
          /\ entries' = [entries EXCEPT
                ![o] = NoEntries,
                ![parent] = WithEntry(@, name, Entry(number, "file"))]
    BY DEF CreateFile
  <1>3. number \in Numbers /\ number \notin inode_bitmap /\ number > 1
    BY FreeNumber DEF NameInv
  <1> DEFINE new == NewInode(number, "file", owner, 1)
  <1>4. new \in InodeType /\ new.number = number /\ new.type = "file"
    BY <1>3 DEF NewInode, InodeType
  <1> HIDE DEF new
  <1>5. /\ inode \in [Structures -> InodeType] /\ DOMAIN entries = Structures
        /\ o \in Structures /\ o # parent
    BY <1>1 DEF NameInv, NameTypeOK, InodeType, Structures, TreeInv, NodesInv
  <1>6. inode' = [inode EXCEPT ![o] = new]
    BY <1>2 DEF new
  <1>7. /\ inode' \in [Structures -> InodeType]
        /\ inode'[o] = new /\ \A p \in Structures \ {o} : inode'[p] = inode[p]
    BY <1>4, <1>5, <1>6
  <1>8. /\ DOMAIN entries' = Structures
        /\ entries'[o] = NoEntries
        /\ entries'[parent] = WithEntry(entries[parent], name, Entry(number, "file"))
        /\ \A p \in Structures \ {o, parent} : entries'[p] = entries[p]
    BY <1>2, <1>5
  <1>9. nodes \subseteq Structures
    BY DEF NameInv, NameTypeOK, Structures
  <1>10. AddNode(o, parent, name, number, "file")
    BY <1>1, <1>2, <1>4, <1>7, <1>8, <1>9 DEF AddNode
  <1>11. QED
    BY <1>1, <1>3, <1>7, <1>8, <1>10, AddedInv

LEMMA CreateDirectoryStep ==
    ASSUME NameInv, NEW o \in Objects, NEW parent \in Structures, NEW name \in Names,
           CreateDirectory(o, parent, name)
    PROVE  NameInv'
  <1> USE NameConstants
  <1>1. /\ o \in Objects \ nodes /\ parent \in nodes /\ Directory(parent)
        /\ name \notin DOMAIN entries[parent]
        /\ nodes' = nodes \cup {o} /\ UNCHANGED vfsVars
    BY DEF CreateDirectory, Unused, RoomFor, Directory
  <1>2. PICK number \in Lowest(FreeInodes) :
          /\ inode_bitmap' = inode_bitmap \cup {number}
          /\ inode' = [inode EXCEPT ![o] = NewInode(number, "directory", Kernel, 2),
                                    ![parent].link_count = @ + 1]
          /\ entries' = [entries EXCEPT
                ![o] = NewEntries(number, inode[parent].number),
                ![parent] = WithEntry(@, name, Entry(number, "directory"))]
    BY DEF CreateDirectory
  <1>3. number \in Numbers /\ number \notin inode_bitmap /\ number > 1
    BY FreeNumber DEF NameInv
  <1>5. /\ inode \in [Structures -> InodeType] /\ DOMAIN entries = Structures
        /\ o \in Structures /\ o # parent
    BY <1>1 DEF NameInv, NameTypeOK, InodeType, Structures, TreeInv, NodesInv
  <1> DEFINE new == NewInode(number, "directory", Kernel, 2)
             linked == [number |-> inode[parent].number, type |-> inode[parent].type,
                        owner |-> inode[parent].owner,
                        link_count |-> inode[parent].link_count + 1,
                        size |-> inode[parent].size]
  <1>4. /\ new \in InodeType /\ new.number = number /\ new.type = "directory"
        /\ new.link_count = 2
    BY <1>3 DEF NewInode, InodeType
  <1>6. /\ linked \in InodeType /\ linked.number = inode[parent].number
        /\ linked.type = inode[parent].type
        /\ linked.link_count = inode[parent].link_count + 1
    <2>1. inode[parent] \in InodeType
      BY <1>5
    <2>2. QED
      BY <2>1 DEF InodeType
  <1>7. [inode[parent] EXCEPT !.link_count = inode[parent].link_count + 1] = linked
    <2>1. inode[parent] \in InodeType
      BY <1>5
    <2>2. QED
      BY <2>1, LinkSet
  <1> HIDE DEF new, linked
  <1>8. inode' = [inode EXCEPT ![o] = new, ![parent] = linked]
    BY <1>1, <1>2, <1>5, <1>7, Zenon DEF new
  <1>9. /\ inode' \in [Structures -> InodeType]
        /\ inode'[o] = new /\ inode'[parent] = linked
        /\ \A p \in Structures \ {o, parent} : inode'[p] = inode[p]
    BY <1>4, <1>5, <1>6, <1>8
  <1>10. /\ DOMAIN entries' = Structures
         /\ entries'[o] = NewEntries(number, inode[parent].number)
         /\ entries'[parent] = WithEntry(entries[parent], name, Entry(number, "directory"))
         /\ \A p \in Structures \ {o, parent} : entries'[p] = entries[p]
    BY <1>2, <1>5
  <1>11. nodes \subseteq Structures
    BY DEF NameInv, NameTypeOK, Structures
  <1>12. AddNode(o, parent, name, number, "directory")
    BY <1>1, <1>2, <1>4, <1>6, <1>9, <1>10, <1>11 DEF AddNode
  <1>13. QED
    BY <1>1, <1>3, <1>9, <1>10, <1>12, AddedInv

-----------------------------------------------------------------------------
(* A node is dropped, and nothing of the VFS changes. *)
LEMMA DroppedInv ==
    ASSUME NameInv, NEW o \in nodes \ {Root}, NEW parent \in nodes, NEW name \in Names,
           Holds(parent, name, o), \A n \in Names : n \notin DOMAIN entries[o],
           DropNode(o, parent, name),
           inode' \in [Structures -> InodeType], UNCHANGED vfsVars,
           \A p \in Structures \ {parent} : entries'[p] = entries[p]
    PROVE  NameInv'
  <1> USE NameConstants
  <1>1. TreeInv'
    BY DropNodeTree DEF NameInv
  <1>2. nodes \subseteq Structures /\ parent \in Structures /\ inode[parent].number \in Numbers
    BY DEF NameInv, NameTypeOK, Structures
  <1>3. /\ entries'[parent] = WithoutEntry(entries[parent], name)
        /\ nodes' = nodes \ {o} /\ inode_bitmap' \subseteq inode_bitmap
    BY DEF DropNode
  <1>4. ASSUME NEW p \in Structures PROVE EntriesTyped(entries'[p])
    <2>1. CASE p = parent
      BY <1>2, <1>3, <2>1, EntryTypes DEF NameInv
    <2>2. CASE p # parent
      BY <2>2 DEF NameInv, NameTypeOK, Structures, EntriesTyped
    <2>3. QED
      BY <2>1, <2>2
  <1>5. NameTypeOK'
    BY <1>2, <1>3, <1>4 DEF NameInv, NameTypeOK, InodeType, Structures, vfsVars, EntriesTyped
  <1>6. MountHeld'
    BY DEF NameInv, MountHeld, Open, vfsVars
  <1>7. InstanceInv'
    <2>1. vfs_active_filesystem # None
      BY DEF NameInv, InstanceInv
    <2>2. /\ Root \in nodes /\ inode[Root].number = INITRAFS_ROOT_INODE
          /\ inode[Root].type = "directory"
      BY <2>1 DEF NameInv, InstanceInv, Directory
    <2>3. inode'[Root].number = inode[Root].number /\ inode'[Root].type = inode[Root].type
      BY <2>2 DEF DropNode
    <2>4. QED
      BY <1>3, <2>1, <2>2, <2>3 DEF InstanceInv, Directory, vfsVars
  <1>8. QED
    BY <1>1, <1>5, <1>6, <1>7 DEF NameInv

LEMMA RemoveFileStep ==
    ASSUME NameInv, NEW o \in Objects, NEW parent \in Structures, NEW name \in Names,
           RemoveFile(o, parent, name)
    PROVE  NameInv'
  <1> USE NameConstants
  <1>1. /\ o \in nodes \ {Root} /\ parent \in nodes /\ Holds(parent, name, o)
        /\ ~ Directory(o)
        /\ entries' = [entries EXCEPT ![parent] = WithoutEntry(@, name)]
        /\ inode_bitmap' = inode_bitmap \ {inode[o].number}
        /\ nodes' = nodes \ {o} /\ UNCHANGED <<vfsVars, inode>>
    BY DEF RemoveFile, Holds, Directory
  <1>2. DOMAIN entries = Structures /\ DOMAIN entries[o] = {} /\ nodes \subseteq Structures
    BY <1>1 DEF NameInv, TreeInv, NodesInv, NameTypeOK, Structures
  <1>3. /\ DOMAIN entries' = Structures
        /\ entries'[parent] = WithoutEntry(entries[parent], name)
        /\ \A p \in Structures \ {parent} : entries'[p] = entries[p]
    BY <1>1, <1>2
  <1>4. DropNode(o, parent, name)
    BY <1>1, <1>2, <1>3 DEF DropNode
  <1>5. inode' \in [Structures -> InodeType]
    BY <1>1 DEF NameInv, NameTypeOK, InodeType, Structures
  <1>6. QED
    BY <1>1, <1>2, <1>3, <1>4, <1>5, DroppedInv

(* The directory that is removed is the one its parent's last name leads to: the entry
   taken out of the parent is its own, although it is found by another search. *)
LEMMA RemovedDirectory ==
    ASSUME NameInv, NEW path \in Paths, initrafs_path_remove_directory(path)
    PROVE  \E o \in nodes \ {Root}, parent \in nodes :
             /\ parent \in ParentOf(o)
             /\ Directory(o) /\ Directory(parent) /\ DOMAIN entries[o] \subseteq {".", ".."}
             /\ inode[o].number = initrafs_path_lookup(path)
             /\ path[Len(path)] \in Names /\ Holds(parent, path[Len(path)], o)
             /\ RemoveFound(o, parent, path[Len(path)])
  <1> DEFINE last == path[Len(path)]
  <1>1. PICK o \in initrafs_namespace_find(initrafs_path_lookup(path)) \ {Root} :
        /\ initrafs_directory_is_empty(o) /\ last \in Names
        /\ \E parent \in ParentOf(o) : RemoveFound(o, parent, last)
    BY DEF initrafs_path_remove_directory
  <1>2. PICK parent \in ParentOf(o) : RemoveFound(o, parent, last)
    BY <1>1
  <1>3. /\ o \in nodes \ {Root} /\ parent \in nodes /\ Directory(o)
        /\ inode[o].number = initrafs_path_lookup(path)
        /\ inode[parent].number = entries[o][".."].inode
        /\ DOMAIN entries[o] \subseteq {".", ".."}
    BY <1>1 DEF initrafs_namespace_find, ParentOf, initrafs_directory_is_empty, Directory
  <1>4. inode[o].number # 0
    BY <1>3 DEF NameInv, TreeInv, NodesInv, INITRAFS_UNUSED_INODE
  <1>5. PICK d \in nodes : Directory(d) /\ Holds(d, last, o)
    BY <1>1, <1>3, <1>4, LastStep DEF NameInv
  <1>6. PICK q \in nodes \ {Root} :
           Holds(d, last, q) /\ (Directory(q) => entries[q][".."].inode = inode[d].number)
    BY <1>1, <1>5 DEF NameInv, TreeInv, EntriesLead, Holds
  <1>7. q = o
    BY <1>3, <1>5, <1>6 DEF NameInv, TreeInv, UniqueNumbers, Holds
  <1>8. d = parent
    BY <1>3, <1>6, <1>7 DEF NameInv, TreeInv, UniqueNumbers
  <1>9. QED
    BY <1>1, <1>2, <1>3, <1>5, <1>8

LEMMA RemoveDirectoryStep ==
    ASSUME NameInv, NEW path \in Paths, vfs_rmdir(path)
    PROVE  NameInv'
  <1> USE NameConstants
  <1> DEFINE name == path[Len(path)]
  <1>1. PICK o \in nodes \ {Root}, parent \in nodes :
             /\ Directory(o) /\ Directory(parent) /\ DOMAIN entries[o] \subseteq {".", ".."}
             /\ name \in Names /\ Holds(parent, name, o)
             /\ RemoveFound(o, parent, name)
    BY RemovedDirectory DEF vfs_rmdir
  <1> HIDE DEF name
  <1>2. /\ entries' = [entries EXCEPT ![parent] = WithoutEntry(@, name)]
        /\ inode' = [inode EXCEPT ![parent].link_count = @ - 1]
        /\ nodes' = nodes \ {o} /\ inode_bitmap' = inode_bitmap \ {inode[o].number}
        /\ UNCHANGED vfsVars
    BY <1>1 DEF RemoveFound
  <1>3. /\ DOMAIN entries = Structures /\ nodes \subseteq Structures
        /\ inode \in [Structures -> InodeType] /\ inode[parent] \in InodeType
    BY DEF NameInv, TreeInv, NodesInv, NameTypeOK, Structures, InodeType
  <1>4. inode[parent].link_count - 1 \in Nat
    <2> DEFINE held == {n \in DOMAIN entries[parent] \ {".", ".."} :
                           entries[parent][n].type = "directory"}
    <2>1. inode[parent].link_count = 2 + Cardinality(held)
      BY <1>1 DEF NameInv, TreeInv, LinksCounted, Directory
    <2>2. held \subseteq DOMAIN entries[parent]
      OBVIOUS
    <2> HIDE DEF held
    <2>3. Cardinality(held) \in Nat
      BY <2>2, FS_Subset, FS_CardinalityType DEF NameInv, TreeInv, NodesInv
    <2>4. QED
      BY <2>1, <2>3
  <1> DEFINE less == inode[parent].link_count - 1
             unlinked == [number |-> inode[parent].number, type |-> inode[parent].type,
                          owner |-> inode[parent].owner, link_count |-> less,
                          size |-> inode[parent].size]
  <1>5. inode' = [inode EXCEPT ![parent] = unlinked]
    <2>1. [inode[parent] EXCEPT !.link_count = less] = unlinked
      BY <1>3, LinkSet
    <2>2. QED
      BY <1>2, <2>1, Zenon
  <1>6. /\ unlinked \in InodeType /\ unlinked.number = inode[parent].number
        /\ unlinked.type = inode[parent].type /\ unlinked.link_count = less
    <2> HIDE DEF less
    <2>1. less \in Nat
      BY <1>4 DEF less
    <2>2. QED
      BY <1>3, <2>1 DEF InodeType
  <1> HIDE DEF unlinked
  <1>7. /\ inode' \in [Structures -> InodeType]
        /\ inode'[parent] = unlinked
        /\ \A p \in Structures \ {parent} : inode'[p] = inode[p]
    BY <1>3, <1>5, <1>6
  <1>8. /\ DOMAIN entries' = Structures
        /\ entries'[parent] = WithoutEntry(entries[parent], name)
        /\ \A p \in Structures \ {parent} : entries'[p] = entries[p]
    BY <1>2, <1>3
  <1>9. DropNode(o, parent, name)
    BY <1>1, <1>2, <1>3, <1>6, <1>7, <1>8 DEF DropNode
  <1>10. \A n \in Names : n \notin DOMAIN entries[o]
    BY <1>1
  <1>11. QED
    BY <1>1, <1>2, <1>7, <1>8, <1>9, <1>10, DroppedInv

-----------------------------------------------------------------------------
LEMMA NameInvStep == NameInv /\ [NameNext]_nameVars => NameInv'
  <1> SUFFICES ASSUME NameInv, [NameNext]_nameVars PROVE NameInv'
    OBVIOUS
  <1>1. CASE UNCHANGED nameVars
    <2>1. /\ UNCHANGED treeVars /\ UNCHANGED vfsVars
      BY <1>1 DEF nameVars
    <2>2. NameTypeOK' /\ MountHeld' /\ InstanceInv'
      BY <2>1 DEF NameInv, NameTypeOK, MountHeld, InstanceInv, Open, Directory, treeVars, vfsVars
    <2>3. QED
      BY <2>1, <2>2, TreeSteadyInv
  <1>2. ASSUME NEW fs \in FileSystems,
               \/ filesystem_register(fs) \/ filesystem_unregister(fs)
               \/ vfs_mount(fs) \/ vfs_unmount(fs)
        PROVE  NameInv'
    BY <1>2, RegistrationStep, MountStep, UnmountStep
  <1>3. ASSUME NEW who \in Identities, vfs_set_caller_identity(who) PROVE NameInv'
    BY <1>3, CallerStep
  <1>4. ASSUME NEW path \in Paths, vfs_open(path) \/ vfs_rmdir(path) PROVE NameInv'
    <2>1. CASE vfs_open(path)
      <3>1. PICK h \in Handles : TRUE
        BY <2>1 DEF vfs_open
      <3>2. QED
        BY <2>1, OpenFileStep
    <2>2. QED
      BY <1>4, <2>1, RemoveDirectoryStep
  <1>5. ASSUME NEW h \in Handles,
               \/ vfs_close(h) \/ vfs_read(h) \/ vfs_write(h)
               \/ \E position \in Positions : vfs_seek(h, position)
        PROVE  NameInv'
    BY <1>5, OpenFileStep, WriteStep
  <1>6. ASSUME NEW o \in Objects, NEW parent \in Structures, NEW name \in Names,
               \/ CreateDirectory(o, parent, name) \/ RemoveFile(o, parent, name)
               \/ \E owner \in Owners : CreateFile(o, parent, name, owner)
        PROVE  NameInv'
    BY <1>6, CreateDirectoryStep, RemoveFileStep, CreateFileStep
  <1>7. ASSUME NEW parent, NEW name, NEW own, CreateFailed(parent, name, own) PROVE NameInv'
    BY <1>7, CreateFailedStep
  <1>8. QED
    BY <1>1, <1>2, <1>3, <1>4, <1>5, <1>6, <1>7 DEF NameNext, Structures

(* The invariant holds in every state of the VFS and of its directories. *)
THEOREM NameInvariant == NameSpec => []NameInv
  BY NameInitInv, NameInvStep, PTL DEF NameSpec

(* The type invariant; a position past the end of its file is not moved further. *)
THEOREM NameTypeCorrect == NameSpec => []NameTypeOK
  <1>1. NameInv => NameTypeOK
    BY DEF NameInv
  <1>2. QED
    BY <1>1, NameInvariant, PTL

(* The table of inodes is a tree through every creation, removal and reuse of numbers. *)
THEOREM TreeIsSound == NameSpec => []TreeSound
  <1>1. NameInv => TreeSound
    BY TreeParts DEF NameInv
  <1>2. QED
    BY <1>1, NameInvariant, PTL

(* The active file system stays registered, and nothing is open without one. *)
THEOREM MountIsHeld == NameSpec => []MountHeld
  <1>1. NameInv => MountHeld
    BY DEF NameInv
  <1>2. QED
    BY <1>1, NameInvariant, PTL

-----------------------------------------------------------------------------
(* Only an owner may write, to a file or to a directory. *)
LEMMA WritersOwn ==
    ASSUME NEW o, NEW wanted, "write" \in wanted, initrafs_inode_check_permission(o, wanted)
    PROVE  caller.uid = inode[o].owner.uid
  <1>1. "write" \in Mode(o)[Class(o)]
    BY DEF initrafs_inode_check_permission
  <1>2. CASE inode[o].type = "directory"
    BY <1>1, <1>2 DEF Mode, Class
  <1>3. CASE inode[o].type # "directory"
    BY <1>1, <1>3 DEF Mode, Class
  <1>4. QED
    BY <1>2, <1>3

(* Nothing but writing changes the size of a node that stays. *)
SizesKept == \A o \in nodes \cap nodes' : inode'[o].size = inode[o].size

LEMMA OthersKeepSizes ==
    ASSUME NameInv, NameNext, ~ \E h \in Handles : vfs_write(h)
    PROVE  SizesKept
  <1>0. /\ inode \in [Structures -> InodeType] /\ nodes \subseteq Structures
    BY DEF NameInv, NameTypeOK, InodeType, Structures
  <1>1. CASE UNCHANGED inode
    BY <1>1 DEF SizesKept
  <1>2. ASSUME NEW fs \in FileSystems, vfs_mount(fs) PROVE SizesKept
    BY <1>2 DEF vfs_mount, NameInv, InstanceInv, SizesKept
  <1>3. ASSUME NEW o \in Objects, NEW parent \in Structures, NEW name, NEW owner,
               CreateFile(o, parent, name, owner)
        PROVE  SizesKept
    <2>1. PICK number : inode' = [inode EXCEPT ![o] = NewInode(number, "file", owner, 1)]
      BY <1>3 DEF CreateFile
    <2>2. o \notin nodes
      BY <1>3 DEF CreateFile, Unused
    <2>3. \A p \in Structures \ {o} : inode'[p] = inode[p]
      BY <1>0, <2>1
    <2>4. QED
      BY <1>0, <2>2, <2>3 DEF SizesKept
  <1>4. ASSUME NEW l, NEW parent \in Structures,
               \A p \in nodes \ {parent} : inode'[p] = inode[p],
               inode'[parent] = [inode[parent] EXCEPT !.link_count = l]
        PROVE  SizesKept
    <2>1. inode'[parent].size = inode[parent].size
      BY <1>0, <1>4, LinkSet
    <2>2. QED
      BY <1>4, <2>1 DEF SizesKept
  <1>5. ASSUME NEW o \in Objects, NEW parent \in Structures, NEW name,
               CreateDirectory(o, parent, name)
        PROVE  SizesKept
    <2>1. PICK number :
             inode' = [inode EXCEPT ![o] = NewInode(number, "directory", Kernel, 2),
                                    ![parent].link_count = @ + 1]
      BY <1>5 DEF CreateDirectory
    <2>2. o \notin nodes /\ parent \in nodes
      BY <1>5 DEF CreateDirectory, Unused
    <2> DEFINE l == inode[parent].link_count + 1
               new == NewInode(number, "directory", Kernel, 2)
               linked == [inode[parent] EXCEPT !.link_count = l]
    <2>3. inode' = [inode EXCEPT ![o] = new, ![parent] = linked]
      BY <1>0, <2>1, <2>2, Zenon
    <2> HIDE DEF new, linked
    <2>4. inode'[parent] = linked /\ \A p \in Structures \ {o, parent} : inode'[p] = inode[p]
      BY <1>0, <2>2, <2>3
    <2> HIDE DEF l
    <2>5. inode'[parent] = [inode[parent] EXCEPT !.link_count = l]
      BY <2>4, Zenon DEF linked
    <2>6. \A p \in nodes \ {parent} : inode'[p] = inode[p]
      BY <1>0, <2>2, <2>4
    <2>7. QED
      BY <1>4, <2>5, <2>6, Zenon
  <1>6. ASSUME NEW path \in Paths, vfs_rmdir(path) PROVE SizesKept
    <2>1. PICK o \in nodes, parent \in nodes : RemoveFound(o, parent, path[Len(path)])
      BY <1>6, RemovedDirectory DEF vfs_rmdir
    <2> DEFINE l == inode[parent].link_count - 1
               unlinked == [inode[parent] EXCEPT !.link_count = l]
    <2>2. inode' = [inode EXCEPT ![parent] = unlinked]
      BY <2>1, Zenon DEF RemoveFound
    <2> HIDE DEF unlinked
    <2>3. inode'[parent] = unlinked /\ \A p \in Structures \ {parent} : inode'[p] = inode[p]
      BY <1>0, <2>2
    <2> HIDE DEF l
    <2>4. inode'[parent] = [inode[parent] EXCEPT !.link_count = l]
      BY <2>3, Zenon DEF unlinked
    <2>5. parent \in Structures /\ \A p \in nodes \ {parent} : inode'[p] = inode[p]
      BY <1>0, <2>3
    <2>6. QED
      BY <1>4, <2>4, <2>5, Zenon
  <1>7. ASSUME ~ UNCHANGED inode
        PROVE  \/ \E fs \in FileSystems : vfs_mount(fs)
               \/ \E path \in Paths : vfs_rmdir(path)
               \/ \E o \in Objects, parent \in Structures, name \in Names :
                    \/ CreateDirectory(o, parent, name)
                    \/ \E owner \in Owners : CreateFile(o, parent, name, owner)
    BY <1>7 DEF NameNext, Structures, treeVars, filesystem_register, filesystem_unregister,
                vfs_unmount, ClearInstance, vfs_set_caller_identity, vfs_open, vfs_close,
                vfs_read, vfs_seek, RemoveFile, CreateFailed
  <1>8. QED
    BY <1>1, <1>2, <1>3, <1>5, <1>6, <1>7

(* A file grows only by its owner, through a handle that was opened on that file. *)
THEOREM OwnersWrite == NameSpec => OnlyOwnerWrites
  <1> DEFINE A == \A o \in nodes \cap nodes' :
                    inode'[o].number = inode[o].number /\ inode'[o].size # inode[o].size =>
                      /\ caller.uid = inode[o].owner.uid
                      /\ \E h \in Handles : vfs_open_files[h].inode = o
  <1>1. NameInv /\ [NameNext]_nameVars => [A]_nameVars
    <2> SUFFICES ASSUME NameInv, NameNext PROVE A
      OBVIOUS
    <2>1. CASE \E h \in Handles : vfs_write(h)
      <3>1. PICK h \in Handles : vfs_write(h)
        BY <2>1
      <3>2. PICK o \in nodes :
             /\ o = vfs_open_files[h].inode /\ initrafs_inode_check_permission(o, {"write"})
             /\ \A p \in Structures \ {o} : inode'[p] = inode[p]
        BY <3>1, WriteChange
      <3>3. caller.uid = inode[o].owner.uid
        BY <3>2, WritersOwn
      <3>4. nodes \subseteq Structures
        BY DEF NameInv, NameTypeOK, Structures
      <3>5. QED
        BY <3>2, <3>3, <3>4
    <2>2. CASE ~ \E h \in Handles : vfs_write(h)
      BY <2>2, OthersKeepSizes DEF SizesKept
    <2>3. QED
      BY <2>1, <2>2
  <1>2. QED
    BY <1>1, NameInvariant, PTL DEF NameSpec, OnlyOwnerWrites

-----------------------------------------------------------------------------
LEMMA RmdirLegal ==
    ASSUME NameInv, NEW path \in Paths, vfs_rmdir(path), NEW o \in nodes \ nodes'
    PROVE  /\ o # Root
           /\ \A name \in Names : name \notin DOMAIN entries[o]
           /\ \A d \in nodes : \A name \in DOMAIN entries[d] :
                 entries[d][name].inode = inode[o].number /\ name \in Names
                     => caller.uid = inode[d].owner.uid
  <1>1. PICK r \in nodes \ {Root}, parent \in nodes :
             /\ parent \in ParentOf(r)
             /\ DOMAIN entries[r] \subseteq {".", ".."}
             /\ inode[r].number = initrafs_path_lookup(path)
             /\ path[Len(path)] \in Names /\ Holds(parent, path[Len(path)], r)
             /\ RemoveFound(r, parent, path[Len(path)])
    BY RemovedDirectory DEF vfs_rmdir
  <1>2. o = r
    BY <1>1 DEF RemoveFound
  <1>0. PICK q \in initrafs_vfs_lookup(path) \ {Root} :
           \E above \in ParentOf(q) :
              initrafs_inode_check_permission(above, {"write", "execute"})
    BY DEF vfs_rmdir
  <1>3. PICK above \in ParentOf(q) :
           initrafs_inode_check_permission(above, {"write", "execute"})
    BY <1>0
  <1>4. q \in nodes /\ inode[q].number = inode[r].number
    BY <1>1 DEF initrafs_vfs_lookup, initrafs_namespace_find
  <1>5. q = r
    BY <1>4 DEF NameInv, TreeInv, UniqueNumbers
  <1>6. above = parent
    BY <1>1, <1>3, <1>5 DEF NameInv, TreeInv, UniqueNumbers, ParentOf, initrafs_namespace_find
  <1>7. caller.uid = inode[parent].owner.uid
    BY <1>3, <1>6, WritersOwn
  <1>8. ASSUME NEW d \in nodes, NEW name \in Names, Holds(d, name, r) PROVE d = parent
    BY <1>1, <1>8 DEF NameInv, TreeInv, ListedOnce
  <1>9. QED
    BY <1>1, <1>2, <1>7, <1>8, NameConstants DEF Holds

(* While something stays mounted, a directory disappears only if it was empty, was not
   the root and was in a directory of the caller's. *)
THEOREM RemovalsLegal == NameSpec => RemovalLegal
  <1> DEFINE A == vfs_active_filesystem' # None =>
                    \A o \in nodes \ nodes' : inode[o].type = "directory" =>
                      /\ o # Root
                      /\ \A name \in Names : name \notin DOMAIN entries[o]
                      /\ \A d \in nodes : \A name \in DOMAIN entries[d] :
                            entries[d][name].inode = inode[o].number /\ name \in Names
                                => caller.uid = inode[d].owner.uid
  <1>1. NameInv /\ [NameNext]_nameVars => [A]_nameVars
    <2> SUFFICES ASSUME NameInv, NameNext PROVE A
      OBVIOUS
    <2>1. CASE nodes \subseteq nodes' \/ vfs_active_filesystem' = None
      BY <2>1
    <2>2. ASSUME NEW fs, vfs_mount(fs) PROVE nodes \subseteq nodes'
      BY <2>2 DEF vfs_mount, NameInv, InstanceInv
    <2>3. ASSUME NEW o, NEW parent, NEW name, RemoveFile(o, parent, name) PROVE A
      BY <2>3 DEF RemoveFile
    <2>4. ASSUME NEW path \in Paths, vfs_rmdir(path) PROVE A
      BY <2>4, RmdirLegal
    <2>5. ASSUME ~ (nodes \subseteq nodes' \/ vfs_active_filesystem' = None)
          PROVE  \/ \E path \in Paths : vfs_rmdir(path)
                 \/ \E o \in Objects, parent \in Structures, name \in Names :
                      RemoveFile(o, parent, name)
      BY <2>2, <2>5
      DEF NameNext, Structures, treeVars, filesystem_register, filesystem_unregister,
          vfs_unmount, vfs_set_caller_identity, vfs_open, vfs_close, vfs_read, vfs_write,
          vfs_seek, CreateFile, CreateDirectory, CreateFailed
    <2>6. QED
      BY <2>1, <2>3, <2>4, <2>5
  <1>2. QED
    BY <1>1, NameInvariant, PTL DEF NameSpec, RemovalLegal

-----------------------------------------------------------------------------
(* Lookup against the retraced steps, by induction along the path. *)

Child(number, name) ==
    {entries[d][name].inode :
        d \in {d \in initrafs_namespace_find(number) : name \in DOMAIN entries[d]}}

LeadsOn(number) == \E d \in initrafs_namespace_find(number) : inode[d].type = "directory"

TrailStep(t, name) ==
    IF t = << >> \/ ~ LeadsOn(t[1]) THEN << >>
    ELSE IF name = "." THEN t
    ELSE IF name = ".." THEN Tail(t)
    ELSE IF Child(t[1], name) = {} THEN << >>
    ELSE <<CHOOSE n \in Child(t[1], name) : TRUE>> \o t

Trails(path, n, t) ==
    t = [i \in 0 .. n |-> IF i = 0 THEN <<INITRAFS_ROOT_INODE>> ELSE TrailStep(t[i - 1], path[i])]

LEMMA TrailExists ==
    ASSUME NEW path, NEW n \in Nat
    PROVE  \E t : Trails(path, n, t)
  <1> DEFINE T == {m \in Nat : \E t : Trails(path, m, t)}
  <1>1. 0 \in T
    <2>1. Trails(path, 0, [i \in 0 .. 0 |-> <<INITRAFS_ROOT_INODE>>])
      BY DEF Trails
    <2>2. QED
      BY <2>1
  <1>2. ASSUME NEW m \in T PROVE m + 1 \in T
    <2>1. PICK t : Trails(path, m, t)
      OBVIOUS
    <2> DEFINE v == [i \in 0 .. m + 1 |->
                        IF i = m + 1 THEN TrailStep(t[m], path[m + 1]) ELSE t[i]]
    <2>2. Trails(path, m + 1, v)
      <3>1. ASSUME NEW i \in 0 .. m + 1
            PROVE  v[i] = IF i = 0 THEN <<INITRAFS_ROOT_INODE>>
                          ELSE TrailStep(v[i - 1], path[i])
        BY <2>1 DEF Trails
      <3>2. DOMAIN v = 0 .. m + 1 /\ v = [i \in DOMAIN v |-> v[i]]
        OBVIOUS
      <3> HIDE DEF v
      <3>3. QED
        BY <3>1, <3>2 DEF Trails
    <2>3. QED
      BY <2>2
  <1>3. T = Nat
    <2> HIDE DEF T
    <2>1. T \in SUBSET Nat
      BY DEF T
    <2>2. QED
      BY <1>1, <1>2, <2>1, SetInduction
  <1>4. QED
    BY <1>3

LEMMA TrailTrails ==
    ASSUME NEW path, Len(path) \in Nat
    PROVE  \E t : Trails(path, Len(path), t) /\ Trail(path) = t[Len(path)]
  <1> DEFINE c == CHOOSE t : Trails(path, Len(path), t)
  <1>1. Trails(path, Len(path), c)
    BY TrailExists
  <1>2. Trail(path) = c[Len(path)]
    BY DEF Trail, Trails, TrailStep, Child, LeadsOn
  <1>3. QED
    BY <1>1, <1>2

(* An entry of the directory with number b leads to number a. *)
Linked(a, b) ==
    \E d \in nodes, name \in Names :
        /\ Directory(d) /\ inode[d].number = b
        /\ name \in DOMAIN entries[d] /\ entries[d][name].inode = a

(* The walk is where the trail is, and the trail is a chain of entries. *)
Follows(w, t) ==
    \/ t = << >> /\ w = Nowhere
    \/ /\ t \in Seq(Nat) /\ t # << >> /\ t[1] # 0
       /\ w = [inode |-> t[1], depth |-> Len(t) - 1]
       /\ \A j \in 1 .. Len(t) - 1 : Linked(t[j], t[j + 1])

LEMMA TailFacts ==
    ASSUME NEW t \in Seq(Nat), t # << >>
    PROVE  /\ Len(t) \in Nat /\ Len(t) >= 1
           /\ Tail(t) \in Seq(Nat) /\ Len(Tail(t)) = Len(t) - 1
           /\ \A j \in 1 .. Len(t) - 1 : Tail(t)[j] = t[j + 1]
           /\ Len(t) = 1 => Tail(t) = << >>
           /\ Len(t) # 1 => Tail(t) # << >>
  <1>1. /\ Tail(t) \in Seq(Nat) /\ Len(Tail(t)) = Len(t) - 1
        /\ \A j \in 1 .. Len(Tail(t)) : Tail(t)[j] = t[j + 1]
    BY HeadTailProperties
  <1>2. Len(t) \in Nat /\ Len(t) >= 1
    OBVIOUS
  <1>3. Len(Tail(t)) = 0 <=> Tail(t) = << >>
    BY <1>1, EmptySeq
  <1>4. QED
    BY <1>1, <1>2, <1>3

LEMMA FollowsStep ==
    ASSUME NameTypeOK, TreeInv, NEW w, NEW t, Follows(w, t), NEW name \in Components
    PROVE  Follows(PathStep(w, name), TrailStep(t, name))
  <1> USE NameConstants
  <1> DEFINE directories == {o \in initrafs_namespace_find(w.inode) : Directory(o)}
             d == CHOOSE o \in directories : TRUE
  <1>0. /\ PathStep(w, name) =
            IF w = Nowhere \/ directories = {} THEN Nowhere
            ELSE IF name = "." THEN w
            ELSE IF name \notin DOMAIN entries[d] \/ (name = ".." /\ w.depth = 0)
            THEN Nowhere
            ELSE [inode |-> entries[d][name].inode,
                  depth |-> IF name = ".." THEN w.depth - 1 ELSE w.depth + 1]
        /\ Nowhere.inode = 0
    BY DEF PathStep, Directory, Nowhere, INITRAFS_UNUSED_INODE
  <1>1. CASE t = << >> /\ w = Nowhere
    <2>1. PathStep(w, name) = Nowhere
      BY <1>0, <1>1
    <2>2. TrailStep(t, name) = << >>
      BY <1>1 DEF TrailStep
    <2>3. QED
      BY <2>1, <2>2 DEF Follows
  <1>2. CASE /\ t \in Seq(Nat) /\ t # << >> /\ t[1] # 0
             /\ w = [inode |-> t[1], depth |-> Len(t) - 1]
             /\ \A j \in 1 .. Len(t) - 1 : Linked(t[j], t[j + 1])
    <2>1. /\ w.inode = t[1] /\ w.depth = Len(t) - 1 /\ w # Nowhere
          /\ Len(t) \in Nat /\ Len(t) >= 1 /\ t[1] \in Nat
      BY <1>0, <1>2
    <2>2. CASE directories = {}
      <3>1. ~ LeadsOn(t[1])
        BY <2>1, <2>2 DEF LeadsOn, Directory
      <3>2. TrailStep(t, name) = << >> /\ PathStep(w, name) = Nowhere
        BY <1>0, <2>2, <3>1 DEF TrailStep
      <3>3. QED
        BY <3>2 DEF Follows
    <2>3. CASE directories # {}
      <3>0. d \in directories
        BY <2>3
      <3>1. /\ d \in nodes /\ Directory(d) /\ inode[d].number = t[1]
            /\ {".", ".."} \subseteq DOMAIN entries[d]
        BY <2>1, <3>0 DEF initrafs_namespace_find, TreeInv, NodesInv
      <3>2. LeadsOn(t[1])
        BY <3>1 DEF LeadsOn, Directory, initrafs_namespace_find
      <3> HIDE DEF directories, d
      <3>3. CASE name = "."
        <4>1. PathStep(w, name) = w /\ TrailStep(t, name) = t
          BY <1>0, <1>2, <2>1, <2>3, <3>2, <3>3 DEF TrailStep
        <4>2. QED
          BY <4>1
      <3>4. CASE name = ".."
        <4>1. TrailStep(t, name) = Tail(t)
          BY <1>2, <3>2, <3>4 DEF TrailStep
        <4>2. CASE Len(t) = 1
          <5>1. PathStep(w, name) = Nowhere
            BY <1>0, <2>1, <3>4, <4>2
          <5>2. Tail(t) = << >>
            BY <1>2, <4>2, TailFacts
          <5>3. QED
            BY <4>1, <5>1, <5>2 DEF Follows
        <4>3. CASE Len(t) # 1
          <5>1. Len(t) - 1 \in Nat /\ 1 \in 1 .. Len(t) - 1
            <6>1. Len(t) \in Nat /\ Len(t) >= 1
              BY <2>1
            <6>2. \A l \in Nat : l >= 1 /\ l # 1 => l - 1 \in Nat /\ 1 \in 1 .. l - 1
              OBVIOUS
            <6>3. QED
              BY <4>3, <6>1, <6>2, Zenon
          <5>2. PICK e \in nodes, n \in Names :
                   /\ inode[e].number = t[2]
                   /\ n \in DOMAIN entries[e] /\ entries[e][n].inode = t[1]
            BY <1>2, <5>1 DEF Linked
          <5>3. PICK o \in nodes : /\ Holds(e, n, o)
                                   /\ Directory(o) => entries[o][".."].inode = inode[e].number
            BY <5>2 DEF TreeInv, EntriesLead
          <5>4. o = d
            BY <3>1, <5>2, <5>3 DEF Holds, TreeInv, UniqueNumbers
          <5>5. entries[d][".."].inode = t[2] /\ t[2] # 0
            BY <3>1, <5>2, <5>3, <5>4 DEF TreeInv, NodesInv, INITRAFS_UNUSED_INODE
          <5>6. PathStep(w, name) = [inode |-> t[2], depth |-> Len(t) - 2]
            <6>1. w.depth # 0 /\ w.depth - 1 = Len(t) - 2 /\ name \in DOMAIN entries[d]
              BY <2>1, <3>1, <3>4, <4>3
            <6>2. QED
              BY <1>0, <2>1, <2>3, <3>4, <5>5, <6>1
          <5>7. /\ Tail(t) \in Seq(Nat) /\ Len(Tail(t)) = Len(t) - 1 /\ Tail(t) # << >>
                /\ \A j \in 1 .. Len(t) - 1 : Tail(t)[j] = t[j + 1]
            BY <1>2, <4>3, TailFacts
          <5>8. Tail(t)[1] = t[2] /\ Len(Tail(t)) - 1 = Len(t) - 2
            BY <2>1, <5>1, <5>7
          <5>9. ASSUME NEW j \in 1 .. Len(Tail(t)) - 1
                PROVE  Linked(Tail(t)[j], Tail(t)[j + 1])
            <6>1. /\ j \in 1 .. Len(t) - 1 /\ j + 1 \in 1 .. Len(t) - 1
              BY <2>1, <5>7
            <6>2. Tail(t)[j] = t[j + 1] /\ Tail(t)[j + 1] = t[j + 1 + 1]
              BY <5>7, <6>1
            <6>3. Linked(t[j + 1], t[j + 1 + 1])
              BY <1>2, <6>1
            <6>4. QED
              BY <6>2, <6>3
          <5>10. QED
            BY <4>1, <5>5, <5>6, <5>7, <5>8, <5>9 DEF Follows
        <4>4. QED
          BY <4>2, <4>3
      <3>5. CASE name \in Names
        <4>0. name # "." /\ name # ".."
          BY <3>5
        <4>1. CASE name \notin DOMAIN entries[d]
          <5>1. Child(t[1], name) = {}
            BY <3>1, <4>1 DEF Child, initrafs_namespace_find, TreeInv, UniqueNumbers
          <5>2. TrailStep(t, name) = << >> /\ PathStep(w, name) = Nowhere
            BY <1>0, <4>0, <4>1, <5>1 DEF TrailStep
          <5>3. QED
            BY <5>2 DEF Follows
        <4>2. CASE name \in DOMAIN entries[d]
          <5> DEFINE a == entries[d][name].inode
                     u == <<a>> \o t
          <5>1. Child(t[1], name) = {a}
            BY <3>1, <4>2 DEF Child, initrafs_namespace_find, TreeInv, UniqueNumbers
          <5>2. PICK o \in nodes : inode[o].number = a
            BY <3>1, <3>5, <4>2 DEF TreeInv, EntriesLead, Holds
          <5>3. a \in Nat /\ a # 0
            BY <3>1, <4>2, <5>2
            DEF NameTypeOK, EntryType, Numbers, TreeInv, NodesInv, INITRAFS_UNUSED_INODE
          <5>4. Linked(a, t[1])
            BY <3>1, <3>5, <4>2 DEF Linked
          <5>5. PathStep(w, name) = [inode |-> a, depth |-> Len(t)]
            <6>1. w.depth + 1 = Len(t)
              BY <2>1
            <6>2. QED
              BY <1>0, <2>1, <2>3, <4>0, <4>2, <6>1
          <5> HIDE DEF a
          <5>6. TrailStep(t, name) = u
            <6>1. (CHOOSE n \in Child(t[1], name) : TRUE) = a
              BY <5>1
            <6>2. Child(t[1], name) # {}
              BY <5>1
            <6>3. QED
              BY <1>2, <3>2, <4>0, <6>1, <6>2 DEF TrailStep
          <5>7. /\ u \in Seq(Nat) /\ Len(u) = Len(t) + 1 /\ u # << >> /\ u[1] = a
                /\ \A j \in 1 .. Len(t) : u[j + 1] = t[j]
            BY <1>2, <2>1, <5>3
          <5> HIDE DEF u
          <5>8. Len(u) - 1 = Len(t)
            BY <2>1, <5>7
          <5>9. ASSUME NEW j \in 1 .. Len(u) - 1 PROVE Linked(u[j], u[j + 1])
            <6>1. j \in 1 .. Len(t) /\ u[j + 1] = t[j]
              BY <5>7, <5>8
            <6>2. CASE j = 1
              BY <5>4, <5>7, <6>1, <6>2
            <6>3. CASE j # 1
              <7>1. j - 1 \in 1 .. Len(t) - 1 /\ j - 1 \in 1 .. Len(t) /\ (j - 1) + 1 = j
                BY <2>1, <6>1, <6>3
              <7>2. Linked(t[j - 1], t[(j - 1) + 1]) /\ u[(j - 1) + 1] = t[j - 1]
                BY <1>2, <5>7, <7>1
              <7>3. QED
                BY <6>1, <7>1, <7>2
            <6>4. QED
              BY <6>2, <6>3
          <5>10. QED
            BY <5>3, <5>5, <5>6, <5>7, <5>8, <5>9 DEF Follows
        <4>3. QED
          BY <4>1, <4>2
      <3>6. QED
        BY <3>3, <3>4, <3>5 DEF Components
    <2>4. QED
      BY <2>2, <2>3
  <1>3. QED
    BY <1>1, <1>2 DEF Follows

(* Path lookup, which only counts its depth, ends where retracing the steps would. *)
LEMMA LookupFollows ==
    ASSUME NameTypeOK, TreeInv, NEW path \in Paths
    PROVE  initrafs_path_lookup(path)
             = IF Trail(path) = << >> THEN INITRAFS_UNUSED_INODE ELSE Trail(path)[1]
  <1> DEFINE n == Len(path)
  <1>1. n \in Nat /\ \A i \in 1 .. n : path[i] \in Components
    BY PathLengths
  <1>2. PICK w : Walks(path, n, w) /\ initrafs_path_lookup(path) = w[n].inode
    BY <1>1, LookupWalks
  <1>3. PICK t : Trails(path, n, t) /\ Trail(path) = t[n]
    BY <1>1, TrailTrails
  <1> HIDE DEF n
  <1>4. w[0] = Start /\ \A i \in 1 .. n : w[i] = PathStep(w[i - 1], path[i])
    BY <1>1, <1>2, WalkStep
  <1>5. /\ t[0] = <<INITRAFS_ROOT_INODE>>
        /\ \A i \in 1 .. n : t[i] = TrailStep(t[i - 1], path[i])
    <2>1. ASSUME NEW i \in 0 .. n
          PROVE  t[i] = IF i = 0 THEN <<INITRAFS_ROOT_INODE>>
                        ELSE TrailStep(t[i - 1], path[i])
      BY <1>3 DEF Trails
    <2>2. QED
      BY <1>1, <2>1
  <1> DEFINE T == {i \in Nat : i <= n => Follows(w[i], t[i])}
  <1>6. 0 \in T
    <2>1. Follows(Start, <<INITRAFS_ROOT_INODE>>)
      BY DEF Follows, Start, INITRAFS_ROOT_INODE
    <2>2. QED
      BY <1>4, <1>5, <2>1
  <1>7. ASSUME NEW i \in T PROVE i + 1 \in T
    <2> SUFFICES ASSUME i + 1 <= n PROVE Follows(w[i + 1], t[i + 1])
      OBVIOUS
    <2>1. i + 1 \in 1 .. n /\ (i + 1) - 1 = i /\ i <= n
      BY <1>1
    <2>2. w[i + 1] = PathStep(w[i], path[i + 1]) /\ t[i + 1] = TrailStep(t[i], path[i + 1])
      BY <1>4, <1>5, <2>1
    <2>3. Follows(w[i], t[i]) /\ path[i + 1] \in Components
      BY <1>1, <2>1
    <2>4. QED
      BY <2>2, <2>3, FollowsStep
  <1>8. T = Nat
    <2> HIDE DEF T
    <2>1. T \in SUBSET Nat
      BY DEF T
    <2>2. QED
      BY <1>6, <1>7, <2>1, SetInduction
  <1>9. Follows(w[n], t[n])
    BY <1>1, <1>8
  <1>10. QED
    BY <1>2, <1>3, <1>9 DEF Follows, Nowhere, INITRAFS_UNUSED_INODE

(* Lookup agrees with retracing the steps, for paths of every length. *)
THEOREM LookupIsRetracing == NameSpec => []LookupRetraces
  <1>1. NameInv => LookupRetraces
    BY LookupFollows DEF NameInv, LookupRetraces
  <1>2. QED
    BY <1>1, NameInvariant, PTL
=============================================================================
