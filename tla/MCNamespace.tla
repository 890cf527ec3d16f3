----------------------------- MODULE MCNamespace -----------------------------
(***************************************************************************)
(* Identities for model checking the namespace, those of                   *)
(* initrafs_vfs_test: the kernel, an owner, and a member of the owner's    *)
(* group.                                                                  *)
(***************************************************************************)
EXTENDS Namespace, TLC

TestIdentities == {Kernel, [uid |-> 1000, gid |-> 1000], [uid |-> 3000, gid |-> 2000]}
Interchangeable == Permutations(Objects) \cup Permutations(FileSystems)
TestOwners == {[uid |-> 1000, gid |-> 2000]}
=============================================================================
