------------------------------ MODULE ByteFiles ------------------------------
(***************************************************************************)
(* What InitraFS promises of a mounted set of files: each is a string of   *)
(* bytes that changes only by writes to that file.  A write either takes   *)
(* effect completely, or fails and leaves the length as it was, with at    *)
(* most the beginning of the range overwritten.                            *)
(***************************************************************************)
EXTENDS Integers

CONSTANTS Files,
          Bytes,
          MaxSize    \* no file is longer

VARIABLES exists,    \* the files there are
          contents   \* the bytes of each, indexed from 0

vars == <<exists, contents>>

Empty == [i \in {} |-> 0]

(* c with v at the positions from .. upto - 1, cut or extended to length bytes. *)
Overlay(c, from, upto, v, length) ==
    [i \in 0 .. length - 1 |-> IF from <= i /\ i < upto THEN v ELSE c[i]]

Init == exists = {} /\ contents = [f \in Files |-> Empty]

Create(f) ==
    /\ f \notin exists
    /\ exists' = exists \cup {f}
    /\ contents' = contents

Remove(f) ==
    /\ f \in exists
    /\ exists' = exists \ {f}
    /\ contents' = [contents EXCEPT ![f] = Empty]

Write(f, length, offset, size, v) ==
    /\ \/ contents' = [contents EXCEPT ![f] =
              Overlay(contents[f], offset, offset + size, v,
                      IF offset + size > length THEN offset + size ELSE length)]
       \/ \E upto \in offset .. offset + size :
              contents' = [contents EXCEPT ![f] =
                               Overlay(contents[f], offset, upto, v, length)]
    /\ exists' = exists

(* Writes start inside the file or at its end, length. *)
WriteSome(f) ==
    \E length \in 0 .. MaxSize :
        /\ f \in exists /\ DOMAIN contents[f] = 0 .. length - 1
        /\ \E offset \in 0 .. length, v \in Bytes : \E size \in 1 .. MaxSize - offset :
              Write(f, length, offset, size, v)

(* The file system is unmounted; nothing of it is kept. *)
Unmount == exists' = {} /\ contents' = [f \in Files |-> Empty]

Next == Unmount \/ \E f \in Files : Create(f) \/ Remove(f) \/ WriteSome(f)

Spec == Init /\ [][Next]_vars
=============================================================================
