-------------------------------- MODULE Lists --------------------------------
(***************************************************************************)
(* Taking an element out of a list, which keeps the order of the others:   *)
(* Python's list.remove, Dart's List.removeWhere, deque.remove of asyncio, *)
(* on lists that hold an element once at most. (SequencesExt has the same  *)
(* by a recursive definition, which cannot be reasoned about in a proof.)  *)
(***************************************************************************)
EXTENDS Naturals, Sequences, Functions

\* q without its element at i, and without e.
RemovedAt(q, i) == [j \in 1..(Len(q) - 1) |-> IF j < i THEN q[j] ELSE q[j + 1]]

Removed(q, e) ==
    IF e \in Range(q) THEN RemovedAt(q, CHOOSE i \in DOMAIN q : q[i] = e) ELSE q
=============================================================================
