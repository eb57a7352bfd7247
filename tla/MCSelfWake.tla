----------------------------- MODULE MCSelfWake -----------------------------
(* Instances of SelfWake: keys and batches are interchangeable.            *)
EXTENDS SelfWake, TLC

Symmetry == Permutations(Keys) \cup Permutations(Batches)

=============================================================================
