----------------------------- MODULE MCMinHeap -----------------------------
(* The items are interchangeable. *)
EXTENDS MinHeap, TLC

Symmetry == Permutations(Items)
=============================================================================
