-------------------------- MODULE MCSliceAllocator --------------------------
(* Instances of SliceAllocator for TLC *)
EXTENDS SliceAllocator, TLC

\* The frame allocator may give any page.
Symmetric == Permutations(Pages)
=============================================================================
