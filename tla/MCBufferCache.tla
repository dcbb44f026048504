---------------------------- MODULE MCBufferCache ----------------------------
(* Small instances of the buffer cache. *)
EXTENDS BufferCache, TLC

CONSTANTS p1, p2, p3, k1, k2, d1, b1, b2, b3

\* One device, and a read-ahead of either block.
OneDev == [k \in Blocks |-> d1]
AheadOne == {<<k>> : k \in Blocks}

\* Processes, buffers and blocks are interchangeable.
Symmetry == Permutations(Procs) \cup Permutations(Bufs) \cup Permutations(Blocks)
=============================================================================
