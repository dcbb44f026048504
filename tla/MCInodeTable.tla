----------------------------- MODULE MCInodeTable -----------------------------
(* Processes and inodes of a small file system. *)
EXTENDS InodeTable

Symmetry == Permutations(Procs)
================================================================================
