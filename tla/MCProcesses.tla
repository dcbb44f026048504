----------------------------- MODULE MCProcesses -----------------------------
(* proc[1] and its descendants. *)
EXTENDS Processes

CONSTANTS one, q1, q2, q3

McSignals == <<"KILL", "CLD">>
Symmetry == Permutations(Slot \ {InitProc})
=============================================================================
