---------------------------- MODULE MCSemaphores ----------------------------
(* Three processes and one set of two semaphores. *)
EXTENDS Semaphores

CONSTANTS p1, p2, p3

O(n, k, u) == [num |-> n, op |-> k, undo |-> u, nowait |-> FALSE]

(* Both semaphores, with and without adjustments.  The first two lists     *)
(* sleep at their second operation, the last one fails there: it must not  *)
(* wait, or there is no undo structure, or no room in the adjustment.      *)
McOpLists ==
    { <<O(0, 1, TRUE), O(1, -1, FALSE)>>,
      <<O(1, 1, FALSE), O(0, 0, FALSE)>>,
      <<O(1, 1, FALSE), [O(0, -1, TRUE) EXCEPT !.nowait = TRUE]>> }

Symmetry == Permutations(Procs)

(* u_error is written and never read: states that differ in nothing else   *)
(* go on alike.  What a step makes of it is seen at every step all the     *)
(* same, so AllOrNothing loses nothing.                                    *)
View == <<sema, semval, cnt, sem_undo, hasUndo, semtmp, pc, call, chan, intr, faults>>
=============================================================================
