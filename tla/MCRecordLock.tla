----------------------------- MODULE MCRecordLock -----------------------------
(* Small instances of record locking. *)
EXTENDS RecordLock, TLC

CONSTANTS p1, p2, p3, f1, r1, r2, r3, r4, r5

\* Every request there is.
AllRequests == Request

\* Write locks of one byte each, waited for; an unlock of all but the first; a check.
CircleRequests ==
    {[op |-> "wait", file |-> f1, type |-> "F_WRLCK", start |-> b, end |-> b] : b \in Byte}
    \cup {[op |-> "set", file |-> f1, type |-> "F_UNLCK", start |-> 1, end |-> MaxByte],
          [op |-> "check", file |-> f1, type |-> "F_RDLCK", start |-> 0, end |-> 0]}

\* Local processes are interchangeable, and so are the records.
Symmetry == Permutations(Procs \ Servers) \cup Permutations(Recs)
=============================================================================
