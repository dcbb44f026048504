------------------------------ MODULE MCMessages ------------------------------
(* Three processes, two queues, two headers and three segments of text. *)
EXTENDS Messages

CONSTANTS p1, p2, p3, q1, q2

Snd(q, t, n, w) ==
    [op |-> "snd", q |-> q, typ |-> t, cnt |-> n, nowait |-> w, noerror |-> FALSE]
Rcv(q, t, n, w, e) ==
    [op |-> "rcv", q |-> q, typ |-> t, cnt |-> n, nowait |-> w, noerror |-> e]

(* Texts of no, one and two segments.  With these sizes a queue fills, the *)
(* headers run out, and the map is in pieces when one segment is out.  Two *)
(* messages of one type differ in size, which tells their order.           *)
McRequests ==
    { Snd(q1, 2, 3, FALSE), Snd(q1, 2, 2, TRUE), Snd(q1, 1, 0, TRUE),
      Snd(q2, 1, 2, TRUE),
      Rcv(q1, 2, 2, FALSE, FALSE), Rcv(q1, -2, 1, TRUE, TRUE) }

(* The limit of one queue is raised.                                       *)
McLimits == [q \in {q1, q2} |-> IF q = q1 THEN {5} ELSE {3}]

Symmetry == Permutations(Procs)
===============================================================================
