--------------------------------- MODULE MCPipe ---------------------------------
(***************************************************************************)
(* Two writers and two readers on a fifo of two blocks of two bytes.       *)
(* Transfers of three bytes start in either half of a block and cross the  *)
(* end of the circle; writes of five do not fit.                           *)
(***************************************************************************)
EXTENDS Pipe, TLC

CONSTANTS w1, w2, r1, r2

M(d, n) == [dir |-> d, ndelay |-> n]
McModes == [p \in Procs |->
    IF p \in {r1, r2} THEN {M("R", FALSE), M("R", TRUE)}
    ELSE {M("W", FALSE), M("W", TRUE)}]

McCounts == [p \in Procs |-> IF p \in {r1, r2} THEN {3} ELSE {3, 5}]

Symmetry == Permutations({w1, w2}) \union Permutations({r1,r2})
===============================================================================
