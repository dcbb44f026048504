------------------------------ MODULE ResourceMap ------------------------------
(***************************************************************************)
(* Resource maps, malloc and mfree of os/malloc.c: the free units of a     *)
(* resource as a list of ranges in the order of their addresses, first     *)
(* fit.  The array ends with a range of size zero, here the sequence does; *)
(* mapsize is what the sequence is short of MAPSLOTS.                      *)
(***************************************************************************)
EXTENDS Integers, SequencesExt

CONSTANT MAPSLOTS   \* ranges the array has room for

ASSUME SlotsAssumption == MAPSLOTS \in Nat \ {0}

Range_(a, k) == [addr |-> a, size |-> k]
Units(a, k) == a..(a + k - 1)

(* The ranges from which k units can be taken. *)
Fits(m, k) == {i \in DOMAIN m : m[i].size >= k}

(* malloc: the address of k units, or zero ... *)
Malloc(m, k) == IF Fits(m, k) = {} THEN 0 ELSE m[Min(Fits(m, k))].addr

(* ... and the map without them. *)
Taken(m, k) ==
    LET i == Min(Fits(m, k)) IN
    IF Fits(m, k) = {} THEN m
    ELSE IF m[i].size = k THEN RemoveAt(m, i)
    ELSE [m EXCEPT ![i] = Range_(@.addr + k, @.size - k)]

(* Mutant of Below: the search ends one range late. *)
BelowAll(m, a) == Cardinality({i \in DOMAIN m : m[i].addr <= a + 1})

(* mfree: how many ranges are below address a. *)
Below(m, a) == Cardinality({i \in DOMAIN m : m[i].addr <= a})

(* The units at a join the range before them, the one behind, or both;     *)
(* alone they need a slot, and are lost if there is none.                  *)
Mfree(m, k, a) ==
    LET i == Below(m, a)
        before == i > 0 /\ m[i].addr + m[i].size = a
        behind == i < Len(m) /\ a + k = m[i + 1].addr
    IN  IF before /\ behind
        THEN RemoveAt([m EXCEPT ![i].size = @ + k + m[i + 1].size], i + 1)
        ELSE IF before THEN [m EXCEPT ![i].size = @ + k]
        ELSE IF behind THEN [m EXCEPT ![i + 1] = Range_(a, @.size + k)]
        ELSE IF Len(m) = MAPSLOTS THEN m
        ELSE InsertAt(m, i + 1, Range_(a, k))

(* mfree returns without a look at mapwant. *)
Overflows(m, k, a) ==
    LET i == Below(m, a) IN
    /\ ~(i > 0 /\ m[i].addr + m[i].size = a)
    /\ ~(i < Len(m) /\ a + k = m[i + 1].addr)
    /\ Len(m) = MAPSLOTS

(* The units a map has. *)
UnitsOf(m) == UNION {Units(m[i].addr, m[i].size) : i \in DOMAIN m}

(* In order, with gaps between the ranges (first fit sees whole ranges).   *)
InOrder(m) ==
    /\ \A i \in DOMAIN m : m[i].addr > 0 /\ m[i].size > 0
    /\ \A i, j \in DOMAIN m : i < j => m[i].addr + m[i].size < m[j].addr
================================================================================
