------------------------------ MODULE BlockStore ------------------------------
(***************************************************************************)
(* What the buffer cache promises its callers, without the cache: every    *)
(* block is a register.  A process takes a block for itself, sees the last *)
(* value written to it, may write it, and gives it back.  The medium lags  *)
(* behind: it gets some of the values written, in the order of the writes. *)
(***************************************************************************)
EXTENDS Naturals

CONSTANTS
    Procs, Blocks,
    Unseen      \* no value seen yet

VARIABLES
    cur,        \* the last value written
    stable,     \* the value on the medium
    owner,      \* the set of processes that have the block
    view        \* the value the owner sees

vars == <<cur, stable, owner, view>>

Init ==
    /\ cur = [k \in Blocks |-> 0]
    /\ stable = [k \in Blocks |-> 0]
    /\ owner = [k \in Blocks |-> {}]
    /\ view = [k \in Blocks |-> Unseen]

(* A process has the block, with the last value or with none yet. *)
Take(p, k) ==
    /\ owner[k] = {}
    /\ owner' = [owner EXCEPT ![k] = {p}]
    /\ view' \in {view, [view EXCEPT ![k] = cur[k]]}
    /\ UNCHANGED <<cur, stable>>

(* The value arrives, from the medium or by being written to it. *)
See(k) ==
    /\ owner[k] # {}
    /\ view' = [view EXCEPT ![k] = cur[k]]
    /\ stable' \in {stable, [stable EXCEPT ![k] = cur[k]]}
    /\ UNCHANGED <<cur, owner>>

(* A write; the writer gives the block back at once or keeps it meanwhile. *)
Write(k) ==
    /\ owner[k] # {}
    /\ cur' = [cur EXCEPT ![k] = @ + 1]
    /\ owner' \in {owner, [owner EXCEPT ![k] = {}]}
    /\ view' = [view EXCEPT ![k] = Unseen]
    /\ UNCHANGED stable

Give(k) ==
    /\ owner[k] # {}
    /\ owner' = [owner EXCEPT ![k] = {}]
    /\ view' = [view EXCEPT ![k] = Unseen]
    /\ UNCHANGED <<cur, stable>>

(* The medium catches up by some of the writes. *)
Settle(k) ==
    /\ stable' \in {[stable EXCEPT ![k] = v] : v \in (stable[k] + 1)..cur[k]}
    /\ UNCHANGED <<cur, owner, view>>

Next ==
    \E k \in Blocks :
        \/ \E p \in Procs : Take(p, k)
        \/ See(k) \/ Write(k) \/ Give(k) \/ Settle(k)

Spec == Init /\ [][Next]_vars
=============================================================================
