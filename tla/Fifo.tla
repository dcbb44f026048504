---------------------------------- MODULE Fifo ----------------------------------
(***************************************************************************)
(* What a pipe promises: bytes come out in the order they went in, no more *)
(* than Cap are in it, only who has it open for writing adds, and what is  *)
(* in it is lost only when nobody has it open.                             *)
(***************************************************************************)
EXTENDS Integers, Sequences

CONSTANTS Bytes, Cap

VARIABLES
    queue,      \* the bytes, oldest first
    readers,    \* how often it is open for reading
    writers     \* ... and for writing

vars == <<queue, readers, writers>>

Init == queue = <<>> /\ readers = 0 /\ writers = 0

Step(n, m) == m \in {n - 1, n, n + 1} /\ m >= 0

(* Someone comes or goes; the last one takes the bytes with him.           *)
Ends ==
    /\ \/ Step(readers, readers') /\ writers' = writers
       \/ Step(writers, writers') /\ readers' = readers
    /\ queue' = IF readers' + writers' = 0 THEN <<>> ELSE queue

Put ==
    /\ writers > 0
    /\ Len(queue') \in (Len(queue) + 1)..Cap
    /\ SubSeq(queue', 1, Len(queue)) = queue
    /\ \A i \in DOMAIN queue' : queue'[i] \in Bytes
    /\ UNCHANGED <<readers, writers>>

Take ==
    /\ readers > 0
    /\ \E k \in DOMAIN queue : queue' = SubSeq(queue, k + 1, Len(queue))
    /\ UNCHANGED <<readers, writers>>

Next == Ends \/ Put \/ Take

Spec == Init /\ [][Next]_vars
================================================================================
