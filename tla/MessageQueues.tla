----------------------------- MODULE MessageQueues -----------------------------
(***************************************************************************)
(* What msgsnd, msgrcv and msgctl promise: every queue is a sequence of    *)
(* messages; whoever receives gets the oldest one of its type, and who     *)
(* sends never makes a queue longer than its limit.                        *)
(***************************************************************************)
EXTENDS Integers, SequencesExt

CONSTANTS
    Queues,
    Messages,   \* what is sent, [type, size]
    Limits

VARIABLES
    queue,      \* the messages of each queue, oldest first
    made,       \* how often a queue was made or removed
    limit       \* bytes a queue may have

vars == <<queue, made, limit>>

Bytes(s) ==
    LET sum[i \in 0..Len(s)] == IF i = 0 THEN 0 ELSE sum[i - 1] + s[i].size
    IN  sum[Len(s)]

Init ==
    /\ queue = [q \in Queues |-> <<>>]
    /\ made = [q \in Queues |-> 0]
    /\ limit \in [Queues -> Limits]

Exists(q) == made[q] % 2 = 1

Room(q) == limit[q] - Bytes(queue[q])

Send(q) ==
    /\ Exists(q)
    /\ queue' \in {[queue EXCEPT ![q] = Append(@, m)] :
                    m \in {x \in Messages : x.size <= Room(q)}}
    /\ UNCHANGED <<made, limit>>

(* The i-th message, which is the oldest of its type.                      *)
Receive(q, i) ==
    /\ \A j \in 1..(i - 1) : queue[q][j].type # queue[q][i].type
    /\ queue' = [queue EXCEPT ![q] = RemoveAt(@, i)]
    /\ UNCHANGED <<made, limit>>

Destroy(q) ==
    /\ Exists(q)
    /\ queue' = [queue EXCEPT ![q] = <<>>]
    /\ made' = [made EXCEPT ![q] = @ + 1]
    /\ UNCHANGED limit

Make(q) ==
    /\ ~Exists(q)
    /\ made' = [made EXCEPT ![q] = @ + 1]
    /\ limit' \in {[limit EXCEPT ![q] = b] : b \in Limits}
    /\ UNCHANGED queue

Limit(q) ==
    /\ Exists(q)
    /\ limit' \in {[limit EXCEPT ![q] = b] : b \in Limits}
    /\ UNCHANGED <<queue, made>>

Next ==
    \E q \in Queues :
        \/ Send(q) \/ Destroy(q) \/ Make(q) \/ Limit(q)
        \/ \E i \in DOMAIN queue[q] : Receive(q, i)

Spec == Init /\ [][Next]_vars
================================================================================
