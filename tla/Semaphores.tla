------------------------------ MODULE Semaphores ------------------------------
(***************************************************************************)
(* System V semaphores, src/src/uts/m68k/io/sem.c: semget, semop, the      *)
(* commands of semctl that change something, and semexit.                  *)
(*                                                                         *)
(* A call runs without interruption except where it sleeps: on a count of  *)
(* a semaphore's waiters, or while the operations of semop are copied in   *)
(* from user space, which may have to wait for a page.  They are copied    *)
(* into semtmp, which all processes share.                                 *)
(***************************************************************************)
EXTENDS Integers, SequencesExt

CONSTANTS
    Procs,
    SemMni,     \* number of semaphore identifiers
    Blocks,     \* how many sets sem[] has room for
    SetSize,    \* bound: semaphores in a set
    SemVmx,     \* maximum value
    SemAem,     \* maximum adjust-on-exit value
    SemUme,     \* undo entries per process
    SemMnu,     \* undo structures
    OpLists,    \* bound: the lists of operations semop is called with
    MaxSeq,     \* bound: removals of a set
    MaxFaults,  \* bound: page faults in copying
    Nowhere

Slot == 0..(SemMni - 1)
Num == 0..(SetSize - 1)
Sem == (1..Blocks) \X Num
Kind == {"n", "z"}      \* semncnt, semzcnt: waiting for more, for zero
Id == Slot \X (0..MaxSeq)
Operation == [num : Num, op : Int, undo : BOOLEAN, nowait : BOOLEAN]
Errno == {"EAGAIN", "ERANGE", "ENOSPC", "EINVAL", "EFAULT", "EIDRM", "EINTR"}

ASSUME SemAssumption ==
    /\ IsFiniteSet(Procs)
    /\ SemMni \in Nat \ {0} /\ Blocks \in Nat \ {0} /\ SetSize \in Nat \ {0}
    /\ SemVmx \in Nat /\ SemAem \in Nat /\ SemUme \in Nat /\ SemMnu \in Nat
    /\ OpLists \subseteq Seq(Operation) \ {<< >>}
    /\ MaxSeq \in Nat /\ MaxFaults \in Nat
    /\ Nowhere \notin Sem \X Kind

VARIABLES
    sema,       \* identifiers: IPC_ALLOC, sem_perm.seq and sem_base
    semval,     \* value of each semaphore
    cnt,        \* semncnt and semzcnt of each semaphore
    sem_undo,   \* adjust-on-exit value of each process for each semaphore; 0 for none
    hasUndo,    \* which processes have an undo structure
    semtmp,     \* operations copied in, of whoever came last
    pc, call, chan, intr,
    u_error,    \* u.u_error of the process that took the last step
    faults

vars == <<sema, semval, cnt, sem_undo, hasUndo, semtmp, pc, call, chan, intr,
          u_error, faults>>

NoCall == [id |-> <<0, 0>>, ops |-> << >>, from |-> 1, tried |-> << >>, on |-> Nowhere]
-----------------------------------------------------------------------------
(* semconv() of a semaphore identifier. *)
Valid(id) == sema[id[1]].alloc /\ sema[id[1]].seq = id[2]

(* The semaphore an operation of the identifier is about. *)
SemOf(id, num) == <<sema[id[1]].base, num>>

Abs(n) == IF n < 0 THEN -n ELSE n

(* The work in progress of a call of p for an identifier: values, counts,  *)
(* adjustments, the channels woken, and how it stands.                     *)
Work(p, id) ==
    [val |-> semval, cnt |-> cnt, undo |-> sem_undo[p], has |-> hasUndo[p],
     woken |-> {}, at |-> "go", done |-> 0]

(* Wake who waits for c, a semaphore and a kind, if there is anyone.       *)
Wake(w, c) ==
    IF w.cnt[c] = 0 THEN w ELSE [w EXCEPT !.cnt[c] = 0, !.woken = @ \cup {c}]

(* semaoe(): the adjustment takes an operation back.  It fails at a limit. *)
Semaoe(w, id, o, val) ==
    LET e == <<id, o.num>>
        entries == {x \in DOMAIN w.undo : w.undo[x] # 0}
        full == ~w.has /\ Cardinality({q \in Procs : hasUndo[q]}) >= SemMnu
    IN  IF val = 0 \/ ~o.undo THEN w
        ELSE IF Abs(val) > SemAem THEN [w EXCEPT !.at = "ERANGE"]
        ELSE IF full THEN [w EXCEPT !.at = "ENOSPC"]
        ELSE IF w.undo[e] = 0 /\ Cardinality(entries) >= SemUme
             THEN [w EXCEPT !.has = TRUE, !.at = "EINVAL"]
        ELSE IF Abs(w.undo[e] - val) > SemAem THEN [w EXCEPT !.has = TRUE, !.at = "ERANGE"]
        ELSE [w EXCEPT !.has = TRUE, !.undo[e] = @ - val]

(* One operation, unless one before it was in trouble: it is done, or it   *)
(* has to wait.                                                            *)
Do(w, id, o) ==
    LET s == SemOf(id, o.num)
        u == Semaoe(w, id, o, o.op)
        v == [u EXCEPT !.val[s] = @ + o.op, !.done = @ + 1]
    IN  CASE w.at # "go" -> w
          [] w.at = "go" /\ o.op > 0 ->
               IF w.val[s] + o.op > SemVmx THEN [w EXCEPT !.at = "ERANGE"]
               ELSE IF u.at # "go" THEN u ELSE Wake(v, <<s, "n">>)
          [] w.at = "go" /\ o.op < 0 ->
               IF w.val[s] + o.op < 0 THEN [w EXCEPT !.at = IF o.nowait THEN "EAGAIN" ELSE "n"]
               ELSE IF u.at # "go" THEN u
               ELSE IF v.val[s] = 0 THEN Wake(v, <<s, "z">>) ELSE v
          [] w.at = "go" /\ o.op = 0 ->
               IF w.val[s] # 0 THEN [w EXCEPT !.at = IF o.nowait THEN "EAGAIN" ELSE "z"]
               ELSE [w EXCEPT !.done = @ + 1]

(* What p's call becomes, one operation after the other.                   *)
Trial(p, id, ops) ==
    LET w[i \in 0..Len(ops)] ==
            IF i = 0 THEN Work(p, id) ELSE Do(w[i - 1], id, ops[i])
    IN  w

(* An operation that was done is taken back. *)
Undone(w, id, o) ==
    Semaoe([w EXCEPT !.val[SemOf(id, o.num)] = @ - o.op, !.at = "go"], id, o, -o.op)

(* semundo(): those done are taken back, the last one first. *)
Semundo(w, id, ops) ==
    LET b[i \in 0..Len(ops)] ==
            IF i = 0 THEN w ELSE Undone(b[i - 1], id, ops[Len(ops) - i + 1])
    IN  b[Len(ops)]

(* Mutant of DoAll: only a call that waits takes back what it did.         *)
DoAllUnlessFailed(p, id, ops) ==
    LET w == Trial(p, id, ops)[Len(ops)]
    IN  IF w.at \notin Kind THEN w
        ELSE [Semundo(w, id, SubSeq(ops, 1, w.done)) EXCEPT !.at = w.at, !.done = w.done]

(* The operations of a call, all or none. *)
DoAll(p, id, ops) ==
    LET w == Trial(p, id, ops)[Len(ops)]
    IN  IF w.at = "go" THEN w
        ELSE [Semundo(w, id, SubSeq(ops, 1, w.done)) EXCEPT !.at = w.at, !.done = w.done]

(* semunrm(): no process has adjustments of these semaphores any more. *)
Without(undo, id, N) ==
    [x \in DOMAIN undo |-> IF x[1] = id /\ x[2] \in N THEN 0 ELSE undo[x]]
-----------------------------------------------------------------------------
Init ==
    /\ sema = [i \in Slot |-> [alloc |-> FALSE, seq |-> 0, base |-> 1]]
    /\ semval = [s \in Sem |-> 0]
    /\ cnt = [c \in Sem \X Kind |-> 0]
    /\ sem_undo = [p \in Procs |-> [x \in Id \X Num |-> 0]]
    /\ hasUndo = [p \in Procs |-> FALSE]
    /\ semtmp = << >>
    /\ pc = [p \in Procs |-> "user"]
    /\ call = [p \in Procs |-> NoCall]
    /\ chan = [p \in Procs |-> Nowhere]
    /\ intr = [p \in Procs |-> FALSE]
    /\ u_error = "none"
    /\ faults = 0

Wakeup(C) == chan' = [p \in Procs |-> IF chan[p] \in C THEN Nowhere ELSE chan[p]]

(* p's call is over, with the error e or with "none". *)
Return(p, e) ==
    /\ u_error' = e
    /\ pc' = [pc EXCEPT ![p] = "user"]
    /\ call' = [call EXCEPT ![p] = NoCall]
    /\ intr' = [intr EXCEPT ![p] = FALSE]

InUser(p) == pc[p] = "user"

(* semget() of a new set: the first free identifier, the first room. *)
Semget(p) ==
    LET unused == {i \in Slot : ~sema[i].alloc}
        room == (1..Blocks) \ {sema[i].base : i \in Slot \ unused}
    IN  /\ InUser(p) /\ unused # {} /\ room # {}
        /\ sema' = [sema EXCEPT ![Min(unused)].alloc = TRUE, ![Min(unused)].base = Min(room)]
        /\ u_error' = "none"
        /\ UNCHANGED <<semval, cnt, sem_undo, hasUndo, semtmp, pc, call, chan, intr, faults>>

(* The values of the semaphores S become v, and their waiters are woken.   *)
Assign(S, v, wakes) ==
    LET woken == {c \in S \X wakes : cnt[c] > 0}
    IN  /\ semval' = [s \in Sem |-> IF s \in S THEN v[s[2]] ELSE semval[s]]
        /\ cnt' = [c \in Sem \X Kind |-> IF c \in woken THEN 0 ELSE cnt[c]]
        /\ Wakeup(woken)

(* semctl(IPC_RMID) *)
Rmid(p, i) ==
    LET id == <<i, sema[i].seq>>
    IN  /\ InUser(p) /\ sema[i].alloc /\ sema[i].seq < MaxSeq
        /\ sem_undo' = [q \in Procs |-> Without(sem_undo[q], id, Num)]
        /\ Assign({SemOf(id, n) : n \in Num}, [n \in Num |-> 0], Kind)
        /\ sema' = [sema EXCEPT ![i].alloc = FALSE, ![i].seq = @ + 1]
        /\ u_error' = "none"
        /\ UNCHANGED <<hasUndo, semtmp, pc, call, intr, faults>>

(* semctl(SETVAL) *)
Setval(p, i, n, v) ==
    LET id == <<i, sema[i].seq>>
    IN  /\ InUser(p) /\ sema[i].alloc
        /\ Assign({SemOf(id, n)}, [m \in Num |-> v], IF v = 0 THEN {"z"} ELSE {"n"})
        /\ sem_undo' = [q \in Procs |-> Without(sem_undo[q], id, {n})]
        /\ u_error' = "none"
        /\ UNCHANGED <<sema, hasUndo, semtmp, pc, call, intr, faults>>

(* semtmp is a union: value k of semvals lies where field k % 3 of         *)
(* operation k \div 3 of semops does.  IPC_NOWAIT is bit 11 of the flags,  *)
(* SEM_UNDO bit 12.                                                        *)
Bit(flags, n) == (flags \div n) % 2 = 1

Overlaid(v) ==
    [j \in 1..Len(semtmp) |->
        LET k == 3 * (j - 1)
            o == semtmp[j]
        IN  [num |-> IF k \in Num THEN v[k] ELSE o.num,
             op |-> IF k + 1 \in Num THEN v[k + 1] ELSE o.op,
             undo |-> IF k + 2 \in Num THEN Bit(v[k + 2], 4096) ELSE o.undo,
             nowait |-> IF k + 2 \in Num THEN Bit(v[k + 2], 2048) ELSE o.nowait]]

(* semctl(SETALL), whose values are copied into semtmp.  A bound: where    *)
(* they become semaphore numbers of somebody's operations, they are        *)
(* numbers there are.                                                      *)
Setall(p, i, v) ==
    LET id == <<i, sema[i].seq>>
        S == {SemOf(id, n) : n \in Num}
        woken == {c \in S \X Kind : cnt[c] > 0 /\ (v[c[1][2]] = 0 <=> c[2] = "z")}
    IN  /\ InUser(p) /\ sema[i].alloc
        /\ \A j \in 1..Len(semtmp) : Overlaid(v)[j].num \in Num
        /\ semtmp' = Overlaid(v)
        /\ semval' = [s \in Sem |-> IF s \in S THEN v[s[2]] ELSE semval[s]]
        /\ cnt' = [c \in Sem \X Kind |-> IF c \in woken THEN 0 ELSE cnt[c]]
        /\ Wakeup(woken)
        /\ sem_undo' = [q \in Procs |-> Without(sem_undo[q], id, Num)]
        /\ u_error' = "none"
        /\ UNCHANGED <<sema, hasUndo, pc, call, intr, faults>>
-----------------------------------------------------------------------------
(* The operations ops of p's call have come to w: p sleeps or returns.     *)
Outcome(p, c, ops, w) ==
    LET ch == <<SemOf(c.id, ops[w.done + 1].num), w.at>>
    IN  \/ /\ w.at \in Kind
           /\ cnt' = [w.cnt EXCEPT ![ch] = @ + 1]
           /\ chan' = [q \in Procs |-> IF q = p THEN ch
                                       ELSE IF chan[q] \in w.woken THEN Nowhere ELSE chan[q]]
           /\ pc' = [pc EXCEPT ![p] = "asleep"]
           /\ call' = [call EXCEPT ![p] = [c EXCEPT !.from = 1, !.tried = ops, !.on = ch]]
           /\ u_error' = "none"
           /\ UNCHANGED intr
        \/ /\ w.at \notin Kind
           /\ cnt' = w.cnt
           /\ Wakeup(w.woken)
           /\ Return(p, IF w.at = "go" THEN "none" ELSE w.at)

(* iomove() of the operations from c.from on, up to and including n.       *)
Copied(c, n) ==
    [i \in 1..Max({n, Len(semtmp)}) |-> IF i \in c.from..n THEN c.ops[i] ELSE semtmp[i]]

(* What p leaves in semtmp matters only while somebody is still copying.   *)
Left(p, tmp) == IF \E q \in Procs \ {p} : pc[q] = "fault" THEN tmp ELSE << >>

(* semop() once its operations are copied in: what is in semtmp is done.   *)
Perform(p, c, tmp) ==
    LET ops == SubSeq(tmp, 1, Len(c.ops))
        w == DoAll(p, c.id, ops)
    IN  /\ semtmp' = Left(p, tmp)
        /\ semval' = w.val
        /\ sem_undo' = [sem_undo EXCEPT ![p] = w.undo]
        /\ hasUndo' = [hasUndo EXCEPT ![p] = w.has]
        /\ Outcome(p, c, ops, w)
        /\ UNCHANGED <<sema, faults>>

(* The copy waits for a page that is not there, at operation i ...         *)
Fault(p, c, i) ==
    /\ faults < MaxFaults
    /\ semtmp' = Copied(c, i - 1)
    /\ pc' = [pc EXCEPT ![p] = "fault"]
    /\ call' = [call EXCEPT ![p] = [c EXCEPT !.from = i]]
    /\ u_error' = "none"
    /\ faults' = faults + 1
    /\ UNCHANGED <<sema, semval, cnt, sem_undo, hasUndo, chan, intr>>

(* ... or ends at an address that is none of the process's.                *)
BadAddress(p, c, i) ==
    /\ semtmp' = Left(p, Copied(c, i - 1))
    /\ Return(p, "EFAULT")
    /\ UNCHANGED <<sema, semval, cnt, sem_undo, hasUndo, chan, faults>>

CopyIn(p, c) ==
    \/ Perform(p, c, Copied(c, Len(c.ops)))
    \/ \E i \in c.from..Len(c.ops) : Fault(p, c, i) \/ BadAddress(p, c, i)

Semop(p, i, ops) ==
    /\ InUser(p) /\ sema[i].alloc
    /\ CopyIn(p, [NoCall EXCEPT !.id = <<i, sema[i].seq>>, !.ops = ops])

(* The page has come. *)
FaultDone(p) == pc[p] = "fault" /\ CopyIn(p, call[p])

(* A signal for a process that sleeps or has just been woken. *)
Signal(p) ==
    /\ pc[p] = "asleep" /\ ~intr[p]
    /\ intr' = [intr EXCEPT ![p] = TRUE]
    /\ chan' = [chan EXCEPT ![p] = Nowhere]
    /\ u_error' = "none"
    /\ UNCHANGED <<sema, semval, cnt, sem_undo, hasUndo, semtmp, pc, call, faults>>

Woken(p) == pc[p] = "asleep" /\ chan[p] = Nowhere

(* Where p slept: the first of the operations it tried that would not do. *)
Slept(p) == call[p].on

(* Again from `check' on: the set may have been removed. *)
Again(p) ==
    /\ Woken(p) /\ ~intr[p]
    /\ IF Valid(call[p].id) THEN CopyIn(p, call[p])
       ELSE /\ Return(p, "EIDRM")
            /\ UNCHANGED <<sema, semval, cnt, sem_undo, hasUndo, semtmp, chan, faults>>

(* Mutant of LastLeaves: nobody is woken. *)
LastLeavesQuietly(c) == Wakeup({})

(* When nobody is left to be counted, those asleep are woken to count again. *)
LastLeaves(c) == Wakeup(IF cnt[c] <= 1 THEN {c} ELSE {})

(* EINTR: the sleeper is counted out, and others are woken at the last.    *)
Interrupted(p) ==
    LET c == Slept(p)
    IN  /\ Woken(p) /\ intr[p]
        /\ cnt' = [cnt EXCEPT ![c] = IF @ <= 1 THEN 0 ELSE @ - 1]
        /\ LastLeaves(c)
        /\ Return(p, "EINTR")
        /\ UNCHANGED <<sema, semval, sem_undo, hasUndo, semtmp, faults>>

(* Mutant of Applies: the value is not held to its maximum. *)
AppliesAbove(v) == v >= 0

(* An adjustment is applied unless it takes the value out of its range.    *)
Applies(v) == v \in 0..SemVmx

(* Mutant of ExitWakes: who waits for zero is forgotten. *)
ExitWakesMore(v, aoe) == IF aoe > 0 THEN {"n"} ELSE {}

(* Who is woken when an adjustment aoe has made the value v.               *)
ExitWakes(v, aoe) ==
    (IF v = 0 THEN {"z"} ELSE {}) \cup (IF aoe > 0 THEN {"n"} ELSE {})

(* What the adjustment of p for x, a semaphore of an identifier, makes of   *)
(* the value, and the adjustments of p that are applied.                   *)
NewValue(p, x) == semval[SemOf(x[1], x[2])] + sem_undo[p][x]

Applied(p) ==
    {x \in Id \X Num : sem_undo[p][x] # 0 /\ Valid(x[1]) /\ Applies(NewValue(p, x))}

AppliedTo(p, s) == CHOOSE x \in Applied(p) : SemOf(x[1], x[2]) = s

(* semexit(): the adjustments are applied where they can be. *)
Semexit(p) ==
    LET S == {SemOf(x[1], x[2]) : x \in Applied(p)}
        v == [s \in S |-> NewValue(p, AppliedTo(p, s))]
        aoe(s) == sem_undo[p][AppliedTo(p, s)]
        woken == {c \in S \X Kind : cnt[c] > 0 /\ c[2] \in ExitWakes(v[c[1]], aoe(c[1]))}
    IN  /\ InUser(p) /\ hasUndo[p]
        /\ semval' = [s \in Sem |-> IF s \in S THEN v[s] ELSE semval[s]]
        /\ cnt' = [c \in Sem \X Kind |-> IF c \in woken THEN 0 ELSE cnt[c]]
        /\ Wakeup(woken)
        /\ sem_undo' = [sem_undo EXCEPT ![p] = [x \in Id \X Num |-> 0]]
        /\ hasUndo' = [hasUndo EXCEPT ![p] = FALSE]
        /\ u_error' = "none"
        /\ UNCHANGED <<sema, semtmp, pc, call, intr, faults>>

Next ==
    \E p \in Procs :
        \/ Semget(p)
        \/ \E i \in Slot : Rmid(p, i)
        \/ \E i \in Slot, n \in Num, v \in 0..SemVmx : Setval(p, i, n, v)
        \/ \E i \in Slot, v \in [Num -> 0..SemVmx] : Setall(p, i, v)
        \/ \E i \in Slot, ops \in OpLists : Semop(p, i, ops)
        \/ FaultDone(p) \/ Signal(p) \/ Again(p) \/ Interrupted(p)
        \/ Semexit(p)

Spec == Init /\ [][Next]_vars
-----------------------------------------------------------------------------
Entries(p) == {x \in Id \X Num : sem_undo[p][x] # 0}

(* Values and adjustments keep to their limits whatever order calls, exits *)
(* and removals come in, and no process has more undo entries, or the      *)
(* system more undo structures, than there is room for: semop, semaoe and  *)
(* semexit each check a part of it.                                        *)
TypeOK ==
    /\ sema \in [Slot -> [alloc : BOOLEAN, seq : 0..MaxSeq, base : 1..Blocks]]
    /\ semval \in [Sem -> 0..SemVmx]
    /\ cnt \in [Sem \X Kind -> 0..Cardinality(Procs)]
    /\ sem_undo \in [Procs -> [Id \X Num -> -SemAem..SemAem]]
    /\ \A p \in Procs : /\ Cardinality(Entries(p)) <= SemUme
                         /\ ~hasUndo[p] => Entries(p) = {}
    /\ Cardinality({p \in Procs : hasUndo[p]}) <= SemMnu
    /\ pc \in [Procs -> {"user", "fault", "asleep"}]
    /\ chan \in [Procs -> (Sem \X Kind) \cup {Nowhere}]
    /\ intr \in [Procs -> BOOLEAN]
    /\ u_error \in Errno \cup {"none"}
    /\ faults \in 0..MaxFaults

(* Who sleeps is counted, or a wakeup that looks at semncnt or semzcnt     *)
(* first would pass it by.  The counts are set to zero by whoever wakes,   *)
(* and taken down by whoever a signal ends the sleep of, in any order.     *)
SleepersCounted == \A p \in Procs : chan[p] # Nowhere => cnt[chan[p]] > 0

(* The operations of p could be done now, all of them. *)
Able(p) == DoAll(p, call[p].id, call[p].tried).at = "go"

Distinct(ops) == \A i, j \in DOMAIN ops : ops[i].num = ops[j].num => i = j

(* No process sleeps whose operations could be done, as long as they name  *)
(* no semaphore twice: every change of a value wakes those it could help,  *)
(* whether semop, semctl or semexit makes it.  One that takes one from a    *)
(* semaphore and then waits for zero sleeps on when its value becomes one.  *)
SleepersBlocked ==
    \A p \in Procs :
        chan[p] # Nowhere /\ Valid(call[p].id) /\ Distinct(call[p].tried) => ~Able(p)

(* The operations of a call are done all or none.  Whatever comes of one,  *)
(* a limit met at any operation of the list, the undo structures or the    *)
(* entries running out, a list that must not or cannot wait, a bad         *)
(* address, a set removed, a signal, or a sleep, be it the first or one    *)
(* after a retry: unless it succeeds it leaves every value and every       *)
(* adjustment of every process as they were.  semundo() takes back those   *)
(* done, and must not meet a limit itself.                                 *)
AllOrNothing ==
    [][(\/ u_error' # "none"
        \/ \E p \in Procs : chan[p] = Nowhere /\ chan'[p] # Nowhere)
           => UNCHANGED <<semval, sem_undo>>]_vars
=============================================================================
