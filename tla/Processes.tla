------------------------------- MODULE Processes -------------------------------
(***************************************************************************)
(* Processes: fork, exit and wait, and the signals that end a sleep        *)
(* (os/fork.c, exit.c, sig.c, slp.c and ssig of sys4.c).                   *)
(*                                                                         *)
(* The kernel is not preempted: a process gives up the processor only      *)
(* where it sleeps, so an action is what it does from one sleep, or from   *)
(* user mode, to the next.  Interrupts may post signals at any time.       *)
(* The process table is the C one: the family is kept in the pointers      *)
(* p_parent, p_child and p_sibling.  Tracing is left out.  proc[1] runs    *)
(* its own program, cmd/init/init.c.                                       *)
(***************************************************************************)
EXTENDS Integers, SequencesExt

CONSTANTS
    Slot,       \* entries of the table proc[], from proc[1] on
    InitProc,   \* proc[1], which adopts and runs init: it never exits
    Signals,    \* the signals, in the order of their numbers
    MayFail,    \* bound: processes whose fork may run out of memory
    Handlers,   \* bound: processes that change what they do with signals
    Posted,     \* bound: processes that are sent signals, and that pause
    Nobody,
    Nowhere

Sig == Range(Signals)

ASSUME ProcAssumption ==
    /\ IsFiniteSet(Slot) /\ InitProc \in Slot
    /\ Nobody \notin Slot /\ Nowhere \notin Slot \cup {"u", "event"}
    /\ Signals \in Seq(STRING \ {"none"}) /\ IsInjective(Signals) /\ {"KILL", "CLD"} \subseteq Sig
    /\ MayFail \subseteq Slot /\ Posted \subseteq Slot
    /\ Handlers \subseteq Slot \ {InitProc}

VARIABLES
    proc,       \* the process table
    u_signal,   \* what a process does with each signal
    pc,         \* where it is: in user mode, or in the sleep of a call
    init_at     \* where the program of proc[1] is: in main, with SIGCLD caught,
                \* in childeath before and after its wait, or forking

vars == <<proc, u_signal, pc, init_at>>

Disposition == {"dfl", "ign", "catch"}
Unused == [stat |-> "none", sig |-> {}, hold |-> {}, chold |-> {}, wchan |-> Nowhere,
           snwake |-> FALSE, parent |-> Nobody, child |-> Nobody, sibling |-> Nobody]
-----------------------------------------------------------------------------
(* The chain of p's children, from p_child on. *)
Chain(P, p) ==
    LET c[i \in 0..Cardinality(Slot)] ==
          IF i = 0 THEN P[p].child
          ELSE IF c[i - 1] = Nobody THEN Nobody ELSE P[c[i - 1]].sibling
        n == Cardinality({i \in 0..Cardinality(Slot) : c[i] # Nobody})
    IN  [i \in 1..n |-> c[i - 1]]

(* Its dead children, and the one that comes first in the chain. *)
Zombies(P, p) == {q \in Range(Chain(P, p)) : P[q].stat = "zomb"}

FirstDead(P, p) ==
    LET c == Chain(P, p)
    IN  c[Min({i \in DOMAIN c : c[i] \in Zombies(P, p)})]

(* Mutant of Setrun: the channel stays. *)
SetrunKeeps(P, q) == IF P[q].stat = "sleep" THEN [P EXCEPT ![q].stat = "run"] ELSE P

Setrun(P, q) ==
    IF P[q].stat = "sleep" THEN [P EXCEPT ![q].stat = "run", ![q].wchan = Nowhere] ELSE P

(* Mutant of Psignal: a signal that would be ignored does not end a sleep. *)
PsignalActing(P, q, s) ==
    LET N == [P EXCEPT ![q].sig = @ \cup {s}]
        acts == u_signal[q][s] = "catch" \/ (u_signal[q][s] = "dfl" /\ s # "CLD")
    IN  IF ~P[q].snwake /\ s \notin P[q].hold /\ acts THEN Setrun(N, q) ELSE N

(* A signal is noted, and ends a sleep unless it is held.                  *)
Psignal(P, q, s) ==
    LET N == [P EXCEPT ![q].sig = @ \cup {s}]
    IN  IF ~P[q].snwake /\ s \notin P[q].hold THEN Setrun(N, q) ELSE N

(* The entry of a dead child is taken out of the chain and given back.     *)
Freeproc(P, q) ==
    LET r == P[q].parent
        before == CHOOSE x \in Range(Chain(P, r)) : P[x].sibling = q
    IN  IF P[r].child = q
        THEN [P EXCEPT ![r].child = P[q].sibling, ![q] = Unused]
        ELSE [P EXCEPT ![before].sibling = P[q].sibling, ![q] = Unused]

FreeprocAll(P, p) ==
    LET n == Cardinality(Zombies(P, p))
        f[i \in 0..n] == IF i = 0 THEN P ELSE Freeproc(f[i - 1], FirstDead(f[i - 1], p))
    IN  f[n]

(* issig(): the first signal p must do something about, if there is one,   *)
(* and the table without those before it, which are ignored.  Dead         *)
(* children are given back on the way when p ignores their death.          *)
Acts(p, s) == u_signal[p][s] = "catch" \/ (u_signal[p][s] = "dfl" /\ s # "CLD")

Issig(P, p) ==
    LET pending == {i \in DOMAIN Signals : Signals[i] \in P[p].sig \ P[p].hold}
        acting == {i \in pending : Acts(p, Signals[i])}
        first == IF acting = {} THEN "none" ELSE Signals[Min(acting)]
        passed == {Signals[i] : i \in {k \in pending : \A j \in acting : k < j}}
        N == [P EXCEPT ![p].sig = @ \ passed]
    IN  [sig |-> first,
         proc |-> IF "CLD" \in passed /\ u_signal[p]["CLD"] = "ign"
                  THEN FreeprocAll(N, p) ELSE N]
-----------------------------------------------------------------------------
Init ==
    /\ proc = [q \in Slot |-> IF q = InitProc THEN [Unused EXCEPT !.stat = "run"] ELSE Unused]
    /\ u_signal = [q \in Slot |-> [s \in Sig |->
                     IF q = InitProc /\ s = "CLD" THEN "catch" ELSE "dfl"]]
    /\ pc = [q \in Slot |-> "user"]
    /\ init_at = "main"

Live(q) == proc[q].stat \notin {"none", "zomb"}

Goes(p, P, k) == proc' = P /\ pc' = [pc EXCEPT ![p] = k]

(* The return from a call: pending signals are looked at first.            *)
Back(P, p) == IF P[p].sig \subseteq P[p].hold THEN "user" ELSE "trap"
Returns(p, P) == Goes(p, P, Back(P, p))

InUser(p) == pc[p] = "user" /\ proc[p].stat = "run"
Resumes(p, k) == pc[p] = k /\ proc[p].stat = "run"

(* sleep() above PZERO, from the table P on: a signal ends it, or does not *)
(* let it begin, and the call is left by longjmp.                          *)
Asleep(P, p, ch) == [P EXCEPT ![p].stat = "sleep", ![p].wchan = ch]

(* Mutant of Sleep: no look for a signal before the switch. *)
SleepBlindly(p, P, ch, k) == Goes(p, Asleep(P, p, ch), k)

Sleep(p, P, ch, k) ==
    LET r == Issig(P, p)
    IN  IF r.sig # "none" THEN Goes(p, r.proc, "trap")
        ELSE Goes(p, Asleep(r.proc, p, ch), k)

(* sleep() at PZERO or below. *)
SleepThrough(p, P, k) ==
    Goes(p, [Asleep(P, p, "event") EXCEPT ![p].snwake = TRUE], k)

(* What an uninterruptible sleep waits for comes. *)
Event(p) ==
    /\ proc[p].stat = "sleep" /\ proc[p].snwake
    /\ proc' = [Setrun(proc, p) EXCEPT ![p].snwake = FALSE]
    /\ UNCHANGED <<u_signal, pc, init_at>>
-----------------------------------------------------------------------------
(* newproc(): q becomes the first child of p. *)
Newproc(p, q) ==
    [proc EXCEPT ![q] = [Unused EXCEPT !.stat = "idl", !.sig = proc[p].sig,
                            !.hold = proc[p].hold, !.chold = proc[p].chold,
                            !.parent = p, !.sibling = proc[p].child],
                 ![p].child = q]

(* procdup() has succeeded: the child runs. *)
Forked(p, P, q) ==
    /\ proc' = [P EXCEPT ![q].stat = "run"]
    /\ pc' = [pc EXCEPT ![p] = Back(P, p), ![q] = Back(P, q)]
    /\ u_signal' = [u_signal EXCEPT ![q] = u_signal[p]]

(* It has not: what p_child points to is taken off.                        *)
ForkFails(p, P, q) ==
    /\ p \in MayFail
    /\ Returns(p, [P EXCEPT ![p].child = P[q].sibling, ![q] = Unused])
    /\ UNCHANGED u_signal

(* newproc() and procdup() sleep for locks and for memory.                 *)
Fork(p) ==
    /\ InUser(p) /\ (p = InitProc => init_at = "spawning")
    /\ \E q \in Slot :
        /\ proc[q].stat = "none"
        /\ \/ Forked(p, Newproc(p, q), q)
           \/ ForkFails(p, Newproc(p, q), q)
           \/ SleepThrough(p, Newproc(p, q), "fork") /\ UNCHANGED u_signal
    /\ UNCHANGED init_at

Child(p) == CHOOSE q \in Slot : proc[q].stat = "idl" /\ proc[q].parent = p

ForkReturns(p) ==
    /\ Resumes(p, "fork")
    /\ Forked(p, proc, Child(p)) \/ ForkFails(p, proc, Child(p))
    /\ UNCHANGED init_at

(* wait(), from the table P on. *)
WaitScan(p, P) ==
    IF Zombies(P, p) # {} THEN Returns(p, Freeproc(P, FirstDead(P, p)))
    ELSE IF P[p].child # Nobody THEN Sleep(p, P, p, "wait")
    ELSE Returns(p, P)

(* init waits once for each SIGCLD it catches, and for who asks for a level. *)
Wait(p) ==
    /\ InUser(p) /\ (p = InitProc => init_at \in {"childeath", "spawning"})
    /\ WaitScan(p, proc)
    /\ init_at' = IF p = InitProc /\ init_at = "childeath" THEN "reaped" ELSE init_at
    /\ UNCHANGED u_signal

WaitReturns(p) ==
    LET r == Issig(proc, p)
    IN  /\ Resumes(p, "wait")
        /\ IF r.sig # "none" THEN Goes(p, r.proc, "trap") ELSE WaitScan(p, r.proc)
        /\ UNCHANGED <<u_signal, init_at>>

(* pause(): it sleeps until a signal ends it. *)
Pause(p) ==
    /\ InUser(p) /\ p \in Posted /\ (p = InitProc => init_at = "main")
    /\ Sleep(p, proc, "u", "pause")
    /\ UNCHANGED <<u_signal, init_at>>

(* Mutant of PauseReturns: asleep again, whatever the signal. *)
PauseForever(p) ==
    /\ Resumes(p, "pause") /\ Goes(p, [Asleep(proc, p, "u") EXCEPT ![p].sig = {}], "pause")
    /\ UNCHANGED <<u_signal, init_at>>

PauseReturns(p) ==
    /\ Resumes(p, "pause")
    /\ Sleep(p, Issig(proc, p).proc, "u", "pause")
    /\ UNCHANGED <<u_signal, init_at>>
-----------------------------------------------------------------------------
(* Mutant of Adopt: the children of proc[1] are not chained on. *)
AdoptAlone(P, p) ==
    [q \in Slot |->
        CASE q = p -> [P[q] EXCEPT !.child = Nobody]
          [] q = InitProc -> [P[q] EXCEPT !.child = P[p].child]
          [] OTHER -> IF P[q].parent = p THEN [P[q] EXCEPT !.parent = InitProc] ELSE P[q]]

(* proc[1] adopts the children of p, ahead of its own.                     *)
Adopt(P, p) ==
    LET orphans == Range(Chain(P, p))
    IN  [q \in Slot |->
          CASE q = p -> [P[q] EXCEPT !.child = Nobody]
            [] q = InitProc -> [P[q] EXCEPT !.child = P[p].child]
            [] q \in orphans -> [P[q] EXCEPT !.parent = InitProc,
                                    !.sibling = IF @ = Nobody THEN P[InitProc].child ELSE @]
            [] OTHER -> P[q]]

(* ... and is told once if any of them is dead already.                    *)
Inherits(P, p) ==
    IF Zombies(P, p) # {} THEN Psignal(Adopt(P, p), InitProc, "CLD") ELSE Adopt(P, p)

(* What is left of p, whose signals are not looked at any more.            *)
Dead(P, p) ==
    [P EXCEPT ![p].stat = "zomb", ![p].sig = {}, ![p].hold = {}, ![p].chold = {}]

(* The end of exit(): the children go, then the parent learns of it.       *)
Exited(p, P) ==
    LET N == IF P[p].child = Nobody THEN P ELSE Inherits(P, p)
    IN  Goes(p, Psignal(Dead(N, p), N[p].parent, "CLD"), "user")

(* exit(): all signals are ignored, then files are closed, which may sleep. *)
Exiting(p, P) ==
    /\ u_signal' = [u_signal EXCEPT ![p] = [s \in Sig |-> "ign"]]
    /\ Exited(p, P) \/ SleepThrough(p, P, "exit")

Exit(p) == InUser(p) /\ p # InitProc /\ Exiting(p, proc) /\ UNCHANGED init_at

ExitReturns(p) ==
    Resumes(p, "exit") /\ Exited(p, proc) /\ UNCHANGED <<u_signal, init_at>>

(* On the way back to user mode: the first signal is caught, or it kills.  *)
Psig(p) ==
    LET r == Issig(proc, p)
        s == r.sig
    IN  /\ InUser(p) \/ Resumes(p, "trap")
        /\ proc[p].sig \ proc[p].hold # {}
        /\ \/ /\ s = "none"
              /\ Goes(p, r.proc, "user") /\ UNCHANGED <<u_signal, init_at>>
           \/ /\ s # "none" /\ u_signal[p][s] = "dfl"
              /\ Exiting(p, [r.proc EXCEPT ![p].sig = @ \ {s}]) /\ UNCHANGED init_at
           \/ /\ s # "none" /\ u_signal[p][s] = "catch"
              /\ Goes(p, [r.proc EXCEPT ![p].sig = @ \ {s},
                             ![p].hold = IF s \in proc[p].chold THEN @ \cup {s} ELSE @], "user")
              /\ IF s \in proc[p].chold THEN UNCHANGED u_signal
                 ELSE u_signal' = [u_signal EXCEPT ![p][s] = "dfl"]
              /\ init_at' = IF p = InitProc THEN "childeath" ELSE init_at

(* kill(), or an interrupt.  For the dead it makes no difference.  proc[1]  *)
(* cannot be killed; what it does on the other signals it catches is left  *)
(* out.                                                                    *)
Post(q, s) ==
    /\ Live(q) /\ q \in Posted /\ (q = InitProc => s = "CLD")
    /\ proc' = Psignal(proc, q, s)
    /\ UNCHANGED <<u_signal, pc, init_at>>

(* ssig() for signal s: sighold, sigrelse, sigignore, sigpause, and signal *)
(* and sigset, with disposition d or SIG_HOLD, which tell of dead children *)
(* again.                                                                  *)
Sighold(p, s) == Returns(p, [proc EXCEPT ![p].hold = @ \cup {s}]) /\ UNCHANGED u_signal

Sigrelse(p, s) == Returns(p, [proc EXCEPT ![p].hold = @ \ {s}]) /\ UNCHANGED u_signal

Sigignore(p, s) ==
    /\ Returns(p, [proc EXCEPT ![p].hold = @ \ {s}, ![p].sig = @ \ {s}])
    /\ u_signal' = [u_signal EXCEPT ![p][s] = "ign"]

Sigpause(p, s) ==
    /\ Sleep(p, [proc EXCEPT ![p].hold = @ \ {s}], "u", "pause")
    /\ UNCHANGED u_signal

(* Mutant of Retell: nothing is told. *)
RetellNothing(P, p, s) == P

Retell(P, p, s) ==
    IF s = "CLD" /\ Zombies(P, p) # {} THEN Psignal(P, p, "CLD") ELSE P

SigsetHold(p, s) ==
    /\ Returns(p, Retell([proc EXCEPT ![p].hold = @ \cup {s}], p, s))
    /\ UNCHANGED u_signal

Sigset(p, s, d) ==
    /\ Returns(p, Retell([proc EXCEPT ![p].hold = @ \ {s},
                              ![p].chold = IF d = "catch" THEN @ \cup {s} ELSE @], p, s))
    /\ u_signal' = [u_signal EXCEPT ![p][s] = d]

Signal(p, s, d) ==
    /\ Returns(p, Retell([proc EXCEPT ![p].chold = @ \ {s}, ![p].sig = @ \ {s}], p, s))
    /\ u_signal' = [u_signal EXCEPT ![p][s] = d]

Ssig(p, s) ==
    /\ InUser(p) /\ p \in Handlers /\ s # "KILL"
    /\ \/ Sighold(p, s) \/ Sigrelse(p, s) \/ Sigignore(p, s) \/ Sigpause(p, s)
       \/ SigsetHold(p, s)
       \/ \E d \in Disposition : Sigset(p, s, d) \/ Signal(p, s, d)
    /\ UNCHANGED init_at

(* setregs() of exec: what was caught is no longer. *)
Exec(p) ==
    /\ InUser(p) /\ p # InitProc
    /\ Returns(p, [proc EXCEPT ![p].chold = {}])
    /\ u_signal' = [u_signal EXCEPT ![p] =
                       [s \in Sig |-> IF @[s] = "catch" THEN "dfl" ELSE @[s]]]
    /\ UNCHANGED init_at

(* proc[1] goes to spawn or to kill: SIGCLD is not caught while it forks. *)
Disarm ==
    /\ InUser(InitProc) /\ init_at = "main"
    /\ Signal(InitProc, "CLD", "dfl")
    /\ init_at' = "spawning"

(* It has forked, or childeath is at its end: SIGCLD is caught again. *)
Arm ==
    /\ InUser(InitProc) /\ init_at \in {"spawning", "reaped"}
    /\ Signal(InitProc, "CLD", "catch")
    /\ init_at' = "main"

Next ==
    \/ \E p \in Slot :
        \/ Fork(p) \/ ForkReturns(p) \/ Wait(p) \/ WaitReturns(p)
        \/ Pause(p) \/ PauseReturns(p) \/ Exit(p) \/ ExitReturns(p)
        \/ Psig(p) \/ Event(p) \/ Exec(p)
        \/ \E s \in Sig : Post(p, s) \/ Ssig(p, s)
    \/ Arm \/ Disarm

Spec == Init /\ [][Next]_vars

(* Every runnable process runs, events come, and pending signals are       *)
(* looked at before a process is back in user mode.  init does not stop    *)
(* half way: it waits when it has caught a SIGCLD, and catches again after *)
(* that wait and after its forks.                                          *)
Runs(p) == ForkReturns(p) \/ WaitReturns(p) \/ PauseReturns(p) \/ ExitReturns(p) \/ Psig(p)

CanRun(p) ==
    /\ proc[p].stat = "run"
    /\ pc[p] # "user" \/ ~(proc[p].sig \subseteq proc[p].hold)

InitGoes == Wait(InitProc) \/ Arm

(* Weak fairness of Runs(p), of Event(p) and of InitGoes, with what        *)
(* enables each written out.                                               *)
FairSpec ==
    /\ Spec
    /\ \A p \in Slot :
        /\ []<>~CanRun(p) \/ []<><<Runs(p)>>_vars
        /\ []<>~proc[p].snwake \/ []<><<Event(p)>>_vars
    /\ []<>~(InUser(InitProc) /\ init_at # "main") \/ []<><<InitGoes>>_vars
-----------------------------------------------------------------------------
TypeOK ==
    /\ \A q \in Slot :
        /\ proc[q].stat \in {"none", "idl", "run", "sleep", "zomb"}
        /\ proc[q].sig \subseteq Sig /\ proc[q].hold \subseteq Sig \ {"KILL"}
        /\ proc[q].chold \subseteq Sig \ {"KILL"}
        /\ (proc[q].stat = "sleep") <=> (proc[q].wchan # Nowhere)
        /\ proc[q].snwake => proc[q].stat = "sleep"
        /\ proc[q].stat = "none" => proc[q] = Unused
        /\ {proc[q].parent, proc[q].child, proc[q].sibling} \subseteq Slot \cup {Nobody}
    /\ u_signal \in [Slot -> [Sig -> Disposition]]
    /\ pc \in [Slot -> {"user", "trap", "fork", "wait", "pause", "exit"}]
    /\ init_at \in {"main", "childeath", "reaped", "spawning"}

(* The family: the chain of every process holds its children, each once,   *)
(* and the parent of a child has not exited.  fork, exit, wait, and the    *)
(* issig of a process that ignores SIGCLD all change the pointers.         *)
FamilyTree ==
    /\ \A p \in Slot :
        /\ Range(Chain(proc, p)) = {q \in Slot : proc[q].parent = p}
        /\ IsInjective(Chain(proc, p))
    /\ \A q \in Slot \ {InitProc} : proc[q].stat # "none" =>
        proc[q].parent \in Slot /\ Live(proc[q].parent)

(* The children of proc[1] are on its chain, where its wait looks for them: *)
(* newproc says of taking off a child that "nobody else could be diddling  *)
(* with them here."                                                        *)
AdoptedListed ==
    {q \in Slot : proc[q].parent = InitProc} \subseteq Range(Chain(proc, InitProc))

(* Nobody sleeps through a signal: one that came before the sleep kept the *)
(* process from it, one that comes later ends it.                          *)
NoSignalSlept ==
    \A q \in Slot :
        proc[q].stat = "sleep" /\ ~proc[q].snwake => proc[q].sig \subseteq proc[q].hold

(* Who sleeps in wait has no dead child to wait for, its own or adopted,   *)
(* unless it holds SIGCLD.  Nothing but that signal ends the sleep: exit   *)
(* does not wake the channel wait sleeps on.                               *)
NoZombieMissed ==
    \A q \in Slot : pc[q] = "wait" /\ proc[q].stat = "sleep" =>
        Zombies(proc, q) = {} \/ "CLD" \in proc[q].hold

(* A process that is told to die does, wherever it sleeps. *)
KillKills ==
    \A q \in Slot \ {InitProc} :
        (Live(q) /\ "KILL" \in proc[q].sig /\ u_signal[q]["KILL"] = "dfl") ~> ~Live(q)

(* What proc[1] has adopted or forked it lays to rest, all of it when      *)
(* there are no new processes, though init waits once for each SIGCLD it   *)
(* catches, one signal may stand for many dead and none is noted for it    *)
(* while it forks: signal() tells it again of those that are left.         *)
ZombiesLaidToRest ==
    <>[][\A p \in Slot : ~Fork(p)]_vars =>
        \A q \in Slot : []<>~(proc[q].stat = "zomb" /\ proc[q].parent = InitProc)
=============================================================================
