------------------------------ MODULE RecordLock ------------------------------
(***************************************************************************)
(* File and record locking, src/src/uts/m68k/os/flock.c: reclock() as      *)
(* fcntl, locking and mandatory locking call it, blocked, flckadj,         *)
(* deadflck, insflck, delflck and cleanlocks.                              *)
(*                                                                         *)
(* reclock runs without interruption except where it sleeps, on the        *)
(* address of the lock record that is in its way.  Lock records of all     *)
(* files and of the sleepers come from one pool.                           *)
(***************************************************************************)
EXTENDS Integers, SequencesExt

CONSTANTS
    Procs,      \* lock owners, a process id and a system id
    Servers,    \* those whose requests a server carries out, for one remote system
    Files,      \* inodes
    MaxByte,    \* MAXEND: the last byte of a file
    Recs,       \* lock records, flox[]
    Requests,   \* bound: the requests that are made
    NoProc, NoRec, Wanted

VARIABLES
    recs,       \* the lock records
    frlock,     \* the free ones; they are all alike, so that any one will do
    locks,      \* i_filocks of each file: its records, in list order
    sleeplcks,  \* the records of sleeping requests
    pc,         \* where a process stands
    req,        \* the request it is in
    chan,       \* the record it sleeps on
    intr,       \* it has a signal
    ret         \* the answer to a request that was given last

vars == <<recs, frlock, locks, sleeplcks, pc, req, chan, intr, ret>>

Byte == 0..MaxByte
LockType == {"F_RDLCK", "F_WRLCK"}

(* stat is the union of a count, here Wanted or nothing, and of the owner  *)
(* a sleeper waits for.                                                    *)
Record == [type : LockType, start : Byte, end : Byte, pid : Procs,
           stat : Procs \cup {NoProc, Wanted}]
Blank == [type |-> "none", start |-> 0, end |-> 0, pid |-> NoProc, stat |-> NoProc]

(* The operations: F_SETLK, F_SETLKW, and the check before a read or write *)
(* of a file with mandatory locks, which is made with the inode locked.    *)
Request ==
    {l \in [op : {"set", "wait", "check"}, file : Files, type : LockType \cup {"F_UNLCK"},
             start : Byte, end : Byte] :
        l.start <= l.end /\ (l.type = "F_UNLCK" => l.op = "set")}
ASSUME LockAssumption ==
    /\ IsFiniteSet(Procs) /\ Servers \subseteq Procs
    /\ MaxByte \in Nat
    /\ IsFiniteSet(Recs)
    /\ NoProc \notin Procs /\ Wanted \notin Procs /\ NoProc # Wanted
    /\ NoRec \notin Recs
    /\ Requests \subseteq Request

NoRequest == [op |-> "none"]
Result == {"none", "ok", "clear", "EAGAIN", "EDEADLK", "ENOLCK", "EBUSY", "EINTR"}
-----------------------------------------------------------------------------
Overlap(l, m) == l.start <= m.end /\ m.start <= l.end

(* A lock of type m is in the way of one of type l. *)
InTheWay(l, m) == m.type = "F_WRLCK" \/ (m.type = "F_RDLCK" /\ l.type = "F_WRLCK")

(* blocked(): the first lock of another owner that is in the way of l. *)
Blocked(s, r, p, l) ==
    LET hit == {i \in DOMAIN s : r[s[i]].pid # p /\ Overlap(l, r[s[i]]) /\ InTheWay(l, r[s[i]])}
    IN  IF hit = {} THEN NoRec ELSE s[Min(hit)]

(* ... and its `insrt', where the update of the list is to begin: the last *)
(* lock that starts before l, or an earlier one of the owner that reaches  *)
(* l; 0 for the head of the list.                                          *)
Insrt(s, r, p, l) ==
    LET before == {i \in DOMAIN s : \A j \in 1..i : r[s[j]].start < l.start}
        reach  == {i \in before : r[s[i]].pid = p /\ l.start - 1 <= r[s[i]].end}
    IN  IF reach # {} THEN Min(reach) ELSE Max(before \cup {0})

(* The owner a recorded sleeper waits for. *)
WaitsFor(r, sl, q) ==
    LET mine == {x \in sl : r[x].pid = q}
    IN  IF mine = {} THEN NoProc ELSE r[CHOOSE x \in mine : TRUE].stat

(* deadflck(): from owner to owner, p comes in its own way. *)
Deadflck(r, sl, p, q) ==
    LET at[n \in 0..Cardinality(Procs)] == IF n = 0 THEN q ELSE WaitsFor(r, sl, at[n - 1])
    IN  \E n \in DOMAIN at : at[n] = p
-----------------------------------------------------------------------------
(* The lists while they are worked on: the records, the free ones, the     *)
(* file's list; the request as far as it has grown, the record after which *)
(* it goes; the records whose sleepers are woken; and how far the scan is. *)

(* Where x is in the list; 0 for the head of the list. *)
IndexIn(s, x) == IF x = NoRec THEN 0 ELSE CHOOSE i \in DOMAIN s.list : s.list[i] = x

(* WAKEUP(fl) *)
WakeRec(s, x) ==
    IF s.recs[x].stat = NoProc THEN s
    ELSE [s EXCEPT !.woken = @ \cup {x}, !.recs[x] = [@ EXCEPT !.stat = NoProc]]

(* Mutant of Delflck: the record is not freed. *)
DelflckLeak(s, x) ==
    [WakeRec(s, x) EXCEPT !.list = RemoveAt(@, IndexIn(s, x)), !.recs[x] = Blank]

(* delflck() *)
Delflck(s, x) ==
    [WakeRec(s, x) EXCEPT !.list = RemoveAt(@, IndexIn(s, x)),
                          !.recs[x] = Blank,
                          !.free = @ \cup {x}]

AnyOf(X) == CHOOSE x \in X : TRUE

(* insflck(), after the i-th record of the list. *)
Insflck(s, l, p, i) ==
    IF s.free = {} THEN [s EXCEPT !.scan = "ENOLCK"]
    ELSE LET new == AnyOf(s.free)
         IN  [s EXCEPT !.free = @ \ {new},
                       !.list = InsertAt(@, i + 1, new),
                       !.recs[new] = [type |-> l.type, start |-> l.start, end |-> l.end,
                                      pid |-> p, stat |-> NoProc]]

(* The position from i on after which a lock that starts at a goes. *)
After(s, i, a) ==
    IF i = 0 THEN 0
    ELSE Max({i} \cup {j \in i..Len(s.list) : \A k \in i..j : s.recs[s.list[k]].start < a})

(* fl->prev *)
Prev(s, x) == LET i == IndexIn(s, x) IN IF i = 1 THEN NoRec ELSE s.list[i - 1]

(* Mutant of Trim: whoever sleeps on the lock is not told. *)
TrimQuietly(s, x) == [s EXCEPT !.recs[x] = [@ EXCEPT !.end = s.ld.start - 1], !.insrt = x]

(* The end of an own lock is given up. *)
Trim(s, x) == [WakeRec(s, x) EXCEPT !.recs[x] = [@ EXCEPT !.end = s.ld.start - 1], !.insrt = x]

(* An own lock x of the type of the request, overlapped by it or next to   *)
(* it: the request swallows it ...                                         *)
Swallow(s, x) ==
    LET m == s.recs[x]
        grown == [s EXCEPT !.ld.start = Min({@, m.start}), !.ld.end = Max({@, m.end}),
                           !.insrt = IF m.start <= s.ld.start THEN Prev(s, x) ELSE @,
                           !.scan = IF s.ld.end <= m.end THEN "last" ELSE @]
    IN  Delflck(grown, x)

(* Mutants of the two: off by one. *)
LeadsFrom(l, m) == m.start <= l.start
ApartNot(l, m) == l.end < m.start

(* Lock m reaches out before l; l ends before m and not next to it. *)
Leads(l, m) == m.start < l.start
Apart(l, m) == l.end < m.start - 1

(* Mutant of Split: no record for the part after the request. *)
SplitShort(s, x, p) ==
    LET m == s.recs[x]
        cut == IF Leads(s.ld, m) THEN Trim(s, x)
               ELSE Delflck([s EXCEPT !.insrt = IF m.start = s.ld.start THEN Prev(s, x) ELSE @], x)
    IN  [cut EXCEPT !.scan = IF s.ld.end < m.end THEN "last" ELSE @]

(* ... one of another type, or of any if the request is an unlock, loses   *)
(* the part in common: what is after it needs a record of its own.         *)
Split(s, x, p) ==
    LET m == s.recs[x]
        tail == [m EXCEPT !.start = s.ld.end + 1]
        t == IF s.ld.end >= m.end THEN s
             ELSE [Insflck(s, tail, p, After(s, IndexIn(s, x), tail.start))
                       EXCEPT !.scan = IF s.free = {} THEN "ENOLCK" ELSE "last"]
    IN  IF t.scan = "ENOLCK" THEN t
        ELSE IF Leads(s.ld, m) THEN Trim(t, x)
        ELSE Delflck([t EXCEPT !.insrt = IF m.start = s.ld.start THEN Prev(s, x) ELSE @], x)

(* What flckadj does about the record x of the list. *)
Adjust(s, x, p) ==
    LET m == s.recs[x]
        same == m.type = s.ld.type
    IN  IF s.scan # "go" \/ m.pid # p THEN s
        ELSE IF Apart(s.ld, m) THEN [s EXCEPT !.scan = "last"]
        ELSE IF Apart(m, s.ld) THEN [s EXCEPT !.insrt = x]
        ELSE IF same /\ m.start <= s.ld.start /\ s.ld.end <= m.end THEN [s EXCEPT !.scan = "over"]
        ELSE IF same THEN Swallow(s, x)
        ELSE IF Overlap(s.ld, m) THEN Split(s, x, p)
        ELSE IF s.ld.end < m.start THEN [s EXCEPT !.scan = "last"] ELSE s

(* flckadj(), the scan beginning at the i-th record of the list. *)
Flckadj(r, fr, list, p, l, i) ==
    LET s0 == [recs |-> r, free |-> fr, list |-> list, ld |-> l, woken |-> {}, scan |-> "go",
               insrt |-> IF i = 0 THEN NoRec ELSE list[i]]
        at[n \in 0..Len(list)] ==
            IF n = 0 THEN s0 ELSE IF n < i THEN at[n - 1] ELSE Adjust(at[n - 1], list[n], p)
        s == at[Len(list)]
    IN  IF s.scan \in {"over", "ENOLCK"} \/ l.type = "F_UNLCK" THEN s
        ELSE Insflck(s, s.ld, p, After(s, IndexIn(s, s.insrt), s.ld.start))
-----------------------------------------------------------------------------
Init ==
    /\ recs = [x \in Recs |-> Blank]
    /\ frlock = Recs
    /\ locks = [f \in Files |-> << >>]
    /\ sleeplcks = {}
    /\ pc = [p \in Procs |-> "user"]
    /\ req = [p \in Procs |-> NoRequest]
    /\ chan = [p \in Procs |-> NoRec]
    /\ intr = [p \in Procs |-> FALSE]
    /\ ret = "none"

(* wakeup() of everybody who sleeps on one of the records X. *)
Wakeup(X) == chan' = [p \in Procs |-> IF chan[p] \in X THEN NoRec ELSE chan[p]]

Return(p, result) ==
    /\ pc' = [pc EXCEPT ![p] = "user"]
    /\ req' = [req EXCEPT ![p] = NoRequest]
    /\ intr' = [intr EXCEPT ![p] = FALSE]
    /\ ret' = result

(* The lists are as they were on entry: r, fr, sl. *)
Refuse(p, result, r, fr, sl) ==
    /\ recs' = r /\ frlock' = fr /\ sleeplcks' = sl
    /\ Return(p, result)
    /\ UNCHANGED <<locks, chan>>

(* A lock is set, or given up. *)
Update(p, l, i, r, fr, sl) ==
    LET s == Flckadj(r, fr, locks[l.file], p, l, i)
    IN  /\ recs' = s.recs /\ frlock' = s.free /\ sleeplcks' = sl
        /\ locks' = [locks EXCEPT ![l.file] = s.list]
        /\ Wakeup(s.woken)
        /\ Return(p, IF s.scan = "ENOLCK" THEN "ENOLCK" ELSE "ok")

(* The request is recorded and p sleeps on the lock x that is in its way. *)
SleepOn(p, l, x, r, fr, sl) ==
    /\ recs' = [r EXCEPT ![x].stat = Wanted,
                         ![AnyOf(fr)] = [type |-> l.type, start |-> l.start, end |-> l.end,
                                         pid |-> p, stat |-> r[x].pid]]
    /\ frlock' = fr \ {AnyOf(fr)}
    /\ sleeplcks' = sl \cup {AnyOf(fr)}
    /\ pc' = [pc EXCEPT ![p] = "asleep"]
    /\ req' = [req EXCEPT ![p] = l]
    /\ chan' = [chan EXCEPT ![p] = x]
    /\ ret' = "none"
    /\ UNCHANGED <<locks, intr>>

(* Mutant of Deadlock: only the owner of the lock itself is looked at. *)
DeadlockShort(r, sl, p, x) == WaitsFor(r, sl, r[x].pid) = p

Deadlock(r, sl, p, x) == Deadflck(r, sl, p, r[x].pid)

(* Once round the loop of reclock(). *)
Reclock(p, l, r, fr, sl) ==
    LET list == locks[l.file]
        x == Blocked(list, r, p, l)
    IN  \/ /\ l.type = "F_UNLCK"
           /\ Update(p, l, IF list = << >> THEN 0 ELSE 1, r, fr, sl)
        \/ /\ l.type # "F_UNLCK" /\ x = NoRec
           /\ IF l.op = "check" THEN Refuse(p, "clear", r, fr, sl)
              ELSE Update(p, l, Insrt(list, r, p, l), r, fr, sl)
        \/ /\ l.type # "F_UNLCK" /\ x # NoRec
           /\ IF l.op = "set" THEN Refuse(p, "EAGAIN", r, fr, sl)
              ELSE IF Deadlock(r, sl, p, x) THEN Refuse(p, "EDEADLK", r, fr, sl)
              ELSE IF fr = {} THEN Refuse(p, "ENOLCK", r, fr, sl)
              ELSE IF p \in Servers THEN Refuse(p, "EBUSY", r, fr, sl)
              ELSE SleepOn(p, l, x, r, fr, sl)
-----------------------------------------------------------------------------
(* Nobody is running in a call, so that another process may. *)
Idle == \A q \in Procs : pc[q] # "call"

(* A request. *)
Call(p, l) ==
    /\ pc[p] = "user" /\ Idle
    /\ pc' = [pc EXCEPT ![p] = "call"]
    /\ req' = [req EXCEPT ![p] = l]
    /\ ret' = "none"
    /\ UNCHANGED <<recs, frlock, locks, sleeplcks, chan, intr>>

Called(p) == pc[p] = "call" /\ Reclock(p, req[p], recs, frlock, sleeplcks)

(* A signal for a sleeping process, or for one that has just been woken. *)
Signal(p) ==
    /\ pc[p] = "asleep" /\ ~intr[p]
    /\ intr' = [intr EXCEPT ![p] = TRUE]
    /\ chan' = [chan EXCEPT ![p] = NoRec]
    /\ ret' = "none"
    /\ UNCHANGED <<recs, frlock, locks, sleeplcks, pc, req>>

(* The sleeper runs again: its record goes (and no one sleeps on it) ...   *)
Mine(p) == CHOOSE x \in sleeplcks : recs[x].pid = p
Unrecorded(p) == [recs EXCEPT ![Mine(p)] = Blank]

(* ... and it gives up or tries again ...                                  *)
Resume(p) ==
    /\ pc[p] = "asleep" /\ chan[p] = NoRec /\ Idle /\ req[p].op # "check"
    /\ LET r == Unrecorded(p)
           fr == frlock \cup {Mine(p)}
           sl == sleeplcks \ {Mine(p)}
       IN  IF intr[p] THEN Refuse(p, "EINTR", r, fr, sl)
           ELSE Reclock(p, req[p], r, fr, sl)

(* ... but first gets the inode again if it had it.                        *)
Plock(p) ==
    /\ pc[p] = "asleep" /\ chan[p] = NoRec /\ Idle /\ req[p].op = "check"
    /\ recs' = Unrecorded(p)
    /\ frlock' = frlock \cup {Mine(p)}
    /\ sleeplcks' = sleeplcks \ {Mine(p)}
    /\ pc' = [pc EXCEPT ![p] = "plock"]
    /\ ret' = "none"
    /\ UNCHANGED <<locks, req, chan, intr>>

Plocked(p) ==
    /\ pc[p] = "plock" /\ Idle
    /\ IF intr[p] THEN Refuse(p, "EINTR", recs, frlock, sleeplcks)
       ELSE Reclock(p, req[p], recs, frlock, sleeplcks)

(* cleanlocks(): the list of the file without the locks of the owners P ... *)
Unlocked(f, P) ==
    LET s0 == [recs |-> recs, free |-> frlock, list |-> locks[f], woken |-> {}]
        at[n \in 0..Len(locks[f])] ==
            IF n = 0 THEN s0
            ELSE IF recs[locks[f][n]].pid \in P THEN Delflck(at[n - 1], locks[f][n])
            ELSE at[n - 1]
    IN  at[Len(locks[f])]

(* ... takes the place of what it was. *)
Cleanlocks(f, P) ==
    LET s == Unlocked(f, P)
    IN  /\ recs' = s.recs /\ frlock' = s.free
        /\ locks' = [locks EXCEPT ![f] = s.list]
        /\ Wakeup(s.woken)
        /\ ret' = "none"
        /\ UNCHANGED <<sleeplcks, pc, req, intr>>

(* A close of the file by p; the end of the remote system. *)
Close(p, f) == pc[p] = "user" /\ Idle /\ Cleanlocks(f, {p})
CleanSystem(f) == Servers # {} /\ Idle /\ Cleanlocks(f, Servers)

Next ==
    \/ \E p \in Procs :
         \/ \E l \in Requests : Call(p, l)
         \/ Called(p) \/ Signal(p) \/ Resume(p) \/ Plock(p) \/ Plocked(p)
         \/ \E f \in Files : Close(p, f)
    \/ \E f \in Files : CleanSystem(f)

Spec == Init /\ [][Next]_vars
-----------------------------------------------------------------------------
(* Every variable has a value of its kind. *)
TypeOK ==
    /\ recs \in [Recs -> Record \cup {Blank}]
    /\ frlock \subseteq Recs
    /\ locks \in [Files -> Seq(Recs)]
    /\ sleeplcks \subseteq Recs
    /\ pc \in [Procs -> {"user", "call", "asleep", "plock"}]
    /\ req \in [Procs -> Request \cup {NoRequest}]
    /\ chan \in [Procs -> Recs \cup {NoRec}]
    /\ intr \in [Procs -> BOOLEAN]
    /\ ret \in Result

(* Every lock record is on one list, and once. *)
PoolAccounted ==
    /\ frlock \cup sleeplcks \cup UNION {ToSet(locks[f]) : f \in Files} = Recs
    /\ frlock \cap sleeplcks = {}
    /\ \A f \in Files :
         IsInjective(locks[f]) /\ ToSet(locks[f]) \cap (frlock \cup sleeplcks) = {}
    /\ \A f, g \in Files : f # g => ToSet(locks[f]) \cap ToSet(locks[g]) = {}

(* A file's list is ordered, and an owner's locks are as few as they can   *)
(* be: apart from each other, and not even next to each other if they are  *)
(* of one type.  flckadj and blocked rely on it when they stop early.      *)
Coalesced ==
    \A f \in Files : \A i, j \in DOMAIN locks[f] :
        LET l == recs[locks[f][i]]
            m == recs[locks[f][j]]
        IN  i < j =>
              /\ l.start <= m.start
              /\ l.pid = m.pid => l.end < m.start
              /\ l.pid = m.pid /\ l.type = m.type => l.end + 1 < m.start

(* Who sleeps has reason to and will be told: the record it sleeps on is   *)
(* a lock of the file that is still in its way and has wakeflg set.        *)
SleeperBlocked ==
    \A p \in Procs : chan[p] # NoRec =>
        /\ chan[p] \in ToSet(locks[req[p].file])
        /\ recs[chan[p]].stat = Wanted /\ recs[chan[p]].pid # p
        /\ Overlap(req[p], recs[chan[p]]) /\ InTheWay(req[p], recs[chan[p]])

(* No owners wait for each other in a circle: not as they sleep, and not   *)
(* as deadflck sees them, with the records of those that have been woken,  *)
(* else it would not end.                                                  *)
NoCircle ==
    LET Circle(next) == \E P \in (SUBSET Procs) \ {{}} : \A p \in P : next[p] \in P
    IN  /\ ~Circle([p \in Procs |-> IF chan[p] = NoRec THEN NoProc ELSE recs[chan[p]].pid])
        /\ ~Circle([p \in Procs |-> WaitsFor(recs, sleeplcks, p)])

-----------------------------------------------------------------------------
(* What locking promises, ByteLocks: each byte is locked or not by each    *)
(* owner, a request covers all of its bytes or none.                       *)
BytesOf(f, l) == {<<f, l.pid, b, l.type>> : b \in l.start..l.end}

Held == UNION {UNION {BytesOf(f, recs[x]) : x \in ToSet(locks[f])} : f \in Files}

ByByte == INSTANCE ByteLocks WITH Bytes <- Byte, held <- Held

(* Lists of records that are split, trimmed and joined are the same to     *)
(* their owners as a lock on each byte; a request that runs out of records *)
(* leaves what is outside of it alone.                                     *)
ImplementsByteLocks == ByByte!Spec
=============================================================================
