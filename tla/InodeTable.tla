------------------------------ MODULE InodeTable ------------------------------
(***************************************************************************)
(* The inodes in core and the allocation of inodes on a file system: iget, *)
(* iput, plock and prele (os/iget.c, pipe.c), s5iread, s5iput and s5iupdat *)
(* (fs/s5/s5iget.c), s5ialloc and s5ifree (fs/s5/s5alloc.c).               *)
(*                                                                         *)
(* The kernel is not preempted: a process that has not slept is curproc,   *)
(* and nobody else takes a step.  An action is a piece of one of these     *)
(* routines up to a branch, a call or a sleep.  One file system is         *)
(* mounted; an inode is its mode and its links, a file or free.            *)
(***************************************************************************)
EXTENDS Integers, SequencesExt

CONSTANTS
    Procs,
    NINODE,     \* entries of the table inode[]
    NS5INODE,   \* entries of the table s5inode[]
    NIno,       \* inodes of the file system
    NICINOD,    \* inode numbers the super block has room for
    INOPB,      \* inodes in a block
    MAXLINK,
    Unreadable, \* inodes in blocks whose read may fail
    Named,      \* bound: inodes that names are looked up for
    Linkable,   \* bound: those that get new links
    Openable,   \* bound: those that stay open
    Nobody

ASSUME TableAssumption ==
    /\ {NINODE, NS5INODE, NIno, NICINOD, INOPB, MAXLINK} \subseteq Nat \ {0}
    /\ IsFiniteSet(Procs)
    /\ Unreadable \subseteq 1..NIno /\ Linkable \cup Openable \subseteq Named /\ Named \subseteq 1..NIno /\ Nobody \notin Procs

Slot == 1..NINODE
Ino == 1..NIno

VARIABLES
    inode,      \* the table of inodes in core
    ifreelist,  \* its entries without references, next to be reused first
    s5free,     \* entries on s5ifreelist
    dinode,     \* the inodes in the blocks of the file system
    s_inode, s_ninode,  \* numbers of free inodes in the super block
    s_tinode,   \* number of all free inodes
    s_ilock,    \* whether the allocation of inodes is locked
    f_inode,    \* the inode of an open file, which processes share
    proc,       \* where a process is, and with which inode
    curproc     \* the process that runs and has not slept

super == <<s_inode, s_ninode, s_tinode, s_ilock>>
table == <<inode, ifreelist, s5free>>
fs == <<dinode, super>>
vars == <<table, fs, f_inode, proc, curproc>>

FreeInode == [mode |-> "free", nlink |-> 0]
None == 0

(* An entry that is on no hash chain; what it last held is not looked at. *)
Vacant == [number |-> 0, hashed |-> FALSE, ilock |-> FALSE, iwant |-> FALSE, count |-> 0,
           changed |-> FALSE, fsptr |-> FALSE, mode |-> "free", nlink |-> 0]

Idle == [pc |-> "user", ip |-> None, ino |-> 0, by |-> "user", u_error |-> FALSE]

(* inoinit, and a file system with no files. *)
Init ==
    /\ inode = [s \in Slot |-> Vacant]
    /\ ifreelist = [i \in Slot |-> NINODE + 1 - i]
    /\ s5free = NS5INODE
    /\ dinode = [n \in Ino |-> FreeInode]
    /\ s_inode = [i \in 0..(NICINOD - 1) |-> IF i < NIno THEN i + 1 ELSE 0]
    /\ s_ninode = IF NICINOD < NIno THEN NICINOD ELSE NIno
    /\ s_tinode = NIno
    /\ s_ilock = FALSE
    /\ f_inode = None
    /\ proc = [p \in Procs |-> Idle]
    /\ curproc = Nobody
-----------------------------------------------------------------------------
(* p is at l and may run. *)
At(p, l) == proc[p].pc = l /\ curproc \in {p, Nobody}

(* p goes on at l without a sleep, or sleeps and goes on there. *)
RunsOn(p, l) == curproc' = p /\ proc' = [proc EXCEPT ![p].pc = l]
SleepsTo(p, l) == curproc' = Nobody /\ proc' = [proc EXCEPT ![p].pc = l]

Entry(p) == inode[proc[p].ip]

(* wakeup: P with those who sleep on the inode in s, or on s_ilock, awake. *)
WakeInode(P, s) ==
    [q \in Procs |->
        IF P[q].ip # s THEN P[q]
        ELSE IF P[q].pc = "isleep" THEN [P[q] EXCEPT !.pc = "iget", !.ip = None]
        ELSE IF P[q].pc = "psleep" THEN [P[q] EXCEPT !.pc = "plock"] ELSE P[q]]

(* Mutant of WakeIlock: only those who allocate are woken. *)
WakeIlockSome(P) ==
    [q \in Procs |-> IF P[q].pc = "asleep" THEN [P[q] EXCEPT !.pc = "ialloc"] ELSE P[q]]

WakeIlock(P) ==
    [q \in Procs |->
        IF P[q].pc = "asleep" THEN [P[q] EXCEPT !.pc = "ialloc"]
        ELSE IF P[q].pc = "fsleep" THEN [P[q] EXCEPT !.pc = "ifree"] ELSE P[q]]

(* prele *)
Released(e) == [e EXCEPT !.ilock = FALSE, !.iwant = FALSE]
Awakened(P, s) == IF inode[s].iwant THEN WakeInode(P, s) ELSE P

(* s5iupdat, after its sleep in bread: the inode goes into its block. *)
Iupdat(p) ==
    /\ dinode' = [dinode EXCEPT ![Entry(p).number] =
                     [mode |-> Entry(p).mode, nlink |-> Entry(p).nlink]]

(* A call of iget is over without an inode. *)
GetsNull(P, p) ==
    IF P[p].by = "user" THEN /\ proc' = [P EXCEPT ![p] = Idle]
                             /\ UNCHANGED super
    ELSE /\ s_ilock' = FALSE
         /\ proc' = [WakeIlock(P) EXCEPT ![p] = Idle]
         /\ UNCHANGED <<s_inode, s_ninode, s_tinode>>
-----------------------------------------------------------------------------
(* iget *)

(* Mutant of Cached: inodes that are locked are passed by. *)
CachedUnlocked(n) == {s \in Slot : inode[s].hashed /\ inode[s].number = n /\ ~inode[s].ilock}

Cached(n) == {s \in Slot : inode[s].hashed /\ inode[s].number = n}

(* p is at the head of iget for inode n.  Names are looked up without a    *)
(* lock on what they name, so the number may be out of date.               *)
Seeks(p, n) ==
    \/ At(p, "user") /\ proc[p].ip = None /\ n \in Named
    \/ At(p, "iget") /\ proc[p].ino = n

IgetBusy(p, n) ==
    /\ Seeks(p, n)
    /\ \E s \in Cached(n) :
        /\ inode[s].ilock
        /\ inode' = [inode EXCEPT ![s].iwant = TRUE]
        /\ proc' = [proc EXCEPT ![p].pc = "isleep", ![p].ip = s, ![p].ino = n]
    /\ curproc' = Nobody
    /\ UNCHANGED <<ifreelist, s5free, dinode, super, f_inode>>

(* What iget returns to: the caller, or the middle of s5ialloc. *)
Got(p, s) ==
    LET to(l) == proc' = [proc EXCEPT ![p].pc = l, ![p].ip = s, ![p].ino = 0] IN
    IF proc[p].by = "user" THEN to("locked") /\ curproc' = Nobody ELSE to("agot") /\ curproc' = p

(* The free list without the entry in s. *)
OffList(s) == RemoveAt(ifreelist, CHOOSE i \in DOMAIN ifreelist : ifreelist[i] = s)

IgetFound(p, n) ==
    /\ Seeks(p, n)
    /\ \E s \in Cached(n) :
        /\ ~inode[s].ilock
        /\ inode' = [inode EXCEPT ![s].ilock = TRUE, ![s].count = @ + 1]
        /\ ifreelist' = IF inode[s].count = 0 THEN OffList(s) ELSE ifreelist
        /\ Got(p, s)
    /\ UNCHANGED <<s5free, dinode, super, f_inode>>

(* s is the first entry of the free list that is not locked. *)
Unlocked(s) ==
    \E i \in DOMAIN ifreelist :
        ifreelist[i] = s /\ ~inode[s].ilock /\ \A j \in 1..(i - 1) : inode[ifreelist[j]].ilock

(* The entry leaves its old hash chain; s5iread sleeps in bread. *)
IgetReads(p, n) ==
    /\ Seeks(p, n) /\ Cached(n) = {}
    /\ \E s \in Slot :
        /\ Unlocked(s)
        /\ inode' = [inode EXCEPT ![s] = [Vacant EXCEPT !.number = n, !.hashed = TRUE,
                        !.ilock = TRUE, !.count = 1, !.fsptr = inode[s].fsptr]]
        /\ ifreelist' = OffList(s)
        /\ proc' = [proc EXCEPT ![p].pc = "iread", ![p].ip = s, ![p].ino = 0]
    /\ curproc' = Nobody
    /\ UNCHANGED <<s5free, dinode, super, f_inode>>

IgetOverflow(p, n) ==
    /\ Seeks(p, n) /\ Cached(n) = {} /\ ~\E s \in Slot : Unlocked(s)
    /\ GetsNull(proc, p)
    /\ curproc' = Nobody
    /\ UNCHANGED <<table, dinode, f_inode>>

Iread(p) ==
    /\ At(p, "iread") /\ ~proc[p].u_error
    /\ LET s == proc[p].ip IN
        /\ Entry(p).fsptr \/ s5free > 0
        /\ inode' = [inode EXCEPT ![s].fsptr = TRUE, ![s].mode = dinode[Entry(p).number].mode,
                        ![s].nlink = dinode[Entry(p).number].nlink]
        /\ s5free' = IF Entry(p).fsptr THEN s5free ELSE s5free - 1
        /\ Got(p, s)
    /\ UNCHANGED <<ifreelist, dinode, super, f_inode>>

(* Mutant of S5Freed: the s5inode is forgotten. *)
S5Forgotten(p) == s5free

S5Freed(p) == IF Entry(p).fsptr THEN s5free + 1 ELSE s5free

(* The read failed, or no s5inode is free. *)
IreadFails(p) ==
    /\ At(p, "iread")
    /\ proc[p].u_error \/ Entry(p).number \in Unreadable \/ (~Entry(p).fsptr /\ s5free = 0)
    /\ LET s == proc[p].ip IN
        /\ inode' = [inode EXCEPT ![s] = Vacant]
        /\ s5free' = S5Freed(p)
        /\ ifreelist' = Append(ifreelist, s)
        /\ GetsNull(Awakened(proc, s), p)
    /\ curproc' = Nobody
    /\ UNCHANGED <<dinode, f_inode>>
-----------------------------------------------------------------------------
(* What a process does with an inode: plock, prele, links, and sync. *)
Plocks(p) == At(p, "plock") \/ (At(p, "user") /\ proc[p].ip # None)

PlockWaits(p) ==
    /\ Plocks(p) /\ Entry(p).ilock
    /\ inode' = [inode EXCEPT ![proc[p].ip].iwant = TRUE]
    /\ SleepsTo(p, "psleep")
    /\ UNCHANGED <<ifreelist, s5free, dinode, super, f_inode>>

PlockLocks(p) ==
    /\ Plocks(p) /\ ~Entry(p).ilock
    /\ inode' = [inode EXCEPT ![proc[p].ip].ilock = TRUE]
    /\ SleepsTo(p, "locked")
    /\ UNCHANGED <<ifreelist, s5free, dinode, super, f_inode>>

Prele(p) ==
    /\ At(p, "locked")
    /\ inode' = [inode EXCEPT ![proc[p].ip] = Released(@)]
    /\ proc' = [Awakened(proc, proc[p].ip) EXCEPT ![p].pc = "user"]
    /\ UNCHANGED <<ifreelist, s5free, dinode, super, curproc, f_inode>>

(* copen leaves a file open, closef has its inode to release.              *)
Open(p) ==
    /\ At(p, "user") /\ proc[p].ip # None /\ f_inode = None /\ Entry(p).number \in Openable
    /\ f_inode' = proc[p].ip
    /\ proc' = [proc EXCEPT ![p].ip = None]
    /\ UNCHANGED <<table, fs, curproc>>

Closef(p) ==
    /\ At(p, "user") /\ proc[p].ip = None /\ f_inode # None
    /\ f_inode' = None
    /\ proc' = [proc EXCEPT ![p].ip = f_inode]
    /\ UNCHANGED <<table, fs, curproc>>

(* NI_LINK, with an s5iupdat; NI_DEL, which has a directory entry. *)
Link(p) ==
    /\ At(p, "locked") /\ Entry(p).nlink < MAXLINK /\ Entry(p).number \in Linkable
    /\ inode' = [inode EXCEPT ![proc[p].ip].nlink = @ + 1, ![proc[p].ip].changed = TRUE]
    /\ SleepsTo(p, "linked")
    /\ UNCHANGED <<ifreelist, s5free, dinode, super, f_inode>>

Linked(p) ==
    /\ At(p, "linked")
    /\ Iupdat(p)
    /\ inode' = [inode EXCEPT ![proc[p].ip].changed = FALSE]
    /\ SleepsTo(p, "locked")
    /\ UNCHANGED <<ifreelist, s5free, super, f_inode>>

Unlink(p) ==
    /\ At(p, "locked") /\ Entry(p).nlink > 0
    /\ inode' = [inode EXCEPT ![proc[p].ip].nlink = @ - 1, ![proc[p].ip].changed = TRUE]
    /\ UNCHANGED <<ifreelist, s5free, dinode, super, proc, curproc, f_inode>>

(* Mutant of Sync: the inode is not referenced meanwhile. *)
SyncUncounted(p) ==
    /\ At(p, "user") /\ proc[p].ip = None
    /\ \E s \in Slot :
        /\ ~inode[s].ilock /\ inode[s].count # 0 /\ inode[s].changed
        /\ inode' = [inode EXCEPT ![s].ilock = TRUE]
        /\ proc' = [proc EXCEPT ![p].pc = "sync", ![p].ip = s]
    /\ UNCHANGED <<ifreelist, s5free, dinode, super, curproc, f_inode>>

(* sysupdate, of one of the inodes it finds. *)
Sync(p) ==
    /\ At(p, "user") /\ proc[p].ip = None
    /\ \E s \in Slot :
        /\ ~inode[s].ilock /\ inode[s].count # 0 /\ inode[s].changed
        /\ inode' = [inode EXCEPT ![s].ilock = TRUE, ![s].count = @ + 1]
        /\ proc' = [proc EXCEPT ![p].pc = "sync", ![p].ip = s]
    /\ UNCHANGED <<ifreelist, s5free, dinode, super, curproc, f_inode>>

(* s5iupdat of sysupdate and of s5iput, and of s5ialloc that found the     *)
(* inode taken.                                                            *)
Updates(p, from, to) ==
    /\ At(p, from)
    /\ Iupdat(p)
    /\ inode' = [inode EXCEPT ![proc[p].ip].changed = FALSE]
    /\ RunsOn(p, to)
    /\ UNCHANGED <<ifreelist, s5free, super, f_inode>>

(* iflush for an umount that finds a busy inode behind those of slots      *)
(* 1..k: it has taken those off their hash chains.                         *)
Iflush(k) ==
    /\ curproc = Nobody
    /\ \A s \in 1..k : inode[s].count = 0 /\ ~inode[s].ilock
    /\ inode' = [s \in Slot |-> IF s <= k THEN [Vacant EXCEPT !.fsptr = inode[s].fsptr] ELSE inode[s]]
    /\ UNCHANGED <<ifreelist, s5free, dinode, super, proc, curproc, f_inode>>
-----------------------------------------------------------------------------
(* iput *)
Iputs(p) == At(p, "iput") \/ At(p, "locked")

(* iput has released the inode. *)
Done(p, P) ==
    IF proc[p].by = "user" THEN proc' = [P EXCEPT ![p] = Idle] /\ curproc' = Nobody
    ELSE proc' = [P EXCEPT ![p].pc = "apop", ![p].ip = None] /\ curproc' = p

IputShared(p) ==
    /\ Iputs(p) /\ Entry(p).count > 1
    /\ inode' = [inode EXCEPT ![proc[p].ip] = Released([Entry(p) EXCEPT !.count = @ - 1])]
    /\ Done(p, Awakened(proc, proc[p].ip))
    /\ UNCHANGED <<ifreelist, s5free, dinode, super, f_inode>>

(* The last reference: put the entry on the free list. *)
IputFrees(p) ==
    /\ At(p, "put")
    /\ inode' = [inode EXCEPT ![proc[p].ip] = Released([Entry(p) EXCEPT !.count = @ - 1])]
    /\ ifreelist' = Append(ifreelist, proc[p].ip)
    /\ Done(p, Awakened(proc, proc[p].ip))
    /\ UNCHANGED <<s5free, dinode, super, f_inode>>

(* Mutant of LastRef: whoever releases a file without links frees it. *)
LastRefAny(p) == Iputs(p)

LastRef(p) == Iputs(p) /\ Entry(p).count = 1

(* s5itrunc writes the inode with its links, and frees the blocks. *)
IputTruncates(p) ==
    /\ LastRef(p) /\ Entry(p).nlink = 0 /\ Entry(p).mode = "file"
    /\ inode' = [inode EXCEPT ![proc[p].ip].changed = TRUE]
    /\ SleepsTo(p, "itrunc")
    /\ UNCHANGED <<ifreelist, s5free, dinode, super, f_inode>>

Truncated(p) ==
    /\ At(p, "itrunc")
    /\ Iupdat(p)
    /\ SleepsTo(p, "ifree")
    /\ UNCHANGED <<table, super, f_inode>>

(* Mutant of IputFreed: an inode that is free already is freed. *)
IputFreedAgain(p) ==
    /\ LastRef(p) /\ Entry(p).nlink = 0 /\ Entry(p).mode = "free"
    /\ inode' = [inode EXCEPT ![proc[p].ip].changed = TRUE]
    /\ SleepsTo(p, "ifree")
    /\ UNCHANGED <<ifreelist, s5free, dinode, super, f_inode>>

(* s5ifree does not put a free inode on the free list. *)
IputFreed(p) ==
    /\ LastRef(p) /\ Entry(p).nlink = 0 /\ Entry(p).mode = "free"
    /\ inode' = [inode EXCEPT ![proc[p].ip].changed = TRUE]
    /\ SleepsTo(p, "update")
    /\ UNCHANGED <<ifreelist, s5free, dinode, super, f_inode>>

IputUpdates(p) ==
    /\ LastRef(p) /\ Entry(p).nlink > 0
    /\ IF Entry(p).changed THEN SleepsTo(p, "update") ELSE RunsOn(p, "put")
    /\ UNCHANGED <<table, dinode, super, f_inode>>

(* s5ifree *)
FreeWaits(p) ==
    /\ At(p, "ifree") /\ s_ilock
    /\ SleepsTo(p, "fsleep")
    /\ UNCHANGED <<table, dinode, super, f_inode>>

FreeLocks(p) ==
    /\ At(p, "ifree") /\ ~s_ilock
    /\ s_ilock' = TRUE
    /\ inode' = [inode EXCEPT ![proc[p].ip].mode = "free"]
    /\ SleepsTo(p, "fupdate")
    /\ UNCHANGED <<ifreelist, s5free, dinode, s_inode, s_ninode, s_tinode, f_inode>>

Freed(p) ==
    LET n == Entry(p).number IN
    /\ At(p, "fupdate")
    /\ Iupdat(p)
    /\ inode' = [inode EXCEPT ![proc[p].ip].changed = FALSE]
    /\ s_tinode' = s_tinode + 1
    /\ IF s_ninode >= NICINOD
       THEN s_inode' = [s_inode EXCEPT ![0] = IF n < @ THEN n ELSE @] /\ s_ninode' = s_ninode
       ELSE s_inode' = [s_inode EXCEPT ![s_ninode] = n] /\ s_ninode' = s_ninode + 1
    /\ s_ilock' = FALSE
    /\ proc' = [WakeIlock(proc) EXCEPT ![p].pc = "put"]
    /\ curproc' = p
    /\ UNCHANGED <<ifreelist, s5free, f_inode>>
-----------------------------------------------------------------------------
(* s5ialloc, for creat. *)
Creates(p) == At(p, "ialloc") \/ (At(p, "user") /\ proc[p].ip = None)

AllocWaits(p) ==
    /\ Creates(p) /\ s_ilock
    /\ proc' = [proc EXCEPT ![p].pc = "asleep", ![p].by = "ialloc"]
    /\ curproc' = Nobody
    /\ UNCHANGED <<table, dinode, super, f_inode>>

AllocLocks(p) ==
    /\ Creates(p) /\ ~s_ilock
    /\ s_ilock' = TRUE
    /\ proc' = [proc EXCEPT ![p].pc = "apop", ![p].by = "ialloc"]
    /\ curproc' = p
    /\ UNCHANGED <<table, dinode, s_inode, s_ninode, s_tinode, f_inode>>

Listed == s_ninode > 0 /\ s_inode[s_ninode - 1] # 0

AllocPops(p) ==
    /\ At(p, "apop") /\ Listed
    /\ s_ninode' = s_ninode - 1
    /\ proc' = [proc EXCEPT ![p].pc = "iget", ![p].ino = s_inode[s_ninode - 1]]
    /\ curproc' = p
    /\ UNCHANGED <<table, dinode, s_inode, s_tinode, s_ilock, f_inode>>

(* An inode that "was allocated after all" goes back, and it is once more. *)
AllocChecks(p) ==
    /\ At(p, "agot")
    /\ IF Entry(p).mode = "free"
       THEN /\ inode' = [inode EXCEPT ![proc[p].ip] =
                            [@ EXCEPT !.mode = "file", !.nlink = 1, !.changed = TRUE]]
            /\ s_tinode' = IF s_tinode > 0 THEN s_tinode - 1 ELSE 0
            /\ SleepsTo(p, "aupdate")
       ELSE SleepsTo(p, "ataken") /\ UNCHANGED <<inode, s_tinode>>
    /\ UNCHANGED <<ifreelist, s5free, dinode, s_inode, s_ninode, s_ilock, f_inode>>

Allocated(p) ==
    /\ At(p, "aupdate")
    /\ Iupdat(p)
    /\ inode' = [inode EXCEPT ![proc[p].ip].changed = FALSE]
    /\ s_ilock' = FALSE
    /\ proc' = [WakeIlock(proc) EXCEPT ![p].pc = "locked", ![p].by = "user"]
    /\ curproc' = Nobody
    /\ UNCHANGED <<ifreelist, s5free, s_inode, s_ninode, s_tinode, f_inode>>

(* The inode from which the list is rebuilt: FsINOS.  Multiples of INOPB   *)
(* are the last of their block.                                            *)
FsINOS(x) == (x \div INOPB) * INOPB + 1

AllocScans(p) ==
    /\ At(p, "apop") /\ ~Listed /\ s_tinode > 0
    /\ s_ninode' = NICINOD
    /\ proc' = [proc EXCEPT ![p].pc = "scan", ![p].ino = FsINOS(s_inode[0])]
    /\ curproc' = Nobody
    /\ UNCHANGED <<table, dinode, s_inode, s_tinode, s_ilock, f_inode>>

(* Mutant of FreeIn: inodes without links. *)
UnlinkedIn(b) == {n \in Ino : n \in b..(b + INOPB - 1) /\ dinode[n].nlink = 0}

(* The free inodes of the block at b take the places below s_ninode. *)
FreeIn(b) == {n \in Ino : n \in b..(b + INOPB - 1) /\ dinode[n].mode = "free"}
PlaceOf(b, n) == s_ninode - 1 - Cardinality({m \in FreeIn(b) : m < n})

ScanBlock(p) ==
    LET b == proc[p].ino
        found == {n \in FreeIn(b) : PlaceOf(b, n) >= 0}
    IN  /\ At(p, "scan") /\ b <= NIno /\ s_ninode > 0 /\ ~proc[p].u_error
        /\ s_inode' = [i \in DOMAIN s_inode |->
                          IF \E n \in found : PlaceOf(b, n) = i
                          THEN CHOOSE n \in found : PlaceOf(b, n) = i ELSE s_inode[i]]
        /\ s_ninode' = s_ninode - Cardinality(found)
        /\ proc' = [proc EXCEPT ![p].ino = b + INOPB]
        /\ curproc' = Nobody
        /\ UNCHANGED <<table, dinode, s_tinode, s_ilock, f_inode>>

(* u_error stays set: no other block is looked at. *)
ScanFails(p) ==
    /\ At(p, "scan") /\ proc[p].ino <= NIno /\ s_ninode > 0
    /\ proc[p].u_error \/ \E n \in Unreadable : n \in proc[p].ino..(proc[p].ino + INOPB - 1)
    /\ proc' = [proc EXCEPT ![p].ino = @ + INOPB, ![p].u_error = TRUE]
    /\ curproc' = Nobody
    /\ UNCHANGED <<table, dinode, super, f_inode>>

(* Zeros mark the end of a list that is not full. *)
ScanEnds(p) ==
    /\ At(p, "scan") /\ (s_ninode = 0 \/ proc[p].ino > NIno)
    /\ s_inode' = IF s_ninode > 0 THEN [s_inode EXCEPT ![s_ninode - 1] = 0, ![0] = 0]
                  ELSE s_inode
    /\ s_ninode' = NICINOD
    /\ proc' = [proc EXCEPT ![p].ino = 0,
                            ![p].pc = IF s_ninode # NICINOD THEN "apop" ELSE "nospace"]
    /\ curproc' = p
    /\ UNCHANGED <<table, dinode, s_tinode, s_ilock, f_inode>>

NoSpace(p) ==
    /\ At(p, "nospace") \/ (At(p, "apop") /\ ~Listed /\ s_tinode = 0)
    /\ s_ninode' = 0 /\ s_tinode' = 0 /\ s_ilock' = FALSE
    /\ proc' = [WakeIlock(proc) EXCEPT ![p] = Idle]
    /\ curproc' = Nobody
    /\ UNCHANGED <<table, dinode, s_inode, f_inode>>
-----------------------------------------------------------------------------
Lookup(p) ==
    \/ \E n \in Ino : IgetBusy(p, n) \/ IgetFound(p, n) \/ IgetReads(p, n) \/ IgetOverflow(p, n)
    \/ Iread(p) \/ IreadFails(p)

Use(p) ==
    \/ PlockWaits(p) \/ PlockLocks(p) \/ Prele(p)
    \/ Link(p) \/ Linked(p) \/ Unlink(p)
    \/ Open(p) \/ Closef(p) \/ Sync(p) \/ Updates(p, "sync", "iput")

Iput(p) ==
    \/ IputShared(p) \/ IputFrees(p)
    \/ IputTruncates(p) \/ Truncated(p) \/ IputFreed(p) \/ IputUpdates(p)
    \/ Updates(p, "update", "put")
    \/ FreeWaits(p) \/ FreeLocks(p) \/ Freed(p)

Ialloc(p) ==
    \/ AllocWaits(p) \/ AllocLocks(p) \/ AllocPops(p)
    \/ AllocChecks(p) \/ Allocated(p) \/ Updates(p, "ataken", "iput")
    \/ AllocScans(p) \/ ScanBlock(p) \/ ScanFails(p) \/ ScanEnds(p) \/ NoSpace(p)

Next ==
    \/ \E p \in Procs : Lookup(p) \/ Use(p) \/ Iput(p) \/ Ialloc(p)
    \/ \E k \in Slot : Iflush(k)

Spec == Init /\ [][Next]_vars
-----------------------------------------------------------------------------
Labels == {"user", "iget", "isleep", "iread", "plock", "psleep", "locked", "linked", "sync",
           "iput", "itrunc", "ifree", "fsleep", "fupdate", "update", "put", "ialloc",
           "asleep", "apop", "agot", "aupdate", "ataken", "scan", "nospace"}

TypeOK ==
    /\ inode \in [Slot -> [number : 0..NIno, hashed : BOOLEAN, ilock : BOOLEAN,
                           iwant : BOOLEAN, count : 0..(Cardinality(Procs) + 1), changed : BOOLEAN,
                           fsptr : BOOLEAN, mode : {"free", "file"}, nlink : 0..MAXLINK]]
    /\ ifreelist \in Seq(Slot)
    /\ s5free \in 0..NS5INODE
    /\ dinode \in [Ino -> [mode : {"free", "file"}, nlink : 0..MAXLINK]]
    /\ s_inode \in [0..(NICINOD - 1) -> 0..NIno]
    /\ s_ninode \in 0..NICINOD /\ s_tinode \in 0..NIno /\ s_ilock \in BOOLEAN
    /\ f_inode \in Slot \cup {None}
    /\ proc \in [Procs -> [pc : Labels, ip : Slot \cup {None}, ino : 0..(NIno + INOPB),
                           by : {"user", "ialloc"}, u_error : BOOLEAN]]
    /\ curproc \in Procs \cup {Nobody}

(* Who has a reference to the inode in s, and who has it locked. *)
Refers(p, s) == proc[p].ip = s /\ proc[p].pc # "isleep"
Locks(p, s) == Refers(p, s) /\ proc[p].pc \notin {"user", "plock", "psleep"}

(* An inode of the file system is in core at most once, whoever looks it   *)
(* up while it is read, released or flushed (iget, os/iget.c:107).         *)
OneInode == \A s, t \in Slot :
    inode[s].hashed /\ inode[t].hashed /\ inode[s].number = inode[t].number => s = t

(* The count is that of the references, the lock is held by exactly one of *)
(* them, and the free list has what nobody refers to, once and unlocked    *)
(* (i_count of iget, iput and sysupdate).                                  *)
Counted ==
    /\ \A s \in Slot :
        /\ inode[s].count =
             Cardinality({p \in Procs : Refers(p, s)}) + IF f_inode = s THEN 1 ELSE 0
        /\ Cardinality({p \in Procs : Locks(p, s)}) = IF inode[s].ilock THEN 1 ELSE 0
        /\ inode[s].count = 0 <=> s \in Range(ifreelist)
    /\ IsInjective(ifreelist)

(* No entry of s5inode[] is lost, on failed reads either (s5ifreelist).    *)
S5Accounted == s5free + Cardinality({s \in Slot : inode[s].fsptr}) = NS5INODE

(* What is in core counts, and else what is in the block. *)
Newest(n) ==
    LET C == {s \in Cached(n) : ~\E p \in Procs : proc[p].pc = "iread" /\ Refers(p, s)} IN
    IF C = {} THEN dinode[n]
    ELSE LET s == CHOOSE s \in C : TRUE IN [mode |-> inode[s].mode, nlink |-> inode[s].nlink]

(* The places of the list that will be popped: those above the last zero.  *)
Live == {i \in 0..(s_ninode - 1) : \A k \in i..(s_ninode - 1) : s_inode[k] # 0}

(* What the super block lists is free, and listed once: s5ialloc never     *)
(* finds that an inode "was allocated after all" (s5alloc.c:252).          *)
ListedFree ==
    (\A p \in Procs : proc[p].pc # "scan") =>
        \A i \in Live :
            /\ Newest(s_inode[i]).mode = "free"
            /\ \A j \in Live : s_inode[j] = s_inode[i] => j = i

(* Who must run before p goes on. *)
WaitsFor(p, q) ==
    \/ /\ proc[p].pc \in {"isleep", "psleep"} /\ Entry(p).iwant
       /\ q # p /\ Locks(q, proc[p].ip)
    \/ /\ proc[p].pc \in {"asleep", "fsleep"}
       /\ \/ proc[q].pc = "fupdate"
          \/ proc[q].by = "ialloc" /\ proc[q].pc \notin {"ialloc", "asleep"}

(* Whoever sleeps will be woken: what he waits for is held by another      *)
(* process, and not round in a circle, although s5ialloc waits for inodes  *)
(* with s_ilock and iput waits for s_ilock with an inode.                  *)
NoCircle ==
    LET Asleep == {p \in Procs : proc[p].pc \in {"isleep", "psleep", "asleep", "fsleep"}} IN
    /\ \A p \in Asleep : \E q \in Procs : WaitsFor(p, q)
    /\ \A C \in (SUBSET Asleep) \ {{}} : \E p \in C : \A q \in C : ~WaitsFor(p, q)

(* What those who use the inodes see of the table. *)
ilist == [n \in Ino |-> Newest(n)]
file == IF f_inode = None THEN 0 ELSE inode[f_inode].number
ref == [p \in Procs |-> IF \E s \in Slot : Refers(p, s) THEN Entry(p).number ELSE 0]
locked == {p \in Procs : \E s \in Slot : Locks(p, s)}

List == INSTANCE InodeList WITH Inodes <- Ino

(* Those who use the inodes cannot tell the table, its reuse and the       *)
(* deferred writes from a list of inodes with a lock each.                 *)
ImplementsInodeList == List!Spec
================================================================================
