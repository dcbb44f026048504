---------------------------------- MODULE Pipe ----------------------------------
(***************************************************************************)
(* A fifo of the s5 file system: s5openf and s5closef of fs/s5/s5pipe.c,   *)
(* the FIFO parts of s5readi and s5writei, the inode lock that rdwr and    *)
(* closef take around them, and the opens that signals cut short.  The     *)
(* data is a circle of PIPSIZ bytes in blocks of the buffer cache; each    *)
(* block of a transfer is a step, with the inode locked.                   *)
(***************************************************************************)
EXTENDS Integers, FiniteSetsExt

CONSTANTS
    Procs,
    Modes,      \* how a process may open the fifo, a set of [dir, ndelay]
    Counts,     \* how many bytes a process may read or write at once
    Blk, NBlk,  \* bytes of a block, blocks of the fifo
    Garbage     \* what is in a block that nobody wrote

ASSUME PipeAssumption ==
    /\ IsFiniteSet(Procs)
    /\ Blk \in Nat \ {0} /\ NBlk \in Nat \ {0, 1}
    /\ \A p \in Procs : Modes[p] \subseteq [dir : {"R", "W"}, ndelay : BOOLEAN]
    /\ \A p \in Procs : Counts[p] \subseteq Nat \ {0}

PIPSIZ == Blk * NBlk

VARIABLES
    size,       \* i_size
    frptr, fwptr,   \* where the next read and the next write start
    data,       \* the bytes of the blocks
    frcnt, fwcnt,   \* processes that have it open, or are opening it
    fflag,      \* IFIR and IFIW: somebody waits to read, to write
    ilock,      \* the inode is locked
    proc        \* of a process: [pc, asleep, mode] and the transfer it does

ptrs == <<frptr, fwptr>>
cnts == <<frcnt, fwcnt>>
vars == <<size, frptr, fwptr, data, frcnt, fwcnt, fflag, ilock, proc>>

Closed == [pc |-> "closed", asleep |-> FALSE, mode |-> [dir |-> "R", ndelay |-> FALSE]]

(* The call is for n bytes; the first left - save of the last left bytes   *)
(* go in this round.                                                       *)
Transfer(pc, m, n, left, save, off) ==
    [pc |-> pc, asleep |-> FALSE, mode |-> m, n |-> n, left |-> left,
     save |-> save, off |-> off]
Waiting(pc, m, n, left) ==
    [Transfer(pc, m, n, left, 0, 0) EXCEPT !.asleep = TRUE]
Opened(m) == [pc |-> "open", asleep |-> FALSE, mode |-> m]

Init ==
    /\ size = 0 /\ frptr = 0 /\ fwptr = 0
    /\ data = [i \in 0..(PIPSIZ - 1) |-> Garbage]
    /\ frcnt = 0 /\ fwcnt = 0 /\ fflag = {}
    /\ ilock = FALSE
    /\ proc = [p \in Procs |-> Closed]

(* Readers that wait for data and writers that wait for a reader sleep on  *)
(* s5i_frcnt, the other two kinds on s5i_fwcnt.                            *)
Channel(x) ==
    CASE x.pc = "rwait" -> "frcnt"
      [] x.pc = "wwait" -> "fwcnt"
      [] OTHER -> IF x.mode.dir = "R" THEN "fwcnt" ELSE "frcnt"

Wakeup(pr, c) ==
    [p \in Procs |-> IF pr[p].asleep /\ Channel(pr[p]) = c
                     THEN [pr[p] EXCEPT !.asleep = FALSE] ELSE pr[p]]
WakeIf(cond, pr, c) == IF cond THEN Wakeup(pr, c) ELSE pr

Set(p, x) == [proc EXCEPT ![p] = x]
--------------------------------------------------------------------------------
(* The loops of s5openf: must an open for reading, for writing, wait?      *)
ReaderWaits(m) == fwcnt = 0 /\ ~m.ndelay /\ size = 0
WriterWaits == frcnt = 0
Opening(m, waits) == [pc |-> IF waits THEN "opening" ELSE "open",
                      asleep |-> waits, mode |-> m]

(* open, after the inode was released: s5openf runs without its lock.      *)
OpenR(p) ==
    /\ proc[p].pc = "closed"
    /\ \E m \in {x \in Modes[p] : x.dir = "R"} :
        proc' = WakeIf(frcnt = 0, Set(p, Opening(m, ReaderWaits(m))), "frcnt")
    /\ frcnt' = frcnt + 1
    /\ UNCHANGED <<size, frptr, fwptr, data, fwcnt, fflag, ilock>>

(* FNDELAY without a reader is ENXIO, and nothing is counted.              *)
OpenW(p) ==
    /\ proc[p].pc = "closed"
    /\ \E m \in {x \in Modes[p] : x.dir = "W"} :
        /\ ~(m.ndelay /\ frcnt = 0)
        /\ proc' = WakeIf(fwcnt = 0, Set(p, Opening(m, WriterWaits)), "fwcnt")
    /\ fwcnt' = fwcnt + 1
    /\ UNCHANGED <<size, frptr, fwptr, data, frcnt, fflag, ilock>>

(* Woken in s5openf: the same test again.                                  *)
Reopen(p) ==
    /\ proc[p].pc = "opening" /\ ~proc[p].asleep
    /\ LET m == proc[p].mode IN
        proc' = Set(p, Opening(m, IF m.dir = "R" THEN ReaderWaits(m) ELSE WriterWaits))
    /\ UNCHANGED <<size, ptrs, data, cnts, fflag, ilock>>

(* Mutant of S5closef: the last reader wakes nobody.                       *)
S5closefQuietly(p) ==
    LET m == proc[p].mode
        r == IF m.dir = "R" THEN frcnt - 1 ELSE frcnt
        w == IF m.dir = "W" THEN fwcnt - 1 ELSE fwcnt
        last == m.dir = "W" /\ w = 0 /\ "IFIR" \in fflag
    IN  /\ frcnt' = r /\ fwcnt' = w
        /\ fflag' = fflag \ (IF last THEN {"IFIR"} ELSE {})
        /\ proc' = WakeIf(last, Set(p, Closed), "frcnt")
        /\ IF r + w = 0
           THEN /\ size' = 0 /\ frptr' = 0 /\ fwptr' = 0
                /\ data' = [i \in DOMAIN data |-> Garbage]
           ELSE UNCHANGED <<size, frptr, fwptr, data>>

(* closef and s5closef: the last of a kind wakes those of the other who    *)
(* wait for him, the very last one frees the blocks.                       *)
S5closef(p) ==
    LET m == proc[p].mode
        r == IF m.dir = "R" THEN frcnt - 1 ELSE frcnt
        w == IF m.dir = "W" THEN fwcnt - 1 ELSE fwcnt
        flag == IF m.dir = "R" THEN "IFIW" ELSE "IFIR"
        last == (IF m.dir = "R" THEN r ELSE w) = 0 /\ flag \in fflag
    IN  /\ frcnt' = r /\ fwcnt' = w
        /\ fflag' = fflag \ (IF last THEN {flag} ELSE {})
        /\ proc' = WakeIf(last, Set(p, Closed), IF m.dir = "R" THEN "fwcnt" ELSE "frcnt")
        /\ IF r + w = 0
           THEN /\ size' = 0 /\ frptr' = 0 /\ fwptr' = 0
                /\ data' = [i \in DOMAIN data |-> Garbage]
           ELSE UNCHANGED <<size, frptr, fwptr, data>>

Close(p) ==
    /\ proc[p].pc = "open" /\ ~ilock
    /\ S5closef(p)
    /\ UNCHANGED ilock

(* copen1 catches the signal and closes the half-open file.                *)
Abort(p) ==
    /\ proc[p].pc = "abort" /\ ~ilock
    /\ S5closef(p)
    /\ UNCHANGED ilock

(* A signal, also on the way back from a wakeup.                           *)
Interrupt(p) ==
    /\ proc[p].pc \in {"opening", "rwait", "wwait"}
    /\ proc' = Set(p, IF proc[p].pc = "opening"
                      THEN [proc[p] EXCEPT !.pc = "abort", !.asleep = FALSE]
                      ELSE Opened(proc[p].mode))
    /\ UNCHANGED <<size, ptrs, data, cnts, fflag, ilock>>
--------------------------------------------------------------------------------
(* s5readi, up to its first block: the end of file or nothing yet, a wait, *)
(* or data.                                                                *)
S5readi(p, m, n) ==
    \/ /\ size = 0 /\ (fwcnt = 0 \/ m.ndelay)
       /\ proc' = Set(p, Opened(m))
       /\ UNCHANGED <<fflag, ilock>>
    \/ /\ size = 0 /\ fwcnt > 0 /\ ~m.ndelay
       /\ fflag' = fflag \union {"IFIR"}
       /\ proc' = Set(p, Waiting("rwait", m, n, n))
       /\ UNCHANGED ilock
    \/ /\ size > 0
       /\ ilock' = TRUE
       /\ proc' = Set(p, Transfer("read", m, n, n, 0, frptr))
       /\ UNCHANGED fflag

Read(p) ==
    /\ ~ilock
    /\ \/ /\ proc[p].pc = "open" /\ proc[p].mode.dir = "R"
          /\ \E n \in Counts[p] : S5readi(p, proc[p].mode, n)
       \/ /\ proc[p].pc = "rwait" /\ ~proc[p].asleep
          /\ S5readi(p, proc[p].mode, proc[p].n)
    /\ UNCHANGED <<size, ptrs, data, cnts>>

BlockOf(off) == LET b == off - (off % Blk) IN b..(b + Blk - 1)

(* Mutant of Forgets: the room left in the fifo does not matter.           *)
ForgetsAlways(on, n, left) == on + n = Blk

(* A block read to its end is not written back any more; its bytes may be  *)
(* lost when others follow that were not written yet.                      *)
Forgets(on, n, left) == on + n = Blk /\ left < PIPSIZ - Blk

(* Mutant of ReadDone: only the reader starts over.                        *)
ReadDoneHalf(p, off, left) ==
    /\ frptr' = IF left > 0 THEN off ELSE 0
    /\ fwptr' = fwptr
    /\ fflag' = fflag \ {"IFIW"}
    /\ proc' = WakeIf("IFIW" \in fflag, Set(p, Opened(proc[p].mode)), "fwcnt")
    /\ ilock' = FALSE

(* The end of s5readi; an empty fifo starts over.                          *)
ReadDone(p, off, left) ==
    /\ frptr' = IF left > 0 THEN off ELSE 0
    /\ fwptr' = IF left > 0 THEN fwptr ELSE 0
    /\ fflag' = fflag \ {"IFIW"}
    /\ proc' = WakeIf("IFIW" \in fflag, Set(p, Opened(proc[p].mode)), "fwcnt")
    /\ ilock' = FALSE

(* One block of a read.  Bytes that were read count as gone.               *)
ReadBlock(p) ==
    LET x == proc[p]
        on == x.off % Blk
        n == Min({Blk - on, x.left, size})
        off == (x.off + n) % PIPSIZ
    IN  /\ x.pc = "read"
        /\ size' = size - n
        /\ \E lost \in {FALSE, Forgets(on, n, size - n)} :
            data' = [i \in DOMAIN data |->
                        IF \/ i \in x.off..(x.off + n - 1)
                           \/ lost /\ i \in BlockOf(x.off)
                        THEN Garbage ELSE data[i]]
        /\ IF n = x.left \/ n = size THEN ReadDone(p, off, size - n)
           ELSE /\ proc' = Set(p, [x EXCEPT !.left = @ - n, !.off = off])
                /\ UNCHANGED <<frptr, fwptr, fflag, ilock>>
        /\ UNCHANGED cnts
--------------------------------------------------------------------------------
(* Mutant of Room: whatever does not fit goes in pieces.                   *)
RoomForPieces(left) ==
    IF left + size <= PIPSIZ THEN left
    ELSE IF size < PIPSIZ THEN PIPSIZ - size
    ELSE 0

(* The test of s5writei for room; more than fits at all goes in pieces.    *)
Room(left) ==
    IF left + size <= PIPSIZ THEN left
    ELSE IF left > PIPSIZ /\ size < PIPSIZ THEN PIPSIZ - size
    ELSE 0

(* s5writei from floop on, with the inode locked: EPIPE, what FNDELAY does *)
(* not wait for, a wait, or a round of blocks.                             *)
S5writei(p, m, n, left) ==
    \/ /\ frcnt = 0 \/ (Room(left) = 0 /\ m.ndelay)
       /\ proc' = Set(p, Opened(m))
       /\ ilock' = FALSE
       /\ UNCHANGED fflag
    \/ /\ frcnt > 0 /\ Room(left) = 0 /\ ~m.ndelay
       /\ fflag' = fflag \union {"IFIW"}
       /\ proc' = Set(p, Waiting("wwait", m, n, left))
       /\ ilock' = FALSE
    \/ /\ frcnt > 0 /\ Room(left) > 0
       /\ proc' = Set(p, Transfer("write", m, n, left, left - Room(left), fwptr))
       /\ ilock' = TRUE
       /\ UNCHANGED fflag

Write(p) ==
    /\ \/ /\ ~ilock /\ proc[p].pc = "open" /\ proc[p].mode.dir = "W"
          /\ \E n \in Counts[p] : S5writei(p, proc[p].mode, n, n)
       \/ /\ ~ilock /\ proc[p].pc = "wwait" /\ ~proc[p].asleep
          /\ S5writei(p, proc[p].mode, proc[p].n, proc[p].left)
       \/ /\ proc[p].pc = "floop"
          /\ S5writei(p, proc[p].mode, proc[p].n, proc[p].left)
    /\ UNCHANGED <<size, ptrs, data, cnts>>

Byte(p, n, i) == [by |-> p, of |-> n, ix |-> i]

(* The block is not read first; what else is in it may be anything.        *)
Unread(on, n) == n = Blk \/ (on = 0 /\ size < PIPSIZ - Blk)

(* The end of a round; what is saved goes in the next.                     *)
WriteDone(p, off) ==
    LET x == proc[p]
        pr == Set(p, IF x.save = 0 THEN Opened(x.mode)
                     ELSE Transfer("floop", x.mode, x.n, x.save, 0, 0))
    IN  /\ fwptr' = off
        /\ fflag' = fflag \ {"IFIR"}
        /\ proc' = WakeIf("IFIR" \in fflag, pr, "frcnt")
        /\ ilock' = (x.save > 0)

(* One block of a write.                                                   *)
WriteBlock(p) ==
    LET x == proc[p]
        on == x.off % Blk
        n == Min({Blk - on, x.left - x.save})
        off == (x.off + n) % PIPSIZ
    IN  /\ x.pc = "write"
        /\ size' = size + n
        /\ \E old \in {TRUE, ~Unread(on, n)} :
            data' = [i \in DOMAIN data |->
                IF i \in x.off..(x.off + n - 1)
                THEN Byte(p, x.n, x.n - x.left + 1 + i - x.off)
                ELSE IF ~old /\ i \in BlockOf(x.off) THEN Garbage ELSE data[i]]
        /\ IF n = x.left - x.save THEN WriteDone(p, off)
           ELSE /\ proc' = Set(p, [x EXCEPT !.left = @ - n, !.off = off])
                /\ UNCHANGED <<fwptr, fflag, ilock>>
        /\ UNCHANGED <<frptr, cnts>>

Next ==
    \E p \in Procs :
        \/ OpenR(p) \/ OpenW(p) \/ Reopen(p) \/ Close(p) \/ Abort(p)
        \/ Interrupt(p)
        \/ Read(p) \/ ReadBlock(p) \/ Write(p) \/ WriteBlock(p)

Spec == Init /\ [][Next]_vars
--------------------------------------------------------------------------------
(* The pointers stay in the circle and agree with the size, the counts     *)
(* with who has it open, and the lock with who transfers.                  *)
Having(d) == {p \in Procs : proc[p].pc # "closed" /\ proc[p].mode.dir = d}
Busy(s) == {p \in Procs : proc[p].pc \in s}
TypeOK ==
    /\ size \in 0..PIPSIZ
    /\ frptr \in 0..(PIPSIZ - 1) /\ fwptr \in 0..(PIPSIZ - 1)
    /\ frcnt = Cardinality(Having("R")) /\ fwcnt = Cardinality(Having("W"))
    /\ fflag \subseteq {"IFIR", "IFIW"}
    /\ Cardinality(Busy({"read", "write", "floop"})) = IF ilock THEN 1 ELSE 0
    /\ Busy({"read", "write"}) = {} => (frptr + size) % PIPSIZ = fwptr

Front == IF Busy({"read"}) = {} THEN frptr
         ELSE proc[CHOOSE p \in Busy({"read"}) : TRUE].off

(* The bytes in the fifo, from the place the next one is read from.        *)
Contents == [i \in 1..size |-> data[(Front + i - 1) % PIPSIZ]]

(* A write of no more than PIPSIZ bytes is in one piece, whoever else      *)
(* writes and however long it had to wait: only the last byte in the fifo  *)
(* may be one with others of its write to come.                            *)
Contiguous ==
    \A i \in 1..(size - 1) :
        LET a == Contents[i]
            b == Contents[i + 1]
        IN  /\ (a.ix < a.of /\ a.of <= PIPSIZ) => b = [a EXCEPT !.ix = @ + 1]
            /\ b.ix > 1 => a = [b EXCEPT !.ix = @ - 1] \/ b.of > PIPSIZ

(* Nobody sleeps without a reason: a reader while there is a writer and    *)
(* nothing to read, a writer while there is a reader and no room for him,  *)
(* an opener while the other side is missing; and who waits for data or    *)
(* room has set the flag that makes the other side wake him.               *)
SleepersBlocked ==
    \A p \in Procs : proc[p].asleep =>
        CASE proc[p].pc = "rwait" ->
                "IFIR" \in fflag /\ fwcnt > 0 /\ (size = 0 \/ Busy({"write"}) # {})
          [] proc[p].pc = "wwait" ->
                /\ "IFIW" \in fflag /\ frcnt > 0
                /\ Room(proc[p].left) = 0 \/ Busy({"read"}) # {}
          [] proc[p].pc = "opening" ->
                IF proc[p].mode.dir = "R" THEN fwcnt = 0 ELSE frcnt = 0

(* The circle of blocks is a queue of bytes, whatever is cut into blocks,  *)
(* wrapped around, not read before it is written or not written back.      *)
Sizes == UNION {Counts[p] : p \in Procs}
Written == UNION {{Byte(p, n, i) : i \in 1..n} : p \in Procs, n \in Sizes}
Promise == INSTANCE Fifo WITH
    Bytes <- Written, Cap <- PIPSIZ, queue <- Contents, readers <- frcnt, writers <- fwcnt
ImplementsFifo == Promise!Spec
================================================================================
