----------------------------- MODULE BufferCache -----------------------------
(***************************************************************************)
(* The block buffer cache of the kernel, src/src/uts/m68k/os/bio.c:        *)
(* getblk/geteblk, bread/breada, bwrite/bdwrite/bawrite, brelse, iowait,   *)
(* iodone, bflush, bdflush, bdwait and binval.                             *)
(*                                                                         *)
(* Processes are not preempted in the kernel: they interleave where they   *)
(* sleep.  `run' is the process that stands at an interruptible point in   *)
(* the middle of a call; while it is set only that process and the disk    *)
(* interrupt take steps.  A sleeping process has a wait channel in `chan'. *)
(*                                                                         *)
(* The contents of a block are abstracted to a version: how often the      *)
(* block had been written when the contents were made.                     *)
(***************************************************************************)
EXTENDS Integers, SequencesExt

CONSTANTS
    Procs,      \* processes
    Bufs,       \* buffer headers, buf[v.v_buf]
    Blocks,     \* disk blocks (device and block number)
    Devs,       \* block devices
    DevOf,      \* the device of each block
    RaLists,    \* lists of read-ahead blocks breada may be given
    MaxHold,    \* how many buffers a process holds between calls
    MaxWrites,  \* bound: writes by callers
    MaxErrs,    \* bound: failing transfers
    BawriteFree,\* free buffers bawrite wants before it goes asynchronous (4)
    NoProc, NoBuf, NoBlk, NoChan, FreeList, BaSync, AllDevs

ASSUME CacheAssumption ==
    /\ IsFiniteSet(Bufs)
    /\ DevOf \in [Blocks -> Devs]
    /\ RaLists \subseteq Seq(Blocks)
    /\ MaxHold \in Nat /\ MaxWrites \in Nat /\ MaxErrs \in Nat
    /\ BawriteFree \in Nat
    /\ NoProc \notin Procs
    /\ NoBlk \notin Blocks \cup Devs /\ AllDevs \notin Blocks \cup Devs
    /\ Blocks \cap Devs = {} /\ NoBlk # AllDevs
    /\ NoBuf \notin Bufs
    /\ {NoChan, FreeList, BaSync} \cap Bufs = {}
    /\ NoChan # FreeList /\ NoChan # BaSync /\ FreeList # BaSync

VARIABLES
    flags,      \* b_flags of each buffer
    blkOf,      \* b_dev, b_blkno of each buffer
    data,       \* contents of each buffer
    free,       \* the available list bfreelist, av_forw order
    flWanted,   \* B_WANTED in bfreelist.b_flags
    basyncnt, basynwait,
    ioq,        \* requests handed to the drivers and not yet complete
    disk,       \* contents of each block on the medium
    written,    \* history: how often each block was written by a caller
    errs,       \* transfers that failed so far
    pc,         \* where a process stands
    call,       \* the call it is in
    hold,       \* buffers a process has made busy for itself
    chan,       \* wait channel
    run         \* the process in the middle of a call

cache == <<flags, blkOf, data, free, flWanted>>
async == <<basyncnt, basynwait>>
store == <<disk, written, errs>>
proc  == <<pc, call, hold>>
vars  == <<cache, async, store, ioq, proc, chan, run>>

Flag == {"BUSY", "DONE", "ERROR", "READ", "WANTED", "AGE", "ASYNC", "DELWRI", "STALE"}
Garbage == -1

(* A call: its kind, the block or device it is about, the read-ahead       *)
(* blocks still to do, the buffer it does I/O on, and the buffer its hash  *)
(* scan stopped at.                                                        *)
Place == {"user", "getblk", "hit", "count", "ahead", "iowait", "flush", "bdwait"}
Mode == {"none", "getblk", "bread", "ahead", "write", "flush", "aged", "wait", "close"}
FlushMode == {"flush", "aged", "wait", "close"}
CallType == [mode : Mode, arg : Blocks \cup Devs \cup {NoBlk, AllDevs}, ra : Seq(Blocks),
             bp : Bufs \cup {NoBuf}, tgt : Bufs \cup {NoBuf}]
NoCall == [mode |-> "none", arg |-> NoBlk, ra |-> << >>, bp |-> NoBuf, tgt |-> NoBuf]
-----------------------------------------------------------------------------
(* Mutant of Found: the scan passes over busy buffers. *)
FoundIdle(blk) == {b \in Bufs : blkOf[b] = blk /\ flags[b] \cap {"STALE", "BUSY"} = {}}

(* Hash chains: a buffer is found for a block unless it is stale. *)
Found(blk) == {b \in Bufs : blkOf[b] = blk /\ "STALE" \notin flags[b]}
InCore == {blkOf[b] : b \in {x \in Bufs : "STALE" \notin flags[x]}}

(* wakeup() on each channel of C. *)
Wakeup(C) == [p \in Procs |-> IF chan[p] \in C THEN NoChan ELSE chan[p]]

Running(p) == run \in {p, NoProc} /\ chan[p] = NoChan

(* p goes on in its call c at `where' ... *)
Goto(p, where, c) ==
    /\ pc' = [pc EXCEPT ![p] = where]
    /\ call' = [call EXCEPT ![p] = c]
    /\ run' = p

(* ... or is back in its caller. *)
Return(p) ==
    /\ pc' = [pc EXCEPT ![p] = "user"]
    /\ call' = [call EXCEPT ![p] = NoCall]
    /\ run' = NoProc

SleepOn(p, c) ==
    /\ chan' = [chan EXCEPT ![p] = c]
    /\ run' = NoProc

(* Mutants of Woken: the available list comes first; it is not served.     *)
WokenListFirst(b, f) == IF flWanted THEN {FreeList} ELSE IF "WANTED" \in f THEN {b} ELSE {}
WokenDeaf(b, f) == IF "WANTED" \in f THEN {b} ELSE {}

(* The channels brelse() wakes: the buffer's own sleepers come first.      *)
Woken(b, f) == IF "WANTED" \in f THEN {b} ELSE IF flWanted THEN {FreeList} ELSE {}

(* brelse() of a buffer whose flags are f, the available list being s;     *)
(* `also' holds the channels its caller wakes.                             *)
Brelse(b, f, s, also) ==
    LET g == IF "ERROR" \in f THEN (f \ {"ERROR", "DELWRI"}) \cup {"STALE", "AGE"} ELSE f
    IN  /\ chan' = Wakeup(Woken(b, f) \cup also)
        /\ flWanted' = (flWanted /\ "WANTED" \in f)
        /\ free' = IF "AGE" \in g THEN Cons(b, s) ELSE Append(s, b)
        /\ flags' = [flags EXCEPT ![b] = g \ {"WANTED", "BUSY", "ASYNC", "AGE"}]

(* Mutant of Notavail: the buffer stays on the list. *)
NotavailLeaves(i) == free

(* notavail(): the available list without its i-th buffer. *)
Notavail(i) == RemoveAt(free, i)

(* Mutant of Delayed: nobody asks. *)
DelayedNever(b) == FALSE

(* The buffer has to be written before it is used for another block. *)
Delayed(b) == "DELWRI" \in flags[b]

(* Mutants of the two: reads are counted; read-ahead is somebody's.        *)
IsWriteAny(f) == TRUE
UnattendedWrites(f) == "ASYNC" \in f /\ "READ" \notin f

(* A transfer: to the disk; one that nobody waits for. *)
IsWrite(f) == "READ" \notin f
Unattended(f) == "ASYNC" \in f

(* What is left of the flags once bwrite() starts a transfer. *)
WriteFlags(f) == f \ {"READ", "DONE", "ERROR", "DELWRI"}

(* breada looks at its read-ahead blocks from the last one down and stops  *)
(* at the first that is in core; it reads those above it.                  *)
AheadOf(s, core) ==
    LET above == {i \in DOMAIN s : \A j \in i..Len(s) : s[j] \notin core}
    IN  SubSeq(s, Len(s) - Cardinality(above) + 1, Len(s))

(* The block the getblk in progress is for; NoBlk for geteblk. *)
Want(p) == IF call[p].mode = "ahead" THEN Head(call[p].ra) ELSE call[p].arg
-----------------------------------------------------------------------------
Init ==
    /\ flags = [b \in Bufs |-> {}]
    /\ blkOf = [b \in Bufs |-> NoBlk]
    /\ data = [b \in Bufs |-> Garbage]
    /\ free \in {s \in [1..Cardinality(Bufs) -> Bufs] : IsInjective(s) /\ ToSet(s) = Bufs}
    /\ flWanted = FALSE
    /\ basyncnt = 0 /\ basynwait = FALSE
    /\ ioq = << >>
    /\ disk = [k \in Blocks |-> 0]
    /\ written = [k \in Blocks |-> 0]
    /\ errs = 0
    /\ pc = [p \in Procs |-> "user"]
    /\ call = [p \in Procs |-> NoCall]
    /\ hold = [p \in Procs |-> {}]
    /\ chan = [p \in Procs |-> NoChan]
    /\ run = NoProc
-----------------------------------------------------------------------------
(* Entering a call. *)

InUser(p) == pc[p] = "user" /\ Running(p)

Enter(p, m, a, s, where) ==
    /\ InUser(p)
    /\ Goto(p, where, [NoCall EXCEPT !.mode = m, !.arg = a, !.ra = s])
    /\ UNCHANGED <<cache, async, store, ioq, hold, chan>>

(* The caller's part: it keeps at most MaxHold buffers and never asks for  *)
(* a block it already has.                                                 *)
MayAsk(p, blk) ==
    /\ Cardinality(hold[p]) < MaxHold
    /\ \A b \in hold[p] : blkOf[b] # blk

CallGetblk(p, blk) == MayAsk(p, blk) /\ Enter(p, "getblk", blk, << >>, "getblk")

CallGeteblk(p) ==
    /\ Cardinality(hold[p]) < MaxHold
    /\ Enter(p, "getblk", NoBlk, << >>, "getblk")

CallBread(p, blk) == MayAsk(p, blk) /\ Enter(p, "bread", blk, << >>, "getblk")

(* breada(blk, s): a block that is in core is got after the read-ahead,    *)
(* one that is not is got before it.                                       *)
CallBreada(p, blk, s) ==
    /\ MayAsk(p, blk) /\ blk \notin ToSet(s) /\ s # << >>
    /\ \/ blk \notin InCore /\ Enter(p, "bread", blk, s, "getblk")
       \/ blk \in InCore /\ Enter(p, "ahead", blk, AheadOf(s, InCore), "ahead")

(* update() and bdflush(), the one flushing every delayed write, the other *)
(* those that are old enough; a shutdown goes on to bdwait().              *)
CallFlush(p, m) ==
    /\ m \in {"flush", "aged", "wait"}
    /\ hold[p] = {}
    /\ Enter(p, m, AllDevs, << >>, "flush")

(* Nobody uses blocks of the device. *)
DevIdle(d) ==
    \A q \in Procs :
        /\ \A b \in hold[q] : blkOf[b] \in Blocks => DevOf[blkOf[b]] # d
        /\ call[q].arg \in Blocks => DevOf[call[q].arg] # d
        /\ \A i \in DOMAIN call[q].ra : DevOf[call[q].ra[i]] # d

(* The last close of a block device, s5closei: bflush(dev), binval(dev).   *)
(* A driver that sleeps in its close between the two is not modelled.      *)
CallClose(p, d) ==
    /\ hold[p] = {} /\ DevIdle(d)
    /\ Enter(p, "close", d, << >>, "flush")
-----------------------------------------------------------------------------
(* getblk and geteblk. *)

(* What the call of p does with the buffer b that getblk returned: f are   *)
(* its flags, s is the available list without it.  blkOf' is known.        *)
Got(p, b, f, s) ==
    LET c == [call[p] EXCEPT !.tgt = NoBuf] IN
    \/ /\ c.mode = "getblk"
       /\ flags' = [flags EXCEPT ![b] = f]
       /\ free' = s
       /\ hold' = [hold EXCEPT ![p] = @ \cup {b}]
       /\ Return(p)
       /\ UNCHANGED <<flWanted, ioq, chan>>
    \/ /\ c.mode = "bread"
       /\ flags' = [flags EXCEPT ![b] = IF "DONE" \in f THEN f ELSE f \cup {"READ"}]
       /\ ioq' = IF "DONE" \in f THEN ioq ELSE Append(ioq, b)
       /\ free' = s
       /\ hold' = [hold EXCEPT ![p] = @ \cup {b}]
       /\ LET left == AheadOf(c.ra, InCore')
          IN  Goto(p, IF left = << >> THEN "iowait" ELSE "ahead",
                   [c EXCEPT !.bp = b, !.ra = left])
       /\ UNCHANGED <<flWanted, chan>>
    \/ /\ c.mode = "ahead" /\ "DONE" \in f
       /\ Brelse(b, f, s, {})
       /\ Goto(p, "ahead", [c EXCEPT !.ra = Tail(@)])
       /\ UNCHANGED <<ioq, hold>>
    \/ /\ c.mode = "ahead" /\ "DONE" \notin f
       /\ flags' = [flags EXCEPT ![b] = f \cup {"READ", "ASYNC"}]
       /\ ioq' = Append(ioq, b)
       /\ free' = s
       /\ Goto(p, "ahead", [c EXCEPT !.ra = Tail(@)])
       /\ UNCHANGED <<flWanted, hold, chan>>

InGetblk(p) == pc[p] = "getblk" /\ Running(p)
InHit(p) == pc[p] = "hit" /\ Running(p)

(* The hash scan, at spl0, stops at a buffer of the block ... *)
GetblkScan(p) ==
    /\ InGetblk(p) /\ Want(p) # NoBlk
    /\ \E b \in Found(Want(p)) : Goto(p, "hit", [call[p] EXCEPT !.tgt = b])
    /\ UNCHANGED <<cache, async, store, ioq, hold, chan>>

(* Mutant of GetblkBusy: it goes to sleep without B_WANTED. *)
GetblkBusyUnwanted(p) ==
    /\ InHit(p) /\ "BUSY" \in flags[call[p].tgt]
    /\ pc' = [pc EXCEPT ![p] = "getblk"]
    /\ SleepOn(p, call[p].tgt)
    /\ call' = [call EXCEPT ![p].tgt = NoBuf]
    /\ UNCHANGED <<cache, async, store, ioq, hold>>

(* ... and spl6() comes only then.  A busy buffer is waited for, and the   *)
(* scan starts again ...                                                   *)
GetblkBusy(p) ==
    LET b == call[p].tgt
    IN  /\ InHit(p) /\ "BUSY" \in flags[b]
        /\ flags' = [flags EXCEPT ![b] = @ \cup {"WANTED"}]
        /\ pc' = [pc EXCEPT ![p] = "getblk"]
        /\ call' = [call EXCEPT ![p].tgt = NoBuf]
        /\ SleepOn(p, b)
        /\ UNCHANGED <<blkOf, data, free, flWanted, async, store, ioq, hold>>

(* ... an idle one is taken off the available list. *)
GetblkHit(p) ==
    LET b == call[p].tgt
    IN  /\ InHit(p) /\ "BUSY" \notin flags[b]
        /\ UNCHANGED <<blkOf, data>>
        /\ \E i \in DOMAIN free :
             free[i] = b /\ Got(p, b, flags[b] \cup {"BUSY"}, Notavail(i))
        /\ UNCHANGED <<async, store>>

(* The block is not in core: the first available buffer will have to do. *)
Miss(p) == InGetblk(p) /\ (Want(p) = NoBlk \/ Found(Want(p)) = {})

GetblkEmpty(p) ==
    /\ Miss(p) /\ free = << >>
    /\ flWanted' = TRUE
    /\ SleepOn(p, FreeList)
    /\ UNCHANGED <<flags, blkOf, data, free, async, store, ioq, proc>>

GetblkReuse(p) ==
    /\ Miss(p) /\ free # << >> /\ ~Delayed(Head(free))
    /\ blkOf' = [blkOf EXCEPT ![Head(free)] = Want(p)]
    /\ data' = [data EXCEPT ![Head(free)] = Garbage]
    /\ Got(p, Head(free), IF Want(p) = NoBlk THEN {"BUSY", "AGE"} ELSE {"BUSY"}, Tail(free))
    /\ UNCHANGED <<async, store>>

(* notavail() and an asynchronous bwrite(), up to its return from the      *)
(* driver: the write is not in basyncnt yet.                               *)
WriteBehind(p, i) ==
    /\ flags' = [flags EXCEPT ![free[i]] = WriteFlags(@ \cup {"BUSY", "ASYNC"})]
    /\ free' = Notavail(i)
    /\ ioq' = Append(ioq, free[i])
    /\ Goto(p, "count", call[p])
    /\ UNCHANGED <<blkOf, data, flWanted, async, store, hold, chan>>

GetblkDelwri(p) ==
    /\ Miss(p) /\ free # << >> /\ Delayed(Head(free))
    /\ WriteBehind(p, 1)

(* basyncnt++, and back to the loop that wanted the write, or out of       *)
(* bawrite.                                                                *)
Count(p) ==
    /\ pc[p] = "count" /\ Running(p)
    /\ basyncnt' = basyncnt + 1
    /\ \/ call[p].mode = "write" /\ Return(p)
       \/ call[p].mode \in {"getblk", "bread", "ahead"} /\ Goto(p, "getblk", call[p])
       \/ call[p].mode \in FlushMode /\ Goto(p, "flush", call[p])
    /\ UNCHANGED <<cache, basynwait, store, ioq, hold, chan>>
-----------------------------------------------------------------------------
(* The read-ahead loop of breada. *)

InAhead(p) == pc[p] = "ahead" /\ Running(p)

AheadNext(p) ==
    /\ InAhead(p) /\ call[p].ra # << >>
    /\ IF Len(free) > 1
       THEN Goto(p, "getblk", [call[p] EXCEPT !.mode = "ahead"])
       ELSE Goto(p, "ahead", [call[p] EXCEPT !.ra = Tail(@)])
    /\ UNCHANGED <<cache, async, store, ioq, hold, chan>>

AheadEnd(p) ==
    /\ InAhead(p) /\ call[p].ra = << >>
    /\ Goto(p, IF call[p].bp = NoBuf THEN "getblk" ELSE "iowait",
            [call[p] EXCEPT !.mode = "bread"])
    /\ UNCHANGED <<cache, async, store, ioq, hold, chan>>
-----------------------------------------------------------------------------
(* Giving a buffer back. *)

Owned(p, b) == InUser(p) /\ b \in hold[p]

CallBrelse(p, b) ==
    /\ Owned(p, b)
    /\ Brelse(b, flags[b], free, {})
    /\ hold' = [hold EXCEPT ![p] = @ \ {b}]
    /\ UNCHANGED <<blkOf, data, async, store, ioq, pc, call, run>>

(* Mutant of Modify: the buffer is written before it is filled. *)
ModifyLate(p, b) ==
    /\ Owned(p, b) /\ blkOf[b] # NoBlk /\ "ERROR" \notin flags[b]
    /\ FoldFunction(+, 0, written) < MaxWrites
    /\ written' = [written EXCEPT ![blkOf[b]] = @ + 1]
    /\ UNCHANGED <<blkOf, data, disk, errs>>

(* The caller puts new contents into a buffer it has, then writes it. *)
Modify(p, b) ==
    /\ Owned(p, b) /\ blkOf[b] # NoBlk /\ "ERROR" \notin flags[b]
    /\ FoldFunction(+, 0, written) < MaxWrites
    /\ written' = [written EXCEPT ![blkOf[b]] = @ + 1]
    /\ data' = [data EXCEPT ![b] = written[blkOf[b]] + 1]
    /\ UNCHANGED <<blkOf, disk, errs>>

CallBdwrite(p, b) ==
    /\ Modify(p, b)
    /\ Brelse(b, flags[b] \cup {"DELWRI", "DONE"}, free, {})
    /\ hold' = [hold EXCEPT ![p] = @ \ {b}]
    /\ UNCHANGED <<async, ioq, pc, call, run>>

(* bwrite(), and bawrite() when few buffers are available. *)
CallBwrite(p, b) ==
    /\ Modify(p, b)
    /\ flags' = [flags EXCEPT ![b] = WriteFlags(@)]
    /\ ioq' = Append(ioq, b)
    /\ Goto(p, "iowait", [NoCall EXCEPT !.mode = "write", !.bp = b])
    /\ UNCHANGED <<free, flWanted, async, hold, chan>>

CallBawrite(p, b) ==
    /\ Modify(p, b) /\ Len(free) > BawriteFree
    /\ flags' = [flags EXCEPT ![b] = WriteFlags(@ \cup {"ASYNC"})]
    /\ ioq' = Append(ioq, b)
    /\ hold' = [hold EXCEPT ![p] = @ \ {b}]
    /\ Goto(p, "count", [NoCall EXCEPT !.mode = "write"])
    /\ UNCHANGED <<free, flWanted, async, chan>>
-----------------------------------------------------------------------------
(* iowait: sleep on the buffer, at spl6, until it is B_DONE. *)

InIowait(p) == pc[p] = "iowait" /\ Running(p)

IowaitSleep(p) ==
    /\ InIowait(p) /\ "DONE" \notin flags[call[p].bp]
    /\ SleepOn(p, call[p].bp)
    /\ UNCHANGED <<cache, async, store, ioq, proc>>

(* bread returns; its caller has the buffer. *)
IowaitRead(p) ==
    /\ InIowait(p) /\ "DONE" \in flags[call[p].bp] /\ call[p].mode = "bread"
    /\ Return(p)
    /\ UNCHANGED <<cache, async, store, ioq, hold, chan>>

(* bwrite releases the buffer. *)
IowaitWrite(p) ==
    LET b == call[p].bp
    IN  /\ InIowait(p) /\ "DONE" \in flags[b] /\ call[p].mode = "write"
        /\ Brelse(b, flags[b], free, {})
        /\ hold' = [hold EXCEPT ![p] = @ \ {b}]
        /\ Return(p)
        /\ UNCHANGED <<blkOf, data, async, store, ioq>>
-----------------------------------------------------------------------------
(* bflush and bdflush, bdwait, binval. *)

InFlush(p) == pc[p] = "flush" /\ Running(p)

(* The buffer is of the device d, or of any. *)
OnDev(b, d) == d = AllDevs \/ (blkOf[b] \in Blocks /\ DevOf[blkOf[b]] = d)

Dirty(p, i) == "DELWRI" \in flags[free[i]] /\ OnDev(free[i], call[p].arg)

(* bflush takes the first, bdflush the first that is old enough. *)
FlushNext(p) ==
    /\ InFlush(p)
    /\ \E i \in DOMAIN free :
         /\ Dirty(p, i)
         /\ call[p].mode = "aged" \/ \A j \in 1..(i - 1) : ~Dirty(p, j)
         /\ WriteBehind(p, i)

FlushOver(p) ==
    InFlush(p) /\ (call[p].mode = "aged" \/ \A i \in DOMAIN free : ~Dirty(p, i))

FlushEnd(p) ==
    /\ FlushOver(p)
    /\ \/ call[p].mode = "wait" /\ Goto(p, "bdwait", call[p])
       \/ call[p].mode \in {"flush", "aged"} /\ Return(p)
    /\ UNCHANGED <<cache, async, store, ioq, hold, chan>>

Binval(p) ==
    /\ FlushOver(p) /\ call[p].mode = "close"
    /\ flags' = [b \in Bufs |-> flags[b] \cup
                   (IF OnDev(b, call[p].arg) THEN {"STALE", "AGE"} ELSE {})]
    /\ Return(p)
    /\ UNCHANGED <<blkOf, data, free, flWanted, async, store, ioq, hold, chan>>

InBdwait(p) == pc[p] = "bdwait" /\ Running(p)

BdwaitSleep(p) ==
    /\ InBdwait(p) /\ basyncnt # 0
    /\ basynwait' = TRUE
    /\ SleepOn(p, BaSync)
    /\ UNCHANGED <<cache, basyncnt, store, ioq, proc>>

BdwaitEnd(p) ==
    /\ InBdwait(p) /\ basyncnt = 0
    /\ Return(p)
    /\ UNCHANGED <<cache, async, store, ioq, hold, chan>>
-----------------------------------------------------------------------------
(* The disk: requests for one block are served in the order they were made *)
(* (external: the drivers' queues), others in any order.  iodone() runs at *)
(* interrupt level, whatever process is in the middle of a call.           *)

Iodone(b, ok) ==
    LET f == flags[b] \cup (IF ok THEN {"DONE"} ELSE {"DONE", "ERROR"})
        drained == basynwait /\ basyncnt' = 0
    IN  \/ /\ Unattended(f)
           /\ basyncnt' = IF IsWrite(f) THEN basyncnt - 1 ELSE basyncnt
           /\ basynwait' = (basynwait /\ ~drained)
           /\ Brelse(b, f, free, IF drained THEN {BaSync} ELSE {})
        \/ /\ ~Unattended(f)
           /\ flags' = [flags EXCEPT ![b] = f \ {"WANTED"}]
           /\ chan' = Wakeup({b})
           /\ UNCHANGED <<free, flWanted, async>>

Serve(i) ==
    /\ i \in DOMAIN ioq
    /\ \A j \in 1..(i - 1) : blkOf[ioq[j]] # blkOf[ioq[i]]
    /\ ioq' = RemoveAt(ioq, i)
    /\ UNCHANGED <<blkOf, written, proc, run>>

TransferOk(i) ==
    /\ Serve(i)
    /\ Iodone(ioq[i], TRUE)
    /\ LET b == ioq[i]
       IN  IF "READ" \in flags[b]
           THEN /\ data' = [data EXCEPT ![b] = disk[blkOf[b]]]
                /\ UNCHANGED disk
           ELSE /\ disk' = [disk EXCEPT ![blkOf[b]] = data[b]]
                /\ UNCHANGED data
    /\ UNCHANGED errs

TransferFails(i) ==
    /\ errs < MaxErrs
    /\ Serve(i)
    /\ Iodone(ioq[i], FALSE)
    /\ errs' = errs + 1
    /\ UNCHANGED <<data, disk>>
-----------------------------------------------------------------------------
EnterCall(p) ==
    \/ \E blk \in Blocks : CallGetblk(p, blk) \/ CallBread(p, blk)
    \/ CallGeteblk(p)
    \/ \E blk \in Blocks, s \in RaLists : CallBreada(p, blk, s)
    \/ \E m \in {"flush", "aged", "wait"} : CallFlush(p, m)
    \/ \E d \in Devs : CallClose(p, d)

Release(p) ==
    \E b \in Bufs :
        CallBrelse(p, b) \/ CallBdwrite(p, b) \/ CallBwrite(p, b) \/ CallBawrite(p, b)

Step(p) ==
    \/ GetblkScan(p) \/ GetblkBusy(p) \/ GetblkHit(p)
    \/ GetblkEmpty(p) \/ GetblkReuse(p) \/ GetblkDelwri(p) \/ Count(p)
    \/ AheadNext(p) \/ AheadEnd(p)
    \/ IowaitSleep(p) \/ IowaitRead(p) \/ IowaitWrite(p)
    \/ FlushNext(p) \/ FlushEnd(p) \/ Binval(p)
    \/ BdwaitSleep(p) \/ BdwaitEnd(p)

Interrupt == \E i \in DOMAIN ioq : TransferOk(i) \/ TransferFails(i)

Next == (\E p \in Procs : EnterCall(p) \/ Release(p) \/ Step(p)) \/ Interrupt

Spec == Init /\ [][Next]_vars

(* Calls are made at will, but a process in one goes on when it is         *)
(* runnable, callers give buffers back, and the disk serves its requests.  *)
Fairness ==
    /\ \A p \in Procs : SF_vars(Release(p) \/ Step(p))
    /\ \A b \in Bufs : WF_vars(\E i \in DOMAIN ioq : ioq[i] = b /\ TransferOk(i))

FairSpec == Spec /\ Fairness
-----------------------------------------------------------------------------
(* Every variable has a value of its kind. *)
TypeOK ==
    /\ flags \in [Bufs -> SUBSET Flag]
    /\ blkOf \in [Bufs -> Blocks \cup {NoBlk}]
    /\ data \in [Bufs -> Nat \cup {Garbage}]
    /\ free \in Seq(Bufs) /\ ioq \in Seq(Bufs)
    /\ flWanted \in BOOLEAN /\ basynwait \in BOOLEAN
    /\ basyncnt \in Int /\ errs \in Nat
    /\ disk \in [Blocks -> Nat] /\ written \in [Blocks -> Nat]
    /\ pc \in [Procs -> Place]
    /\ call \in [Procs -> CallType]
    /\ hold \in [Procs -> SUBSET Bufs]
    /\ chan \in [Procs -> Bufs \cup {NoChan, FreeList, BaSync}]
    /\ run \in Procs \cup {NoProc}

(* The available list has every buffer that is not B_BUSY, and once: what  *)
(* notavail and brelse do to the list and to the flag stays in step,       *)
(* whoever calls them, process or interrupt.                               *)
FreeIffIdle ==
    /\ IsInjective(free)
    /\ ToSet(free) = {b \in Bufs : "BUSY" \notin flags[b]}

(* A block is in core once: getblk looks again after every sleep and after *)
(* every write it makes room with.                                         *)
UniqueBlock ==
    \A blk \in Blocks : \A b, c \in Found(blk) : b = c

(* A busy buffer is somebody's: of one process, or of the disk if its      *)
(* transfer is asynchronous.  Nothing else would ever release it.          *)
AsyncIo(b) == b \in ToSet(ioq) /\ "ASYNC" \in flags[b]
BusyIsOwned ==
    \A b \in Bufs : "BUSY" \in flags[b] <=>
        AsyncIo(b) \/ \E p \in Procs : b \in hold[p]

(* Who sleeps has something left that will wake it: the buffer it wants    *)
(* is busy and will be released with a wakeup; the transfer is under way;  *)
(* the available list will call; an asynchronous write is to be counted.   *)
(* basyncnt, which bdwait goes by, is the number of asynchronous writes    *)
(* under way, less the one bwrite has started and not yet counted, which   *)
(* may be complete already: the count is then below zero.                  *)
Uncounted == {p \in Procs : pc[p] = "count"}
NoLostWakeup ==
    /\ \A p \in Procs :
        /\ chan[p] \in Bufs /\ pc[p] = "getblk" => {"BUSY", "WANTED"} \subseteq flags[chan[p]]
        /\ chan[p] \in Bufs /\ pc[p] = "iowait" =>
             chan[p] \in ToSet(ioq) /\ "ASYNC" \notin flags[chan[p]]
        /\ chan[p] = FreeList => flWanted
        /\ chan[p] = BaSync =>
             basynwait /\ \E b \in ToSet(ioq) : AsyncIo(b) /\ "READ" \notin flags[b]
    /\ basyncnt + Cardinality(Uncounted) =
        Cardinality({i \in DOMAIN ioq : AsyncIo(ioq[i]) /\ "READ" \notin flags[ioq[i]]})

(* The parts of the inductive invariant that are not of interest in        *)
(* themselves: where a call stands and what it has in hand.                *)
Stands(w, c, h) ==
    /\ w = "user" => c = NoCall
    /\ w \in {"getblk", "hit"} => c.mode \in {"getblk", "bread", "ahead"}
    /\ w = "ahead" => c.mode \in {"bread", "ahead"}
    /\ w = "iowait" => c.mode \in {"bread", "write"} /\ c.bp \in Bufs
    /\ w \in {"flush", "bdwait"} => c.mode \in FlushMode
    /\ w = "hit" => c.tgt \in Bufs
    /\ c.mode = "getblk" => c.bp = NoBuf /\ c.arg \in Blocks \cup {NoBlk}
    /\ c.mode \in {"bread", "ahead"} => c.arg \in Blocks
    /\ c.mode = "bread" /\ w \in {"getblk", "hit", "count"} => c.bp = NoBuf
    /\ c.mode = "ahead" /\ w \in {"getblk", "hit", "count"} => c.ra # << >>
    /\ c.mode \in FlushMode \/ (c.mode = "write" /\ w = "count") => c.bp = NoBuf
    /\ c.bp \in Bufs => c.bp \in h

CallOK ==
    \A p \in Procs :
        /\ Stands(pc[p], call[p], hold[p])
        /\ pc[p] = "hit" => blkOf[call[p].tgt] \in Blocks
        /\ pc[p] \in {"hit", "count"} => run = p

(* Who has a buffer, and which are with the disk. *)
HoldOK ==
    /\ \A p \in Procs : \A b \in hold[p] :
         /\ "BUSY" \in flags[b] /\ "ASYNC" \notin flags[b]
         /\ b \in ToSet(ioq) => call[p].bp = b
         /\ \A q \in Procs : b \in hold[q] => q = p
    /\ IsInjective(ioq)
    /\ \A b \in Bufs : "ASYNC" \in flags[b] => b \in ToSet(ioq)
    /\ \A b \in ToSet(ioq) :
         /\ "BUSY" \in flags[b] /\ "DONE" \notin flags[b] /\ blkOf[b] \in Blocks
         /\ "READ" \notin flags[b] => data[b] \in Nat

(* What is to be written is a block, and has been filled in. *)
Filled ==
    \A b \in Bufs : "DELWRI" \in flags[b] => data[b] \in Nat /\ blkOf[b] \in Blocks

IInv == TypeOK /\ CallOK /\ FreeIffIdle /\ HoldOK /\ BusyIsOwned /\ Filled /\ UniqueBlock

(* A process sleeps for an available buffer while there is one only if     *)
(* another process, woken for that buffer, is still to run: brelse calls   *)
(* either the one or the other.                                            *)
FreeNotStranded ==
    (\E p \in Procs : chan[p] = FreeList) /\ free # << >> =>
        \E q \in Procs : pc[q] # "user" /\ chan[q] = NoChan

(* The processes that have a buffer of the block. *)
Holder(blk) == {p \in Procs : \E b \in hold[p] : blkOf[b] = blk}

(* No two processes have a block at the same time. *)
NoOneElse ==
    \A blk \in Blocks : Cardinality(Holder(blk)) <= 1

(* bdwait returns when no asynchronous write is under way. *)
BdwaitDrains ==
    [][\A p \in Procs : pc[p] = "bdwait" /\ pc'[p] = "user" =>
          \A b \in ToSet(ioq) : "ASYNC" \in flags[b] => "READ" \in flags[b]]_vars

(* A sleep on a buffer ends: the buffer is released, or its transfer ends. *)
EverySleepEnds ==
    \A p \in Procs : chan[p] \in Bufs ~> chan[p] = NoChan
-----------------------------------------------------------------------------
(* What the cache promises, BlockStore: the value a caller sees in a block *)
(* is the last one written, and it has the block alone.                    *)
HeldBuf(blk) == CHOOSE b \in UNION {hold[p] : p \in Procs} : blkOf[b] = blk

Store == INSTANCE BlockStore WITH
    cur <- written,
    stable <- disk,
    owner <- [k \in Blocks |-> Holder(k)],
    view <- [k \in Blocks |->
               IF Holder(k) # {} /\ "DONE" \in flags[HeldBuf(k)]
               THEN data[HeldBuf(k)] ELSE Garbage],
    Unseen <- Garbage

(* The cache, its write-behind, its read-ahead and its reuse of buffers    *)
(* are invisible to callers that see no transfer fail.                     *)
ImplementsBlockStore == Store!Spec
=============================================================================
