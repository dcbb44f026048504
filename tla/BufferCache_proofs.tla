-------------------------- MODULE BufferCache_proofs --------------------------
(***************************************************************************)
(* Proofs about BufferCache for any number of processes, buffers, blocks   *)
(* and devices, any read-ahead lists and any bounds.                       *)
(***************************************************************************)
EXTENDS BufferCache, SeqLemmas, FiniteSetTheorems, TLAPS

-----------------------------------------------------------------------------
(* The type invariant. *)

(* A process in user mode has an empty call record. *)
LEMMA NoCallFacts == NoCall \in CallType /\ NoCall.bp = NoBuf /\ NoCall.mode = "none"
  BY EmptySeq DEF NoCall, CallType, Mode

(* What breada has left to read ahead is a list of blocks. *)
LEMMA AheadOfType ==
    ASSUME NEW s \in Seq(Blocks), NEW core
    PROVE  AheadOf(s, core) \in Seq(Blocks)
<1> DEFINE above == {i \in DOMAIN s : \A j \in i..Len(s) : s[j] \notin core}
<1>1. Len(s) \in Nat /\ DOMAIN s = 1..Len(s)
  OBVIOUS
<1>2. IsFiniteSet(1..Len(s)) /\ Cardinality(1..Len(s)) = Len(s)
  BY <1>1, FS_Interval
<1>3. Cardinality(above) \in Nat /\ Cardinality(above) <= Len(s)
  BY <1>1, <1>2, FS_Subset, FS_CardinalityType
<1> HIDE DEF above
<1>4. Len(s) - Cardinality(above) + 1 \in 1..(Len(s) + 1)
  BY <1>1, <1>3
<1>5. SubSeq(s, Len(s) - Cardinality(above) + 1, Len(s)) \in Seq(Blocks)
  BY <1>1, <1>4, SubSeqProperties
<1>6. QED
  BY <1>5 DEF AheadOf, above

(* A wakeup leaves every process with a channel or none. *)
LEMMA WakeupType ==
    ASSUME TypeOK, NEW C
    PROVE  Wakeup(C) \in [Procs -> Bufs \cup {NoChan, FreeList, BaSync}]
  BY DEF TypeOK, Wakeup

(* brelse puts the buffer on the available list, at either end, and takes  *)
(* B_BUSY and B_ASYNC off it.                                              *)
LEMMA BrelseFacts ==
    ASSUME TypeOK, NEW b \in Bufs, NEW f \in SUBSET Flag, NEW s \in Seq(Bufs), NEW also,
           Brelse(b, f, s, also)
    PROVE  /\ free' \in Seq(Bufs)
           /\ ToSet(free') = ToSet(s) \cup {b}
           /\ IsInjective(s) /\ b \notin ToSet(s) => IsInjective(free')
           /\ chan' \in [Procs -> Bufs \cup {NoChan, FreeList, BaSync}]
           /\ flWanted' \in BOOLEAN
           /\ flags' \in [Bufs -> SUBSET Flag]
           /\ \A c \in Bufs \ {b} : flags'[c] = flags[c]
           /\ flags'[b] \cap {"BUSY", "ASYNC"} = {}
           /\ "DELWRI" \in flags'[b] => "DELWRI" \in f
           /\ "STALE" \notin flags'[b] => "STALE" \notin f
<1> DEFINE g == IF "ERROR" \in f THEN (f \ {"ERROR", "DELWRI"}) \cup {"STALE", "AGE"} ELSE f
<1>1. free' = Cons(b, s) \/ free' = Append(s, b)
  BY DEF Brelse
<1>2. /\ free' \in Seq(Bufs)
      /\ ToSet(free') = ToSet(s) \cup {b}
      /\ IsInjective(s) /\ b \notin ToSet(s) => IsInjective(free')
  <2>1. /\ Append(s, b) \in Seq(Bufs)
        /\ ToSet(Append(s, b)) = ToSet(s) \cup {b}
        /\ IsInjective(s) /\ b \notin ToSet(s) => IsInjective(Append(s, b))
    BY AppendFacts
  <2>2. /\ Cons(b, s) \in Seq(Bufs)
        /\ ToSet(Cons(b, s)) = ToSet(s) \cup {b}
        /\ IsInjective(s) /\ b \notin ToSet(s) => IsInjective(Cons(b, s))
    BY ConsFacts
  <2>3. CASE free' = Append(s, b)
    BY <2>1, <2>3, Zenon
  <2>4. CASE free' = Cons(b, s)
    BY <2>2, <2>4, Zenon
  <2>5. QED
    BY <1>1, <2>3, <2>4
<1>3. flags' = [flags EXCEPT ![b] = g \ {"WANTED", "BUSY", "ASYNC", "AGE"}]
  BY DEF Brelse
<1>4. flags \in [Bufs -> SUBSET Flag] /\ g \in SUBSET Flag
  BY DEF TypeOK, Flag
<1>5. chan' \in [Procs -> Bufs \cup {NoChan, FreeList, BaSync}] /\ flWanted' \in BOOLEAN
  BY WakeupType DEF Brelse, TypeOK
<1>6. /\ "DELWRI" \in g => "DELWRI" \in f
      /\ "STALE" \notin g => "STALE" \notin f
  OBVIOUS
<1> HIDE DEF g
<1>7. /\ flags' \in [Bufs -> SUBSET Flag]
      /\ \A c \in Bufs \ {b} : flags'[c] = flags[c]
      /\ flags'[b] = g \ {"WANTED", "BUSY", "ASYNC", "AGE"}
  BY <1>3, <1>4
<1>8. QED
  BY <1>2, <1>5, <1>6, <1>7

(* What getblk hands to its caller leaves every variable of its kind. *)
LEMMA GotType ==
    ASSUME TypeOK, NEW p \in Procs, NEW b \in Bufs, NEW f \in SUBSET Flag,
           NEW s \in Seq(Bufs), Got(p, b, f, s),
           call[p].mode = "ahead" => call[p].ra # << >>
    PROVE  /\ flags' \in [Bufs -> SUBSET Flag] /\ free' \in Seq(Bufs) /\ ioq' \in Seq(Bufs)
           /\ flWanted' \in BOOLEAN /\ pc' \in [Procs -> Place]
           /\ call' \in [Procs -> CallType] /\ hold' \in [Procs -> SUBSET Bufs]
           /\ chan' \in [Procs -> Bufs \cup {NoChan, FreeList, BaSync}]
           /\ run' \in Procs \cup {NoProc}
<1> DEFINE c == [call[p] EXCEPT !.tgt = NoBuf]
<1>1. c \in CallType /\ c.ra \in Seq(Blocks) /\ c.mode = call[p].mode /\ c.ra = call[p].ra
  BY DEF TypeOK, CallType
<1>2. Append(ioq, b) \in Seq(Bufs) /\ ioq \in Seq(Bufs)
  BY AppendFacts DEF TypeOK
<1>3. CASE c.mode = "getblk" /\ Return(p)
  <2>1. call' = [call EXCEPT ![p] = NoCall] /\ pc' = [pc EXCEPT ![p] = "user"] /\ run' = NoProc
    BY <1>3 DEF Return
  <2>2. UNCHANGED <<flWanted, ioq, chan>> /\ free' = s /\ flags' = [flags EXCEPT ![b] = f]
        /\ hold' = [hold EXCEPT ![p] = @ \cup {b}]
    BY <1>3 DEF Got
  <2>3. QED
    BY <2>1, <2>2, NoCallFacts DEF TypeOK, Place
<1>4. CASE c.mode = "bread"
  <2> DEFINE left == AheadOf(c.ra, InCore')
  <2>1. left \in Seq(Blocks)
    BY <1>1, AheadOfType
  <2>2. [c EXCEPT !.bp = b, !.ra = left] \in CallType
    BY <1>1, <2>1 DEF CallType
  <2>3. /\ UNCHANGED <<flWanted, chan>> /\ free' = s
        /\ flags' = [flags EXCEPT ![b] = IF "DONE" \in f THEN f ELSE f \cup {"READ"}]
        /\ ioq' = IF "DONE" \in f THEN ioq ELSE Append(ioq, b)
        /\ hold' = [hold EXCEPT ![p] = @ \cup {b}]
        /\ Goto(p, IF left = << >> THEN "iowait" ELSE "ahead", [c EXCEPT !.bp = b, !.ra = left])
    BY <1>4 DEF Got
  <2> HIDE DEF left, c
  <2>4. call' \in [Procs -> CallType] /\ pc' \in [Procs -> Place] /\ run' \in Procs \cup {NoProc}
    BY <2>2, <2>3 DEF Goto, TypeOK, Place
  <2>5. f \cup {"READ"} \in SUBSET Flag
    BY DEF Flag
  <2>6. QED
    BY <1>2, <2>3, <2>4, <2>5 DEF TypeOK
<1>5. CASE c.mode = "ahead"
  <2>1. [c EXCEPT !.ra = Tail(@)] \in CallType
    BY <1>1, <1>5, TailFacts DEF CallType
  <2>2. Goto(p, "ahead", [c EXCEPT !.ra = Tail(@)]) /\ hold' = hold
    BY <1>5 DEF Got
  <2>7. \/ Brelse(b, f, s, {}) /\ ioq' = ioq
        \/ /\ flags' = [flags EXCEPT ![b] = f \cup {"READ", "ASYNC"}]
           /\ ioq' = Append(ioq, b) /\ free' = s /\ UNCHANGED <<flWanted, chan>>
    BY <1>5 DEF Got
  <2> HIDE DEF c
  <2>3. call' \in [Procs -> CallType] /\ pc' \in [Procs -> Place] /\ run' \in Procs \cup {NoProc}
    BY <2>1, <2>2 DEF Goto, TypeOK, Place
  <2>4. CASE Brelse(b, f, s, {}) /\ ioq' = ioq
    BY <2>2, <2>3, <2>4, BrelseFacts DEF TypeOK
  <2>5. CASE /\ flags' = [flags EXCEPT ![b] = f \cup {"READ", "ASYNC"}]
             /\ ioq' = Append(ioq, b) /\ free' = s /\ UNCHANGED <<flWanted, chan>>
    BY <1>2, <2>2, <2>3, <2>5 DEF TypeOK, Flag
  <2>6. QED
    BY <2>4, <2>5, <2>7
<1>6. QED
  BY <1>1, <1>3, <1>4, <1>5 DEF Got

(* The block a getblk is for is a block, or none in geteblk. *)
LEMMA WantType ==
    ASSUME TypeOK, CallOK, NEW p \in Procs, pc[p] \in {"getblk", "hit"}
    PROVE  /\ Want(p) \in Blocks \cup {NoBlk}
           /\ call[p].mode \in {"getblk", "bread", "ahead"}
           /\ call[p].mode = "ahead" => call[p].ra # << >>
           /\ pc[p] = "hit" => call[p].tgt \in Bufs
<1>1. Stands(pc[p], call[p], hold[p]) /\ call[p].ra \in Seq(Blocks)
  BY DEF TypeOK, CallOK, CallType
<1>2. call[p].mode = "ahead" => call[p].ra # << >> /\ Head(call[p].ra) \in Blocks
  BY <1>1, TailFacts DEF Stands
<1>3. QED
  BY <1>1, <1>2 DEF Stands, Want

(* Taking a buffer out of the middle of the available list. *)
LEMMA NotavailType ==
    ASSUME TypeOK, NEW i \in DOMAIN free
    PROVE  Notavail(i) \in Seq(Bufs) /\ free[i] \in Bufs
<1>1. free \in Seq(Bufs) /\ free[i] \in Bufs
  BY DEF TypeOK
<1>2. SubSeq(free, 1, i - 1) \in Seq(Bufs) /\ SubSeq(free, i + 1, Len(free)) \in Seq(Bufs)
  BY <1>1, SubSeqProperties
<1>3. QED
  BY <1>1, <1>2, ConcatProperties DEF Notavail, RemoveAt

(* The write started behind a process's back. *)
LEMMA WriteBehindType ==
    ASSUME TypeOK, NEW p \in Procs, NEW i \in DOMAIN free, WriteBehind(p, i)
    PROVE  TypeOK'
<1>1. Notavail(i) \in Seq(Bufs) /\ free[i] \in Bufs /\ Append(ioq, free[i]) \in Seq(Bufs)
  BY NotavailType, AppendFacts DEF TypeOK
<1>2. WriteFlags(flags[free[i]] \cup {"BUSY", "ASYNC"}) \in SUBSET Flag
  BY <1>1 DEF TypeOK, WriteFlags, Flag
<1>3. flags' \in [Bufs -> SUBSET Flag] /\ free' \in Seq(Bufs) /\ ioq' \in Seq(Bufs)
  BY <1>1, <1>2 DEF WriteBehind, TypeOK
<1>4. pc' \in [Procs -> Place] /\ call' \in [Procs -> CallType] /\ run' \in Procs \cup {NoProc}
  BY DEF WriteBehind, Goto, TypeOK, Place
<1>5. QED
  BY <1>3, <1>4 DEF WriteBehind, TypeOK, async, store

(* A transfer has ended. *)
LEMMA IodoneType ==
    ASSUME TypeOK, NEW b \in Bufs, NEW ok \in BOOLEAN, Iodone(b, ok)
    PROVE  /\ flags' \in [Bufs -> SUBSET Flag] /\ free' \in Seq(Bufs)
           /\ flWanted' \in BOOLEAN /\ basyncnt' \in Int /\ basynwait' \in BOOLEAN
           /\ chan' \in [Procs -> Bufs \cup {NoChan, FreeList, BaSync}]
<1> DEFINE f == flags[b] \cup (IF ok THEN {"DONE"} ELSE {"DONE", "ERROR"})
           drained == basynwait /\ basyncnt' = 0
<1>1. f \in SUBSET Flag /\ f \ {"WANTED"} \in SUBSET Flag
  BY DEF TypeOK, Flag
<1>2. CASE /\ basyncnt' = IF IsWrite(f) THEN basyncnt - 1 ELSE basyncnt
           /\ basynwait' = (basynwait /\ ~drained)
           /\ Brelse(b, f, free, IF drained THEN {BaSync} ELSE {})
  <2> HIDE DEF f
  <2>1. basyncnt' \in Int
    BY <1>2 DEF TypeOK
  <2>2. basynwait' \in BOOLEAN
    BY <1>2
  <2> HIDE DEF drained
  <2>3. free \in Seq(Bufs)
    BY DEF TypeOK
  <2>4. QED
    BY <1>1, <1>2, <2>1, <2>2, <2>3, BrelseFacts
<1>3. CASE /\ flags' = [flags EXCEPT ![b] = f \ {"WANTED"}]
           /\ chan' = Wakeup({b})
           /\ UNCHANGED <<free, flWanted, async>>
  <2> HIDE DEF f
  <2>1. chan' \in [Procs -> Bufs \cup {NoChan, FreeList, BaSync}]
    BY <1>3, WakeupType
  <2>2. QED
    BY <1>1, <1>3, <2>1 DEF TypeOK, async
<1>4. QED
  BY <1>2, <1>3 DEF Iodone

(* Every step leaves every variable of its kind: what a transfer puts on   *)
(* the medium has been filled in (HoldOK).                                 *)
LEMMA TypeStep == TypeOK /\ CallOK /\ HoldOK /\ Next => TypeOK'
<1> SUFFICES ASSUME TypeOK, CallOK, HoldOK, Next PROVE TypeOK'
  OBVIOUS
<1> USE DEF cache, async, store, proc
<1>1. ASSUME NEW p \in Procs, NEW m \in Mode, NEW a \in Blocks \cup Devs \cup {NoBlk, AllDevs},
             NEW s \in Seq(Blocks), NEW w \in Place, Enter(p, m, a, s, w)
      PROVE  TypeOK'
  <2>1. [NoCall EXCEPT !.mode = m, !.arg = a, !.ra = s] \in CallType
    BY NoCallFacts DEF CallType
  <2>2. Goto(p, w, [NoCall EXCEPT !.mode = m, !.arg = a, !.ra = s])
        /\ UNCHANGED <<cache, async, store, ioq, hold, chan>>
    BY <1>1 DEF Enter
  <2> DEFINE c == [NoCall EXCEPT !.mode = m, !.arg = a, !.ra = s]
  <2> HIDE DEF c
  <2>3. QED
    BY <2>1, <2>2 DEF TypeOK, Goto, c
<1>2. ASSUME NEW p \in Procs, EnterCall(p) PROVE TypeOK'
  <2>1. << >> \in Seq(Blocks) /\ NoBlk \in Blocks \cup Devs \cup {NoBlk, AllDevs}
    BY EmptySeq
  <2>2. CASE \E blk \in Blocks : CallGetblk(p, blk) \/ CallBread(p, blk)
    BY <1>1, <2>1, <2>2 DEF CallGetblk, CallBread, Mode, Place
  <2>3. CASE CallGeteblk(p)
    BY <1>1, <2>1, <2>3 DEF CallGeteblk, Mode, Place
  <2>4. CASE \E blk \in Blocks, s \in RaLists : CallBreada(p, blk, s)
    <3>1. PICK blk \in Blocks, s \in RaLists : CallBreada(p, blk, s)
      BY <2>4
    <3>2. s \in Seq(Blocks)
      BY CacheAssumption
    <3>3. AheadOf(s, InCore) \in Seq(Blocks)
      BY <3>2, AheadOfType
    <3>4. QED
      BY <1>1, <3>1, <3>2, <3>3 DEF CallBreada, Mode, Place
  <2>5. CASE \E m \in {"flush", "aged", "wait"} : CallFlush(p, m)
    BY <1>1, <2>1, <2>5 DEF CallFlush, Mode, Place
  <2>6. CASE \E d \in Devs : CallClose(p, d)
    BY <1>1, <2>1, <2>6 DEF CallClose, Mode, Place
  <2>7. QED
    BY <1>2, <2>2, <2>3, <2>4, <2>5, <2>6 DEF EnterCall
<1>3. ASSUME NEW p \in Procs, NEW b \in Bufs, Modify(p, b)
      PROVE  data' \in [Bufs -> Nat \cup {Garbage}] /\ written' \in [Blocks -> Nat]
             /\ UNCHANGED <<blkOf, disk, errs>>
  <2>1. b \in Bufs /\ blkOf[b] \in Blocks /\ written[blkOf[b]] + 1 \in Nat
    <3>1. blkOf[b] # NoBlk
      BY <1>3, Zenon DEF Modify
    <3>2. QED
      BY <3>1 DEF TypeOK
  <2>2. /\ written' = [written EXCEPT ![blkOf[b]] = written[blkOf[b]] + 1]
        /\ data' = [data EXCEPT ![b] = written[blkOf[b]] + 1]
        /\ UNCHANGED <<blkOf, disk, errs>>
    BY <1>3 DEF Modify
  <2>3. QED
    BY <2>1, <2>2 DEF TypeOK
<1>4. ASSUME NEW p \in Procs, NEW b \in Bufs, CallBrelse(p, b) PROVE TypeOK'
  <2>1. Brelse(b, flags[b], free, {}) /\ flags[b] \in SUBSET Flag /\ free \in Seq(Bufs)
    BY <1>4 DEF CallBrelse, TypeOK
  <2>2. QED
    BY <1>4, <2>1, BrelseFacts DEF CallBrelse, TypeOK
<1>5. ASSUME NEW p \in Procs, NEW b \in Bufs, CallBdwrite(p, b) PROVE TypeOK'
  <2>1. /\ Brelse(b, flags[b] \cup {"DELWRI", "DONE"}, free, {}) /\ free \in Seq(Bufs)
        /\ flags[b] \cup {"DELWRI", "DONE"} \in SUBSET Flag
    BY <1>5 DEF CallBdwrite, TypeOK, Flag
  <2>2. Modify(p, b) /\ hold' \in [Procs -> SUBSET Bufs]
        /\ UNCHANGED <<async, ioq, pc, call, run>>
    BY <1>5 DEF CallBdwrite, TypeOK
  <2>3. QED
    BY <1>3, <2>1, <2>2, BrelseFacts DEF TypeOK
<1>6. ASSUME NEW p \in Procs, NEW b \in Bufs, CallBwrite(p, b) \/ CallBawrite(p, b) PROVE TypeOK'
  <2>1. Append(ioq, b) \in Seq(Bufs)
    BY AppendFacts DEF TypeOK
  <2>2. WriteFlags(flags[b]) \in SUBSET Flag /\ WriteFlags(flags[b] \cup {"ASYNC"}) \in SUBSET Flag
    BY DEF TypeOK, WriteFlags, Flag
  <2>3. [NoCall EXCEPT !.mode = "write", !.bp = b] \in CallType
        /\ [NoCall EXCEPT !.mode = "write"] \in CallType
    BY NoCallFacts DEF CallType, Mode
  <2>4. Modify(p, b) /\ ioq' = Append(ioq, b) /\ UNCHANGED <<free, flWanted, async, chan>>
    BY <1>6 DEF CallBwrite, CallBawrite
  <2>5. flags' \in [Bufs -> SUBSET Flag] /\ hold' \in [Procs -> SUBSET Bufs]
    BY <1>6, <2>2 DEF CallBwrite, CallBawrite, TypeOK
  <2>6. \E w \in Place : \/ Goto(p, w, [NoCall EXCEPT !.mode = "write", !.bp = b])
                         \/ Goto(p, w, [NoCall EXCEPT !.mode = "write"])
    BY <1>6 DEF CallBwrite, CallBawrite, Place
  <2>7. \E w \in Place, c \in CallType : Goto(p, w, c)
    BY <2>3, <2>6
  <2>8. pc' \in [Procs -> Place] /\ call' \in [Procs -> CallType] /\ run' \in Procs \cup {NoProc}
    BY <2>7 DEF Goto, TypeOK
  <2>9. QED
    BY <1>3, <2>1, <2>4, <2>5, <2>8 DEF TypeOK
<1>7. ASSUME NEW p \in Procs, Step(p) PROVE TypeOK'
  <2> USE DEF TypeOK, Goto, SleepOn, Return
  <2>1. CASE GetblkScan(p)
    <3>1. PICK b \in Bufs : Goto(p, "hit", [call[p] EXCEPT !.tgt = b])
      BY <2>1 DEF GetblkScan, Found
    <3>2. [call[p] EXCEPT !.tgt = b] \in CallType
      BY DEF CallType
    <3>3. QED
      BY <2>1, <3>1, <3>2 DEF GetblkScan, Place
  <2>2. CASE GetblkBusy(p)
    <3>1. call[p].tgt \in Bufs /\ [call[p] EXCEPT !.tgt = NoBuf] \in CallType
      <4>1. pc[p] = "hit"
        BY <2>2 DEF GetblkBusy, InHit
      <4>2. call[p].tgt \in Bufs
        BY <4>1, WantType
      <4>3. QED
        BY <4>2 DEF CallType
    <3>2. flags[call[p].tgt] \cup {"WANTED"} \in SUBSET Flag
      BY <3>1 DEF Flag
    <3>3. call' = [call EXCEPT ![p] = [call[p] EXCEPT !.tgt = NoBuf]]
      BY <2>2 DEF GetblkBusy
    <3>4. QED
      BY <2>2, <3>1, <3>2, <3>3 DEF GetblkBusy, Place
  <2>3. CASE GetblkHit(p)
    <3>1. pc[p] = "hit" /\ UNCHANGED <<blkOf, data, async, store>>
      BY <2>3 DEF GetblkHit, InHit
    <3>2. PICK i \in DOMAIN free : Got(p, call[p].tgt, flags[call[p].tgt] \cup {"BUSY"}, Notavail(i))
      BY <2>3 DEF GetblkHit
    <3>3. call[p].tgt \in Bufs /\ flags[call[p].tgt] \cup {"BUSY"} \in SUBSET Flag
          /\ (call[p].mode = "ahead" => call[p].ra # << >>)
      BY <3>1, WantType DEF Flag
    <3>4. Notavail(i) \in Seq(Bufs)
      BY NotavailType
    <3> HIDE DEF TypeOK
    <3>5. /\ flags' \in [Bufs -> SUBSET Flag] /\ free' \in Seq(Bufs) /\ ioq' \in Seq(Bufs)
          /\ flWanted' \in BOOLEAN /\ pc' \in [Procs -> Place]
          /\ call' \in [Procs -> CallType] /\ hold' \in [Procs -> SUBSET Bufs]
          /\ chan' \in [Procs -> Bufs \cup {NoChan, FreeList, BaSync}]
          /\ run' \in Procs \cup {NoProc}
      BY <3>2, <3>3, <3>4, GotType
    <3>6. QED
      BY <3>1, <3>5 DEF TypeOK
  <2>4. CASE GetblkEmpty(p)
    BY <2>4 DEF GetblkEmpty
  <2>5. CASE GetblkReuse(p)
    <3>1. pc[p] = "getblk" /\ free # << >> /\ UNCHANGED <<async, store>>
      BY <2>5 DEF GetblkReuse, Miss, InGetblk
    <3>2. Head(free) \in Bufs /\ Tail(free) \in Seq(Bufs)
      BY <3>1, TailFacts
    <3>3. (call[p].mode = "ahead" => call[p].ra # << >>) /\ Want(p) \in Blocks \cup {NoBlk}
      BY <3>1, WantType
    <3>4. {"BUSY", "AGE"} \in SUBSET Flag /\ {"BUSY"} \in SUBSET Flag
      BY DEF Flag
    <3>5. blkOf' \in [Bufs -> Blocks \cup {NoBlk}] /\ data' \in [Bufs -> Nat \cup {Garbage}]
      BY <2>5, <3>2, <3>3 DEF GetblkReuse
    <3>6. \E f \in SUBSET Flag : Got(p, Head(free), f, Tail(free))
      BY <2>5, <3>4 DEF GetblkReuse
    <3> HIDE DEF TypeOK
    <3>7. /\ flags' \in [Bufs -> SUBSET Flag] /\ free' \in Seq(Bufs) /\ ioq' \in Seq(Bufs)
          /\ flWanted' \in BOOLEAN /\ pc' \in [Procs -> Place]
          /\ call' \in [Procs -> CallType] /\ hold' \in [Procs -> SUBSET Bufs]
          /\ chan' \in [Procs -> Bufs \cup {NoChan, FreeList, BaSync}]
          /\ run' \in Procs \cup {NoProc}
      BY <3>2, <3>3, <3>6, GotType
    <3>8. QED
      BY <3>1, <3>5, <3>7 DEF TypeOK
  <2>6. CASE GetblkDelwri(p)
    BY <2>6, WriteBehindType, TailFacts DEF GetblkDelwri
  <2>7. CASE Count(p)
    <3>1. \E w \in Place, c \in CallType :
             pc' = [pc EXCEPT ![p] = w] /\ call' = [call EXCEPT ![p] = c]
      BY <2>7, NoCallFacts DEF Count, Place
    <3>2. run' \in Procs \cup {NoProc} /\ basyncnt' = basyncnt + 1
          /\ UNCHANGED <<cache, basynwait, store, ioq, hold, chan>>
      BY <2>7 DEF Count
    <3>3. QED
      BY <3>1, <3>2
  <2>8. CASE AheadNext(p)
    <3>1. [call[p] EXCEPT !.mode = "ahead"] \in CallType
      BY DEF CallType, Mode
    <3>2. call[p].ra \in Seq(Blocks) /\ call[p].ra # << >>
      BY <2>8 DEF AheadNext, CallType
    <3>5. Tail(call[p].ra) \in Seq(Blocks)
      BY <3>2, TailFacts
    <3>3. [call[p] EXCEPT !.ra = Tail(@)] \in CallType
      BY <3>5 DEF CallType
    <3>4. \E w \in Place, c \in CallType : Goto(p, w, c)
      BY <2>8, <3>1, <3>3 DEF AheadNext, Place
    <3>6. QED
      BY <2>8, <3>4 DEF AheadNext
  <2>9. CASE AheadEnd(p)
    <3>1. [call[p] EXCEPT !.mode = "bread"] \in CallType
      BY DEF CallType, Mode
    <3>2. QED
      BY <2>9, <3>1 DEF AheadEnd, Place
  <2>10. CASE IowaitSleep(p)
    <3>1. call[p].bp \in Bufs
      BY <2>10 DEF IowaitSleep, InIowait, CallOK, Stands
    <3>2. QED
      BY <2>10, <3>1 DEF IowaitSleep
  <2>11. CASE IowaitRead(p)
    BY <2>11, NoCallFacts DEF IowaitRead, Place
  <2>12. CASE IowaitWrite(p)
    <3>1. call[p].bp \in Bufs /\ flags[call[p].bp] \in SUBSET Flag
      BY <2>12 DEF IowaitWrite, InIowait, CallOK, Stands
    <3>2. /\ Brelse(call[p].bp, flags[call[p].bp], free, {}) /\ Return(p)
          /\ hold' \in [Procs -> SUBSET Bufs]
          /\ UNCHANGED <<blkOf, data, async, store, ioq>>
      BY <2>12 DEF IowaitWrite
    <3>3. pc' \in [Procs -> Place] /\ call' \in [Procs -> CallType] /\ run' \in Procs \cup {NoProc}
      BY <3>2, NoCallFacts DEF Place
    <3> HIDE DEF TypeOK
    <3>4. /\ flags' \in [Bufs -> SUBSET Flag] /\ free' \in Seq(Bufs) /\ flWanted' \in BOOLEAN
          /\ chan' \in [Procs -> Bufs \cup {NoChan, FreeList, BaSync}]
      BY <3>1, <3>2, BrelseFacts DEF TypeOK
    <3>5. QED
      BY <3>2, <3>3, <3>4 DEF TypeOK
  <2>13. CASE FlushNext(p)
    BY <2>13, WriteBehindType DEF FlushNext
  <2>14. CASE FlushEnd(p)
    BY <2>14, NoCallFacts DEF FlushEnd, Place
  <2>15. CASE Binval(p)
    BY <2>15, NoCallFacts DEF Binval, Place, Flag
  <2>16. CASE BdwaitSleep(p)
    BY <2>16 DEF BdwaitSleep
  <2>17. CASE BdwaitEnd(p)
    BY <2>17, NoCallFacts DEF BdwaitEnd, Place
  <2>18. QED
    BY <1>7, <2>1, <2>2, <2>3, <2>4, <2>5, <2>6, <2>7, <2>8, <2>9, <2>10, <2>11, <2>12, <2>13,
       <2>14, <2>15, <2>16, <2>17 DEF Step
<1>8. ASSUME NEW i \in DOMAIN ioq, TransferOk(i) \/ TransferFails(i) PROVE TypeOK'
  <2>1. ioq[i] \in Bufs /\ blkOf[ioq[i]] \in Blocks /\ ioq[i] \in ToSet(ioq)
    BY DEF TypeOK, HoldOK, ToSet
  <2>2. ioq' \in Seq(Bufs) /\ UNCHANGED <<blkOf, written, proc, run>>
    <3>1. RemoveAt(ioq, i) \in Seq(Bufs)
      BY RemoveAtFacts DEF TypeOK, HoldOK
    <3>2. QED
      BY <1>8, <3>1 DEF TransferOk, TransferFails, Serve
  <2>3. \E ok \in BOOLEAN : Iodone(ioq[i], ok)
    BY <1>8 DEF TransferOk, TransferFails
  <2>4. data' \in [Bufs -> Nat \cup {Garbage}] /\ disk' \in [Blocks -> Nat]
    <3>1. CASE TransferFails(i)
      BY <3>1 DEF TransferFails, TypeOK
    <3>2. CASE TransferOk(i) /\ "READ" \in flags[ioq[i]]
      BY <2>1, <3>2 DEF TransferOk, TypeOK
    <3>3. CASE TransferOk(i) /\ "READ" \notin flags[ioq[i]]
      <4>1. data[ioq[i]] \in Nat
        BY <2>1, <3>3 DEF HoldOK
      <4>2. QED
        BY <2>1, <3>3, <4>1 DEF TransferOk, TypeOK
    <3>4. QED
      BY <1>8, <3>1, <3>2, <3>3
  <2>5. errs' \in Nat
    <3>1. errs' = errs \/ errs' = errs + 1
      BY <1>8 DEF TransferOk, TransferFails
    <3>2. QED
      BY <3>1 DEF TypeOK
  <2>6. QED
    BY <2>1, <2>2, <2>3, <2>4, <2>5, IodoneType DEF TypeOK
<1>9. QED
  BY <1>2, <1>4, <1>5, <1>6, <1>7, <1>8 DEF Next, Release, Interrupt

-----------------------------------------------------------------------------
(* Where each call stands. *)

(* A step of p moves p alone: another process in the middle of a call would *)
(* not have let p run.                                                     *)
LEMMA StepFrame ==
    ASSUME TypeOK, CallOK, NEW p \in Procs, Running(p), NEW w, NEW c, NEW h,
           pc' = [pc EXCEPT ![p] = w], call' = [call EXCEPT ![p] = c],
           hold' = [hold EXCEPT ![p] = h],
           Stands(w, c, h), w = "hit" => blkOf'[c.tgt] \in Blocks,
           w \in {"hit", "count"} => run' = p
    PROVE  CallOK'
<1>1. /\ pc'[p] = w /\ call'[p] = c /\ hold'[p] = h
      /\ \A q \in Procs \ {p} : pc'[q] = pc[q] /\ call'[q] = call[q] /\ hold'[q] = hold[q]
  BY DEF TypeOK
<1>2. ASSUME NEW q \in Procs \ {p} PROVE pc[q] \notin {"hit", "count"}
  BY CacheAssumption DEF CallOK, Running
<1>3. ASSUME NEW q \in Procs
      PROVE  /\ Stands(pc'[q], call'[q], hold'[q])
             /\ pc'[q] = "hit" => blkOf'[call'[q].tgt] \in Blocks
             /\ pc'[q] \in {"hit", "count"} => run' = q
  <2>1. CASE q = p
    BY <1>1, <2>1
  <2>2. CASE q # p
    <3>1. pc'[q] = pc[q] /\ call'[q] = call[q] /\ hold'[q] = hold[q] /\ pc[q] \notin {"hit", "count"}
      BY <1>1, <1>2, <2>2
    <3>2. QED
      BY <3>1 DEF CallOK
  <2>3. QED
    BY <2>1, <2>2
<1>4. QED
  BY <1>3, Zenon DEF CallOK

(* A process that goes on in user mode stands nowhere. *)
LEMMA UserStands == ASSUME NEW h PROVE Stands("user", NoCall, h)
  BY CacheAssumption DEF Stands, NoCall

(* Where getblk's caller stands when it has its buffer. *)
LEMMA GotCall ==
    ASSUME TypeOK, CallOK, NEW p \in Procs, Running(p), pc[p] \in {"getblk", "hit"},
           NEW b \in Bufs, NEW f, NEW s, Got(p, b, f, s)
    PROVE  CallOK'
<1> DEFINE c == [call[p] EXCEPT !.tgt = NoBuf]
<1>1. c \in CallType /\ c.mode = call[p].mode /\ c.ra = call[p].ra /\ c.arg = call[p].arg
      /\ c.bp = call[p].bp /\ c.tgt = NoBuf
  BY DEF TypeOK, CallType
<1>2. Stands(pc[p], call[p], hold[p])
  BY DEF CallOK
<1>3. CASE c.mode = "getblk"
  <2>1. Return(p) /\ hold' = [hold EXCEPT ![p] = hold[p] \cup {b}]
    BY <1>3 DEF Got
  <2>2. QED
    BY <2>1, UserStands, StepFrame DEF Return
<1>4. CASE c.mode = "bread"
  <2> DEFINE left == AheadOf(c.ra, InCore')
             n == [c EXCEPT !.bp = b, !.ra = left]
             w == IF left = << >> THEN "iowait" ELSE "ahead"
             h == hold[p] \cup {b}
  <2>1. Goto(p, w, n) /\ hold' = [hold EXCEPT ![p] = h]
    BY <1>4 DEF Got
  <2>2. n.mode = "bread" /\ n.arg = call[p].arg /\ n.bp = b
    BY <1>1, <1>4 DEF CallType
  <2>3. call[p].arg \in Blocks
    BY <1>1, <1>2, <1>4 DEF Stands
  <2>4. w \in {"iowait", "ahead"} /\ b \in h
    OBVIOUS
  <2> HIDE DEF n, w, h
  <2>5. Stands(w, n, h)
    BY <2>2, <2>3, <2>4 DEF FlushMode, Stands
  <2>6. QED
    BY <2>1, <2>4, <2>5, StepFrame DEF Goto
<1>5. CASE c.mode = "ahead"
  <2> DEFINE n == [c EXCEPT !.ra = Tail(@)]
  <2>1. Goto(p, "ahead", n) /\ hold' = hold
    BY <1>5 DEF Got
  <2>2. n.mode = "ahead" /\ n.arg = call[p].arg /\ n.bp = call[p].bp
    BY <1>1, <1>5 DEF CallType
  <2>3. call[p].arg \in Blocks /\ (call[p].bp \in Bufs => call[p].bp \in hold[p])
    BY <1>1, <1>2, <1>5 DEF Stands
  <2> HIDE DEF n
  <2>4. Stands("ahead", n, hold[p])
    BY <2>2, <2>3 DEF FlushMode, Stands
  <2>5. hold' = [hold EXCEPT ![p] = hold[p]]
    BY <2>1 DEF TypeOK
  <2>6. QED
    BY <2>1, <2>4, <2>5, StepFrame DEF Goto
<1>6. QED
  BY <1>3, <1>4, <1>5 DEF Got

(* Where a call stands when it is entered. *)
LEMMA EnterStands ==
    ASSUME NEW m, NEW a, NEW s, NEW w, NEW h,
           \/ w = "getblk" /\ m = "getblk" /\ a \in Blocks \cup {NoBlk}
           \/ w = "getblk" /\ m = "bread" /\ a \in Blocks
           \/ w = "ahead" /\ m = "ahead" /\ a \in Blocks
           \/ w = "flush" /\ m \in FlushMode
    PROVE  Stands(w, [NoCall EXCEPT !.mode = m, !.arg = a, !.ra = s], h)
<1> DEFINE c == [NoCall EXCEPT !.mode = m, !.arg = a, !.ra = s]
<1>1. c.mode = m /\ c.arg = a /\ c.bp = NoBuf
  BY DEF NoCall
<1> HIDE DEF c
<1>2. Stands(w, c, h)
  BY <1>1, CacheAssumption DEF Stands, FlushMode
<1>3. QED
  BY <1>2 DEF c

(* Every step keeps the calls in order. *)
LEMMA CallStep == TypeOK /\ CallOK /\ HoldOK /\ Next => CallOK'
<1> SUFFICES ASSUME TypeOK, CallOK, HoldOK, Next PROVE CallOK'
  OBVIOUS
<1> USE DEF cache, async, store, proc
<1>1. ASSUME NEW p \in Procs PROVE hold = [hold EXCEPT ![p] = hold[p]] /\ call[p] \in CallType
  BY DEF TypeOK
<1>2. ASSUME NEW p \in Procs, NEW m, NEW a, NEW s, NEW w, Enter(p, m, a, s, w),
             \/ w = "getblk" /\ m = "getblk" /\ a \in Blocks \cup {NoBlk}
             \/ w = "getblk" /\ m = "bread" /\ a \in Blocks
             \/ w = "ahead" /\ m = "ahead" /\ a \in Blocks
             \/ w = "flush" /\ m \in FlushMode
      PROVE  CallOK'
  <2> DEFINE c == [NoCall EXCEPT !.mode = m, !.arg = a, !.ra = s]
  <2>1. Stands(w, c, hold[p])
    BY <1>2, EnterStands
  <2>2. Running(p) /\ Goto(p, w, c) /\ hold' = hold
    BY <1>2 DEF Enter, InUser
  <2> HIDE DEF c
  <2>3. hold' = [hold EXCEPT ![p] = hold[p]]
    BY <1>1, <2>2
  <2>4. w \notin {"hit", "count"}
    BY <1>2
  <2>5. QED
    BY <2>1, <2>2, <2>3, <2>4, StepFrame DEF Goto
<1>3. ASSUME NEW p \in Procs, EnterCall(p) PROVE CallOK'
  <2>1. CASE \E blk \in Blocks : CallGetblk(p, blk) \/ CallBread(p, blk)
    BY <1>2, <2>1 DEF CallGetblk, CallBread
  <2>2. CASE CallGeteblk(p)
    BY <1>2, <2>2 DEF CallGeteblk
  <2>3. CASE \E blk \in Blocks, s \in RaLists : CallBreada(p, blk, s)
    BY <1>2, <2>3 DEF CallBreada
  <2>4. CASE \E m \in {"flush", "aged", "wait"} : CallFlush(p, m)
    BY <1>2, <2>4 DEF CallFlush, FlushMode
  <2>5. CASE \E d \in Devs : CallClose(p, d)
    BY <1>2, <2>5 DEF CallClose, FlushMode
  <2>6. QED
    BY <1>3, <2>1, <2>2, <2>3, <2>4, <2>5 DEF EnterCall
<1>4. ASSUME NEW p \in Procs, NEW b \in Bufs, CallBrelse(p, b) \/ CallBdwrite(p, b) PROVE CallOK'
  <2>1. /\ pc' = pc /\ call' = call /\ pc[p] = "user" /\ Running(p)
        /\ hold' = [hold EXCEPT ![p] = hold[p] \ {b}]
    BY <1>4 DEF CallBrelse, CallBdwrite, Owned, InUser, Modify
  <2>2. call[p] = NoCall
    BY <2>1 DEF CallOK, Stands
  <2>3. pc' = [pc EXCEPT ![p] = "user"] /\ call' = [call EXCEPT ![p] = NoCall]
    BY <2>1, <2>2 DEF TypeOK
  <2>4. QED
    BY <2>1, <2>3, UserStands, StepFrame
<1>5. ASSUME NEW p \in Procs, NEW b \in Bufs, CallBwrite(p, b) PROVE CallOK'
  <2> DEFINE c == [NoCall EXCEPT !.mode = "write", !.bp = b]
  <2>1. c.mode = "write" /\ c.bp = b
    BY DEF NoCall
  <2>2. Goto(p, "iowait", c) /\ hold' = hold /\ b \in hold[p] /\ Running(p)
    BY <1>5 DEF CallBwrite, Modify, Owned, InUser
  <2> HIDE DEF c
  <2>3. Stands("iowait", c, hold[p]) /\ hold' = [hold EXCEPT ![p] = hold[p]]
    BY <1>1, <2>1, <2>2 DEF FlushMode, Stands
  <2>4. QED
    BY <2>2, <2>3, StepFrame DEF Goto
<1>6. ASSUME NEW p \in Procs, NEW b \in Bufs, CallBawrite(p, b) PROVE CallOK'
  <2> DEFINE c == [NoCall EXCEPT !.mode = "write"]
  <2>1. c.mode = "write" /\ c.bp = NoBuf
    BY DEF NoCall
  <2>2. Goto(p, "count", c) /\ hold' = [hold EXCEPT ![p] = hold[p] \ {b}] /\ Running(p)
    BY <1>6 DEF CallBawrite, Modify, Owned, InUser
  <2> HIDE DEF c
  <2>3. Stands("count", c, hold[p] \ {b})
    BY <2>1, CacheAssumption DEF Stands
  <2>4. QED
    BY <2>2, <2>3, StepFrame DEF Goto
<1>7. ASSUME NEW p \in Procs, Step(p) PROVE CallOK'
  <2>0. /\ Stands(pc[p], call[p], hold[p]) /\ call[p] \in CallType
        /\ pc = [pc EXCEPT ![p] = pc[p]] /\ call = [call EXCEPT ![p] = call[p]]
        /\ hold = [hold EXCEPT ![p] = hold[p]]
        /\ pc[p] = "hit" => blkOf[call[p].tgt] \in Blocks
    BY DEF CallOK, TypeOK
  <2>1. CASE GetblkScan(p)
    <3>1. PICK b \in Bufs : blkOf[b] = Want(p) /\ Goto(p, "hit", [call[p] EXCEPT !.tgt = b])
      BY <2>1 DEF GetblkScan, Found
    <3> DEFINE c == [call[p] EXCEPT !.tgt = b]
    <3>2. /\ pc[p] = "getblk" /\ Running(p) /\ Want(p) \in Blocks
          /\ UNCHANGED <<blkOf, hold>>
      BY <2>1, WantType DEF GetblkScan, InGetblk
    <3>3. c.mode = call[p].mode /\ c.arg = call[p].arg /\ c.ra = call[p].ra /\ c.bp = call[p].bp
          /\ c.tgt = b
      BY <2>0 DEF CallType
    <3>4. Goto(p, "hit", c)
      BY <3>1
    <3> HIDE DEF c
    <3>5. Stands("hit", c, hold[p])
      BY <2>0, <3>2, <3>3 DEF Stands
    <3>6. /\ pc' = [pc EXCEPT ![p] = "hit"] /\ call' = [call EXCEPT ![p] = c] /\ run' = p
          /\ hold' = [hold EXCEPT ![p] = hold[p]]
      BY <2>0, <3>2, <3>4 DEF Goto
    <3>7. blkOf'[c.tgt] \in Blocks
      BY <3>1, <3>2, <3>3
    <3>8. QED
      BY <3>2, <3>5, <3>6, <3>7, StepFrame
  <2>2. CASE GetblkBusy(p)
    <3> DEFINE c == [call[p] EXCEPT !.tgt = NoBuf]
    <3>1. /\ pc[p] = "hit" /\ Running(p) /\ UNCHANGED hold
          /\ pc' = [pc EXCEPT ![p] = "getblk"] /\ call' = [call EXCEPT ![p] = c]
      BY <2>2 DEF GetblkBusy, InHit
    <3>2. c.mode = call[p].mode /\ c.arg = call[p].arg /\ c.ra = call[p].ra /\ c.bp = call[p].bp
      BY <2>0 DEF CallType
    <3> HIDE DEF c
    <3>3. Stands("getblk", c, hold[p])
      BY <2>0, <3>1, <3>2 DEF Stands
    <3>4. QED
      BY <2>0, <3>1, <3>3, StepFrame
  <2>3. CASE GetblkHit(p)
    <3>1. pc[p] = "hit" /\ Running(p)
      BY <2>3 DEF GetblkHit, InHit
    <3>2. call[p].tgt \in Bufs
      BY <3>1, WantType
    <3>3. \E f, s : Got(p, call[p].tgt, f, s)
      BY <2>3 DEF GetblkHit
    <3>4. QED
      BY <3>1, <3>2, <3>3, GotCall
  <2>4. CASE GetblkReuse(p)
    <3>1. pc[p] = "getblk" /\ Running(p) /\ Head(free) \in Bufs
      BY <2>4, TailFacts DEF GetblkReuse, Miss, InGetblk, TypeOK
    <3>2. \E f, s : Got(p, Head(free), f, s)
      BY <2>4 DEF GetblkReuse
    <3>3. QED
      BY <3>1, <3>2, GotCall
  <2>5. ASSUME NEW i, WriteBehind(p, i), Running(p), pc[p] \in {"getblk", "flush"} PROVE CallOK'
    <3>1. Goto(p, "count", call[p]) /\ hold' = hold
      BY <2>5 DEF WriteBehind
    <3>2. Stands("count", call[p], hold[p])
      BY <2>0, <2>5, CacheAssumption DEF Stands, FlushMode
    <3>3. QED
      BY <2>0, <2>5, <3>1, <3>2, StepFrame DEF Goto
  <2>6. CASE GetblkDelwri(p)
    BY <2>5, <2>6 DEF GetblkDelwri, Miss, InGetblk
  <2>7. CASE FlushNext(p)
    BY <2>5, <2>7 DEF FlushNext, InFlush
  <2>8. ASSUME NEW w, Goto(p, w, call[p]), Running(p), hold' = hold, Stands(w, call[p], hold[p]),
               w \notin {"hit", "count"}
        PROVE  CallOK'
    BY <2>0, <2>8, StepFrame DEF Goto
  <2>9. ASSUME Return(p), Running(p), \E h : hold' = [hold EXCEPT ![p] = h] PROVE CallOK'
    BY <2>9, UserStands, StepFrame DEF Return
  <2>10. ASSUME Running(p), pc[p] \notin {"hit", "count"}, UNCHANGED proc PROVE CallOK'
    BY <2>0, <2>10, StepFrame
  <2>11. CASE GetblkEmpty(p)
    BY <2>10, <2>11 DEF GetblkEmpty, Miss, InGetblk
  <2>12. CASE Count(p)
    <3>1. Running(p) /\ pc[p] = "count" /\ hold' = hold
      BY <2>12 DEF Count
    <3>2. CASE Return(p)
      BY <2>0, <2>9, <3>1, <3>2
    <3>3. CASE call[p].mode \in {"getblk", "bread", "ahead"} /\ Goto(p, "getblk", call[p])
      <4>1. Stands("getblk", call[p], hold[p])
        BY <2>0, <3>1, <3>3 DEF Stands
      <4>2. QED
        BY <2>8, <3>1, <3>3, <4>1
    <3>4. CASE call[p].mode \in FlushMode /\ Goto(p, "flush", call[p])
      <4>1. Stands("flush", call[p], hold[p])
        BY <2>0, <3>1, <3>4 DEF Stands
      <4>2. QED
        BY <2>8, <3>1, <3>4, <4>1
    <3>5. QED
      BY <2>12, <3>2, <3>3, <3>4 DEF Count
  <2>13. CASE AheadNext(p)
    <3>1. Running(p) /\ pc[p] = "ahead" /\ hold' = hold /\ call[p].ra # << >>
      BY <2>13 DEF AheadNext, InAhead
    <3>2. call[p].arg \in Blocks /\ (call[p].bp \in Bufs => call[p].bp \in hold[p])
          /\ call[p].mode \in {"bread", "ahead"}
      BY <2>0, <3>1 DEF Stands
    <3>3. CASE Goto(p, "getblk", [call[p] EXCEPT !.mode = "ahead"])
      <4> DEFINE c == [call[p] EXCEPT !.mode = "ahead"]
      <4>1. c.mode = "ahead" /\ c.arg = call[p].arg /\ c.ra = call[p].ra /\ c.bp = call[p].bp
        BY <2>0 DEF CallType
      <4>2. Goto(p, "getblk", c)
        BY <3>3
      <4> HIDE DEF c
      <4>3. Stands("getblk", c, hold[p])
        BY <3>1, <3>2, <4>1 DEF FlushMode, Stands
      <4>4. QED
        BY <2>0, <3>1, <4>2, <4>3, StepFrame DEF Goto
    <3>4. CASE Goto(p, "ahead", [call[p] EXCEPT !.ra = Tail(@)])
      <4> DEFINE c == [call[p] EXCEPT !.ra = Tail(@)]
      <4>1. c.mode = call[p].mode /\ c.arg = call[p].arg /\ c.bp = call[p].bp
        BY <2>0 DEF CallType
      <4>2. Goto(p, "ahead", c)
        BY <3>4
      <4> HIDE DEF c
      <4>3. Stands("ahead", c, hold[p])
        BY <3>1, <3>2, <4>1 DEF FlushMode, Stands
      <4>4. QED
        BY <2>0, <3>1, <4>2, <4>3, StepFrame DEF Goto
    <3>5. QED
      BY <2>13, <3>3, <3>4 DEF AheadNext
  <2>14. CASE AheadEnd(p)
    <3> DEFINE c == [call[p] EXCEPT !.mode = "bread"]
               w == IF call[p].bp = NoBuf THEN "getblk" ELSE "iowait"
    <3>1. Running(p) /\ pc[p] = "ahead" /\ hold' = hold /\ Goto(p, w, c)
      BY <2>14 DEF AheadEnd, InAhead
    <3>2. call[p].arg \in Blocks /\ (call[p].bp \in Bufs => call[p].bp \in hold[p])
      BY <2>0, <3>1 DEF Stands
    <3>3. c.mode = "bread" /\ c.arg = call[p].arg /\ c.bp = call[p].bp /\ c.bp \in Bufs \cup {NoBuf}
      BY <2>0 DEF CallType
    <3>4. w \in {"getblk", "iowait"} /\ (w = "getblk" <=> call[p].bp = NoBuf)
      OBVIOUS
    <3> HIDE DEF c, w
    <3>5. Stands(w, c, hold[p])
      BY <3>2, <3>3, <3>4 DEF FlushMode, Stands
    <3>6. QED
      BY <2>0, <3>1, <3>4, <3>5, StepFrame DEF Goto
  <2>15. CASE IowaitSleep(p)
    BY <2>10, <2>15 DEF IowaitSleep, InIowait
  <2>16. CASE IowaitRead(p)
    BY <2>0, <2>9, <2>16 DEF IowaitRead, InIowait
  <2>17. CASE IowaitWrite(p)
    BY <2>9, <2>17 DEF IowaitWrite, InIowait
  <2>18. CASE FlushEnd(p)
    <3>1. Running(p) /\ pc[p] = "flush" /\ hold' = hold
      BY <2>18 DEF FlushEnd, FlushOver, InFlush
    <3>2. Stands("bdwait", call[p], hold[p])
      BY <2>0, <3>1, CacheAssumption DEF Stands, FlushMode
    <3>3. Return(p) \/ Goto(p, "bdwait", call[p])
      BY <2>18 DEF FlushEnd
    <3>4. QED
      BY <2>0, <2>8, <2>9, <3>1, <3>2, <3>3
  <2>19. CASE Binval(p)
    BY <2>0, <2>9, <2>19 DEF Binval, FlushOver, InFlush
  <2>20. CASE BdwaitSleep(p)
    BY <2>10, <2>20 DEF BdwaitSleep, InBdwait
  <2>21. CASE BdwaitEnd(p)
    BY <2>0, <2>9, <2>21 DEF BdwaitEnd, InBdwait
  <2>22. QED
    BY <1>7, <2>1, <2>2, <2>3, <2>4, <2>6, <2>7, <2>11, <2>12, <2>13, <2>14, <2>15, <2>16, <2>17,
       <2>18, <2>19, <2>20, <2>21 DEF Step
<1>8. ASSUME NEW i \in DOMAIN ioq, TransferOk(i) \/ TransferFails(i) PROVE CallOK'
  <2>1. UNCHANGED <<blkOf, pc, call, hold, run>>
    BY <1>8 DEF TransferOk, TransferFails, Serve
  <2>2. QED
    BY <2>1 DEF CallOK
<1>9. QED
  BY <1>3, <1>4, <1>5, <1>6, <1>7, <1>8 DEF Next, Release, Interrupt

-----------------------------------------------------------------------------
(* The buffers. *)

Buffers == FreeIffIdle /\ HoldOK /\ BusyIsOwned /\ Filled /\ UniqueBlock

(* A step that moves no buffer and changes none of the flags that matter,  *)
(* except that a buffer may go stale.                                      *)
LEMMA QuietBuffers ==
    ASSUME Buffers,
           \A b \in Bufs : \A x \in {"BUSY", "ASYNC", "DONE", "READ", "DELWRI"} :
               x \in flags'[b] <=> x \in flags[b],
           \A b \in Bufs : "STALE" \in flags[b] => "STALE" \in flags'[b],
           TypeOK, UNCHANGED <<blkOf, data, free, ioq, hold>>,
           \A q \in Procs : \A b \in hold[q] : b \in ToSet(ioq) => call'[q].bp = call[q].bp
    PROVE  Buffers'
<1>0. ToSet(ioq) \subseteq Bufs /\ \A q \in Procs : hold[q] \subseteq Bufs
  BY DEF TypeOK, ToSet
<1>1. FreeIffIdle'
  BY DEF Buffers, FreeIffIdle
<1>2. HoldOK'
  <2>1. ASSUME NEW q \in Procs, NEW b \in hold[q]
        PROVE  /\ "BUSY" \in flags'[b] /\ "ASYNC" \notin flags'[b]
               /\ b \in ToSet(ioq) => call'[q].bp = b
               /\ \A r \in Procs : b \in hold[r] => r = q
    BY <1>0 DEF Buffers, HoldOK
  <2>2. ASSUME NEW b \in ToSet(ioq)
        PROVE  /\ "BUSY" \in flags'[b] /\ "DONE" \notin flags'[b] /\ blkOf[b] \in Blocks
               /\ "READ" \notin flags'[b] => data[b] \in Nat
    BY <1>0 DEF Buffers, HoldOK
  <2>3. IsInjective(ioq) /\ \A b \in Bufs : "ASYNC" \in flags'[b] => b \in ToSet(ioq)
    BY DEF Buffers, HoldOK
  <2>4. QED
    BY <2>1, <2>2, <2>3 DEF HoldOK
<1>3. BusyIsOwned'
  BY DEF Buffers, BusyIsOwned, AsyncIo
<1>4. Filled'
  BY DEF Buffers, Filled
<1>5. UniqueBlock'
  <2>1. \A k : Found(k)' \subseteq Found(k)
    BY DEF Found
  <2>2. QED
    BY <2>1 DEF Buffers, UniqueBlock
<1>6. QED
  BY <1>1, <1>2, <1>3, <1>4, <1>5 DEF Buffers

(* A step that concerns the one buffer b: it is enough to look at b.       *)
LEMMA OneBuffer ==
    ASSUME TypeOK, TypeOK', Buffers, UniqueBlock', NEW b \in Bufs,
           \A c \in Bufs \ {b} :
               /\ flags'[c] = flags[c] /\ data'[c] = data[c] /\ blkOf'[c] = blkOf[c]
               /\ c \in ToSet(free') <=> c \in ToSet(free)
               /\ c \in ToSet(ioq') <=> c \in ToSet(ioq)
               /\ \A q \in Procs : c \in hold'[q] <=> c \in hold[q],
           IsInjective(free'), IsInjective(ioq'),
           \A q \in Procs : \A c \in hold[q] :
               c \in ToSet(ioq) /\ c # b => call'[q].bp = c,
           b \in ToSet(free') <=> "BUSY" \notin flags'[b],
           \A q \in Procs : b \in hold'[q] =>
               /\ "BUSY" \in flags'[b] /\ "ASYNC" \notin flags'[b]
               /\ b \in ToSet(ioq') => call'[q].bp = b
               /\ \A r \in Procs : b \in hold'[r] => r = q,
           "ASYNC" \in flags'[b] => b \in ToSet(ioq'),
           b \in ToSet(ioq') =>
               /\ "BUSY" \in flags'[b] /\ "DONE" \notin flags'[b] /\ blkOf'[b] \in Blocks
               /\ "READ" \notin flags'[b] => data'[b] \in Nat,
           "BUSY" \in flags'[b] =>
               (b \in ToSet(ioq') /\ "ASYNC" \in flags'[b]) \/ \E q \in Procs : b \in hold'[q],
           "DELWRI" \in flags'[b] => data'[b] \in Nat /\ blkOf'[b] \in Blocks
    PROVE  Buffers'
<1>0. /\ ToSet(ioq) \subseteq Bufs /\ ToSet(ioq') \subseteq Bufs
      /\ ToSet(free) \subseteq Bufs /\ ToSet(free') \subseteq Bufs
      /\ \A q \in Procs : hold[q] \subseteq Bufs /\ hold'[q] \subseteq Bufs
  BY DEF TypeOK, ToSet
<1>1. FreeIffIdle'
  <2>1. \A c \in Bufs : c \in ToSet(free') <=> "BUSY" \notin flags'[c]
    BY DEF Buffers, FreeIffIdle
  <2>2. ToSet(free') = {c \in Bufs : "BUSY" \notin flags'[c]}
    BY <1>0, <2>1
  <2>3. QED
    BY <2>2 DEF FreeIffIdle
<1>2. HoldOK'
  <2>1. ASSUME NEW q \in Procs, NEW c \in hold'[q]
        PROVE  /\ "BUSY" \in flags'[c] /\ "ASYNC" \notin flags'[c]
               /\ c \in ToSet(ioq') => call'[q].bp = c
               /\ \A r \in Procs : c \in hold'[r] => r = q
    <3>1. CASE c = b
      BY <2>1, <3>1
    <3>2. CASE c # b
      <4>1. c \in hold[q] /\ c \in Bufs \ {b}
        BY <1>0, <3>2
      <4>2. /\ "BUSY" \in flags[c] /\ "ASYNC" \notin flags[c]
            /\ \A r \in Procs : c \in hold[r] => r = q
        BY <4>1 DEF Buffers, HoldOK
      <4>3. c \in ToSet(ioq') => call'[q].bp = c
        BY <3>2, <4>1
      <4>4. QED
        BY <4>1, <4>2, <4>3
    <3>3. QED
      BY <3>1, <3>2
  <2>2. ASSUME NEW c \in ToSet(ioq')
        PROVE  /\ "BUSY" \in flags'[c] /\ "DONE" \notin flags'[c] /\ blkOf'[c] \in Blocks
               /\ "READ" \notin flags'[c] => data'[c] \in Nat
    <3>1. CASE c = b
      BY <2>2, <3>1
    <3>2. CASE c # b
      BY <1>0, <3>2 DEF Buffers, HoldOK
    <3>3. QED
      BY <3>1, <3>2
  <2>3. \A c \in Bufs : "ASYNC" \in flags'[c] => c \in ToSet(ioq')
    BY DEF Buffers, HoldOK
  <2>4. QED
    BY <2>1, <2>2, <2>3 DEF HoldOK
<1>3. BusyIsOwned'
  <2>1. ASSUME NEW c \in Bufs
        PROVE  "BUSY" \in flags'[c] <=>
                 (c \in ToSet(ioq') /\ "ASYNC" \in flags'[c]) \/ \E q \in Procs : c \in hold'[q]
    <3>1. CASE c = b
      BY <3>1
    <3>2. CASE c # b
      BY <3>2 DEF Buffers, BusyIsOwned, AsyncIo
    <3>3. QED
      BY <3>1, <3>2
  <2>2. QED
    BY <2>1 DEF BusyIsOwned, AsyncIo
<1>4. Filled'
  BY DEF Buffers, Filled
<1>5. QED
  BY <1>1, <1>2, <1>3, <1>4 DEF Buffers

(* A block stays in core once if buffers only go stale. *)
LEMMA UniqueKept ==
    ASSUME UniqueBlock, UNCHANGED blkOf,
           \A c \in Bufs : "STALE" \in flags[c] => "STALE" \in flags'[c]
    PROVE  UniqueBlock'
<1>1. \A k : Found(k)' \subseteq Found(k)
  BY DEF Found
<1>2. QED
  BY <1>1 DEF UniqueBlock

(* A process gives a buffer back with brelse. *)
LEMMA GiveBack ==
    ASSUME TypeOK, TypeOK', Buffers, NEW p \in Procs, NEW b \in hold[p], NEW f \in SUBSET Flag,
           b \notin ToSet(ioq), Brelse(b, f, free, {}),
           "STALE" \in flags[b] => "STALE" \in f,
           "DELWRI" \in f => data'[b] \in Nat /\ blkOf[b] \in Blocks,
           hold' = [hold EXCEPT ![p] = hold[p] \ {b}],
           \A c \in Bufs \ {b} : data'[c] = data[c],
           UNCHANGED <<blkOf, ioq>>,
           \A q \in Procs : \A c \in hold[q] : c \in ToSet(ioq) => call'[q].bp = c
    PROVE  Buffers'
<1>1. /\ b \in Bufs /\ free \in Seq(Bufs) /\ b \notin ToSet(free) /\ IsInjective(free)
      /\ \A q \in Procs : b \in hold[q] => q = p
  BY DEF TypeOK, Buffers, HoldOK, FreeIffIdle
<1>2. /\ ToSet(free') = ToSet(free) \cup {b} /\ IsInjective(free')
      /\ \A c \in Bufs \ {b} : flags'[c] = flags[c]
      /\ flags'[b] \cap {"BUSY", "ASYNC"} = {}
      /\ "DELWRI" \in flags'[b] => "DELWRI" \in f
      /\ "STALE" \notin flags'[b] => "STALE" \notin f
  BY <1>1, BrelseFacts
<1>3. /\ \A q \in Procs : b \notin hold'[q]
      /\ \A q \in Procs : \A c \in Bufs \ {b} : c \in hold'[q] <=> c \in hold[q]
  BY <1>1 DEF TypeOK
<1>4. UniqueBlock'
  BY <1>1, <1>2, UniqueKept DEF Buffers
<1>5. IsInjective(ioq)
  BY DEF Buffers, HoldOK
<1>6. QED
  BY <1>1, <1>2, <1>3, <1>4, <1>5, OneBuffer

(* A transfer of b is handed to a driver. *)
LEMMA StartTransfer ==
    ASSUME TypeOK, TypeOK', Buffers, UniqueBlock', NEW b \in Bufs, b \notin ToSet(ioq),
           ioq' = Append(ioq, b),
           \A c \in Bufs \ {b} :
               /\ flags'[c] = flags[c] /\ data'[c] = data[c] /\ blkOf'[c] = blkOf[c]
               /\ \A q \in Procs : c \in hold'[q] <=> c \in hold[q],
           IsInjective(free'), ToSet(free') = ToSet(free) \ {b},
           "BUSY" \in flags'[b], "DONE" \notin flags'[b], blkOf'[b] \in Blocks,
           "READ" \notin flags'[b] \/ "DELWRI" \in flags'[b] => data'[b] \in Nat,
           \A q \in Procs : \A c \in hold[q] :
               c \in ToSet(ioq) /\ c # b => call'[q].bp = c,
           "ASYNC" \in flags'[b] => \A q \in Procs : b \notin hold'[q],
           "ASYNC" \notin flags'[b] =>
               \E p \in Procs : \A q \in Procs :
                   (b \in hold'[q] <=> q = p) /\ (q = p => call'[q].bp = b)
    PROVE  Buffers'
<1>1. /\ ToSet(ioq') = ToSet(ioq) \cup {b} /\ IsInjective(ioq')
  BY AppendFacts DEF TypeOK, Buffers, HoldOK
<1>2. \A q \in Procs : b \in hold'[q] =>
          /\ "BUSY" \in flags'[b] /\ "ASYNC" \notin flags'[b]
          /\ b \in ToSet(ioq') => call'[q].bp = b
          /\ \A r \in Procs : b \in hold'[r] => r = q
  OBVIOUS
<1>3. (b \in ToSet(ioq') /\ "ASYNC" \in flags'[b]) \/ \E q \in Procs : b \in hold'[q]
  BY <1>1
<1>4. \A c \in Bufs \ {b} : /\ c \in ToSet(free') <=> c \in ToSet(free)
                            /\ c \in ToSet(ioq') <=> c \in ToSet(ioq)
  BY <1>1
<1>5. QED
  BY <1>1, <1>2, <1>3, <1>4, OneBuffer

(* A buffer on the available list is nobody's. *)
LEMMA FreeIsIdle ==
    ASSUME TypeOK, Buffers, NEW b \in ToSet(free)
    PROVE  /\ b \in Bufs /\ "BUSY" \notin flags[b] /\ "ASYNC" \notin flags[b] /\ b \notin ToSet(ioq)
           /\ \A q \in Procs : b \notin hold[q]
           /\ "DELWRI" \in flags[b] => data[b] \in Nat /\ blkOf[b] \in Blocks
<1>1. b \in Bufs /\ "BUSY" \notin flags[b]
  BY DEF Buffers, FreeIffIdle
<1>2. b \notin ToSet(ioq) /\ \A q \in Procs : b \notin hold[q]
  BY <1>1 DEF Buffers, HoldOK
<1>3. QED
  BY <1>1, <1>2 DEF Buffers, HoldOK, Filled

(* Writing behind a process's back. *)
LEMMA WriteBehindStep ==
    ASSUME TypeOK, TypeOK', Buffers, NEW p \in Procs, NEW i \in DOMAIN free,
           "DELWRI" \in flags[free[i]], WriteBehind(p, i)
    PROVE  Buffers'
<1> DEFINE b == free[i]
<1>1. b \in ToSet(free) /\ free \in Seq(Bufs) /\ IsInjective(free)
  BY DEF ToSet, TypeOK, Buffers, FreeIffIdle
<1>2. /\ b \in Bufs /\ b \notin ToSet(ioq) /\ data[b] \in Nat /\ blkOf[b] \in Blocks
      /\ \A q \in Procs : b \notin hold[q]
  BY <1>1, FreeIsIdle
<1>3. IsInjective(free') /\ ToSet(free') = ToSet(free) \ {b}
  BY <1>1, RemoveAtFacts DEF WriteBehind, Notavail
<1>4. /\ flags' = [flags EXCEPT ![b] = WriteFlags(flags[b] \cup {"BUSY", "ASYNC"})]
      /\ ioq' = Append(ioq, b) /\ UNCHANGED <<blkOf, data, hold>> /\ call' = [call EXCEPT ![p] = call[p]]
  BY DEF WriteBehind, Goto
<1> HIDE DEF b
<1>5. /\ {"BUSY", "ASYNC"} \subseteq flags'[b] /\ "DONE" \notin flags'[b]
      /\ \A c \in Bufs \ {b} : flags'[c] = flags[c]
      /\ \A c \in Bufs : "STALE" \in flags[c] => "STALE" \in flags'[c]
  BY <1>2, <1>4 DEF TypeOK, WriteFlags
<1>6. UniqueBlock'
  BY <1>4, <1>5, UniqueKept DEF Buffers
<1>7. call' = call /\ \A q \in Procs : \A c \in hold[q] : c \in ToSet(ioq) => call[q].bp = c
  BY <1>4 DEF TypeOK, Buffers, HoldOK
<1>8. QED
  BY <1>2, <1>3, <1>4, <1>5, <1>6, <1>7, StartTransfer

(* The end of a transfer. *)
LEMMA IodoneStep ==
    ASSUME TypeOK, TypeOK', Buffers, NEW i \in DOMAIN ioq, NEW ok \in BOOLEAN,
           Iodone(ioq[i], ok), ioq' = RemoveAt(ioq, i), UNCHANGED <<blkOf, hold, call>>,
           \A c \in Bufs : data'[c] = data[c] \/ (c = ioq[i] /\ data'[c] \in Nat)
    PROVE  Buffers'
<1> DEFINE b == ioq[i]
           f == flags[b] \cup (IF ok THEN {"DONE"} ELSE {"DONE", "ERROR"})
<1>1. b \in ToSet(ioq) /\ ioq \in Seq(Bufs) /\ b \in Bufs /\ free \in Seq(Bufs)
  BY DEF ToSet, TypeOK
<1>2. /\ "BUSY" \in flags[b] /\ b \notin ToSet(free) /\ IsInjective(free) /\ IsInjective(ioq)
      /\ "DELWRI" \in flags[b] => data'[b] \in Nat /\ blkOf'[b] \in Blocks
  BY <1>1 DEF Buffers, HoldOK, FreeIffIdle, Filled
<1>3. IsInjective(ioq') /\ ToSet(ioq') = ToSet(ioq) \ {b}
  BY <1>1, <1>2, RemoveAtFacts
<1>4. \A q \in Procs : \A c \in hold'[q] : c \in ToSet(ioq) => call'[q].bp = c
  BY DEF Buffers, HoldOK
<1>5. \A c \in Bufs \ {b} : data'[c] = data[c]
  OBVIOUS
<1>6. CASE "ASYNC" \in f
  <2>1. \A q \in Procs : b \notin hold[q]
    BY <1>6 DEF Buffers, HoldOK
  <2>2. f \in SUBSET Flag /\ \E also : Brelse(b, f, free, also)
    <3>1. f \in SUBSET Flag
      BY <1>1 DEF TypeOK, Flag
    <3>2. QED
      BY <1>6, <3>1 DEF Iodone, Unattended
  <2>3. "STALE" \in flags[b] => "STALE" \in f
    OBVIOUS
  <2>7. "DELWRI" \in f => "DELWRI" \in flags[b]
    OBVIOUS
  <2> HIDE DEF f
  <2>4. /\ ToSet(free') = ToSet(free) \cup {b} /\ IsInjective(free')
        /\ \A c \in Bufs \ {b} : flags'[c] = flags[c]
        /\ flags'[b] \cap {"BUSY", "ASYNC"} = {}
        /\ "DELWRI" \in flags'[b] => "DELWRI" \in f
        /\ "STALE" \notin flags'[b] => "STALE" \notin f
    BY <1>1, <1>2, <2>2, BrelseFacts
  <2> HIDE DEF b
  <2>5. UniqueBlock'
    BY <1>1, <2>3, <2>4, UniqueKept DEF Buffers
  <2>6. QED
    BY <1>1, <1>2, <1>3, <1>4, <1>5, <2>1, <2>4, <2>5, <2>7, OneBuffer
<1>7. CASE "ASYNC" \notin f
  <2>1. flags' = [flags EXCEPT ![b] = f \ {"WANTED"}] /\ free' = free
    BY <1>7 DEF Iodone, Unattended
  <2>2. /\ \A c \in Bufs \ {b} : flags'[c] = flags[c]
        /\ \A x \in {"BUSY", "ASYNC", "DELWRI", "STALE"} : x \in flags'[b] <=> x \in flags[b]
    BY <1>1, <2>1 DEF TypeOK
  <2>3. \E q \in Procs : b \in hold[q]
    BY <1>1, <1>2, <1>7 DEF Buffers, BusyIsOwned, AsyncIo
  <2>4. UniqueBlock'
    <3> HIDE DEF b, f
    <3>1. \A c \in Bufs : "STALE" \in flags[c] => "STALE" \in flags'[c]
      BY <2>2
    <3>2. QED
      BY <3>1, UniqueKept DEF Buffers
  <2>5. \A q \in Procs : b \in hold'[q] => \A r \in Procs : b \in hold'[r] => r = q
    BY DEF Buffers, HoldOK
  <2>6. "ASYNC" \notin flags'[b] /\ "BUSY" \in flags'[b]
    BY <1>2, <1>7, <2>2
  <2> HIDE DEF b, f
  <2>7. QED
    BY <1>1, <1>2, <1>3, <1>4, <1>5, <2>1, <2>2, <2>3, <2>4, <2>5, <2>6, OneBuffer
<1>8. QED
  BY <1>6, <1>7

(* getblk's caller has its buffer, gives it back or has it read. *)
LEMMA GotStep ==
    ASSUME TypeOK, TypeOK', CallOK, Buffers, NEW p \in Procs, pc[p] \in {"getblk", "hit"},
           NEW b \in ToSet(free), NEW f \in SUBSET Flag, NEW s \in Seq(Bufs),
           "BUSY" \in f, "ASYNC" \notin f, IsInjective(s), ToSet(s) = ToSet(free) \ {b},
           Got(p, b, f, s),
           call[p].mode # "getblk" => blkOf'[b] \in Blocks,
           "DELWRI" \in f => data'[b] \in Nat /\ blkOf'[b] \in Blocks,
           \A c \in Bufs \ {b} : data'[c] = data[c] /\ blkOf'[c] = blkOf[c],
           "STALE" \notin f =>
               \A c \in Bufs \ {b} : blkOf[c] = blkOf'[b] /\ blkOf[c] \in Blocks => "STALE" \in flags[c]
    PROVE  Buffers'
<1> DEFINE c == [call[p] EXCEPT !.tgt = NoBuf]
<1>1. /\ b \in Bufs /\ b \notin ToSet(ioq) /\ \A q \in Procs : b \notin hold[q]
  BY FreeIsIdle
<1>2. /\ c.mode = call[p].mode /\ c.bp = call[p].bp /\ c \in CallType
  <2>1. call[p] \in CallType
    BY DEF TypeOK
  <2>2. QED
    BY <2>1 DEF CallType
<1>3. Stands(pc[p], call[p], hold[p])
  BY DEF CallOK
<1>4. \A q \in Procs : \A e \in hold[q] : e \in ToSet(ioq) => call[q].bp = e
  BY DEF Buffers, HoldOK
<1>5. IsInjective(ioq) /\ IsInjective(free)
  BY DEF Buffers, HoldOK, FreeIffIdle
<1>6. ASSUME /\ \A e \in Bufs \ {b} : flags'[e] = flags[e]
             /\ "STALE" \in f => "STALE" \in flags'[b]
      PROVE  UniqueBlock'
  <2>1. ASSUME NEW blk \in Blocks, NEW d \in Found(blk)', NEW e \in Found(blk)' PROVE d = e
    <3>1. d \in Bufs /\ e \in Bufs /\ blkOf'[d] = blk /\ blkOf'[e] = blk
          /\ "STALE" \notin flags'[d] /\ "STALE" \notin flags'[e]
      BY DEF Found
    <3>2. CASE d # b /\ e # b
      <4>1. d \in Found(blk) /\ e \in Found(blk)
        BY <1>6, <3>1, <3>2 DEF Found
      <4>2. QED
        BY <4>1 DEF Buffers, UniqueBlock
    <3>3. CASE d = b \/ e = b
      BY <1>6, <3>1, <3>3
    <3>4. QED
      BY <3>2, <3>3
  <2>2. QED
    BY <2>1 DEF UniqueBlock
<1>7. ASSUME hold' = [hold EXCEPT ![p] = hold[p] \cup {b}]
      PROVE  /\ \A q \in Procs : b \in hold'[q] <=> q = p
             /\ \A q \in Procs : \A e \in Bufs \ {b} : e \in hold'[q] <=> e \in hold[q]
  BY <1>1, <1>7 DEF TypeOK
<1>8. ASSUME call[p].bp = NoBuf, NEW n, call' = [call EXCEPT ![p] = n]
      PROVE  \A q \in Procs : \A e \in hold[q] : e \in ToSet(ioq) => call'[q].bp = e
  <2>1. \A e \in hold[p] : e \in Bufs /\ e # NoBuf
    BY CacheAssumption DEF TypeOK
  <2>2. \A q \in Procs \ {p} : call'[q] = call[q]
    BY <1>8 DEF TypeOK
  <2>3. QED
    BY <1>4, <1>8, <2>1, <2>2
<1>9. CASE c.mode \in {"getblk", "bread"}
  <2>1. /\ call[p].bp = NoBuf /\ hold' = [hold EXCEPT ![p] = hold[p] \cup {b}] /\ free' = s
        /\ c.mode = "bread" => call[p].mode # "getblk"
    BY <1>2, <1>3, <1>9 DEF Stands, Got
  <2>2. CASE c.mode = "getblk" \/ "DONE" \in f
    <3>1. /\ flags' = [flags EXCEPT ![b] = f] /\ ioq' = ioq
      BY <1>9, <2>2 DEF Got
    <3>2. \E n : call' = [call EXCEPT ![p] = n]
      BY <1>9 DEF Got, Return, Goto
    <3> HIDE DEF c
    <3>3. flags'[b] = f /\ \A e \in Bufs \ {b} : flags'[e] = flags[e]
      BY <1>1, <3>1 DEF TypeOK
    <3>4. UniqueBlock'
      BY <1>6, <3>3
    <3>5. \A q \in Procs : \A e \in hold[q] : e \in ToSet(ioq) => call'[q].bp = e
      BY <1>8, <2>1, <3>2
    <3>6. QED
      BY <1>1, <1>5, <1>7, <2>1, <3>1, <3>3, <3>4, <3>5, OneBuffer
  <2>3. CASE c.mode = "bread" /\ "DONE" \notin f
    <3>1. /\ flags' = [flags EXCEPT ![b] = f \cup {"READ"}] /\ ioq' = Append(ioq, b)
      BY <2>3 DEF Got
    <3> DEFINE n == [c EXCEPT !.bp = b, !.ra = AheadOf(c.ra, InCore')]
    <3>2. call' = [call EXCEPT ![p] = n]
      BY <2>3 DEF Got, Goto
    <3>3. n.bp = b
      BY <1>2 DEF CallType
    <3> HIDE DEF n
    <3>4. call'[p].bp = b
      BY <3>2, <3>3 DEF TypeOK
    <3>5. flags'[b] = f \cup {"READ"} /\ \A e \in Bufs \ {b} : flags'[e] = flags[e]
      BY <1>1, <3>1 DEF TypeOK
    <3>6. UniqueBlock'
      BY <1>6, <3>5
    <3>7. \A q \in Procs : \A e \in hold[q] : e \in ToSet(ioq) => call'[q].bp = e
      BY <1>8, <2>1, <3>2
    <3>8. blkOf'[b] \in Blocks /\ ("DELWRI" \in flags'[b] => data'[b] \in Nat)
      BY <2>1, <2>3, <3>5
    <3> HIDE DEF c
    <3>9. "BUSY" \in flags'[b] /\ "DONE" \notin flags'[b] /\ "ASYNC" \notin flags'[b]
          /\ "READ" \in flags'[b]
      BY <2>3, <3>5
    <3>10. \A q \in Procs : (b \in hold'[q] <=> q = p) /\ (q = p => call'[q].bp = b)
      BY <1>7, <2>1, <3>4
    <3>11. QED
      BY <1>1, <1>7, <2>1, <3>1, <3>5, <3>6, <3>7, <3>8, <3>9, <3>10, StartTransfer
  <2>4. QED
    BY <1>9, <2>2, <2>3
<1>10. CASE c.mode = "ahead"
  <2> DEFINE n == [c EXCEPT !.ra = Tail(@)]
  <2>1. hold' = hold /\ call' = [call EXCEPT ![p] = n] /\ call[p].mode # "getblk"
    BY <1>2, <1>10 DEF Got, Goto
  <2>2. n.bp = call[p].bp
    BY <1>2 DEF CallType
  <2>3. \/ "DONE" \in f /\ Brelse(b, f, s, {}) /\ ioq' = ioq
        \/ /\ "DONE" \notin f /\ flags' = [flags EXCEPT ![b] = f \cup {"READ", "ASYNC"}]
           /\ ioq' = Append(ioq, b) /\ free' = s
    BY <1>10 DEF Got
  <2> HIDE DEF n, c
  <2>4. \A q \in Procs : call'[q].bp = call[q].bp
    BY <2>1, <2>2 DEF TypeOK
  <2>5. CASE Brelse(b, f, s, {}) /\ ioq' = ioq
    <3>1. /\ ToSet(free') = ToSet(s) \cup {b} /\ IsInjective(free')
          /\ \A e \in Bufs \ {b} : flags'[e] = flags[e]
          /\ flags'[b] \cap {"BUSY", "ASYNC"} = {}
          /\ "DELWRI" \in flags'[b] => "DELWRI" \in f
          /\ "STALE" \notin flags'[b] => "STALE" \notin f
      BY <1>1, <2>5, BrelseFacts
    <3>2. UniqueBlock'
      BY <1>6, <3>1
    <3>3. QED
      BY <1>1, <1>4, <1>5, <2>1, <2>4, <2>5, <3>1, <3>2, OneBuffer
  <2>6. CASE /\ "DONE" \notin f /\ flags' = [flags EXCEPT ![b] = f \cup {"READ", "ASYNC"}]
             /\ ioq' = Append(ioq, b) /\ free' = s
    <3>1. /\ flags'[b] = f \cup {"READ", "ASYNC"}
          /\ \A e \in Bufs \ {b} : flags'[e] = flags[e]
      BY <1>1, <2>6 DEF TypeOK
    <3>2. UniqueBlock'
      BY <1>6, <3>1
    <3>3. /\ "BUSY" \in flags'[b] /\ "DONE" \notin flags'[b] /\ "READ" \in flags'[b]
          /\ "ASYNC" \in flags'[b]
          /\ blkOf'[b] \in Blocks /\ ("DELWRI" \in flags'[b] => data'[b] \in Nat)
      BY <2>1, <2>6, <3>1
    <3>4. QED
      BY <1>1, <1>4, <2>1, <2>4, <2>6, <3>1, <3>2, <3>3, StartTransfer
  <2>7. QED
    BY <2>3, <2>5, <2>6
<1>11. call[p].mode \in {"getblk", "bread", "ahead"}
  BY <1>3 DEF Stands
<1>12. QED
  BY <1>2, <1>9, <1>10, <1>11

(* Every step keeps the buffers in order. *)
LEMMA BuffersStep == TypeOK /\ TypeOK' /\ CallOK /\ Buffers /\ Next => Buffers'
<1> SUFFICES ASSUME TypeOK, TypeOK', CallOK, Buffers, Next PROVE Buffers'
  OBVIOUS
<1> USE DEF cache, async, store, proc
<1>0. /\ \A q \in Procs : \A e \in hold[q] : e \in Bufs /\ (e \in ToSet(ioq) => call[q].bp = e)
      /\ \A q \in Procs : pc[q] = "user" => call[q] = NoCall
      /\ \A b \in Bufs : b # NoBuf
  BY CacheAssumption DEF TypeOK, Buffers, HoldOK, CallOK, Stands
<1>1. ASSUME NEW p \in Procs, NEW n, call' = [call EXCEPT ![p] = n],
             n.bp = call[p].bp \/ \A e \in hold[p] : e \notin ToSet(ioq)
      PROVE  \A q \in Procs : \A e \in hold[q] : e \in ToSet(ioq) => call'[q].bp = call[q].bp
  BY <1>1 DEF TypeOK
<1>2. ASSUME NEW p \in Procs, pc[p] = "user"
      PROVE  \A e \in hold[p] : e \notin ToSet(ioq)
  BY <1>0, <1>2, NoCallFacts
<1>3. ASSUME NEW p \in Procs, NEW n, call' = [call EXCEPT ![p] = n],
             n.bp = call[p].bp \/ \A e \in hold[p] : e \notin ToSet(ioq),
             UNCHANGED <<flags, blkOf, data, free, ioq, hold>>
      PROVE  Buffers'
  BY <1>1, <1>3, QuietBuffers
<1>4. ASSUME NEW p \in Procs, EnterCall(p) PROVE Buffers'
  <2>1. \A m, a, s, w : Enter(p, m, a, s, w) =>
            /\ pc[p] = "user" /\ UNCHANGED <<flags, blkOf, data, free, ioq, hold>>
            /\ \E n : call' = [call EXCEPT ![p] = n]
    BY DEF Enter, InUser, Goto
  <2>2. \E m, a, s, w : Enter(p, m, a, s, w)
    BY <1>4 DEF EnterCall, CallGetblk, CallGeteblk, CallBread, CallBreada, CallFlush, CallClose
  <2>3. QED
    BY <1>2, <1>3, <2>1, <2>2
<1>5. ASSUME NEW p \in Procs, NEW b \in Bufs, Modify(p, b)
      PROVE  /\ pc[p] = "user" /\ b \in hold[p] /\ b \notin ToSet(ioq) /\ blkOf[b] \in Blocks
             /\ data'[b] \in Nat /\ \A c \in Bufs \ {b} : data'[c] = data[c]
             /\ UNCHANGED blkOf
             /\ "BUSY" \in flags[b] /\ "ASYNC" \notin flags[b] /\ \A q \in Procs : b \in hold[q] => q = p
  <2>1. pc[p] = "user" /\ b \in hold[p] /\ UNCHANGED blkOf
        /\ data' = [data EXCEPT ![b] = written[blkOf[b]] + 1]
    BY <1>5 DEF Modify, Owned, InUser
  <2>2. blkOf[b] \in Blocks
    <3>1. blkOf[b] # NoBlk
      BY <1>5, Zenon DEF Modify
    <3>2. QED
      BY <3>1 DEF TypeOK
  <2>3. written[blkOf[b]] + 1 \in Nat
    BY <2>2 DEF TypeOK
  <2>4. b \notin ToSet(ioq)
    BY <1>2, <2>1
  <2>5. data'[b] \in Nat /\ \A c \in Bufs \ {b} : data'[c] = data[c]
    BY <2>1, <2>3 DEF TypeOK
  <2>6. "BUSY" \in flags[b] /\ "ASYNC" \notin flags[b] /\ \A q \in Procs : b \in hold[q] => q = p
    BY <2>1 DEF Buffers, HoldOK
  <2>7. QED
    BY <2>1, <2>2, <2>4, <2>5, <2>6
<1>6. ASSUME NEW p \in Procs, NEW b \in Bufs, CallBrelse(p, b) PROVE Buffers'
  <2>1. /\ pc[p] = "user" /\ b \in hold[p] /\ Brelse(b, flags[b], free, {})
        /\ hold' = [hold EXCEPT ![p] = hold[p] \ {b}] /\ UNCHANGED <<blkOf, data, ioq, call>>
    BY <1>6 DEF CallBrelse, Owned, InUser
  <2>2. b \notin ToSet(ioq) /\ flags[b] \in SUBSET Flag
    BY <1>2, <2>1 DEF TypeOK
  <2>3. "DELWRI" \in flags[b] => data'[b] \in Nat /\ blkOf[b] \in Blocks
    BY <2>1 DEF Buffers, Filled
  <2>4. QED
    BY <1>0, <2>1, <2>2, <2>3, GiveBack
<1>7. ASSUME NEW p \in Procs, NEW b \in Bufs, CallBdwrite(p, b) PROVE Buffers'
  <2> DEFINE f == flags[b] \cup {"DELWRI", "DONE"}
  <2>1. /\ Modify(p, b) /\ Brelse(b, f, free, {})
        /\ hold' = [hold EXCEPT ![p] = hold[p] \ {b}] /\ UNCHANGED <<ioq, call>>
    BY <1>7 DEF CallBdwrite
  <2>2. f \in SUBSET Flag
    BY DEF TypeOK, Flag
  <2>3. "STALE" \in flags[b] => "STALE" \in f
    OBVIOUS
  <2> HIDE DEF f
  <2>4. /\ b \in hold[p] /\ b \notin ToSet(ioq) /\ blkOf[b] \in Blocks /\ UNCHANGED blkOf
        /\ data'[b] \in Nat /\ \A c \in Bufs \ {b} : data'[c] = data[c]
    BY <1>5, <2>1
  <2>5. \A q \in Procs : \A c \in hold[q] : c \in ToSet(ioq) => call'[q].bp = c
    BY <1>0, <2>1
  <2>6. QED
    BY <2>1, <2>2, <2>3, <2>4, <2>5, GiveBack
<1>8. ASSUME NEW p \in Procs, NEW b \in Bufs, CallBwrite(p, b) \/ CallBawrite(p, b) PROVE Buffers'
  <2>1. /\ Modify(p, b) /\ ioq' = Append(ioq, b) /\ free' = free
        /\ \E n : call' = [call EXCEPT ![p] = n]
    BY <1>8 DEF CallBwrite, CallBawrite, Goto
  <2>2. /\ \A c \in Bufs \ {b} : flags'[c] = flags[c]
        /\ "READ" \notin flags'[b] /\ "DONE" \notin flags'[b] /\ "DELWRI" \notin flags'[b]
        /\ \A x \in {"BUSY", "STALE"} : x \in flags[b] => x \in flags'[b]
    <3>1. \/ flags' = [flags EXCEPT ![b] = WriteFlags(flags[b])]
          \/ flags' = [flags EXCEPT ![b] = WriteFlags(flags[b] \cup {"ASYNC"})]
      BY <1>8 DEF CallBwrite, CallBawrite
    <3>2. /\ \A c \in Bufs \ {b} : flags'[c] = flags[c]
          /\ flags'[b] \in {WriteFlags(flags[b]), WriteFlags(flags[b] \cup {"ASYNC"})}
      BY <3>1 DEF TypeOK
    <3>3. QED
      BY <3>2 DEF WriteFlags
  <2>3. UniqueBlock'
    BY <1>5, <2>1, <2>2, UniqueKept DEF Buffers
  <2>4. \A q \in Procs : \A e \in hold[q] : e \in ToSet(ioq) => call'[q].bp = e
    BY <1>0, <1>1, <1>2, <1>5, <2>1
  <2>5. IsInjective(free) /\ ToSet(free) = ToSet(free) \ {b}
    BY <1>5, <2>1 DEF Buffers, FreeIffIdle
  <2>6. CASE CallBwrite(p, b)
    <3> DEFINE n == [NoCall EXCEPT !.mode = "write", !.bp = b]
    <3>1. hold' = hold /\ call' = [call EXCEPT ![p] = n]
          /\ flags' = [flags EXCEPT ![b] = WriteFlags(flags[b])]
      BY <2>6 DEF CallBwrite, Goto
    <3>2. n.bp = b
      BY DEF NoCall
    <3> HIDE DEF n
    <3>3. call'[p].bp = b /\ "ASYNC" \notin flags'[b]
      BY <1>5, <2>1, <3>1, <3>2 DEF TypeOK, WriteFlags
    <3>4. \A q \in Procs : (b \in hold'[q] <=> q = p) /\ (q = p => call'[q].bp = b)
      BY <1>5, <2>1, <3>1, <3>3
    <3>5. QED
      BY <1>5, <2>1, <2>2, <2>3, <2>4, <2>5, <3>1, <3>3, <3>4, StartTransfer
  <2>7. CASE CallBawrite(p, b)
    <3>1. hold' = [hold EXCEPT ![p] = hold[p] \ {b}]
          /\ flags' = [flags EXCEPT ![b] = WriteFlags(flags[b] \cup {"ASYNC"})]
      BY <2>7 DEF CallBawrite
    <3>2. "ASYNC" \in flags'[b]
      BY <3>1 DEF TypeOK, WriteFlags
    <3>3. /\ \A q \in Procs : b \notin hold'[q]
          /\ \A c \in Bufs \ {b} : \A q \in Procs : c \in hold'[q] <=> c \in hold[q]
      BY <1>5, <2>1, <3>1 DEF TypeOK
    <3>4. QED
      BY <1>5, <2>1, <2>2, <2>3, <2>4, <2>5, <3>2, <3>3, StartTransfer
  <2>8. QED
    BY <1>8, <2>6, <2>7
<1>9. ASSUME NEW p \in Procs, Step(p) PROVE Buffers'
  <2>1. ASSUME NEW w, Goto(p, w, call[p]), UNCHANGED <<flags, blkOf, data, free, ioq, hold>>
        PROVE  Buffers'
    BY <1>3, <2>1 DEF Goto
  <2>2. ASSUME UNCHANGED <<flags, blkOf, data, free, ioq, hold, call>> PROVE Buffers'
    BY <2>2, QuietBuffers
  <2>3. ASSUME Return(p), UNCHANGED <<flags, blkOf, data, free, ioq, hold>>,
               \A e \in hold[p] : e \notin ToSet(ioq)
        PROVE  Buffers'
    BY <1>3, <2>3 DEF Return
  <2>4. call[p] \in CallType /\ Stands(pc[p], call[p], hold[p])
    BY DEF TypeOK, CallOK
  <2>5. ASSUME call[p].bp = NoBuf PROVE \A e \in hold[p] : e \notin ToSet(ioq)
    BY <1>0, <2>5
  <2>6. CASE GetblkScan(p)
    <3>1. PICK b \in Bufs : Goto(p, "hit", [call[p] EXCEPT !.tgt = b])
      BY <2>6 DEF GetblkScan, Found
    <3> DEFINE n == [call[p] EXCEPT !.tgt = b]
    <3>2. n.bp = call[p].bp
      BY <2>4 DEF CallType
    <3>3. call' = [call EXCEPT ![p] = n] /\ UNCHANGED <<flags, blkOf, data, free, ioq, hold>>
      BY <2>6, <3>1 DEF GetblkScan, Goto
    <3> HIDE DEF n
    <3>4. QED
      BY <1>3, <3>2, <3>3
  <2>7. CASE GetblkBusy(p)
    <3> DEFINE n == [call[p] EXCEPT !.tgt = NoBuf]
    <3>1. n.bp = call[p].bp
      BY <2>4 DEF CallType
    <3>2. call' = [call EXCEPT ![p] = n]
      BY <2>7 DEF GetblkBusy
    <3> HIDE DEF n
    <3>3. /\ flags' = [flags EXCEPT ![call[p].tgt] = flags[call[p].tgt] \cup {"WANTED"}]
          /\ UNCHANGED <<blkOf, data, free, ioq, hold>>
      BY <2>7 DEF GetblkBusy
    <3>4. \A b \in Bufs : flags'[b] = flags[b] \/ flags'[b] = flags[b] \cup {"WANTED"}
      BY <3>3 DEF TypeOK
    <3>5. /\ \A b \in Bufs : \A x \in {"BUSY", "ASYNC", "DONE", "READ", "DELWRI"} :
                 x \in flags'[b] <=> x \in flags[b]
          /\ \A b \in Bufs : "STALE" \in flags[b] => "STALE" \in flags'[b]
      BY <3>4
    <3>6. \A q \in Procs : \A e \in hold[q] : e \in ToSet(ioq) => call'[q].bp = call[q].bp
      BY <1>1, <3>1, <3>2
    <3>7. QED
      BY <3>3, <3>5, <3>6, QuietBuffers
  <2>8. CASE GetblkHit(p)
    <3> DEFINE b == call[p].tgt
               f == flags[b] \cup {"BUSY"}
    <3>1. PICK i \in DOMAIN free : free[i] = b /\ Got(p, b, f, Notavail(i))
      BY <2>8 DEF GetblkHit
    <3>2. /\ pc[p] = "hit" /\ UNCHANGED <<blkOf, data>>
      BY <2>8 DEF GetblkHit, InHit
    <3>3. b \in ToSet(free) /\ blkOf[b] \in Blocks /\ free \in Seq(Bufs) /\ IsInjective(free)
      BY <3>1, <3>2 DEF ToSet, CallOK, TypeOK, Buffers, FreeIffIdle
    <3>4. /\ Notavail(i) \in Seq(Bufs) /\ IsInjective(Notavail(i))
          /\ ToSet(Notavail(i)) = ToSet(free) \ {b}
      BY <3>1, <3>3, RemoveAtFacts DEF Notavail
    <3>5. /\ f \in SUBSET Flag /\ "BUSY" \in f /\ "ASYNC" \notin f
          /\ "DELWRI" \in f => data[b] \in Nat
          /\ "STALE" \notin f => "STALE" \notin flags[b]
      <4>1. b \in Bufs /\ "ASYNC" \notin flags[b] /\ ("DELWRI" \in flags[b] => data[b] \in Nat)
        BY <3>3, FreeIsIdle
      <4>2. QED
        BY <4>1 DEF TypeOK, Flag
    <3>6. "STALE" \notin f =>
            \A c \in Bufs \ {b} : blkOf[c] = blkOf[b] => "STALE" \in flags[c]
      <4>1. b \in Bufs
        BY <3>3, FreeIsIdle
      <4> HIDE DEF b, f
      <4>2. QED
        BY <3>3, <3>5, <4>1 DEF Buffers, UniqueBlock, Found
    <3> HIDE DEF b, f
    <3>7. QED
      BY <3>1, <3>2, <3>3, <3>4, <3>5, <3>6, GotStep
  <2>9. CASE GetblkReuse(p)
    <3> DEFINE b == Head(free)
    <3>1. /\ pc[p] = "getblk" /\ free # << >>
          /\ Want(p) = NoBlk \/ Found(Want(p)) = {}
          /\ blkOf' = [blkOf EXCEPT ![b] = Want(p)] /\ data' = [data EXCEPT ![b] = Garbage]
      BY <2>9 DEF GetblkReuse, Miss, InGetblk
    <3>2. /\ b \in Bufs /\ Tail(free) = RemoveAt(free, 1) /\ b = free[1] /\ 1 \in DOMAIN free
          /\ Tail(free) \in Seq(Bufs) /\ free \in Seq(Bufs) /\ IsInjective(free)
      BY <3>1, TailFacts DEF TypeOK, Buffers, FreeIffIdle
    <3>3. b \in ToSet(free) /\ IsInjective(Tail(free)) /\ ToSet(Tail(free)) = ToSet(free) \ {b}
      <4>1. /\ IsInjective(RemoveAt(free, 1))
            /\ ToSet(RemoveAt(free, 1)) = ToSet(free) \ {free[1]}
        BY <3>2, RemoveAtFacts
      <4>2. free[1] \in ToSet(free)
        BY <3>2 DEF ToSet
      <4> HIDE DEF b
      <4>3. QED
        BY <3>2, <4>1, <4>2
    <3>4. PICK f \in {{"BUSY"}, {"BUSY", "AGE"}} : Got(p, b, f, Tail(free))
      BY <2>9 DEF GetblkReuse
    <3>5. f \in SUBSET Flag /\ "BUSY" \in f /\ "ASYNC" \notin f /\ "DELWRI" \notin f /\ "STALE" \notin f
      BY DEF Flag
    <3> HIDE DEF b
    <3>6. /\ blkOf'[b] = Want(p)
          /\ \A c \in Bufs \ {b} : data'[c] = data[c] /\ blkOf'[c] = blkOf[c]
      BY <3>1, <3>2 DEF TypeOK
    <3>7. \A c \in Bufs \ {b} : blkOf[c] = blkOf'[b] /\ blkOf[c] \in Blocks => "STALE" \in flags[c]
      BY <3>1, <3>6, CacheAssumption DEF Found
    <3>8. call[p].mode # "getblk" => blkOf'[b] \in Blocks
      <4>1. call[p].mode = "bread" => Want(p) \in Blocks
        BY <2>4, <3>1 DEF Stands, Want
      <4>2. call[p].mode = "ahead" => Want(p) \in Blocks
        BY <2>4, <3>1, TailFacts DEF Stands, Want, CallType
      <4>3. call[p].mode \in {"getblk", "bread", "ahead"}
        BY <2>4, <3>1 DEF Stands
      <4>4. QED
        BY <3>6, <4>1, <4>2, <4>3
    <3>9. QED
      BY <3>1, <3>2, <3>3, <3>4, <3>5, <3>6, <3>7, <3>8, GotStep
  <2>10. CASE GetblkEmpty(p)
    BY <2>2, <2>10 DEF GetblkEmpty
  <2>11. CASE GetblkDelwri(p)
    <3>1. free # << >> /\ free \in Seq(Bufs) /\ "DELWRI" \in flags[Head(free)] /\ WriteBehind(p, 1)
      BY <2>11 DEF GetblkDelwri, Delayed, TypeOK
    <3>2. Head(free) = free[1] /\ 1 \in DOMAIN free
      BY <3>1, TailFacts
    <3>3. "DELWRI" \in flags[free[1]]
      BY <3>1, <3>2
    <3>4. QED
      BY <3>1, <3>2, <3>3, WriteBehindStep
  <2>12. CASE FlushNext(p)
    BY <2>12, WriteBehindStep DEF FlushNext, Dirty
  <2>13. CASE Count(p)
    <3>1. pc[p] = "count" /\ UNCHANGED <<flags, blkOf, data, free, ioq, hold>>
      BY <2>13 DEF Count
    <3>2. \/ call[p].mode = "write" /\ Return(p)
          \/ \E w : Goto(p, w, call[p])
      BY <2>13 DEF Count
    <3>3. call[p].mode = "write" => \A e \in hold[p] : e \notin ToSet(ioq)
      BY <2>4, <2>5, <3>1 DEF Stands
    <3>4. QED
      BY <2>1, <2>3, <3>1, <3>2, <3>3
  <2>14. CASE AheadNext(p)
    <3>1. [call[p] EXCEPT !.mode = "ahead"].bp = call[p].bp
      BY <2>4 DEF CallType
    <3>2. [call[p] EXCEPT !.ra = Tail(@)].bp = call[p].bp
      BY <2>4 DEF CallType
    <3>3. \E n : n.bp = call[p].bp /\ call' = [call EXCEPT ![p] = n]
      BY <2>14, <3>1, <3>2 DEF AheadNext, Goto
    <3>4. UNCHANGED <<flags, blkOf, data, free, ioq, hold>>
      BY <2>14 DEF AheadNext
    <3>5. QED
      BY <1>3, <3>3, <3>4
  <2>15. CASE AheadEnd(p)
    <3>1. [call[p] EXCEPT !.mode = "bread"].bp = call[p].bp
      BY <2>4 DEF CallType
    <3>2. \E n : n.bp = call[p].bp /\ call' = [call EXCEPT ![p] = n]
      BY <2>15, <3>1 DEF AheadEnd, Goto
    <3>3. UNCHANGED <<flags, blkOf, data, free, ioq, hold>>
      BY <2>15 DEF AheadEnd
    <3>4. QED
      BY <1>3, <3>2, <3>3
  <2>16. CASE IowaitSleep(p)
    BY <2>2, <2>16 DEF IowaitSleep
  <2>17. ASSUME pc[p] = "iowait", "DONE" \in flags[call[p].bp]
         PROVE  /\ call[p].bp \in hold[p] /\ call[p].bp \in Bufs
                /\ \A e \in hold[p] : e \notin ToSet(ioq)
    <3>1. call[p].bp \in Bufs /\ call[p].bp \in hold[p]
      BY <2>4, <2>17 DEF Stands
    <3>2. call[p].bp \notin ToSet(ioq)
      BY <2>17 DEF Buffers, HoldOK
    <3>3. QED
      BY <1>0, <3>1, <3>2
  <2>18. CASE IowaitRead(p)
    BY <2>3, <2>17, <2>18 DEF IowaitRead, InIowait
  <2>19. CASE IowaitWrite(p)
    <3> DEFINE b == call[p].bp
    <3>1. /\ pc[p] = "iowait" /\ "DONE" \in flags[b] /\ Brelse(b, flags[b], free, {})
          /\ hold' = [hold EXCEPT ![p] = hold[p] \ {b}] /\ Return(p)
          /\ UNCHANGED <<blkOf, data, ioq>>
      BY <2>19 DEF IowaitWrite, InIowait
    <3>2. b \in hold[p] /\ b \in Bufs /\ \A e \in hold[p] : e \notin ToSet(ioq)
      BY <2>17, <3>1
    <3>3. "DELWRI" \in flags[b] => data'[b] \in Nat /\ blkOf[b] \in Blocks
      BY <3>1, <3>2 DEF Buffers, Filled
    <3>4. \A q \in Procs : \A c \in hold[q] : c \in ToSet(ioq) => call'[q].bp = c
      BY <1>0, <3>1, <3>2 DEF Return, TypeOK
    <3>5. flags[b] \in SUBSET Flag
      BY <3>2 DEF TypeOK
    <3> HIDE DEF b
    <3>6. QED
      BY <3>1, <3>2, <3>3, <3>4, <3>5, GiveBack
  <2>20. ASSUME pc[p] \in {"flush", "bdwait"} PROVE \A e \in hold[p] : e \notin ToSet(ioq)
    BY <2>4, <2>5, <2>20 DEF Stands
  <2>21. CASE FlushEnd(p)
    <3>1. pc[p] = "flush" /\ UNCHANGED <<flags, blkOf, data, free, ioq, hold>>
      BY <2>21 DEF FlushEnd, FlushOver, InFlush
    <3>2. Return(p) \/ Goto(p, "bdwait", call[p])
      BY <2>21 DEF FlushEnd
    <3>3. QED
      BY <2>1, <2>3, <2>20, <3>1, <3>2
  <2>22. CASE Binval(p)
    <3>1. /\ pc[p] = "flush" /\ Return(p) /\ UNCHANGED <<blkOf, data, free, ioq, hold>>
      BY <2>22 DEF Binval, FlushOver, InFlush
    <3>2. \A b \in Bufs : flags'[b] \in {flags[b], flags[b] \cup {"STALE", "AGE"}}
      BY <2>22 DEF Binval, TypeOK
    <3>3. /\ \A b \in Bufs : \A x \in {"BUSY", "ASYNC", "DONE", "READ", "DELWRI"} :
                 x \in flags'[b] <=> x \in flags[b]
          /\ \A b \in Bufs : "STALE" \in flags[b] => "STALE" \in flags'[b]
      BY <3>2
    <3>4. \A q \in Procs : \A e \in hold[q] : e \in ToSet(ioq) => call'[q].bp = call[q].bp
      BY <1>1, <2>20, <3>1 DEF Return
    <3>5. QED
      BY <3>1, <3>3, <3>4, QuietBuffers
  <2>23. CASE BdwaitSleep(p)
    BY <2>2, <2>23 DEF BdwaitSleep
  <2>24. CASE BdwaitEnd(p)
    BY <2>3, <2>20, <2>24 DEF BdwaitEnd, InBdwait
  <2>25. QED
    BY <1>9, <2>6, <2>7, <2>8, <2>9, <2>10, <2>11, <2>12, <2>13, <2>14, <2>15, <2>16, <2>18,
       <2>19, <2>21, <2>22, <2>23, <2>24 DEF Step
<1>10. ASSUME NEW i \in DOMAIN ioq, TransferOk(i) \/ TransferFails(i) PROVE Buffers'
  <2>1. \E ok \in BOOLEAN : Iodone(ioq[i], ok)
    BY <1>10 DEF TransferOk, TransferFails
  <2>2. ioq' = RemoveAt(ioq, i) /\ UNCHANGED <<blkOf, hold, call>>
    BY <1>10 DEF TransferOk, TransferFails, Serve
  <2>3. ioq[i] \in Bufs /\ blkOf[ioq[i]] \in Blocks
    BY DEF TypeOK, Buffers, HoldOK, ToSet
  <2>4. data' = data \/ data' = [data EXCEPT ![ioq[i]] = disk[blkOf[ioq[i]]]]
    BY <1>10 DEF TransferOk, TransferFails
  <2>5. disk[blkOf[ioq[i]]] \in Nat
    BY <2>3 DEF TypeOK
  <2>6. \A c \in Bufs : data'[c] = data[c] \/ (c = ioq[i] /\ data'[c] \in Nat)
    <3> DEFINE v == disk[blkOf[ioq[i]]]
               b == ioq[i]
    <3>1. data' = data \/ data' = [data EXCEPT ![b] = v]
      BY <2>4
    <3>2. b \in Bufs /\ v \in Nat /\ data \in [Bufs -> Nat \cup {Garbage}]
      BY <2>3, <2>5 DEF TypeOK
    <3> HIDE DEF v, b
    <3>3. \A c \in Bufs : data'[c] = data[c] \/ (c = b /\ data'[c] \in Nat)
      <4>1. CASE data' = data
        BY <4>1
      <4>2. CASE data' = [data EXCEPT ![b] = v]
        <5>1. data'[b] = v /\ \A c \in Bufs \ {b} : data'[c] = data[c]
          BY <3>2, <4>2
        <5>2. QED
          BY <3>2, <5>1
      <4>3. QED
        BY <3>1, <4>1, <4>2
    <3>4. QED
      BY <3>3 DEF b
  <2>7. QED
    BY <2>1, <2>2, <2>6, IodoneStep
<1>11. QED
  BY <1>4, <1>6, <1>7, <1>8, <1>9, <1>10 DEF Next, Release, Interrupt

-----------------------------------------------------------------------------
(* The invariant and what follows from it. *)

(* All buffers are idle, and nobody is in a call. *)
LEMMA InitInv == Init => IInv
<1> SUFFICES ASSUME Init PROVE IInv
  OBVIOUS
<1> USE DEF Init
<1>1. free \in Seq(Bufs) /\ IsInjective(free) /\ ToSet(free) = Bufs
  <2>1. Cardinality(Bufs) \in Nat
    BY CacheAssumption, FS_CardinalityType
  <2>2. QED
    BY <2>1
<1>2. ioq \in Seq(Bufs) /\ ToSet(ioq) = {} /\ IsInjective(ioq)
  BY EmptySeq DEF ToSet, IsInjective
<1>3. TypeOK
  <2>1. /\ flags \in [Bufs -> SUBSET Flag] /\ blkOf \in [Bufs -> Blocks \cup {NoBlk}]
        /\ data \in [Bufs -> Nat \cup {Garbage}]
    OBVIOUS
  <2>2. disk \in [Blocks -> Nat] /\ written \in [Blocks -> Nat]
    OBVIOUS
  <2>3. pc \in [Procs -> Place]
    <3>1. "user" \in Place
      BY DEF Place
    <3>2. QED
      BY <3>1
  <2>4. call \in [Procs -> CallType]
    BY NoCallFacts
  <2>5. /\ hold \in [Procs -> SUBSET Bufs]
        /\ chan \in [Procs -> Bufs \cup {NoChan, FreeList, BaSync}]
    OBVIOUS
  <2>6. /\ basyncnt \in Int /\ errs \in Nat
        /\ flWanted \in BOOLEAN /\ basynwait \in BOOLEAN
    <3>1. basyncnt \in Int /\ errs \in Nat
      OBVIOUS
    <3>2. flWanted = FALSE /\ basynwait = FALSE
      BY Zenon
    <3>3. QED
      BY <3>1, <3>2
  <2>7. run \in Procs \cup {NoProc}
    OBVIOUS
  <2> HIDE DEF Init
  <2>8. QED
    BY <1>1, <1>2, <2>1, <2>2, <2>3, <2>4, <2>5, <2>6, <2>7 DEF TypeOK
<1>4. CallOK
  BY UserStands DEF CallOK
<1>5. FreeIffIdle /\ HoldOK /\ BusyIsOwned /\ Filled
  BY <1>1, <1>2 DEF FreeIffIdle, HoldOK, BusyIsOwned, AsyncIo, Filled
<1>6. UniqueBlock
  BY CacheAssumption DEF UniqueBlock, Found
<1>7. QED
  BY <1>3, <1>4, <1>5, <1>6 DEF IInv

(* IInv is inductive. *)
THEOREM Invariance == Spec => []IInv
<1>1. IInv /\ [Next]_vars => IInv'
  <2> SUFFICES ASSUME IInv, [Next]_vars PROVE IInv'
    OBVIOUS
  <2>1. CASE Next
    BY <2>1, TypeStep, CallStep, BuffersStep DEF IInv, Buffers
  <2>2. CASE UNCHANGED vars
    <3>1. UNCHANGED <<flags, blkOf, data, free, flWanted, basyncnt, basynwait, ioq, disk,
                      written, errs, pc, call, hold, chan, run>>
      BY <2>2 DEF vars, cache, async, store, proc
    <3>2. TypeOK' /\ CallOK'
      BY <3>1 DEF IInv, TypeOK, CallOK
    <3>3. FreeIffIdle' /\ HoldOK' /\ BusyIsOwned' /\ Filled'
      BY <3>1 DEF IInv, FreeIffIdle, HoldOK, BusyIsOwned, AsyncIo, Filled
    <3>4. UniqueBlock'
      BY <3>1 DEF IInv, UniqueBlock, Found
    <3>5. QED
      BY <3>2, <3>3, <3>4 DEF IInv
  <2>3. QED
    BY <2>1, <2>2
<1>2. QED
  BY InitInv, <1>1, PTL DEF Spec

(* Every variable always has a value of its kind; no Garbage reaches the   *)
(* medium: whatever is written was filled in by a caller or read.          *)
THEOREM TypeCorrect == Spec => []TypeOK
<1>1. IInv => TypeOK
  BY DEF IInv
<1>2. QED
  BY Invariance, <1>1, PTL

(* The available list and B_BUSY never get out of step, in whatever order  *)
(* processes and completion interrupts come.                               *)
THEOREM AvailableList == Spec => []FreeIffIdle
<1>1. IInv => FreeIffIdle
  BY DEF IInv
<1>2. QED
  BY Invariance, <1>1, PTL

(* No block is ever in core twice, apart from stale copies. *)
THEOREM OneCopy == Spec => []UniqueBlock
<1>1. IInv => UniqueBlock
  BY DEF IInv
<1>2. QED
  BY Invariance, <1>1, PTL

(* No buffer is lost: a busy one belongs to a process or to a transfer     *)
(* that will release it.                                                   *)
THEOREM NoBufferLost == Spec => []BusyIsOwned
<1>1. IInv => BusyIsOwned
  BY DEF IInv
<1>2. QED
  BY Invariance, <1>1, PTL
-----------------------------------------------------------------------------
(***************************************************************************)
(* No wakeup of the buffer cache is lost, for any number of processes,     *)
(* buffers and blocks.  IInv of BufferCache says who owns a buffer; what   *)
(* is added here says what a sleeper waits for and who owes it a wakeup.   *)
(***************************************************************************)

(* What the sleeper p goes by stays as it left it. *)
Asleep(p) ==
    /\ chan[p] \in Bufs /\ pc[p] = "getblk" => {"BUSY", "WANTED"} \subseteq flags[chan[p]]
    /\ chan[p] \in Bufs /\ pc[p] = "iowait" =>
         chan[p] = call[p].bp /\ "DONE" \notin flags[chan[p]]
    /\ chan[p] = FreeList => flWanted
    /\ chan[p] = BaSync => basynwait /\ basyncnt > 0

(* The transfer p will wait for is under way or has ended. *)
Begun(p) ==
    call[p].bp \in Bufs => call[p].bp \in ToSet(ioq) \/ "DONE" \in flags[call[p].bp]

(* The asynchronous writes under way, by their flags. *)
AsyncWrites == {b \in Bufs : "ASYNC" \in flags[b] /\ "READ" \notin flags[b]}
Counted == basyncnt + Cardinality(Uncounted) = Cardinality(AsyncWrites)

WakeInv == (\A p \in Procs : Asleep(p) /\ Begun(p)) /\ Counted
-----------------------------------------------------------------------------
(* A step that touches the buffer b leaves the sleeper q with what it      *)
(* waits for, or wakes it.                                                 *)
LEMMA SleeperKept ==
    ASSUME TypeOK, CallOK, NEW q \in Procs, Asleep(q), Begun(q),
           pc'[q] = pc[q], call'[q] = call[q],
           NEW b \in Bufs, \A c \in Bufs \ {b} : flags'[c] = flags[c],
           ToSet(ioq) \ {b} \subseteq ToSet(ioq'),
           b \notin hold[q] \/ ("DONE" \in flags'[b] /\ chan'[q] # b),
           chan'[q] \in {chan[q], NoChan},
           chan'[q] = b /\ {"BUSY", "WANTED"} \subseteq flags[b] =>
               {"BUSY", "WANTED"} \subseteq flags'[b],
           chan'[q] = FreeList /\ flWanted => flWanted',
           chan'[q] = BaSync /\ basynwait /\ basyncnt > 0 => basynwait' /\ basyncnt' > 0
    PROVE  Asleep(q)' /\ Begun(q)'
<1>1. call[q].bp \in Bufs => call[q].bp \in hold[q]
  BY DEF CallOK, Stands
<1>2. NoChan \notin Bufs /\ NoChan # FreeList /\ NoChan # BaSync
  BY CacheAssumption
<1>3. CASE chan'[q] = NoChan
  <2>1. Asleep(q)'
    BY <1>2, <1>3 DEF Asleep
  <2>2. Begun(q)'
    BY <1>1 DEF Begun
  <2>3. QED
    BY <2>1, <2>2
<1>4. CASE chan'[q] = chan[q]
  <2>1. chan[q] \in Bufs /\ pc[q] = "getblk" => {"BUSY", "WANTED"} \subseteq flags'[chan[q]]
    BY <1>4 DEF Asleep
  <2>2. chan[q] \in Bufs /\ pc[q] = "iowait" =>
          chan[q] = call[q].bp /\ "DONE" \notin flags'[chan[q]]
    BY <1>1, <1>4 DEF Asleep
  <2>3. Begun(q)'
    BY <1>1 DEF Begun
  <2>4. (chan[q] = FreeList => flWanted') /\ (chan[q] = BaSync => basynwait' /\ basyncnt' > 0)
    BY <1>4 DEF Asleep
  <2>5. QED
    BY <1>4, <2>1, <2>2, <2>3, <2>4 DEF Asleep
<1>5. QED
  BY <1>3, <1>4

(* Whom brelse wakes. *)
LEMMA BrelseWakes ==
    ASSUME TypeOK, NEW b \in Bufs, NEW f, NEW s, NEW also, Brelse(b, f, s, also),
           NEW q \in Procs
    PROVE  /\ chan'[q] \in {chan[q], NoChan}
           /\ chan'[q] # NoChan => chan'[q] \notin also
           /\ chan'[q] = b => "WANTED" \notin f
           /\ chan'[q] = FreeList /\ flWanted => flWanted'
<1>1. chan'[q] = IF chan[q] \in Woken(b, f) \cup also THEN NoChan ELSE chan[q]
  BY DEF Brelse, Wakeup
<1>2. flWanted' = (flWanted /\ "WANTED" \in f)
  BY DEF Brelse
<1>3. NoChan # b /\ NoChan # FreeList /\ FreeList # b
  BY CacheAssumption
<1>4. CASE "WANTED" \in f
  <2>1. Woken(b, f) = {b}
    BY <1>4 DEF Woken
  <2>2. QED
    BY <1>1, <1>2, <1>3, <1>4, <2>1
<1>5. CASE "WANTED" \notin f
  <2>1. flWanted => Woken(b, f) = {FreeList}
    BY <1>5 DEF Woken
  <2>2. QED
    BY <1>1, <1>2, <1>3, <1>5, <2>1
<1>6. QED
  BY <1>4, <1>5

(* One asynchronous write more, or less. *)
LEMMA WritesChange ==
    ASSUME TypeOK, NEW b \in Bufs, \A c \in Bufs \ {b} : flags'[c] = flags[c]
    PROVE  /\ Cardinality(AsyncWrites) \in Nat
           /\ (b \in AsyncWrites' <=> b \in AsyncWrites) =>
                Cardinality(AsyncWrites') = Cardinality(AsyncWrites)
           /\ b \in AsyncWrites' /\ b \notin AsyncWrites =>
                Cardinality(AsyncWrites') = Cardinality(AsyncWrites) + 1
           /\ b \notin AsyncWrites' /\ b \in AsyncWrites =>
                Cardinality(AsyncWrites') = Cardinality(AsyncWrites) - 1
<1>1. IsFiniteSet(AsyncWrites)
  BY CacheAssumption, FS_Subset DEF AsyncWrites
<1>2. \A c \in Bufs \ {b} : c \in AsyncWrites' <=> c \in AsyncWrites
  BY DEF AsyncWrites
<1>3. AsyncWrites \subseteq Bufs /\ AsyncWrites' \subseteq Bufs
  BY DEF AsyncWrites
<1>4. (b \in AsyncWrites' <=> b \in AsyncWrites) => AsyncWrites' = AsyncWrites
  BY <1>2, <1>3
<1>5. b \in AsyncWrites' /\ b \notin AsyncWrites => AsyncWrites' = AsyncWrites \cup {b}
  BY <1>2, <1>3
<1>6. b \notin AsyncWrites' /\ b \in AsyncWrites => AsyncWrites' = AsyncWrites \ {b}
  BY <1>2, <1>3
<1>7. /\ Cardinality(AsyncWrites) \in Nat
      /\ b \notin AsyncWrites => Cardinality(AsyncWrites \cup {b}) = Cardinality(AsyncWrites) + 1
      /\ b \in AsyncWrites => Cardinality(AsyncWrites \ {b}) = Cardinality(AsyncWrites) - 1
  BY <1>1, FS_CardinalityType, FS_AddElement, FS_RemoveElement
<1>8. QED
  BY <1>4, <1>5, <1>6, <1>7

(* Of the processes that have started a write and not counted it there is  *)
(* at most one.                                                            *)
LEMMA UncountedFew == CallOK => Cardinality(Uncounted) \in Nat
<1> SUFFICES ASSUME CallOK PROVE Cardinality(Uncounted) \in Nat
  OBVIOUS
<1>1. Uncounted = {} \/ \E q \in Procs : Uncounted = {q}
  BY DEF Uncounted, CallOK
<1>2. Cardinality({}) = 0 /\ \A q \in Procs : Cardinality({q}) = 1
  BY FS_Singleton, FS_EmptySet
<1>3. CASE Uncounted = {}
  BY <1>2, <1>3
<1>4. CASE \E q \in Procs : Uncounted = {q}
  BY <1>2, <1>4
<1>5. QED
  BY <1>1, <1>3, <1>4

(* Only the process that runs may have started a write and not counted it. *)
LEMMA UncountedRuns ==
    ASSUME TypeOK, CallOK, NEW p \in Procs, Running(p), NEW w, pc' = [pc EXCEPT ![p] = w]
    PROVE  /\ Cardinality(Uncounted) = IF pc[p] = "count" THEN 1 ELSE 0
           /\ Cardinality(Uncounted') = IF w = "count" THEN 1 ELSE 0
<1>1. \A q \in Procs \ {p} : pc[q] # "count" /\ pc'[q] # "count"
  BY CacheAssumption DEF CallOK, Running, TypeOK
<1>2. pc'[p] = w
  BY DEF TypeOK
<1>3. Uncounted = (IF pc[p] = "count" THEN {p} ELSE {})
  BY <1>1 DEF Uncounted
<1>4. Uncounted' = (IF w = "count" THEN {p} ELSE {})
  BY <1>1, <1>2 DEF Uncounted
<1>5. Cardinality({p}) = 1 /\ Cardinality({}) = 0
  BY FS_Singleton, FS_EmptySet
<1>6. QED
  BY <1>3, <1>4, <1>5

-----------------------------------------------------------------------------
(* The steps of a process p. *)

(* p touches a buffer that is idle or its own, and goes on. *)
LEMMA TouchStep ==
    ASSUME IInv, WakeInv, NEW p \in Procs, Running(p), NEW w, NEW c,
           pc' = [pc EXCEPT ![p] = w], call' = [call EXCEPT ![p] = c],
           NEW b \in Bufs, "BUSY" \notin flags[b] \/ b \in hold[p],
           \A d \in Bufs \ {b} : flags'[d] = flags[d],
           ToSet(ioq) \subseteq ToSet(ioq'), UNCHANGED async,
           \/ /\ UNCHANGED <<chan, flWanted>>
              /\ {"BUSY", "WANTED"} \subseteq flags[b] => {"BUSY", "WANTED"} \subseteq flags'[b]
           \/ \E f, s : /\ Brelse(b, f, s, {})
                        /\ {"BUSY", "WANTED"} \subseteq flags[b] => "WANTED" \in f,
           c.bp \in Bufs => c.bp \in ToSet(ioq') \/ "DONE" \in flags'[c.bp],
           pc[p] # "count",
           \/ w # "count" /\ (b \in AsyncWrites' <=> b \in AsyncWrites)
           \/ w = "count" /\ b \in AsyncWrites' /\ b \notin AsyncWrites
    PROVE  WakeInv'
<1>1. TypeOK /\ CallOK /\ HoldOK
  BY DEF IInv
<1>2. ASSUME NEW q \in Procs
      PROVE  /\ chan'[q] \in {chan[q], NoChan}
             /\ chan'[q] = b /\ {"BUSY", "WANTED"} \subseteq flags[b] =>
                  {"BUSY", "WANTED"} \subseteq flags'[b]
             /\ chan'[q] = FreeList /\ flWanted => flWanted'
  BY <1>1, BrelseWakes
<1>3. basynwait' = basynwait /\ basyncnt' = basyncnt
  BY DEF async
<1>4. ASSUME NEW q \in Procs \ {p} PROVE Asleep(q)' /\ Begun(q)'
  <2>1. b \notin hold[q]
    BY <1>1 DEF HoldOK
  <2>2. pc'[q] = pc[q] /\ call'[q] = call[q] /\ Asleep(q) /\ Begun(q)
    BY <1>1 DEF TypeOK, WakeInv
  <2>3. ToSet(ioq) \ {b} \subseteq ToSet(ioq')
    OBVIOUS
  <2>4. QED
    BY <1>1, <1>2, <1>3, <2>1, <2>2, <2>3, SleeperKept
<1>5. Asleep(p)' /\ Begun(p)'
  <2>1. chan'[p] = NoChan
    BY <1>2 DEF Running
  <2>2. call'[p] = c
    BY <1>1 DEF TypeOK
  <2>3. NoChan \notin Bufs /\ NoChan # FreeList /\ NoChan # BaSync
    BY CacheAssumption
  <2>4. QED
    BY <2>1, <2>2, <2>3 DEF Asleep, Begun
<1>6. Counted'
  <2>1. /\ Cardinality(Uncounted) = 0
        /\ Cardinality(Uncounted') = IF w = "count" THEN 1 ELSE 0
    BY <1>1, UncountedRuns
  <2>2. /\ Cardinality(AsyncWrites) \in Nat
        /\ Cardinality(AsyncWrites') = Cardinality(AsyncWrites) + (IF w = "count" THEN 1 ELSE 0)
    BY <1>1, WritesChange
  <2>3. basyncnt \in Int
    BY <1>1 DEF TypeOK
  <2>4. QED
    BY <1>3, <2>1, <2>2, <2>3 DEF WakeInv, Counted
<1>7. QED
  BY <1>4, <1>5, <1>6 DEF WakeInv

(* p touches no buffer, apart from flags nobody waits for, and goes on or  *)
(* goes to sleep.                                                          *)
LEMMA QuietStep ==
    ASSUME IInv, WakeInv, NEW p \in Procs, Running(p), NEW w, NEW c,
           pc' = [pc EXCEPT ![p] = w], call' = [call EXCEPT ![p] = c],
           c.bp \in {call[p].bp, NoBuf}, UNCHANGED ioq,
           \A b \in Bufs : /\ \A x \in {"DONE", "ASYNC", "READ"} : x \in flags'[b] <=> x \in flags[b]
                          /\ \A x \in {"BUSY", "WANTED"} : x \in flags[b] => x \in flags'[b],
           \A q \in Procs \ {p} : chan'[q] = chan[q],
           flWanted => flWanted', basynwait => basynwait',
           basyncnt' = basyncnt + (IF pc[p] = "count" THEN 1 ELSE 0), w # "count",
           Asleep(p)'
    PROVE  WakeInv'
<1>1. TypeOK /\ CallOK
  BY DEF IInv
<1>2. ASSUME NEW q \in Procs PROVE Begun(q)'
  <2>1. call'[q].bp \in {call[q].bp, NoBuf} /\ NoBuf \notin Bufs
    BY <1>1, CacheAssumption DEF TypeOK
  <2>2. Begun(q)
    BY DEF WakeInv
  <2>3. QED
    BY <2>1, <2>2 DEF Begun
<1>3. ASSUME NEW q \in Procs \ {p} PROVE Asleep(q)'
  <2>1. pc'[q] = pc[q] /\ call'[q] = call[q] /\ chan'[q] = chan[q] /\ Asleep(q)
    BY <1>1 DEF TypeOK, WakeInv
  <2>2. basyncnt' >= basyncnt /\ basyncnt \in Int /\ basyncnt' \in Int
    BY <1>1 DEF TypeOK
  <2>3. QED
    BY <2>1, <2>2 DEF Asleep
<1>4. Counted'
  <2>1. AsyncWrites' = AsyncWrites
    BY DEF AsyncWrites
  <2>2. /\ Cardinality(Uncounted) = IF pc[p] = "count" THEN 1 ELSE 0
        /\ Cardinality(Uncounted') = 0
    BY <1>1, UncountedRuns
  <2>3. basyncnt \in Int
    BY <1>1 DEF TypeOK
  <2>4. QED
    BY <2>1, <2>2, <2>3 DEF WakeInv, Counted
<1>5. QED
  BY <1>2, <1>3, <1>4 DEF WakeInv

(* ... and p goes on. *)
LEMMA AwakeStep ==
    ASSUME IInv, WakeInv, NEW p \in Procs, Running(p), NEW w, NEW c,
           pc' = [pc EXCEPT ![p] = w], call' = [call EXCEPT ![p] = c],
           c.bp \in {call[p].bp, NoBuf},
           UNCHANGED <<flags, ioq, chan, flWanted, async>>, pc[p] # "count", w # "count"
    PROVE  WakeInv'
<1>1. chan'[p] = NoChan /\ NoChan \notin Bufs /\ NoChan # FreeList /\ NoChan # BaSync
  BY CacheAssumption DEF Running
<1>2. Asleep(p)'
  BY <1>1 DEF Asleep
<1>3. basyncnt' = basyncnt + 0 /\ basynwait' = basynwait
  BY DEF async, IInv, TypeOK
<1>4. QED
  BY <1>2, <1>3, QuietStep

(* getblk has found a buffer on the available list. *)
LEMMA GotWakes ==
    ASSUME IInv, WakeInv, NEW p \in Procs, Running(p), pc[p] \in {"getblk", "hit"},
           NEW b \in ToSet(free), NEW f \in SUBSET Flag, "ASYNC" \notin f, NEW s,
           Got(p, b, f, s), UNCHANGED async
    PROVE  WakeInv'
<1> DEFINE c == [call[p] EXCEPT !.tgt = NoBuf]
<1>1. /\ TypeOK /\ Buffers /\ CallOK /\ call[p] \in CallType /\ Begun(p)
      /\ NoBuf \notin Bufs /\ ioq \in Seq(Bufs)
  BY CacheAssumption DEF IInv, Buffers, TypeOK, WakeInv
<1>2. /\ b \in Bufs /\ "BUSY" \notin flags[b] /\ b \notin hold[p]
      /\ b \notin AsyncWrites
  BY <1>1, FreeIsIdle DEF AsyncWrites
<1>3. c.mode = call[p].mode /\ c.bp = call[p].bp /\ c \in CallType
  BY <1>1 DEF CallType
<1>4. call[p].mode \in {"getblk", "bread", "ahead"} /\ (call[p].bp \in Bufs => call[p].bp \in hold[p])
  BY <1>1 DEF CallOK, Stands
<1>5. ToSet(Append(ioq, b)) = ToSet(ioq) \cup {b}
  BY <1>1, <1>2, AppendFacts
<1>6. CASE c.mode = "getblk"
  <2>1. /\ flags' = [flags EXCEPT ![b] = f] /\ Return(p) /\ UNCHANGED <<flWanted, ioq, chan>>
    BY <1>6 DEF Got
  <2>2. flags'[b] = f /\ \A d \in Bufs \ {b} : flags'[d] = flags[d]
    BY <1>1, <1>2, <2>1 DEF TypeOK
  <2>3. b \notin AsyncWrites'
    BY <2>2 DEF AsyncWrites
  <2>4. QED
    BY <1>1, <1>2, <2>1, <2>2, <2>3, NoCallFacts, TouchStep DEF Return
<1>7. CASE c.mode = "bread"
  <2> DEFINE n == [c EXCEPT !.bp = b, !.ra = AheadOf(c.ra, InCore')]
  <2>1. /\ flags' = [flags EXCEPT ![b] = IF "DONE" \in f THEN f ELSE f \cup {"READ"}]
        /\ ioq' = IF "DONE" \in f THEN ioq ELSE Append(ioq, b)
        /\ UNCHANGED <<flWanted, chan>>
        /\ \E w \in {"iowait", "ahead"} : Goto(p, w, n)
    BY <1>7 DEF Got
  <2>2. n.bp = b
    BY <1>3 DEF CallType
  <2> HIDE DEF n, c
  <2>3. /\ flags'[b] \in {f, f \cup {"READ"}} /\ \A d \in Bufs \ {b} : flags'[d] = flags[d]
        /\ b \in ToSet(ioq') \/ "DONE" \in flags'[b]
        /\ ToSet(ioq) \subseteq ToSet(ioq')
    BY <1>1, <1>2, <1>5, <2>1 DEF TypeOK
  <2>4. b \notin AsyncWrites'
    BY <2>3 DEF AsyncWrites
  <2>5. PICK w \in {"iowait", "ahead"} : pc' = [pc EXCEPT ![p] = w] /\ call' = [call EXCEPT ![p] = n]
    BY <2>1 DEF Goto
  <2>6. /\ UNCHANGED <<flWanted, chan>> /\ w # "count" /\ pc[p] # "count"
        /\ n.bp \in Bufs => n.bp \in ToSet(ioq') \/ "DONE" \in flags'[n.bp]
    BY <2>1, <2>2, <2>3
  <2>7. QED
    BY <1>2, <2>3, <2>4, <2>5, <2>6, TouchStep
<1>8. CASE c.mode = "ahead"
  <2> DEFINE n == [c EXCEPT !.ra = Tail(@)]
  <2>1. pc' = [pc EXCEPT ![p] = "ahead"] /\ call' = [call EXCEPT ![p] = n]
    BY <1>8 DEF Got, Goto
  <2>2. n.bp = call[p].bp
    BY <1>3 DEF CallType
  <2>3. \/ Brelse(b, f, s, {}) /\ ioq' = ioq
        \/ /\ flags' = [flags EXCEPT ![b] = f \cup {"READ", "ASYNC"}]
           /\ ioq' = Append(ioq, b) /\ UNCHANGED <<flWanted, chan>>
    BY <1>8 DEF Got
  <2> HIDE DEF n, c
  <2>4. /\ \A d \in Bufs \ {b} : flags'[d] = flags[d]
        /\ "ASYNC" \notin flags'[b] \/ "READ" \in flags'[b]
        /\ ToSet(ioq) \subseteq ToSet(ioq')
    <3>1. CASE Brelse(b, f, s, {}) /\ ioq' = ioq
      <4>1. flags' = [flags EXCEPT ![b] = (IF "ERROR" \in f
                        THEN (f \ {"ERROR", "DELWRI"}) \cup {"STALE", "AGE"} ELSE f)
                          \ {"WANTED", "BUSY", "ASYNC", "AGE"}]
        BY <3>1 DEF Brelse
      <4>2. QED
        BY <1>1, <1>2, <3>1, <4>1 DEF TypeOK
    <3>2. CASE /\ flags' = [flags EXCEPT ![b] = f \cup {"READ", "ASYNC"}]
               /\ ioq' = Append(ioq, b)
      BY <1>1, <1>2, <1>5, <3>2 DEF TypeOK
    <3>3. QED
      BY <2>3, <3>1, <3>2
  <2>5. b \notin AsyncWrites'
    BY <2>4 DEF AsyncWrites
  <2>6. n.bp \in Bufs => n.bp \in ToSet(ioq') \/ "DONE" \in flags'[n.bp]
    BY <1>1, <1>2, <1>4, <2>2, <2>4 DEF Begun
  <2>7. QED
    BY <1>2, <2>1, <2>3, <2>4, <2>5, <2>6, TouchStep
<1>9. QED
  BY <1>3, <1>4, <1>6, <1>7, <1>8

(* A write started behind p's back is one asynchronous write more, and not *)
(* counted yet.                                                            *)
LEMMA WriteBehindWakes ==
    ASSUME IInv, WakeInv, NEW p \in Procs, Running(p), pc[p] # "count",
           NEW i \in DOMAIN free, WriteBehind(p, i)
    PROVE  WakeInv'
<1> DEFINE b == free[i]
<1>1. /\ TypeOK /\ Buffers /\ CallOK /\ Begun(p) /\ ioq \in Seq(Bufs) /\ b \in ToSet(free)
  BY DEF IInv, Buffers, TypeOK, WakeInv, ToSet
<1>2. b \in Bufs /\ "BUSY" \notin flags[b] /\ b \notin hold[p] /\ "ASYNC" \notin flags[b]
  BY <1>1, FreeIsIdle
<1>3. /\ flags' = [flags EXCEPT ![b] = WriteFlags(flags[b] \cup {"BUSY", "ASYNC"})]
      /\ ioq' = Append(ioq, b) /\ UNCHANGED <<flWanted, async, chan>>
      /\ pc' = [pc EXCEPT ![p] = "count"] /\ call' = [call EXCEPT ![p] = call[p]]
  BY DEF WriteBehind, Goto
<1> HIDE DEF b
<1>4. /\ \A d \in Bufs \ {b} : flags'[d] = flags[d]
      /\ "ASYNC" \in flags'[b] /\ "READ" \notin flags'[b]
  BY <1>1, <1>2, <1>3 DEF TypeOK, WriteFlags
<1>5. b \in AsyncWrites' /\ b \notin AsyncWrites
  BY <1>2, <1>4 DEF AsyncWrites
<1>6. ToSet(ioq') = ToSet(ioq) \cup {b}
  BY <1>1, <1>2, <1>3, AppendFacts
<1>7. call[p].bp \in Bufs => call[p].bp \in ToSet(ioq') \/ "DONE" \in flags'[call[p].bp]
  <2>1. call[p].bp \in Bufs => call[p].bp # b
    BY <1>1, <1>2 DEF CallOK, Stands
  <2>2. QED
    BY <1>1, <1>4, <1>6, <2>1 DEF Begun
<1>8. ToSet(ioq) \subseteq ToSet(ioq')
  BY <1>6
<1>9. QED
  BY <1>2, <1>3, <1>4, <1>5, <1>7, <1>8, TouchStep

(* The end of a transfer wakes whom it must, and is counted if it is an    *)
(* asynchronous write.                                                     *)
LEMMA IodoneWakes ==
    ASSUME IInv, WakeInv, NEW i \in DOMAIN ioq, NEW ok \in BOOLEAN, Iodone(ioq[i], ok),
           ioq' = RemoveAt(ioq, i), UNCHANGED <<pc, call>>
    PROVE  WakeInv'
<1> DEFINE b == ioq[i]
           f == flags[b] \cup (IF ok THEN {"DONE"} ELSE {"DONE", "ERROR"})
           drained == basynwait /\ basyncnt' = 0
<1>1. /\ TypeOK /\ CallOK /\ HoldOK /\ ioq \in Seq(Bufs) /\ IsInjective(ioq) /\ b \in Bufs
      /\ flags[b] \in SUBSET Flag /\ basyncnt \in Int
  BY DEF IInv, TypeOK, HoldOK
<1>2. ToSet(ioq') = ToSet(ioq) \ {b}
  BY <1>1, RemoveAtFacts
<1>3. /\ \A x \in {"ASYNC", "READ", "BUSY", "WANTED"} : x \in f <=> x \in flags[b]
      /\ "DONE" \in f
  OBVIOUS
<1>4. Uncounted' = Uncounted
  BY DEF Uncounted
<1>5. CASE "ASYNC" \in flags[b]
  <2>1. /\ basyncnt' = IF "READ" \notin flags[b] THEN basyncnt - 1 ELSE basyncnt
        /\ basynwait' = (basynwait /\ ~drained)
        /\ Brelse(b, f, free, IF drained THEN {BaSync} ELSE {})
    BY <1>3, <1>5 DEF Iodone, Unattended, IsWrite
  <2>2. flags' = [flags EXCEPT ![b] = (IF "ERROR" \in f
                      THEN (f \ {"ERROR", "DELWRI"}) \cup {"STALE", "AGE"} ELSE f)
                        \ {"WANTED", "BUSY", "ASYNC", "AGE"}]
    BY <2>1 DEF Brelse
  <2> HIDE DEF b, f
  <2>3. "ASYNC" \notin flags'[b] /\ \A d \in Bufs \ {b} : flags'[d] = flags[d]
    BY <1>1, <2>2 DEF TypeOK
  <2>4. ASSUME NEW q \in Procs PROVE Asleep(q)' /\ Begun(q)'
    <3>1. b \notin hold[q]
      BY <1>1, <1>5 DEF HoldOK
    <3>2. /\ chan'[q] \in {chan[q], NoChan}
          /\ chan'[q] = b => "WANTED" \notin flags[b]
          /\ chan'[q] = FreeList /\ flWanted => flWanted'
          /\ chan'[q] = BaSync => ~drained
      <4>1. NoChan # BaSync
        BY CacheAssumption
      <4> HIDE DEF drained
      <4>2. QED
        BY <1>1, <1>3, <2>1, <4>1, BrelseWakes
    <3>3. chan'[q] = BaSync /\ basynwait /\ basyncnt > 0 => basynwait' /\ basyncnt' > 0
      <4> SUFFICES ASSUME chan'[q] = BaSync, basynwait, basyncnt > 0
                   PROVE  basynwait' /\ basyncnt' > 0
        OBVIOUS
      <4>1. basyncnt' # 0
        BY <3>2
      <4>2. basyncnt' > 0
        BY <1>1, <2>1, <4>1
      <4>3. basynwait'
        BY <2>1, <4>1
      <4>4. QED
        BY <4>2, <4>3
    <3>4. Asleep(q) /\ Begun(q) /\ pc'[q] = pc[q] /\ call'[q] = call[q]
      BY DEF WakeInv
    <3>5. ToSet(ioq) \ {b} \subseteq ToSet(ioq')
      BY <1>2
    <3>6. QED
      BY <1>1, <2>3, <3>1, <3>2, <3>3, <3>4, <3>5, SleeperKept
  <2>5. Counted'
    <3>1. b \notin AsyncWrites' /\ (b \in AsyncWrites <=> "READ" \notin flags[b])
      BY <1>1, <1>5, <2>3 DEF AsyncWrites
    <3>2. Counted /\ basyncnt' = IF b \in AsyncWrites THEN basyncnt - 1 ELSE basyncnt
      BY <2>1, <3>1 DEF WakeInv
    <3>3. /\ Cardinality(AsyncWrites) \in Nat
          /\ Cardinality(AsyncWrites') = IF b \in AsyncWrites THEN Cardinality(AsyncWrites) - 1
                                         ELSE Cardinality(AsyncWrites)
      BY <1>1, <2>3, <3>1, WritesChange
    <3>4. basyncnt + Cardinality(Uncounted) = Cardinality(AsyncWrites)
          /\ Cardinality(Uncounted') = Cardinality(Uncounted)
      BY <1>4, <3>2 DEF Counted
    <3>5. Cardinality(Uncounted) \in Nat
      BY <1>1, UncountedFew
    <3>6. QED
      BY <1>1, <3>2, <3>3, <3>4, <3>5 DEF Counted
  <2>6. QED
    BY <2>4, <2>5 DEF WakeInv
<1>6. CASE "ASYNC" \notin flags[b]
  <2>1. /\ flags' = [flags EXCEPT ![b] = f \ {"WANTED"}]
        /\ chan' = Wakeup({b}) /\ UNCHANGED <<flWanted, async>>
    BY <1>3, <1>6 DEF Iodone, Unattended
  <2> HIDE DEF b, f
  <2>2. /\ flags'[b] = f \ {"WANTED"} /\ \A d \in Bufs \ {b} : flags'[d] = flags[d]
    BY <1>1, <2>1 DEF TypeOK
  <2>3. "DONE" \in flags'[b]
    BY <1>3, <2>2
  <2>4. ASSUME NEW q \in Procs PROVE Asleep(q)' /\ Begun(q)'
    <3>1. chan'[q] \in {chan[q], NoChan} /\ chan'[q] # b
      BY <1>1, <2>1, CacheAssumption DEF Wakeup
    <3>2. Asleep(q) /\ Begun(q) /\ pc'[q] = pc[q] /\ call'[q] = call[q]
      BY DEF WakeInv
    <3>3. ToSet(ioq) \ {b} \subseteq ToSet(ioq') /\ basynwait' = basynwait /\ basyncnt' = basyncnt
      BY <1>2, <2>1 DEF async
    <3>4. QED
      BY <1>1, <2>1, <2>2, <2>3, <3>1, <3>2, <3>3, SleeperKept
  <2>5. Counted'
    <3>1. b \notin AsyncWrites /\ b \notin AsyncWrites'
      BY <1>3, <1>6, <2>2 DEF AsyncWrites
    <3>2. Cardinality(AsyncWrites') = Cardinality(AsyncWrites)
      BY <1>1, <2>2, <3>1, WritesChange
    <3>3. QED
      BY <1>4, <2>1, <3>2 DEF WakeInv, Counted, async
  <2>6. QED
    BY <2>4, <2>5 DEF WakeInv
<1>7. QED
  BY <1>5, <1>6

(* Entering a call. *)
LEMMA EnterWakes ==
    ASSUME IInv, WakeInv, NEW p \in Procs, EnterCall(p)
    PROVE  WakeInv'
<1>1. \E m, a, s : \E w \in {"getblk", "ahead", "flush"} : Enter(p, m, a, s, w)
  BY DEF EnterCall, CallGetblk, CallGeteblk, CallBread, CallBreada, CallFlush, CallClose
<1>2. PICK m, a, s : \E w \in {"getblk", "ahead", "flush"} : Enter(p, m, a, s, w)
  BY <1>1
<1>3. PICK w \in {"getblk", "ahead", "flush"} : Enter(p, m, a, s, w)
  BY <1>2
<1> DEFINE c == [NoCall EXCEPT !.mode = m, !.arg = a, !.ra = s]
<1>4. c.bp = NoBuf
  BY DEF NoCall
<1>5. /\ pc[p] = "user" /\ Running(p) /\ UNCHANGED <<flags, ioq, chan, flWanted, async>>
      /\ pc' = [pc EXCEPT ![p] = w] /\ call' = [call EXCEPT ![p] = c]
  BY <1>3 DEF Enter, InUser, Goto, cache
<1> HIDE DEF c
<1>6. QED
  BY <1>4, <1>5, AwakeStep

(* Giving a buffer back. *)
LEMMA ReleaseWakes ==
    ASSUME IInv, WakeInv, NEW p \in Procs, NEW b \in Bufs,
           CallBrelse(p, b) \/ CallBdwrite(p, b) \/ CallBwrite(p, b) \/ CallBawrite(p, b)
    PROVE  WakeInv'
<1>1. /\ TypeOK /\ CallOK /\ HoldOK /\ ioq \in Seq(Bufs) /\ NoBuf \notin Bufs
  BY CacheAssumption DEF IInv, TypeOK
<1>2. pc[p] = "user" /\ Running(p) /\ b \in hold[p]
  BY DEF CallBrelse, CallBdwrite, CallBwrite, CallBawrite, Modify, Owned, InUser
<1>3. call[p] = NoCall /\ NoCall.bp = NoBuf /\ "ASYNC" \notin flags[b] /\ "BUSY" \in flags[b]
  BY <1>1, <1>2, NoCallFacts DEF CallOK, Stands, HoldOK
<1>4. ASSUME NEW f, Brelse(b, f, free, {}), flags[b] \subseteq f, UNCHANGED <<async, ioq, pc, call>>
      PROVE  WakeInv'
  <2>1. pc' = [pc EXCEPT ![p] = "user"] /\ call' = [call EXCEPT ![p] = NoCall]
    BY <1>1, <1>2, <1>3, <1>4 DEF TypeOK
  <2>2. flags' = [flags EXCEPT ![b] = (IF "ERROR" \in f
                      THEN (f \ {"ERROR", "DELWRI"}) \cup {"STALE", "AGE"} ELSE f)
                        \ {"WANTED", "BUSY", "ASYNC", "AGE"}]
    BY <1>4 DEF Brelse
  <2>3. "ASYNC" \notin flags'[b] /\ \A d \in Bufs \ {b} : flags'[d] = flags[d]
    BY <1>1, <2>2 DEF TypeOK
  <2>4. b \notin AsyncWrites /\ b \notin AsyncWrites'
    BY <1>3, <2>3 DEF AsyncWrites
  <2>5. /\ ToSet(ioq) \subseteq ToSet(ioq') /\ UNCHANGED async /\ pc[p] # "count" /\ Running(p)
        /\ b \in Bufs /\ b \in hold[p] /\ ~(NoCall.bp \in Bufs)
    BY <1>1, <1>2, <1>3, <1>4 DEF HoldOK, TypeOK
  <2>6. \E g, s : Brelse(b, g, s, {}) /\ ({"BUSY", "WANTED"} \subseteq flags[b] => "WANTED" \in g)
    BY <1>4
  <2>7. QED
    BY <2>1, <2>3, <2>4, <2>5, <2>6, TouchStep
<1>5. CASE CallBrelse(p, b)
  BY <1>4, <1>5 DEF CallBrelse
<1>6. CASE CallBdwrite(p, b)
  BY <1>4, <1>6 DEF CallBdwrite
<1>7. ASSUME ioq' = Append(ioq, b) PROVE ToSet(ioq') = ToSet(ioq) \cup {b}
  BY <1>1, <1>7, AppendFacts
<1>8. CASE CallBwrite(p, b)
  <2> DEFINE c == [NoCall EXCEPT !.mode = "write", !.bp = b]
  <2>1. /\ flags' = [flags EXCEPT ![b] = WriteFlags(flags[b])] /\ ioq' = Append(ioq, b)
        /\ pc' = [pc EXCEPT ![p] = "iowait"] /\ call' = [call EXCEPT ![p] = c]
        /\ UNCHANGED <<flWanted, async, chan>>
    BY <1>8 DEF CallBwrite, Goto
  <2>2. c.bp = b
    BY DEF NoCall
  <2> HIDE DEF c
  <2>3. flags'[b] = WriteFlags(flags[b]) /\ \A d \in Bufs \ {b} : flags'[d] = flags[d]
    BY <1>1, <2>1 DEF TypeOK
  <2>4. /\ "ASYNC" \notin flags'[b]
        /\ {"BUSY", "WANTED"} \subseteq flags[b] => {"BUSY", "WANTED"} \subseteq flags'[b]
    BY <1>3, <2>3 DEF WriteFlags
  <2>5. b \notin AsyncWrites /\ b \notin AsyncWrites'
    BY <1>3, <2>4 DEF AsyncWrites
  <2>6. c.bp \in ToSet(ioq') /\ ToSet(ioq) \subseteq ToSet(ioq')
    BY <1>7, <2>1, <2>2
  <2>7. QED
    BY <1>2, <2>1, <2>3, <2>4, <2>5, <2>6, TouchStep
<1>9. CASE CallBawrite(p, b)
  <2> DEFINE c == [NoCall EXCEPT !.mode = "write"]
  <2>1. /\ flags' = [flags EXCEPT ![b] = WriteFlags(flags[b] \cup {"ASYNC"})]
        /\ ioq' = Append(ioq, b)
        /\ pc' = [pc EXCEPT ![p] = "count"] /\ call' = [call EXCEPT ![p] = c]
        /\ UNCHANGED <<flWanted, async, chan>>
    BY <1>9 DEF CallBawrite, Goto
  <2>2. c.bp = NoBuf
    BY DEF NoCall
  <2> HIDE DEF c
  <2>3. /\ flags'[b] = WriteFlags(flags[b] \cup {"ASYNC"})
        /\ \A d \in Bufs \ {b} : flags'[d] = flags[d]
    BY <1>1, <2>1 DEF TypeOK
  <2>4. /\ "ASYNC" \in flags'[b] /\ "READ" \notin flags'[b]
        /\ {"BUSY", "WANTED"} \subseteq flags[b] => {"BUSY", "WANTED"} \subseteq flags'[b]
    BY <1>3, <2>3 DEF WriteFlags
  <2>5. b \notin AsyncWrites /\ b \in AsyncWrites'
    BY <1>3, <2>4 DEF AsyncWrites
  <2>6. ToSet(ioq) \subseteq ToSet(ioq')
    BY <1>7, <2>1
  <2>7. QED
    BY <1>1, <1>2, <2>1, <2>2, <2>3, <2>4, <2>5, <2>6, TouchStep
<1>10. QED
  BY <1>5, <1>6, <1>8, <1>9

(* The other steps of a process in a call. *)
LEMMA CallWakes ==
    ASSUME IInv, WakeInv, NEW p \in Procs, Step(p)
    PROVE  WakeInv'
<1> USE DEF cache, async, proc
<1>1. /\ TypeOK /\ CallOK /\ HoldOK /\ FreeIffIdle /\ Stands(pc[p], call[p], hold[p])
      /\ call[p] \in CallType /\ Asleep(p) /\ Begun(p) /\ NoBuf \notin Bufs
      /\ pc = [pc EXCEPT ![p] = pc[p]] /\ call = [call EXCEPT ![p] = call[p]]
  BY CacheAssumption DEF IInv, WakeInv, TypeOK, CallOK
<1>2. /\ {NoChan, FreeList, BaSync} \cap Bufs = {}
      /\ NoChan # FreeList /\ NoChan # BaSync /\ FreeList # BaSync
  BY CacheAssumption
<1>3. ASSUME NEW w \in {"user", "getblk", "hit", "ahead", "iowait", "flush", "bdwait"}, NEW c,
             c.bp \in {call[p].bp, NoBuf}, Goto(p, w, c), Running(p), pc[p] # "count",
             UNCHANGED <<flags, ioq, chan, flWanted, async>>
      PROVE  WakeInv'
  BY <1>3, AwakeStep DEF Goto
<1>4. ASSUME Return(p), Running(p), pc[p] # "count",
             UNCHANGED <<flags, ioq, chan, flWanted, async>>
      PROVE  WakeInv'
  BY <1>4, NoCallFacts, AwakeStep DEF Return
<1>5. ASSUME NEW x \in {FreeList, BaSync} \cup Bufs, chan' = [chan EXCEPT ![p] = x],
             Running(p), pc[p] \in {"getblk", "iowait", "bdwait"}, UNCHANGED <<flags, ioq, proc, basyncnt>>,
             flWanted => flWanted', basynwait => basynwait', Asleep(p)'
      PROVE  WakeInv'
  <2>1. pc' = [pc EXCEPT ![p] = pc[p]] /\ call' = [call EXCEPT ![p] = call[p]]
    BY <1>1, <1>5
  <2>2. \A q \in Procs \ {p} : chan'[q] = chan[q]
    BY <1>1, <1>5 DEF TypeOK
  <2>3. basyncnt' = basyncnt + 0
    BY <1>1, <1>5 DEF TypeOK
  <2>4. QED
    BY <1>5, <2>1, <2>2, <2>3, QuietStep
<1>6. CASE GetblkScan(p)
  <2>1. PICK b \in Bufs : Goto(p, "hit", [call[p] EXCEPT !.tgt = b])
    BY <1>6 DEF GetblkScan, Found
  <2> DEFINE c == [call[p] EXCEPT !.tgt = b]
  <2>2. c.bp = call[p].bp
    BY <1>1 DEF CallType
  <2>3. Goto(p, "hit", c)
    BY <2>1
  <2> HIDE DEF c
  <2>4. QED
    BY <1>3, <1>6, <2>2, <2>3 DEF GetblkScan, InGetblk
<1>7. CASE GetblkBusy(p)
  <2> DEFINE c == [call[p] EXCEPT !.tgt = NoBuf]
             b == call[p].tgt
  <2>1. /\ pc[p] = "hit" /\ Running(p) /\ "BUSY" \in flags[b]
        /\ flags' = [flags EXCEPT ![b] = flags[b] \cup {"WANTED"}]
        /\ pc' = [pc EXCEPT ![p] = "getblk"] /\ call' = [call EXCEPT ![p] = c]
        /\ chan' = [chan EXCEPT ![p] = b] /\ UNCHANGED <<flWanted, async, ioq>>
    BY <1>7 DEF GetblkBusy, InHit, SleepOn
  <2>2. c.bp = call[p].bp
    BY <1>1 DEF CallType
  <2>3. b \in Bufs
    BY <1>1, <2>1 DEF Stands
  <2> HIDE DEF b, c
  <2>4. /\ flags'[b] = flags[b] \cup {"WANTED"} /\ \A d \in Bufs \ {b} : flags'[d] = flags[d]
        /\ chan'[p] = b /\ \A q \in Procs \ {p} : chan'[q] = chan[q]
        /\ pc'[p] = "getblk" /\ basyncnt' = basyncnt + 0 /\ basynwait' = basynwait
    BY <1>1, <2>1, <2>3 DEF TypeOK
  <2>5. Asleep(p)'
    BY <1>2, <2>1, <2>3, <2>4 DEF Asleep
  <2>6. \A d \in Bufs : /\ \A x \in {"DONE", "ASYNC", "READ"} : x \in flags'[d] <=> x \in flags[d]
                       /\ \A x \in {"BUSY", "WANTED"} : x \in flags[d] => x \in flags'[d]
    BY <2>4
  <2>7. /\ c.bp \in {call[p].bp, NoBuf} /\ ioq' = ioq
        /\ basyncnt' = basyncnt + (IF pc[p] = "count" THEN 1 ELSE 0)
        /\ flWanted => flWanted'
        /\ basynwait => basynwait'
    BY <2>1, <2>2, <2>4
  <2>8. QED
    BY <2>1, <2>4, <2>5, <2>6, <2>7, QuietStep
<1>8. CASE GetblkHit(p)
  <2> DEFINE b == call[p].tgt
             f == flags[b] \cup {"BUSY"}
  <2>1. PICK i \in DOMAIN free : free[i] = b /\ Got(p, b, f, Notavail(i))
    BY <1>8 DEF GetblkHit
  <2>2. /\ pc[p] = "hit" /\ Running(p) /\ UNCHANGED async
    BY <1>8 DEF GetblkHit, InHit
  <2>3. b \in ToSet(free)
    BY <2>1 DEF ToSet
  <2>4. f \in SUBSET Flag /\ "ASYNC" \notin f
    <3>1. b \in Bufs /\ "ASYNC" \notin flags[b]
      BY <1>1, <2>3, FreeIsIdle DEF IInv, Buffers
    <3>2. QED
      BY <1>1, <3>1 DEF TypeOK, Flag
  <2> HIDE DEF b, f
  <2>5. QED
    BY <2>1, <2>2, <2>3, <2>4, GotWakes
<1>9. CASE GetblkEmpty(p)
  <2>1. /\ flWanted' = TRUE /\ chan' = [chan EXCEPT ![p] = FreeList] /\ pc[p] = "getblk" /\ Running(p)
        /\ UNCHANGED <<flags, ioq, proc, async>>
    BY <1>9 DEF GetblkEmpty, Miss, InGetblk, SleepOn
  <2>2. chan'[p] = FreeList
    BY <1>1, <2>1 DEF TypeOK
  <2>3. Asleep(p)'
    BY <1>2, <2>1, <2>2 DEF Asleep
  <2>4. QED
    BY <1>5, <2>1, <2>3
<1>10. CASE GetblkReuse(p)
  <2> DEFINE b == Head(free)
  <2>1. /\ free # << >> /\ pc[p] = "getblk" /\ Running(p) /\ UNCHANGED async
    BY <1>10 DEF GetblkReuse, Miss, InGetblk
  <2>2. b \in ToSet(free)
    BY <1>1, <2>1, TailFacts DEF TypeOK, ToSet
  <2>3. PICK f \in {{"BUSY"}, {"BUSY", "AGE"}} : Got(p, b, f, Tail(free))
    BY <1>10 DEF GetblkReuse
  <2>4. f \in SUBSET Flag /\ "ASYNC" \notin f
    BY DEF Flag
  <2> HIDE DEF b
  <2>5. QED
    BY <2>1, <2>2, <2>3, <2>4, GotWakes
<1>11. CASE GetblkDelwri(p)
  <2>1. 1 \in DOMAIN free /\ WriteBehind(p, 1) /\ Running(p) /\ pc[p] # "count"
    BY <1>1, <1>11, TailFacts DEF GetblkDelwri, Miss, InGetblk, TypeOK
  <2>2. QED
    BY <2>1, WriteBehindWakes
<1>12. CASE FlushNext(p)
  BY <1>12, WriteBehindWakes DEF FlushNext, InFlush
<1>13. CASE Count(p)
  <2>1. /\ pc[p] = "count" /\ Running(p) /\ basyncnt' = basyncnt + 1
        /\ UNCHANGED <<flags, flWanted, basynwait, ioq, chan>>
    BY <1>13 DEF Count
  <2>2. \/ Return(p)
        \/ \E w \in {"getblk", "flush"} : Goto(p, w, call[p])
    BY <1>13 DEF Count
  <2>3. PICK w \in {"user", "getblk", "flush"}, c \in {NoCall, call[p]} :
            pc' = [pc EXCEPT ![p] = w] /\ call' = [call EXCEPT ![p] = c]
    BY <2>2 DEF Return, Goto
  <2>4. c.bp \in {call[p].bp, NoBuf}
    BY NoCallFacts
  <2>5. Asleep(p)'
    BY <1>2, <2>1 DEF Asleep, Running
  <2>6. QED
    BY <2>1, <2>3, <2>4, <2>5, QuietStep
<1>14. CASE AheadNext(p)
  <2>1. /\ [call[p] EXCEPT !.mode = "ahead"].bp = call[p].bp
        /\ [call[p] EXCEPT !.ra = Tail(@)].bp = call[p].bp
    BY <1>1 DEF CallType
  <2>2. \E c : c.bp = call[p].bp /\ (Goto(p, "getblk", c) \/ Goto(p, "ahead", c))
    BY <1>14, <2>1 DEF AheadNext
  <2>3. QED
    BY <1>3, <1>14, <2>2 DEF AheadNext, InAhead
<1>15. CASE AheadEnd(p)
  <2>1. [call[p] EXCEPT !.mode = "bread"].bp = call[p].bp
    BY <1>1 DEF CallType
  <2>2. \E c : c.bp = call[p].bp /\ (Goto(p, "getblk", c) \/ Goto(p, "iowait", c))
    BY <1>15, <2>1 DEF AheadEnd
  <2>3. QED
    BY <1>3, <1>15, <2>2 DEF AheadEnd, InAhead
<1>16. CASE IowaitSleep(p)
  <2>1. /\ chan' = [chan EXCEPT ![p] = call[p].bp] /\ pc[p] = "iowait" /\ Running(p)
        /\ "DONE" \notin flags[call[p].bp] /\ UNCHANGED <<flags, flWanted, ioq, proc, async>>
    BY <1>16 DEF IowaitSleep, InIowait, SleepOn
  <2>2. chan'[p] = call[p].bp /\ call[p].bp \in Bufs
    BY <1>1, <2>1 DEF TypeOK, Stands
  <2>3. Asleep(p)'
    BY <1>2, <2>1, <2>2 DEF Asleep
  <2>4. QED
    BY <1>5, <2>1, <2>2, <2>3
<1>17. CASE IowaitRead(p)
  BY <1>4, <1>17 DEF IowaitRead, InIowait
<1>18. CASE IowaitWrite(p)
  <2> DEFINE b == call[p].bp
  <2>1. /\ pc[p] = "iowait" /\ Running(p) /\ Brelse(b, flags[b], free, {})
        /\ pc' = [pc EXCEPT ![p] = "user"] /\ call' = [call EXCEPT ![p] = NoCall]
        /\ UNCHANGED <<async, ioq>>
    BY <1>18 DEF IowaitWrite, InIowait, Return
  <2>2. b \in hold[p] /\ b \in Bufs
    BY <1>1, <2>1 DEF Stands
  <2>3. flags' = [flags EXCEPT ![b] = (IF "ERROR" \in flags[b]
                      THEN (flags[b] \ {"ERROR", "DELWRI"}) \cup {"STALE", "AGE"} ELSE flags[b])
                        \ {"WANTED", "BUSY", "ASYNC", "AGE"}]
    BY <2>1 DEF Brelse
  <2> HIDE DEF b
  <2>4. "ASYNC" \notin flags'[b] /\ \A d \in Bufs \ {b} : flags'[d] = flags[d]
    BY <1>1, <2>2, <2>3 DEF TypeOK
  <2>5. b \notin AsyncWrites /\ b \notin AsyncWrites'
    BY <1>1, <2>2, <2>4 DEF AsyncWrites, HoldOK
  <2>6. NoCall.bp \notin Bufs
    BY <1>1, NoCallFacts
  <2>7. QED
    BY <2>1, <2>2, <2>4, <2>5, <2>6, TouchStep
<1>19. CASE FlushEnd(p)
  BY <1>3, <1>4, <1>19 DEF FlushEnd, FlushOver, InFlush
<1>20. CASE Binval(p)
  <2>1. /\ pc[p] = "flush" /\ Running(p) /\ UNCHANGED <<flWanted, async, ioq, chan>>
        /\ pc' = [pc EXCEPT ![p] = "user"] /\ call' = [call EXCEPT ![p] = NoCall]
    BY <1>20 DEF Binval, FlushOver, InFlush, Return
  <2>2. \A b \in Bufs : flags'[b] \in {flags[b], flags[b] \cup {"STALE", "AGE"}}
    BY <1>20 DEF Binval, TypeOK
  <2>3. \A b \in Bufs : /\ \A x \in {"DONE", "ASYNC", "READ"} : x \in flags'[b] <=> x \in flags[b]
                       /\ \A x \in {"BUSY", "WANTED"} : x \in flags[b] => x \in flags'[b]
    BY <2>2
  <2>4. Asleep(p)' /\ basyncnt' = basyncnt + 0
    BY <1>1, <1>2, <2>1 DEF Asleep, Running, TypeOK
  <2>5. QED
    BY <2>1, <2>3, <2>4, NoCallFacts, QuietStep
<1>21. CASE BdwaitSleep(p)
  <2>1. /\ basynwait' = TRUE /\ basyncnt # 0 /\ chan' = [chan EXCEPT ![p] = BaSync]
        /\ pc[p] = "bdwait" /\ Running(p) /\ UNCHANGED <<flags, flWanted, ioq, proc, basyncnt>>
    BY <1>21 DEF BdwaitSleep, InBdwait, SleepOn
  <2>2. chan'[p] = BaSync
    BY <1>1, <2>1 DEF TypeOK
  <2>3. basyncnt > 0
    <3>1. Cardinality(Uncounted) = 0
      BY <1>1, <2>1, UncountedRuns
    <3>2. Cardinality(AsyncWrites) \in Nat /\ basyncnt \in Int
      BY <1>1, CacheAssumption, FS_Subset, FS_CardinalityType DEF AsyncWrites, TypeOK
    <3>3. QED
      BY <2>1, <3>1, <3>2 DEF WakeInv, Counted
  <2>4. Asleep(p)'
    BY <1>2, <2>1, <2>2, <2>3 DEF Asleep
  <2>5. QED
    BY <1>5, <2>1, <2>4
<1>22. CASE BdwaitEnd(p)
  BY <1>4, <1>22 DEF BdwaitEnd, InBdwait
<1>23. QED
  BY <1>6, <1>7, <1>8, <1>9, <1>10, <1>11, <1>12, <1>13, <1>14, <1>15, <1>16, <1>17, <1>18,
     <1>19, <1>20, <1>21, <1>22 DEF Step
-----------------------------------------------------------------------------
(* The invariant. *)

LEMMA WakeStep == IInv /\ WakeInv /\ Next => WakeInv'
<1> SUFFICES ASSUME IInv, WakeInv, Next PROVE WakeInv'
  OBVIOUS
<1>1. ASSUME NEW p \in Procs, EnterCall(p) PROVE WakeInv'
  BY <1>1, EnterWakes
<1>2. ASSUME NEW p \in Procs, Release(p) PROVE WakeInv'
  BY <1>2, ReleaseWakes DEF Release
<1>3. ASSUME NEW p \in Procs, Step(p) PROVE WakeInv'
  BY <1>3, CallWakes
<1>4. ASSUME Interrupt PROVE WakeInv'
  <2>1. PICK i \in DOMAIN ioq : TransferOk(i) \/ TransferFails(i)
    BY <1>4 DEF Interrupt
  <2>2. \E ok \in BOOLEAN : Iodone(ioq[i], ok)
    BY <2>1 DEF TransferOk, TransferFails
  <2>3. ioq' = RemoveAt(ioq, i) /\ UNCHANGED <<pc, call>>
    BY <2>1 DEF TransferOk, TransferFails, Serve, proc
  <2>4. QED
    BY <2>2, <2>3, IodoneWakes
<1>5. QED
  BY <1>1, <1>2, <1>3, <1>4 DEF Next

LEMMA InitWake == Init => WakeInv
<1> SUFFICES ASSUME Init PROVE WakeInv
  OBVIOUS
<1>1. \A p \in Procs : Asleep(p) /\ Begun(p)
  <2>1. NoBuf \notin Bufs /\ NoChan \notin Bufs /\ NoChan # FreeList /\ NoChan # BaSync
    BY CacheAssumption
  <2>2. QED
    BY <2>1, NoCallFacts DEF Init, Asleep, Begun
<1>2. Uncounted = {} /\ AsyncWrites = {} /\ basyncnt = 0
  BY DEF Init, Uncounted, AsyncWrites
<1>3. QED
  BY <1>1, <1>2, FS_EmptySet DEF WakeInv, Counted

(* ioq has every request once, so that the places of the asynchronous      *)
(* writes in it are as many as their buffers.                              *)
LEMMA WritesInQueue ==
    ASSUME TypeOK, HoldOK
    PROVE  Cardinality({i \in DOMAIN ioq : AsyncIo(ioq[i]) /\ "READ" \notin flags[ioq[i]]})
             = Cardinality(AsyncWrites)
<1> DEFINE J == {i \in DOMAIN ioq : AsyncIo(ioq[i]) /\ "READ" \notin flags[ioq[i]]}
           f == [i \in J |-> ioq[i]]
<1>1. ioq \in Seq(Bufs) /\ IsInjective(ioq)
  BY DEF TypeOK, HoldOK
<1>2. IsFiniteSet(J)
  <2>1. J \subseteq 1..Len(ioq) /\ Len(ioq) \in Nat
    BY <1>1
  <2>2. QED
    BY <2>1, FS_Interval, FS_Subset
<1>3. f \in [J -> AsyncWrites]
  BY <1>1 DEF AsyncIo, AsyncWrites
<1>4. IsInjective(f)
  BY <1>1 DEF IsInjective
<1>5. ASSUME NEW b \in AsyncWrites PROVE \E i \in J : f[i] = b
  <2>1. b \in ToSet(ioq) /\ "ASYNC" \in flags[b] /\ "READ" \notin flags[b]
    BY DEF AsyncWrites, HoldOK
  <2>2. PICK i \in DOMAIN ioq : ioq[i] = b
    BY <2>1 DEF ToSet
  <2>3. i \in J
    BY <2>1, <2>2 DEF AsyncIo
  <2>4. QED
    BY <2>2, <2>3
<1> HIDE DEF J, f
<1>6. f \in Bijection(J, AsyncWrites)
  BY <1>3, <1>4, <1>5 DEF Bijection, Injection, Surjection
<1>7. Cardinality(J) = Cardinality(AsyncWrites)
  BY <1>2, <1>6, FS_Bijection DEF ExistsBijection
<1>8. QED
  BY <1>7 DEF J

LEMMA WakeInvSuffices == IInv /\ WakeInv => NoLostWakeup
<1> SUFFICES ASSUME IInv, WakeInv PROVE NoLostWakeup
  OBVIOUS
<1>1. TypeOK /\ CallOK /\ HoldOK
  BY DEF IInv
<1>2. basyncnt + Cardinality(Uncounted) = Cardinality(AsyncWrites)
  BY DEF WakeInv, Counted
<1>3. ASSUME NEW p \in Procs, chan[p] \in Bufs, pc[p] = "iowait"
      PROVE  chan[p] \in ToSet(ioq) /\ "ASYNC" \notin flags[chan[p]]
  <2>1. /\ chan[p] = call[p].bp /\ "DONE" \notin flags[chan[p]]
        /\ chan[p] \in ToSet(ioq) \/ "DONE" \in flags[chan[p]]
    BY <1>3 DEF WakeInv, Asleep, Begun
  <2>2. chan[p] \in hold[p]
    BY <1>1, <1>3, <2>1 DEF CallOK, Stands
  <2>3. QED
    BY <1>1, <2>1, <2>2 DEF HoldOK
<1>4. ASSUME NEW p \in Procs, chan[p] = BaSync
      PROVE  basynwait /\ \E b \in ToSet(ioq) : AsyncIo(b) /\ "READ" \notin flags[b]
  <2>1. basynwait /\ basyncnt > 0 /\ basyncnt \in Int
    BY <1>1, <1>4 DEF WakeInv, Asleep, TypeOK
  <2>2. Cardinality(Uncounted) \in Nat
    BY <1>1, UncountedFew
  <2>3. AsyncWrites # {}
    BY <1>2, <2>1, <2>2, FS_EmptySet
  <2>4. QED
    BY <1>1, <2>1, <2>3 DEF AsyncWrites, AsyncIo, HoldOK
<1>5. \A p \in Procs :
        /\ chan[p] \in Bufs /\ pc[p] = "getblk" => {"BUSY", "WANTED"} \subseteq flags[chan[p]]
        /\ chan[p] = FreeList => flWanted
  BY DEF WakeInv, Asleep
<1>6. basyncnt + Cardinality(Uncounted) =
        Cardinality({i \in DOMAIN ioq : AsyncIo(ioq[i]) /\ "READ" \notin flags[ioq[i]]})
  BY <1>1, <1>2, WritesInQueue
<1>7. QED
  BY <1>3, <1>4, <1>5, <1>6 DEF NoLostWakeup

(* The invariant of the proof. *)
LEMMA WakeInvariance == Spec => [](IInv /\ WakeInv)
<1>1. IInv /\ WakeInv /\ [Next]_vars => WakeInv'
  <2> SUFFICES ASSUME IInv, WakeInv, [Next]_vars PROVE WakeInv'
    OBVIOUS
  <2>1. CASE Next
    BY <2>1, WakeStep
  <2>2. CASE UNCHANGED vars
    BY <2>2 DEF vars, cache, async, store, proc, WakeInv, Asleep, Begun, Counted,
       Uncounted, AsyncWrites
  <2>3. QED
    BY <2>1, <2>2
<1>2. QED
  BY Invariance, InitWake, <1>1, PTL DEF Spec

(* Whoever sleeps in the buffer cache has a wakeup coming: the buffer he   *)
(* wants is busy and marked B_WANTED, the transfer he waits for is under   *)
(* way, the available list is marked, or bdwait's count is of writes that  *)
(* are.  basyncnt, less the write not counted yet, is right.               *)
THEOREM WakeupsKept == Spec => []NoLostWakeup
<1>1. QED
  BY WakeInvariance, WakeInvSuffices, PTL

(* Where a step takes a process out of bdwait. *)
LEMMA LeavesBdwait ==
    ASSUME TypeOK, Next, NEW q \in Procs, pc[q] = "bdwait", pc'[q] # "bdwait"
    PROVE  BdwaitEnd(q)
<1> USE DEF proc, Goto, Return, SleepOn
<1>1. ASSUME NEW p \in Procs, EnterCall(p) PROVE FALSE
  <2>1. \E m, a, s, w : Enter(p, m, a, s, w)
    BY <1>1 DEF EnterCall, CallGetblk, CallGeteblk, CallBread, CallBreada, CallFlush, CallClose
  <2>2. pc[p] = "user" /\ \E w : pc' = [pc EXCEPT ![p] = w]
    BY <2>1 DEF Enter, InUser
  <2>3. QED
    BY <2>2 DEF TypeOK
<1>2. ASSUME NEW p \in Procs, Release(p) PROVE FALSE
  <2>1. pc[p] = "user" /\ (pc' = pc \/ \E w : pc' = [pc EXCEPT ![p] = w])
    BY <1>2 DEF Release, CallBrelse, CallBdwrite, CallBwrite, CallBawrite, Modify, Owned, InUser
  <2>2. QED
    BY <2>1 DEF TypeOK
<1>3. ASSUME NEW p \in Procs, Step(p) PROVE BdwaitEnd(q)
  <2>1. CASE BdwaitEnd(p)
    <3>1. pc' = [pc EXCEPT ![p] = "user"]
      BY <2>1 DEF BdwaitEnd
    <3>2. p = q
      BY <3>1 DEF TypeOK
    <3>3. QED
      BY <2>1, <3>2
  <2>2. CASE BdwaitSleep(p)
    BY <2>2 DEF BdwaitSleep
  <2>3. CASE GetblkHit(p) \/ GetblkReuse(p)
    <3>1. pc[p] \in {"getblk", "hit"} /\ \E b, f, s : Got(p, b, f, s)
      BY <2>3 DEF GetblkHit, GetblkReuse, InHit, Miss, InGetblk
    <3>2. \E w : pc' = [pc EXCEPT ![p] = w]
      BY <3>1 DEF Got
    <3>3. QED
      BY <3>1, <3>2 DEF TypeOK
  <2>4. CASE \/ GetblkScan(p) \/ GetblkBusy(p) \/ GetblkEmpty(p) \/ GetblkDelwri(p) \/ Count(p)
             \/ FlushNext(p) \/ FlushEnd(p) \/ Binval(p)
    <3>1. pc[p] # "bdwait" /\ (pc' = pc \/ \E w : pc' = [pc EXCEPT ![p] = w])
      BY <2>4 DEF GetblkScan, GetblkBusy, GetblkEmpty, GetblkDelwri, Count, FlushNext, FlushEnd,
         Binval, InGetblk, InHit, Miss, InFlush, FlushOver, WriteBehind
    <3>2. QED
      BY <3>1 DEF TypeOK
  <2>5. CASE AheadNext(p) \/ AheadEnd(p) \/ IowaitSleep(p) \/ IowaitRead(p) \/ IowaitWrite(p)
    <3>1. pc[p] # "bdwait" /\ (pc' = pc \/ \E w : pc' = [pc EXCEPT ![p] = w])
      BY <2>5 DEF AheadNext, AheadEnd, IowaitSleep, IowaitRead, IowaitWrite, InAhead, InIowait
    <3>2. QED
      BY <3>1 DEF TypeOK
  <2>6. QED
    BY <1>3, <2>1, <2>2, <2>3, <2>4, <2>5 DEF Step
<1>4. ASSUME Interrupt PROVE FALSE
  BY <1>4 DEF Interrupt, TransferOk, TransferFails, Serve
<1>5. QED
  BY <1>1, <1>2, <1>3, <1>4 DEF Next

(* bdwait, with which a shutdown ends, does not return while a write that  *)
(* nobody waits for is still to reach the disk.                            *)
THEOREM Drains == Spec => BdwaitDrains
<1>1. IInv /\ WakeInv /\ [Next]_vars =>
        [\A p \in Procs : pc[p] = "bdwait" /\ pc'[p] = "user" =>
            \A b \in ToSet(ioq) : "ASYNC" \in flags[b] => "READ" \in flags[b]]_vars
  <2> SUFFICES ASSUME IInv, WakeInv, Next, NEW p \in Procs, pc[p] = "bdwait", pc'[p] = "user"
               PROVE  \A b \in ToSet(ioq) : "ASYNC" \in flags[b] => "READ" \in flags[b]
    OBVIOUS
  <2>1. TypeOK /\ CallOK /\ ioq \in Seq(Bufs)
    BY DEF IInv, TypeOK
  <2>2. Running(p) /\ basyncnt = 0
    BY <2>1, LeavesBdwait DEF BdwaitEnd, InBdwait
  <2>3. Cardinality(Uncounted) = 0
    <3>1. pc' = [pc EXCEPT ![p] = "user"]
      BY <2>1, LeavesBdwait DEF BdwaitEnd, Return
    <3>2. QED
      BY <2>1, <2>2, <3>1, UncountedRuns
  <2>4. Cardinality(AsyncWrites) = 0
    BY <2>2, <2>3 DEF WakeInv, Counted
  <2>5. AsyncWrites = {}
    <3>1. IsFiniteSet(AsyncWrites)
      BY CacheAssumption, FS_Subset DEF AsyncWrites
    <3>2. QED
      BY <2>4, <3>1, FS_EmptySet
  <2>6. QED
    BY <2>1, <2>5 DEF AsyncWrites, ToSet
<1>2. QED
  BY WakeInvariance, <1>1, PTL DEF Spec, BdwaitDrains
-----------------------------------------------------------------------------
(***************************************************************************)
(* Nobody sleeps for an available buffer that is there, unless somebody    *)
(* else is about to take it.  brelse wakes those who wait for the buffer,  *)
(* and only if there is nobody those who wait for any: so for each         *)
(* available buffer there is a block that somebody who runs is looking for *)
(* and will not find busy, and he will take one.                           *)
(***************************************************************************)

(* p is in getblk, to its end. *)
Seeks(p) ==
    \/ pc[p] \in {"getblk", "hit"}
    \/ pc[p] = "count" /\ call[p].mode \in {"getblk", "bread", "ahead"}

Taken(k) == \E b \in Found(k) : "BUSY" \in flags[b]
Seeker(q, k) == chan[q] = NoChan /\ Seeks(q) /\ Want(q) = k
Sought == {k \in Blocks : ~Taken(k) /\ \E q \in Procs : Seeker(q, k)}

(* There are enough blocks in S for the buffers of F. *)
Matched(F, S) == \E g \in [F -> S] : \A x, y \in F : g[x] = g[y] => x = y

Enough == (\E p \in Procs : chan[p] = FreeList) => Matched(ToSet(free), Sought)

(* The buffer q waits for is one of the block it wants. *)
Waiting(q) ==
    chan[q] \in Bufs /\ pc[q] = "getblk" =>
        Want(q) \in Blocks /\ blkOf[chan[q]] = Want(q) /\ "STALE" \notin flags[chan[q]]

WantedSlept ==
    \A b \in Bufs : "WANTED" \in flags[b] => \E q \in Procs : chan[q] = b /\ pc[q] = "getblk"

(* Where the hash scan of q stopped.  A buffer that is idle may go stale   *)
(* before q looks at it again.                                             *)
AtHit(q) ==
    pc[q] = "hit" =>
        /\ blkOf[call[q].tgt] = Want(q)
        /\ "STALE" \in flags[call[q].tgt] => "BUSY" \notin flags[call[q].tgt]

(* r is not at a block of the device d. *)
Elsewhere(r, d) ==
    /\ call[r].arg \in Blocks => DevOf[call[r].arg] # d
    /\ \A i \in DOMAIN call[r].ra : DevOf[call[r].ra[i]] # d

(* While a device is closed nobody is at a block of it. *)
Closing(q) ==
    /\ pc[q] = "flush" => run = q
    /\ pc[q] \in {"flush", "count"} /\ call[q].mode = "close" =>
         call[q].arg \in Devs /\ \A r \in Procs : Elsewhere(r, call[q].arg)

StrandInv ==
    (\A q \in Procs : Waiting(q) /\ AtHit(q) /\ Closing(q)) /\ WantedSlept /\ Enough
-----------------------------------------------------------------------------
LEMMA MatchSame ==
    ASSUME NEW F, NEW S, Matched(F, S), NEW G, NEW T, G \subseteq F, S \subseteq T
    PROVE  Matched(G, T)
<1>1. PICK g \in [F -> S] : \A x, y \in F : g[x] = g[y] => x = y
  BY DEF Matched
<1> DEFINE h == [x \in G |-> g[x]]
<1>2. h \in [G -> T] /\ \A x, y \in G : h[x] = h[y] => x = y
  BY <1>1
<1> HIDE DEF h
<1>3. QED
  BY <1>2 DEF Matched

(* One buffer more, and one block more. *)
OneMore(F, S, G, T) ==
    \E b, k : G \subseteq F \cup {b} /\ S \subseteq T /\ k \in T \ S

LEMMA MatchMore ==
    ASSUME NEW F, NEW S, NEW G, NEW T, Matched(F, S), OneMore(F, S, G, T)
    PROVE  Matched(G, T)
<1> PICK b, k : G \subseteq F \cup {b} /\ S \subseteq T /\ k \in T \ S
  BY DEF OneMore
<1>1. PICK g \in [F -> S] : \A x, y \in F : g[x] = g[y] => x = y
  BY DEF Matched
<1> DEFINE h == [x \in G |-> IF x \in F THEN g[x] ELSE k]
<1>2. h \in [G -> T]
  BY <1>1
<1>3. ASSUME NEW x \in G, NEW y \in G, h[x] = h[y] PROVE x = y
  <2>1. CASE x \in F /\ y \in F
    BY <1>1, <1>3, <2>1
  <2>2. CASE x \notin F /\ y \notin F
    BY <2>2
  <2>3. CASE x \in F /\ y \notin F
    BY <1>1, <1>3, <2>3
  <2>4. CASE x \notin F /\ y \in F
    BY <1>1, <1>3, <2>4
  <2>5. QED
    BY <2>1, <2>2, <2>3, <2>4
<1> HIDE DEF h
<1>4. QED
  BY <1>2, <1>3 DEF Matched

(* One buffer less, and one block less. *)
LEMMA MatchLess ==
    ASSUME NEW F, NEW S, Matched(F, S), NEW G, NEW T, NEW b \in F, NEW k,
           G \subseteq F \ {b}, S \ {k} \subseteq T
    PROVE  Matched(G, T)
<1>1. PICK g \in [F -> S] : \A x, y \in F : g[x] = g[y] => x = y
  BY DEF Matched
<1> DEFINE h == [x \in G |-> IF g[x] = k THEN g[b] ELSE g[x]]
<1>2. ASSUME NEW x \in G PROVE h[x] \in T
  BY <1>1
<1>3. ASSUME NEW x \in G, NEW y \in G, h[x] = h[y] PROVE x = y
  <2>1. x \in F /\ y \in F /\ x # b /\ y # b
    OBVIOUS
  <2>2. CASE g[x] = k /\ g[y] = k
    BY <1>1, <2>1, <2>2
  <2>3. CASE g[x] # k /\ g[y] # k
    BY <1>1, <1>3, <2>1, <2>3
  <2>4. CASE g[x] = k /\ g[y] # k
    BY <1>1, <1>3, <2>1, <2>4
  <2>5. CASE g[x] # k /\ g[y] = k
    BY <1>1, <1>3, <2>1, <2>5
  <2>6. QED
    BY <2>2, <2>3, <2>4, <2>5
<1>4. h \in [G -> T]
  BY <1>2
<1> HIDE DEF h
<1>5. QED
  BY <1>3, <1>4 DEF Matched

LEMMA MatchNone == ASSUME NEW S PROVE Matched({}, S)
<1>1. [x \in {} |-> x] \in [{} -> S]
  OBVIOUS
<1>2. QED
  BY <1>1 DEF Matched

(* A process without changes to its call wants what it wanted. *)
LEMMA WantSame ==
    ASSUME NEW q, call'[q] = call[q]
    PROVE  Want(q)' = Want(q)
BY DEF Want

LEMMA SeeksSame ==
    ASSUME NEW q, call'[q] = call[q], pc'[q] = pc[q]
    PROVE  Seeks(q)' <=> Seeks(q)
BY DEF Seeks

(* The blocks sought, but for those of K, still are. *)
LEMMA SoughtKept ==
    ASSUME NEW K,
           \A q \in Procs : chan[q] = NoChan /\ Seeks(q) =>
               \/ Want(q) \in K
               \/ chan'[q] = NoChan /\ Seeks(q)' /\ Want(q)' = Want(q),
           \A b \in Bufs : "BUSY" \in flags'[b] /\ "STALE" \notin flags'[b] =>
               \/ blkOf'[b] \in K
               \/ "BUSY" \in flags[b] /\ "STALE" \notin flags[b] /\ blkOf'[b] = blkOf[b]
    PROVE  Sought \ K \subseteq Sought'
<1> SUFFICES ASSUME NEW k \in Sought, k \notin K PROVE k \in Sought'
  OBVIOUS
<1>1. k \in Blocks /\ ~Taken(k)
  BY DEF Sought
<1>2. PICK q \in Procs : Seeker(q, k)
  BY DEF Sought
<1>3. Seeker(q, k)'
  BY <1>2 DEF Seeker
<1>4. ~Taken(k)'
  BY <1>1 DEF Taken, Found
<1>5. QED
  BY <1>1, <1>3, <1>4 DEF Sought
-----------------------------------------------------------------------------
LEMMA AtRun ==
    ASSUME CallOK, StrandInv, NEW p \in Procs, Running(p), NEW q \in Procs, q # p
    PROVE  pc[q] \notin {"hit", "count", "flush"}
BY CacheAssumption DEF CallOK, StrandInv, Closing, Running

(* A step of p: what is left is to look at p, at the flags that ask for a  *)
(* wakeup, and at the blocks sought.                                       *)
LEMMA StrandStep ==
    ASSUME TypeOK, CallOK, StrandInv, NEW p \in Procs, Running(p), NEW w, NEW c,
           pc' = [pc EXCEPT ![p] = w], call' = [call EXCEPT ![p] = c],
           \A q \in Procs \ {p} :
               /\ chan'[q] \in {chan[q], NoChan}
               /\ chan'[q] \in Bufs /\ pc[q] = "getblk" =>
                    /\ blkOf'[chan[q]] = blkOf[chan[q]]
                    /\ "STALE" \in flags'[chan[q]] => "STALE" \in flags[chan[q]],
           Waiting(p)', AtHit(p)', Closing(p)', WantedSlept', Enough'
    PROVE  StrandInv'
<1>1. ASSUME NEW q \in Procs, q # p PROVE Waiting(q)' /\ AtHit(q)' /\ Closing(q)'
  <2>1. pc'[q] = pc[q] /\ call'[q] = call[q]
    BY <1>1 DEF TypeOK
  <2>2. pc'[q] \notin {"hit", "count", "flush"}
    BY <1>1, <2>1, AtRun
  <2>3. AtHit(q)' /\ Closing(q)'
    BY <2>2 DEF AtHit, Closing
  <2>4. Waiting(q)'
    <3> SUFFICES ASSUME chan'[q] \in Bufs, pc[q] = "getblk"
                 PROVE  Want(q) \in Blocks /\ blkOf'[chan'[q]] = Want(q) /\ "STALE" \notin flags'[chan'[q]]
      BY <2>1, WantSame DEF Waiting
    <3>1. chan'[q] = chan[q]
      BY <1>1, CacheAssumption
    <3>2. Waiting(q)
      BY DEF StrandInv
    <3>3. QED
      BY <1>1, <3>1, <3>2 DEF Waiting
  <2>5. QED
    BY <2>3, <2>4
<1>2. QED
  BY <1>1 DEF StrandInv

(* Somebody still sleeps on every buffer that is wanted. *)
LEMMA WantedKept ==
    ASSUME WantedSlept, NEW B,
           \A q \in Procs : chan[q] \in Bufs \ B => chan'[q] = chan[q] /\ pc'[q] = pc[q],
           \A b \in Bufs : "WANTED" \in flags'[b] =>
               \/ "WANTED" \in flags[b] /\ b \notin B
               \/ \E q \in Procs : chan'[q] = b /\ pc'[q] = "getblk"
    PROVE  WantedSlept'
<1> SUFFICES ASSUME NEW b \in Bufs, "WANTED" \in flags'[b]
             PROVE  \E q \in Procs : chan'[q] = b /\ pc'[q] = "getblk"
  BY DEF WantedSlept
<1>1. CASE "WANTED" \in flags[b] /\ b \notin B
  BY <1>1 DEF WantedSlept
<1>2. QED
  BY <1>1

(* What p's step does to who is asleep: nothing. *)
LEMMA SleepersStay ==
    ASSUME TypeOK, NEW p \in Procs, Running(p), NEW w, NEW c,
           pc' = [pc EXCEPT ![p] = w], call' = [call EXCEPT ![p] = c],
           NEW q \in Procs, chan[q] # NoChan
    PROVE  q # p /\ pc'[q] = pc[q] /\ call'[q] = call[q]
BY DEF TypeOK, Running

LEMMA EnoughSame ==
    ASSUME Enough, ToSet(free') \subseteq ToSet(free), Sought \subseteq Sought',
           \A q \in Procs : chan'[q] = FreeList => chan[q] = FreeList
    PROVE  Enough'
BY MatchSame DEF Enough

LEMMA EnoughLess ==
    ASSUME Enough, NEW b \in ToSet(free), ToSet(free') \subseteq ToSet(free) \ {b},
           NEW k, Sought \ {k} \subseteq Sought',
           \A q \in Procs : chan'[q] = FreeList => chan[q] = FreeList
    PROVE  Enough'
<1> SUFFICES ASSUME NEW q \in Procs, chan'[q] = FreeList PROVE Matched(ToSet(free'), Sought')
  BY DEF Enough
<1> DEFINE F == ToSet(free)
           G == ToSet(free')
           S == Sought
           T == Sought'
<1>1. Matched(F, S) /\ b \in F /\ G \subseteq F \ {b} /\ S \ {k} \subseteq T
  BY DEF Enough
<1> HIDE DEF F, G, S, T
<1>2. Matched(G, T)
  BY <1>1, MatchLess
<1>3. QED
  BY <1>2 DEF G, T

(* A buffer is wanted only while it is busy. *)
LEMMA WantedBusy ==
    ASSUME WakeInv, StrandInv, NEW b \in Bufs, "WANTED" \in flags[b]
    PROVE  "BUSY" \in flags[b]
BY DEF WakeInv, Asleep, StrandInv, WantedSlept

(* A buffer is given back: its block is sought by whom it wakes, or else   *)
(* nobody sleeps for an available buffer any more.                         *)
LEMMA BrelseEnough ==
    ASSUME IInv, WakeInv, StrandInv, NEW b \in Bufs, NEW f \in SUBSET Flag, NEW s \in Seq(Bufs),
           NEW also, Brelse(b, f, s, also), "WANTED" \in f => "WANTED" \in flags[b],
           ToSet(s) \subseteq ToSet(free), UNCHANGED blkOf,
           "WANTED" \in f => Sought \subseteq Sought',
           \A q \in Procs : chan[q] # NoChan => pc'[q] = pc[q] /\ call'[q] = call[q]
    PROVE  Enough'
<1>1. TypeOK /\ UniqueBlock
  BY DEF IInv
<1>2. /\ ToSet(free') = ToSet(s) \cup {b} /\ \A c \in Bufs \ {b} : flags'[c] = flags[c]
      /\ "BUSY" \notin flags'[b]
  BY <1>1, BrelseFacts
<1>3. chan' = [q \in Procs |-> IF chan[q] \in Woken(b, f) \cup also THEN NoChan ELSE chan[q]]
  BY DEF Brelse, Wakeup
<1>4. NoChan # FreeList /\ NoChan # b /\ b # FreeList
  BY CacheAssumption
<1>5. \A q \in Procs : chan'[q] = FreeList => chan[q] = FreeList
  BY <1>3, <1>4
<1>6. CASE "WANTED" \in f
  <2>1. PICK q \in Procs : chan[q] = b /\ pc[q] = "getblk"
    BY <1>6 DEF StrandInv, WantedSlept
  <2> DEFINE k == blkOf[b]
  <2>2. k \in Blocks /\ k = Want(q) /\ "STALE" \notin flags[b] /\ "BUSY" \in flags[b]
    BY <1>6, <2>1, WantedBusy DEF StrandInv, Waiting
  <2>3. b \in Found(k)
    BY <2>2 DEF Found
  <2>4. k \notin Sought
    BY <2>2, <2>3 DEF Sought, Taken
  <2>5. ~Taken(k)'
    <3> SUFFICES ASSUME NEW e \in Bufs, blkOf[e] = k, "STALE" \notin flags'[e], "BUSY" \in flags'[e]
                 PROVE  FALSE
      BY DEF Taken, Found
    <3>1. e # b /\ flags'[e] = flags[e]
      BY <1>2
    <3>2. e \in Found(k)
      BY <3>1 DEF Found
    <3>3. QED
      BY <1>1, <2>2, <2>3, <3>1, <3>2 DEF UniqueBlock
  <2>6. Seeker(q, k)'
    <3>1. chan'[q] = NoChan
      BY <1>3, <1>6, <2>1 DEF Woken
    <3>2. pc'[q] = "getblk" /\ Want(q)' = Want(q)
      BY <1>4, <2>1, WantSame
    <3>3. QED
      BY <2>2, <3>1, <3>2 DEF Seeker, Seeks
  <2>7. k \in Sought'
    BY <2>2, <2>5, <2>6 DEF Sought
  <2> HIDE DEF k
  <2>8. Enough
    BY DEF StrandInv
  <2>9. ToSet(free') \subseteq ToSet(free) \cup {b} /\ Sought \subseteq Sought'
    BY <1>2, <1>6
  <2>10. QED
    <3> SUFFICES ASSUME NEW r \in Procs, chan'[r] = FreeList PROVE Matched(ToSet(free'), Sought')
      BY DEF Enough
    <3> DEFINE F == ToSet(free)
               G == ToSet(free')
               S == Sought
               T == Sought'
    <3>1. Matched(F, S) /\ G \subseteq F \cup {b} /\ S \subseteq T /\ k \in T /\ k \notin S
      BY <1>5, <2>4, <2>7, <2>8, <2>9 DEF Enough
    <3> HIDE DEF F, G, S, T
    <3>2. OneMore(F, S, G, T)
      BY <3>1 DEF OneMore
    <3>3. Matched(G, T)
      BY <3>1, <3>2, MatchMore
    <3>4. QED
      BY <3>3 DEF G, T
<1>7. CASE "WANTED" \notin f
  <2>1. \A q \in Procs : chan'[q] # FreeList
    <3>1. CASE flWanted
      BY <1>3, <1>4, <1>7, <3>1 DEF Woken
    <3>2. CASE ~flWanted
      BY <1>5, <3>2 DEF WakeInv, Asleep
    <3>3. QED
      BY <3>1, <3>2
  <2>2. QED
    BY <2>1 DEF Enough
<1>8. QED
  BY <1>6, <1>7
-----------------------------------------------------------------------------
(* p gives nothing back and takes nothing, and what it looked for it still *)
(* does.  A buffer may go stale that nobody waits for.                     *)
LEMMA CalmStep ==
    ASSUME TypeOK, CallOK, StrandInv, NEW p \in Procs, Running(p), NEW w, NEW c,
           pc' = [pc EXCEPT ![p] = w], call' = [call EXCEPT ![p] = c],
           UNCHANGED <<blkOf, free>>,
           \A b \in Bufs : /\ \A x \in {"BUSY", "WANTED"} : x \in flags'[b] <=> x \in flags[b]
                           /\ "STALE" \in flags[b] => "STALE" \in flags'[b],
           \A q \in Procs \ {p} : chan'[q] = chan[q],
           \A q \in Procs \ {p} : chan[q] \in Bufs /\ pc[q] = "getblk" =>
               ("STALE" \in flags'[chan[q]] => "STALE" \in flags[chan[q]]),
           Seeks(p) => chan'[p] = NoChan /\ Seeks(p)' /\ Want(p)' = Want(p),
           chan'[p] # FreeList, Waiting(p)', AtHit(p)', Closing(p)'
    PROVE  StrandInv'
<1>1. \A q \in Procs \ {p} : pc'[q] = pc[q] /\ call'[q] = call[q]
  BY DEF TypeOK
<1>2. \A q \in Procs : chan[q] = NoChan /\ Seeks(q) =>
          chan'[q] = NoChan /\ Seeks(q)' /\ Want(q)' = Want(q)
  BY <1>1, WantSame, SeeksSame
<1>3. Sought \ {} \subseteq Sought'
  BY <1>2, SoughtKept
<1>4. \A q \in Procs : chan'[q] = FreeList => chan[q] = FreeList
  OBVIOUS
<1>5. Enough'
  BY <1>3, <1>4, EnoughSame DEF StrandInv
<1>6. chan[p] \notin Bufs
  BY CacheAssumption DEF Running
<1>7. \A q \in Procs : chan[q] \in Bufs => chan'[q] = chan[q] /\ pc'[q] = pc[q]
  BY <1>1, <1>6
<1>8. \A b \in Bufs : "WANTED" \in flags'[b] => "WANTED" \in flags[b]
  OBVIOUS
<1>9. WantedSlept'
  BY <1>7, <1>8 DEF StrandInv, WantedSlept
<1>10. QED
  BY <1>5, <1>9, StrandStep

(* Entering a call; a device that is being closed is used by nobody.       *)
LEMMA EnterStrand ==
    ASSUME IInv, StrandInv, NEW p \in Procs, EnterCall(p)
    PROVE  StrandInv'
<1>1. TypeOK /\ CallOK
  BY DEF IInv
<1>2. PICK m, a, s, w :
          /\ Enter(p, m, a, s, w) /\ w \in {"getblk", "ahead", "flush"}
          /\ w = "flush" /\ m = "close" => CallClose(p, a) /\ a \in Devs /\ s = << >>
  BY DEF EnterCall, CallGetblk, CallGeteblk, CallBread, CallBreada, CallFlush, CallClose
<1> DEFINE c == [NoCall EXCEPT !.mode = m, !.arg = a, !.ra = s]
<1>3. /\ pc[p] = "user" /\ Running(p)
      /\ pc' = [pc EXCEPT ![p] = w] /\ call' = [call EXCEPT ![p] = c] /\ run' = p
      /\ UNCHANGED <<flags, blkOf, free, chan>>
  BY <1>2 DEF Enter, InUser, Goto, cache
<1>4. c.mode = m /\ c.arg = a /\ c.ra = s
  BY DEF NoCall
<1> HIDE DEF c
<1>5. /\ pc'[p] = w /\ call'[p] = c /\ chan[p] = NoChan
      /\ \A q \in Procs \ {p} : call'[q] = call[q]
  BY <1>1, <1>3 DEF TypeOK, Running
<1>6. ~Seeks(p) /\ Waiting(p)' /\ AtHit(p)' /\ chan'[p] # FreeList
  BY <1>2, <1>3, <1>5, CacheAssumption DEF Seeks, Waiting, AtHit
<1>7. Closing(p)'
  <2>1. CASE w = "flush" /\ m = "close"
    <3>1. DevIdle(a) /\ a \in Devs /\ s = << >> /\ a \notin Blocks
      BY <1>2, <2>1, CacheAssumption DEF CallClose
    <3>2. \A r \in Procs : Elsewhere(r, a)'
      BY <1>4, <1>5, <3>1 DEF DevIdle, Elsewhere
    <3>3. QED
      BY <1>3, <1>4, <1>5, <3>1, <3>2 DEF Closing
  <2>2. CASE ~(w = "flush" /\ m = "close")
    BY <1>2, <1>3, <1>4, <1>5, <2>2 DEF Closing
  <2>3. QED
    BY <2>1, <2>2
<1>8. QED
  BY <1>1, <1>3, <1>6, <1>7, CalmStep
-----------------------------------------------------------------------------
(* The steps of a call outside getblk that leave the buffers alone.        *)
LEMMA AsideStep ==
    ASSUME TypeOK, CallOK, StrandInv, NEW p \in Procs, Running(p), ~Seeks(p),
           NEW w, w \notin {"hit", "count", "flush"}, NEW c,
           pc' = [pc EXCEPT ![p] = w], call' = [call EXCEPT ![p] = c],
           UNCHANGED <<flags, blkOf, free>>,
           \/ UNCHANGED chan
           \/ w # "getblk" /\ chan'[p] # FreeList /\ \A q \in Procs \ {p} : chan'[q] = chan[q]
    PROVE  StrandInv'
<1>1. pc'[p] = w
  BY DEF TypeOK
<1>2. AtHit(p)' /\ Closing(p)'
  BY <1>1 DEF AtHit, Closing
<1>3. chan[p] = NoChan /\ NoChan \notin Bufs /\ NoChan # FreeList
  BY CacheAssumption DEF Running
<1>4. Waiting(p)' /\ chan'[p] # FreeList /\ \A q \in Procs \ {p} : chan'[q] = chan[q]
  BY <1>1, <1>3 DEF Waiting
<1>5. QED
  BY <1>2, <1>4, CalmStep

LEMMA AsideSteps ==
    ASSUME IInv, StrandInv, NEW p \in Procs,
           \/ AheadNext(p) \/ AheadEnd(p) \/ IowaitSleep(p) \/ IowaitRead(p)
           \/ FlushEnd(p) \/ BdwaitSleep(p) \/ BdwaitEnd(p)
    PROVE  StrandInv'
<1>1. TypeOK /\ CallOK
  BY DEF IInv
<1>2. /\ pc[p] \in {"ahead", "iowait", "flush", "bdwait"} /\ Running(p)
      /\ UNCHANGED <<flags, blkOf, free>>
  BY DEF AheadNext, AheadEnd, IowaitSleep, IowaitRead, FlushEnd, BdwaitSleep, BdwaitEnd,
     InAhead, InIowait, FlushOver, InFlush, InBdwait, cache
<1>3. ~Seeks(p)
  BY <1>2 DEF Seeks
<1>4. CASE AheadNext(p) \/ AheadEnd(p) \/ IowaitRead(p) \/ FlushEnd(p) \/ BdwaitEnd(p)
  <2>1. /\ \E w \in {"user", "getblk", "ahead", "iowait", "bdwait"} : \E c :
             pc' = [pc EXCEPT ![p] = w] /\ call' = [call EXCEPT ![p] = c]
        /\ UNCHANGED chan
    BY <1>4 DEF AheadNext, AheadEnd, IowaitRead, FlushEnd, BdwaitEnd, Goto, Return
  <2>2. QED
    BY <1>1, <1>2, <1>3, <2>1, AsideStep
<1>5. CASE IowaitSleep(p) \/ BdwaitSleep(p)
  <2>1. /\ pc[p] \in {"iowait", "bdwait"} /\ UNCHANGED <<pc, call>>
        /\ \/ chan' = [chan EXCEPT ![p] = call[p].bp] /\ call[p].bp \in Bufs
           \/ chan' = [chan EXCEPT ![p] = BaSync]
    BY <1>1, <1>5 DEF IowaitSleep, BdwaitSleep, InIowait, InBdwait, SleepOn, proc, CallOK, Stands
  <2>2. pc' = [pc EXCEPT ![p] = pc[p]] /\ call' = [call EXCEPT ![p] = call[p]]
    BY <1>1, <2>1 DEF TypeOK
  <2>3. chan'[p] # FreeList /\ \A q \in Procs \ {p} : chan'[q] = chan[q]
    BY <1>1, <2>1, CacheAssumption DEF TypeOK
  <2> DEFINE w == pc[p]
             c == call[p]
  <2>4. /\ pc' = [pc EXCEPT ![p] = w] /\ call' = [call EXCEPT ![p] = c]
        /\ w \notin {"hit", "count", "flush"}
        /\ \/ UNCHANGED chan
           \/ w # "getblk" /\ chan'[p] # FreeList /\ \A q \in Procs \ {p} : chan'[q] = chan[q]
    BY <2>1, <2>2, <2>3
  <2> HIDE DEF w, c
  <2>5. QED
    BY <1>1, <1>2, <1>3, <2>4, AsideStep
<1>6. QED
  BY <1>4, <1>5

(* The scan stops at a buffer of the block. *)
LEMMA ScanStrand ==
    ASSUME IInv, StrandInv, NEW p \in Procs, GetblkScan(p)
    PROVE  StrandInv'
<1>1. TypeOK /\ CallOK
  BY DEF IInv
<1>2. PICK b \in Found(Want(p)) : Goto(p, "hit", [call[p] EXCEPT !.tgt = b])
  BY DEF GetblkScan
<1> DEFINE c == [call[p] EXCEPT !.tgt = b]
<1>3. c.tgt = b /\ c.mode = call[p].mode /\ c.ra = call[p].ra /\ c.arg = call[p].arg
  BY <1>1 DEF TypeOK, CallType
<1>4. /\ pc[p] = "getblk" /\ Running(p) /\ UNCHANGED <<flags, blkOf, free, chan>>
      /\ pc' = [pc EXCEPT ![p] = "hit"] /\ call' = [call EXCEPT ![p] = c]
  BY <1>2 DEF GetblkScan, InGetblk, Goto, cache
<1> HIDE DEF c
<1>5. pc'[p] = "hit" /\ call'[p] = c /\ chan[p] = NoChan
  BY <1>1, <1>4 DEF TypeOK, Running
<1>6. Seeks(p)' /\ Want(p)' = Want(p)
  BY <1>3, <1>5 DEF Seeks, Want
<1>7. AtHit(p)'
  BY <1>2, <1>3, <1>4, <1>5, <1>6 DEF AtHit, Found
<1>8. Waiting(p)' /\ Closing(p)' /\ chan'[p] = NoChan /\ NoChan # FreeList
  BY <1>4, <1>5, CacheAssumption DEF Waiting, Closing
<1>9. QED
  BY <1>1, <1>4, <1>6, <1>7, <1>8, CalmStep

(* The write is counted and the call goes on. *)
LEMMA CountStrand ==
    ASSUME IInv, StrandInv, NEW p \in Procs, Count(p)
    PROVE  StrandInv'
<1>1. TypeOK /\ CallOK
  BY DEF IInv
<1>2. pc[p] = "count" /\ Running(p) /\ UNCHANGED <<flags, blkOf, free, chan>>
  BY DEF Count, cache
<1>3. CASE call[p].mode = "write" /\ Return(p)
  BY <1>1, <1>2, <1>3, AsideStep DEF Return, Seeks
<1>4. ASSUME NEW w \in {"getblk", "flush"}, Goto(p, w, call[p]),
             w = "getblk" <=> call[p].mode \in {"getblk", "bread", "ahead"}
      PROVE  StrandInv'
  <2>1. pc' = [pc EXCEPT ![p] = w] /\ call' = [call EXCEPT ![p] = call[p]] /\ run' = p
    BY <1>4 DEF Goto
  <2>2. pc'[p] = w /\ call' = call /\ chan[p] = NoChan
    BY <1>1, <1>2, <2>1 DEF TypeOK, Running
  <2>3. Want(p)' = Want(p) /\ (Seeks(p) => Seeks(p)')
    BY <1>2, <1>4, <2>2, WantSame DEF Seeks
  <2>4. AtHit(p)' /\ Waiting(p)' /\ chan'[p] = NoChan /\ NoChan # FreeList
    BY <1>2, <1>4, <2>2, CacheAssumption DEF AtHit, Waiting
  <2>5. Closing(p)'
    BY <1>2, <1>4, <2>1, <2>2 DEF StrandInv, Closing, Elsewhere
  <2>6. QED
    BY <1>1, <1>2, <2>1, <2>3, <2>4, <2>5, CalmStep
<1>5. QED
  BY <1>3, <1>4 DEF Count, FlushMode
-----------------------------------------------------------------------------
(* binval: whoever sleeps on a buffer wants a block of another device. *)
LEMMA BinvalStrand ==
    ASSUME IInv, StrandInv, NEW p \in Procs, Binval(p)
    PROVE  StrandInv'
<1>1. TypeOK /\ CallOK
  BY DEF IInv
<1> DEFINE d == call[p].arg
<1>2. /\ pc[p] = "flush" /\ Running(p) /\ UNCHANGED <<blkOf, free, chan>>
      /\ pc' = [pc EXCEPT ![p] = "user"] /\ call' = [call EXCEPT ![p] = NoCall]
      /\ call[p].mode = "close"
      /\ flags' = [b \in Bufs |-> flags[b] \cup (IF OnDev(b, d) THEN {"STALE", "AGE"} ELSE {})]
  BY DEF Binval, FlushOver, InFlush, Return
<1>3. d \in Devs /\ \A r \in Procs : Elsewhere(r, d)
  BY <1>2 DEF StrandInv, Closing
<1> HIDE DEF d
<1>4. \A b \in Bufs : /\ \A x \in {"BUSY", "WANTED"} : x \in flags'[b] <=> x \in flags[b]
                      /\ "STALE" \in flags[b] => "STALE" \in flags'[b]
                      /\ "STALE" \in flags'[b] => "STALE" \in flags[b] \/ OnDev(b, d)
  BY <1>2
<1>5. ASSUME NEW q \in Procs, chan[q] \in Bufs, pc[q] = "getblk" PROVE ~OnDev(chan[q], d)
  <2>1. Want(q) \in Blocks /\ blkOf[chan[q]] = Want(q)
    BY <1>5 DEF StrandInv, Waiting
  <2>2. Elsewhere(q, d)
    BY <1>3
  <2>3. DevOf[Want(q)] # d
    <3>1. CASE call[q].mode = "ahead"
      <4>1. call[q].ra # << >> /\ call[q].ra \in Seq(Blocks)
        BY <1>1, <1>5, <3>1 DEF CallOK, Stands, TypeOK, CallType
      <4>2. 1 \in DOMAIN call[q].ra /\ Head(call[q].ra) = call[q].ra[1]
        BY <4>1
      <4>3. QED
        BY <2>2, <3>1, <4>2 DEF Elsewhere, Want
    <3>2. CASE call[q].mode # "ahead"
      BY <2>1, <2>2, <3>2 DEF Elsewhere, Want
    <3>3. QED
      BY <3>1, <3>2
  <2>4. d # AllDevs
    BY <1>3, CacheAssumption
  <2>5. QED
    BY <2>1, <2>3, <2>4 DEF OnDev
<1>6. pc'[p] = "user" /\ chan'[p] = NoChan /\ NoChan # FreeList /\ ~Seeks(p)
  BY <1>1, <1>2, CacheAssumption DEF TypeOK, Running, Seeks
<1>7. Waiting(p)' /\ AtHit(p)' /\ Closing(p)'
  BY <1>6 DEF Waiting, AtHit, Closing
<1>8. QED
  BY <1>1, <1>2, <1>4, <1>5, <1>6, <1>7, CalmStep

(* A write of p's own buffer is started. *)
LEMMA WriteStrand ==
    ASSUME IInv, StrandInv, NEW p \in Procs, NEW b \in Bufs, CallBwrite(p, b) \/ CallBawrite(p, b)
    PROVE  StrandInv'
<1>1. TypeOK /\ CallOK
  BY DEF IInv
<1>2. PICK w \in {"iowait", "count"}, x \in {b, NoBuf} :
          /\ Goto(p, w, [NoCall EXCEPT !.mode = "write", !.bp = x])
          /\ flags' \in {[flags EXCEPT ![b] = WriteFlags(flags[b])],
                         [flags EXCEPT ![b] = WriteFlags(flags[b] \cup {"ASYNC"})]}
  <2>1. NoCall = [NoCall EXCEPT !.bp = NoBuf]
    BY DEF NoCall
  <2>2. QED
    BY <2>1 DEF CallBwrite, CallBawrite, NoCall
<1> DEFINE c == [NoCall EXCEPT !.mode = "write", !.bp = x]
<1>3. c.mode = "write"
  BY DEF NoCall
<1>4. /\ pc[p] = "user" /\ Running(p) /\ UNCHANGED <<blkOf, free, chan>>
      /\ pc' = [pc EXCEPT ![p] = w] /\ call' = [call EXCEPT ![p] = c]
  BY <1>2 DEF CallBwrite, CallBawrite, Modify, Owned, InUser, Goto
<1> HIDE DEF c
<1>5. pc'[p] = w /\ call'[p] = c /\ chan[p] = NoChan /\ NoChan # FreeList /\ ~Seeks(p)
  BY <1>1, <1>4, CacheAssumption DEF TypeOK, Running, Seeks
<1>6. Waiting(p)' /\ AtHit(p)' /\ Closing(p)'
  BY <1>2, <1>3, <1>5 DEF Waiting, AtHit, Closing
<1>7. \A e \in Bufs : \A f \in {"BUSY", "WANTED", "STALE"} : f \in flags'[e] <=> f \in flags[e]
  BY <1>1, <1>2 DEF TypeOK, WriteFlags
<1>8. QED
  BY <1>1, <1>4, <1>5, <1>6, <1>7, CalmStep

(* The buffer of the block is busy: it was, so that the block is not one   *)
(* of those counted on.                                                    *)
LEMMA BusyStrand ==
    ASSUME IInv, StrandInv, NEW p \in Procs, GetblkBusy(p)
    PROVE  StrandInv'
<1>1. TypeOK /\ CallOK
  BY DEF IInv
<1> DEFINE b == call[p].tgt
           c == [call[p] EXCEPT !.tgt = NoBuf]
<1>2. /\ pc[p] = "hit" /\ Running(p) /\ "BUSY" \in flags[b]
      /\ flags' = [flags EXCEPT ![b] = flags[b] \cup {"WANTED"}]
      /\ pc' = [pc EXCEPT ![p] = "getblk"] /\ call' = [call EXCEPT ![p] = c]
      /\ chan' = [chan EXCEPT ![p] = b] /\ UNCHANGED <<blkOf, free>>
  BY DEF GetblkBusy, InHit, SleepOn
<1>3. b \in Bufs /\ blkOf[b] \in Blocks
  BY <1>1, <1>2 DEF CallOK, Stands
<1>4. blkOf[b] = Want(p) /\ "STALE" \notin flags[b]
  BY <1>2 DEF StrandInv, AtHit
<1>5. c.mode = call[p].mode /\ c.ra = call[p].ra /\ c.arg = call[p].arg
  BY <1>1 DEF TypeOK, CallType
<1> HIDE DEF b, c
<1>6. /\ pc'[p] = "getblk" /\ call'[p] = c /\ chan'[p] = b /\ chan[p] = NoChan
      /\ \A q \in Procs \ {p} : chan'[q] = chan[q] /\ pc'[q] = pc[q] /\ call'[q] = call[q]
      /\ flags'[b] = flags[b] \cup {"WANTED"} /\ \A e \in Bufs \ {b} : flags'[e] = flags[e]
  BY <1>1, <1>2, <1>3 DEF TypeOK, Running
<1>7. Want(p)' = Want(p)
  BY <1>5, <1>6 DEF Want
<1>8. Waiting(p)' /\ AtHit(p)' /\ Closing(p)'
  BY <1>2, <1>3, <1>4, <1>6, <1>7 DEF Waiting, AtHit, Closing
<1>9. WantedSlept'
  <2>1. chan[p] \notin Bufs
    BY <1>6, CacheAssumption
  <2>2. QED
    BY <1>3, <1>6, <2>1 DEF StrandInv, WantedSlept
<1>10. Enough'
  <2>1. \A q \in Procs : chan[q] = NoChan /\ Seeks(q) =>
            \/ Want(q) = Want(p)
            \/ chan'[q] = NoChan /\ Seeks(q)' /\ Want(q)' = Want(q)
    BY <1>6, WantSame, SeeksSame
  <2>2. \A e \in Bufs : "BUSY" \in flags'[e] /\ "STALE" \notin flags'[e] =>
            "BUSY" \in flags[e] /\ "STALE" \notin flags[e] /\ blkOf'[e] = blkOf[e]
    BY <1>2, <1>6
  <2> DEFINE K == {Want(p)}
  <2>3. Sought \ K \subseteq Sought'
    BY <2>1, <2>2, SoughtKept
  <2>4. Want(p) \notin Sought
    BY <1>2, <1>3, <1>4 DEF Sought, Taken, Found
  <2>5. Sought \subseteq Sought'
    BY <2>3, <2>4
  <2>6. \A q \in Procs : chan'[q] = FreeList => chan[q] = FreeList
    BY <1>3, <1>6, CacheAssumption
  <2>7. QED
    BY <1>2, <2>5, <2>6, EnoughSame DEF StrandInv
<1>11. ASSUME NEW q \in Procs \ {p}
       PROVE  /\ chan'[q] \in {chan[q], NoChan}
              /\ chan'[q] \in Bufs /\ pc[q] = "getblk" =>
                   /\ blkOf'[chan[q]] = blkOf[chan[q]]
                   /\ "STALE" \in flags'[chan[q]] => "STALE" \in flags[chan[q]]
  BY <1>2, <1>3, <1>6
<1>12. QED
  BY <1>1, <1>2, <1>8, <1>9, <1>10, <1>11, StrandStep

(* There is no buffer at all. *)
LEMMA EmptyStrand ==
    ASSUME IInv, StrandInv, NEW p \in Procs, GetblkEmpty(p)
    PROVE  StrandInv'
<1>1. TypeOK /\ CallOK
  BY DEF IInv
<1>2. /\ pc[p] = "getblk" /\ Running(p) /\ free = << >>
      /\ chan' = [chan EXCEPT ![p] = FreeList] /\ UNCHANGED <<flags, blkOf, free, pc, call>>
  BY DEF GetblkEmpty, Miss, InGetblk, SleepOn, proc
<1>3. /\ chan'[p] = FreeList /\ \A q \in Procs \ {p} : chan'[q] = chan[q]
      /\ pc' = [pc EXCEPT ![p] = pc[p]] /\ call' = [call EXCEPT ![p] = call[p]]
  BY <1>1, <1>2 DEF TypeOK
<1>4. FreeList \notin Bufs /\ chan[p] \notin Bufs
  BY <1>2, CacheAssumption DEF Running
<1>5. Waiting(p)' /\ AtHit(p)' /\ Closing(p)'
  BY <1>2, <1>3, <1>4 DEF Waiting, AtHit, Closing
<1>6. WantedSlept'
  BY <1>2, <1>3, <1>4 DEF StrandInv, WantedSlept
<1>7. ToSet(free') = {}
  BY <1>2 DEF ToSet
<1>8. Enough'
  BY <1>7, MatchNone DEF Enough
<1>9. QED
  BY <1>1, <1>2, <1>3, <1>5, <1>6, <1>8, StrandStep
-----------------------------------------------------------------------------
LEMMA BrelseUnwanted ==
    ASSUME TypeOK, NEW b \in Bufs, NEW f, NEW s, NEW also, Brelse(b, f, s, also)
    PROVE  "WANTED" \notin flags'[b]
<1> DEFINE g == IF "ERROR" \in f THEN (f \ {"ERROR", "DELWRI"}) \cup {"STALE", "AGE"} ELSE f
<1>1. flags' = [flags EXCEPT ![b] = g \ {"WANTED", "BUSY", "ASYNC", "AGE"}]
  BY DEF Brelse
<1> HIDE DEF g
<1>2. QED
  BY <1>1 DEF TypeOK

(* brelse wakes nobody who sleeps on another buffer. *)
LEMMA OthersSleep ==
    ASSUME TypeOK, NEW b \in Bufs, NEW f, NEW s, NEW also, also \cap Bufs = {},
           Brelse(b, f, s, also), NEW q \in Procs, chan[q] \in Bufs \ {b}
    PROVE  chan'[q] = chan[q]
<1>1. chan'[q] = IF chan[q] \in Woken(b, f) \cup also THEN NoChan ELSE chan[q]
  BY DEF Brelse, Wakeup
<1>2. Woken(b, f) \subseteq {b, FreeList} /\ FreeList \notin Bufs
  BY CacheAssumption DEF Woken
<1>3. QED
  BY <1>1, <1>2

(* p gives the buffer b back. *)
LEMMA GiveStrand ==
    ASSUME IInv, WakeInv, StrandInv, NEW p \in Procs, Running(p), NEW w \in {"user", "ahead"}, NEW c,
           pc' = [pc EXCEPT ![p] = w], call' = [call EXCEPT ![p] = c],
           NEW b \in Bufs, NEW f \in SUBSET Flag, NEW s \in Seq(Bufs), Brelse(b, f, s, {}),
           "WANTED" \in f <=> "WANTED" \in flags[b], "WANTED" \in f => ~Seeks(p),
           ToSet(s) \subseteq ToSet(free), UNCHANGED blkOf
    PROVE  StrandInv'
<1>1. TypeOK /\ CallOK
  BY DEF IInv
<1>2. /\ \A e \in Bufs \ {b} : flags'[e] = flags[e]
      /\ "BUSY" \notin flags'[b] /\ "WANTED" \notin flags'[b]
  BY <1>1, BrelseFacts, BrelseUnwanted
<1>3. /\ pc'[p] = w /\ chan[p] = NoChan /\ NoChan \notin Bufs
      /\ \A q \in Procs \ {p} : pc'[q] = pc[q] /\ call'[q] = call[q]
  BY <1>1, CacheAssumption DEF TypeOK, Running
<1>4. /\ chan'[p] = NoChan
      /\ \A q \in Procs : chan'[q] \in {chan[q], NoChan} /\ (chan'[q] = b => "WANTED" \notin f)
  BY <1>1, <1>3, BrelseWakes
<1>5. \A q \in Procs : chan[q] \in Bufs \ {b} => chan'[q] = chan[q]
  BY <1>1, OthersSleep
<1>6. Waiting(p)' /\ AtHit(p)' /\ Closing(p)'
  BY <1>3, <1>4 DEF Waiting, AtHit, Closing
<1>7. ASSUME NEW q \in Procs \ {p}
      PROVE  /\ chan'[q] \in {chan[q], NoChan}
             /\ chan'[q] \in Bufs /\ pc[q] = "getblk" =>
                  /\ blkOf'[chan[q]] = blkOf[chan[q]]
                  /\ "STALE" \in flags'[chan[q]] => "STALE" \in flags[chan[q]]
  <2> SUFFICES ASSUME chan'[q] \in Bufs, pc[q] = "getblk"
               PROVE  "STALE" \in flags'[chan[q]] => "STALE" \in flags[chan[q]]
    BY <1>4
  <2>1. chan'[q] = chan[q]
    BY <1>3, <1>4
  <2>2. "WANTED" \in flags[chan[q]]
    BY <2>1 DEF WakeInv, Asleep
  <2>3. chan[q] # b
    BY <1>4, <2>1, <2>2
  <2>4. QED
    BY <1>2, <2>1, <2>3
<1>8. WantedSlept'
  <2> SUFFICES ASSUME NEW e \in Bufs, "WANTED" \in flags'[e]
               PROVE  \E q \in Procs : chan'[q] = e /\ pc'[q] = "getblk"
    BY DEF WantedSlept
  <2>1. e # b /\ "WANTED" \in flags[e]
    BY <1>2
  <2>2. PICK q \in Procs : chan[q] = e /\ pc[q] = "getblk"
    BY <2>1 DEF StrandInv, WantedSlept
  <2>3. QED
    BY <1>3, <1>5, <2>1, <2>2
<1>9. "WANTED" \in f => Sought \subseteq Sought'
  <2> SUFFICES ASSUME "WANTED" \in f PROVE Sought \ {} \subseteq Sought'
    OBVIOUS
  <2>1. \A q \in Procs : chan[q] = NoChan /\ Seeks(q) =>
            chan'[q] = NoChan /\ Seeks(q)' /\ Want(q)' = Want(q)
    BY <1>3, <1>4, WantSame, SeeksSame
  <2>2. \A e \in Bufs : "BUSY" \in flags'[e] /\ "STALE" \notin flags'[e] =>
            "BUSY" \in flags[e] /\ "STALE" \notin flags[e] /\ blkOf'[e] = blkOf[e]
    BY <1>2
  <2>3. QED
    BY <2>1, <2>2, SoughtKept
<1>10. \A q \in Procs : chan[q] # NoChan => pc'[q] = pc[q] /\ call'[q] = call[q]
  BY <1>3
<1>11. Enough'
  BY <1>9, <1>10, BrelseEnough
<1>12. QED
  BY <1>1, <1>6, <1>7, <1>8, <1>11, StrandStep

(* p takes the buffer b, which is available: nobody sleeps on it.  The     *)
(* block k, for which p takes it, need not be counted on any more.         *)
LEMMA TakeStrand ==
    ASSUME IInv, WakeInv, StrandInv, NEW p \in Procs, Running(p), NEW w, NEW c,
           pc' = [pc EXCEPT ![p] = w], call' = [call EXCEPT ![p] = c], UNCHANGED chan,
           NEW b \in ToSet(free), ToSet(free') \subseteq ToSet(free) \ {b},
           \A e \in Bufs \ {b} : flags'[e] = flags[e] /\ blkOf'[e] = blkOf[e],
           "WANTED" \notin flags'[b], NEW k, blkOf'[b] = k,
           Seeks(p) => Want(p) = k \/ (Seeks(p)' /\ Want(p)' = Want(p)),
           AtHit(p)', Closing(p)'
    PROVE  StrandInv'
<1>1. TypeOK /\ CallOK /\ Buffers
  BY DEF IInv, Buffers
<1>2. b \in Bufs /\ "BUSY" \notin flags[b]
  BY <1>1, FreeIsIdle
<1>3. /\ chan[p] = NoChan /\ NoChan \notin Bufs /\ NoChan # FreeList
      /\ \A q \in Procs \ {p} : pc'[q] = pc[q] /\ call'[q] = call[q]
  BY <1>1, CacheAssumption DEF TypeOK, Running
<1>4. Waiting(p)'
  BY <1>3 DEF Waiting
<1>5. \A q \in Procs : chan[q] \in Bufs /\ pc[q] = "getblk" => chan[q] # b
  BY <1>2 DEF WakeInv, Asleep
<1>6. WantedSlept'
  BY <1>2, <1>3, <1>5 DEF StrandInv, WantedSlept
<1>7. Enough'
  <2>1. \A q \in Procs : chan[q] = NoChan /\ Seeks(q) =>
            \/ Want(q) = k
            \/ chan'[q] = NoChan /\ Seeks(q)' /\ Want(q)' = Want(q)
    BY <1>3, WantSame, SeeksSame
  <2>2. \A e \in Bufs : "BUSY" \in flags'[e] /\ "STALE" \notin flags'[e] =>
            \/ blkOf'[e] = k
            \/ "BUSY" \in flags[e] /\ "STALE" \notin flags[e] /\ blkOf'[e] = blkOf[e]
    OBVIOUS
  <2> DEFINE K == {k}
  <2>3. Sought \ K \subseteq Sought'
    BY <2>1, <2>2, SoughtKept
  <2>4. Sought \ {k} \subseteq Sought'
    BY <2>3
  <2>5. Enough
    BY DEF StrandInv
  <2>6. QED
    BY <2>4, <2>5, EnoughLess
<1>8. \A q \in Procs \ {p} :
          /\ chan'[q] \in {chan[q], NoChan}
          /\ chan'[q] \in Bufs /\ pc[q] = "getblk" =>
               /\ blkOf'[chan[q]] = blkOf[chan[q]]
               /\ "STALE" \in flags'[chan[q]] => "STALE" \in flags[chan[q]]
  BY <1>5
<1>9. QED
  BY <1>1, <1>4, <1>6, <1>7, <1>8, StrandStep
-----------------------------------------------------------------------------
(* getblk's caller has its buffer, or gives back what it need not read. *)
LEMMA GotStrand ==
    ASSUME IInv, WakeInv, StrandInv, NEW p \in Procs, Running(p), pc[p] \in {"getblk", "hit"},
           NEW b \in ToSet(free), NEW f \in SUBSET Flag, "WANTED" \notin f, NEW s \in Seq(Bufs),
           ToSet(s) \subseteq ToSet(free) \ {b}, Got(p, b, f, s),
           blkOf'[b] = Want(p), \A e \in Bufs \ {b} : blkOf'[e] = blkOf[e],
           "DONE" \in f => UNCHANGED blkOf
    PROVE  StrandInv'
<1>1. TypeOK /\ CallOK /\ Buffers
  BY DEF IInv, Buffers
<1>2. b \in Bufs /\ "BUSY" \notin flags[b]
  BY <1>1, FreeIsIdle
<1>3. "WANTED" \notin flags[b]
  BY <1>2, WantedBusy
<1>4. ASSUME NEW w \in {"user", "iowait", "ahead"}, NEW c,
             pc' = [pc EXCEPT ![p] = w], call' = [call EXCEPT ![p] = c], UNCHANGED chan,
             NEW g, flags' = [flags EXCEPT ![b] = g], "WANTED" \notin g, free' = s
      PROVE  StrandInv'
  <2>1. "WANTED" \notin flags'[b] /\ \A e \in Bufs \ {b} : flags'[e] = flags[e]
    BY <1>1, <1>2, <1>4 DEF TypeOK
  <2>2. pc'[p] = w
    BY <1>1, <1>4 DEF TypeOK
  <2>3. AtHit(p)' /\ Closing(p)'
    BY <2>2 DEF AtHit, Closing
  <2> DEFINE k == Want(p)
  <2>4. blkOf'[b] = k /\ (Seeks(p) => Want(p) = k)
    OBVIOUS
  <2> HIDE DEF k
  <2>5. ToSet(free') \subseteq ToSet(free) \ {b}
    BY <1>4
  <2>6. QED
    BY <1>4, <2>1, <2>3, <2>4, <2>5, TakeStrand
<1> DEFINE c == [call[p] EXCEPT !.tgt = NoBuf]
<1>5. CASE c.mode = "getblk"
  BY <1>4, <1>5 DEF Got, Return
<1>6. CASE c.mode = "bread"
  <2>1. \E w \in {"iowait", "ahead"} : \E d : Goto(p, w, d)
    BY <1>6 DEF Got
  <2>2. \E g : flags' = [flags EXCEPT ![b] = g] /\ "WANTED" \notin g
    BY <1>6 DEF Got
  <2>3. free' = s /\ UNCHANGED chan
    BY <1>6 DEF Got
  <2>4. QED
    BY <1>4, <2>1, <2>2, <2>3 DEF Goto
<1>7. CASE c.mode = "ahead" /\ "DONE" \notin f
  <2>1. flags' = [flags EXCEPT ![b] = f \cup {"READ", "ASYNC"}] /\ free' = s /\ UNCHANGED chan
    BY <1>7 DEF Got
  <2>2. \E d : Goto(p, "ahead", d)
    BY <1>7 DEF Got
  <2>3. "WANTED" \notin f \cup {"READ", "ASYNC"}
    OBVIOUS
  <2>4. QED
    BY <1>4, <2>1, <2>2, <2>3 DEF Goto
<1>8. CASE c.mode = "ahead" /\ "DONE" \in f
  <2>1. Brelse(b, f, s, {}) /\ \E d : Goto(p, "ahead", d)
    BY <1>8 DEF Got
  <2>2. PICK d : pc' = [pc EXCEPT ![p] = "ahead"] /\ call' = [call EXCEPT ![p] = d]
    BY <2>1 DEF Goto
  <2>3. ToSet(s) \subseteq ToSet(free) /\ UNCHANGED blkOf
    BY <1>8
  <2>4. QED
    BY <1>2, <1>3, <2>1, <2>2, <2>3, GiveStrand
<1>9. QED
  BY <1>5, <1>6, <1>7, <1>8 DEF Got

LEMMA HitStrand ==
    ASSUME IInv, WakeInv, StrandInv, NEW p \in Procs, GetblkHit(p)
    PROVE  StrandInv'
<1>1. TypeOK /\ CallOK /\ Buffers /\ free \in Seq(Bufs) /\ IsInjective(free)
  BY DEF IInv, Buffers, TypeOK, FreeIffIdle
<1> DEFINE b == call[p].tgt
           f == flags[b] \cup {"BUSY"}
<1>2. PICK i \in DOMAIN free : free[i] = b /\ Got(p, b, f, Notavail(i))
  BY DEF GetblkHit
<1>3. pc[p] = "hit" /\ Running(p) /\ UNCHANGED blkOf /\ "BUSY" \notin flags[b]
  BY DEF GetblkHit, InHit
<1>4. b \in ToSet(free) /\ b \in Bufs
  BY <1>1, <1>2 DEF ToSet
<1>5. Notavail(i) \in Seq(Bufs) /\ ToSet(Notavail(i)) \subseteq ToSet(free) \ {b}
  BY <1>1, <1>2, RemoveAtFacts DEF Notavail
<1>6. f \in SUBSET Flag /\ "WANTED" \notin f
  <2>1. "WANTED" \notin flags[b]
    BY <1>3, <1>4, WantedBusy
  <2>2. QED
    BY <1>1, <1>4, <2>1 DEF TypeOK, Flag
<1>7. blkOf'[b] = Want(p)
  BY <1>3 DEF StrandInv, AtHit
<1> HIDE DEF b, f
<1>8. QED
  BY <1>2, <1>3, <1>4, <1>5, <1>6, <1>7, GotStrand

LEMMA ReuseStrand ==
    ASSUME IInv, WakeInv, StrandInv, NEW p \in Procs, GetblkReuse(p)
    PROVE  StrandInv'
<1>1. TypeOK /\ CallOK /\ Buffers /\ free \in Seq(Bufs) /\ IsInjective(free)
  BY DEF IInv, Buffers, TypeOK, FreeIffIdle
<1> DEFINE b == Head(free)
<1>2. /\ free # << >> /\ pc[p] = "getblk" /\ Running(p)
      /\ blkOf' = [blkOf EXCEPT ![b] = Want(p)]
  BY DEF GetblkReuse, Miss, InGetblk
<1>3. PICK f \in {{"BUSY"}, {"BUSY", "AGE"}} : Got(p, b, f, Tail(free))
  BY DEF GetblkReuse
<1>4. /\ b = free[1] /\ 1 \in DOMAIN free /\ b \in Bufs
      /\ Tail(free) = RemoveAt(free, 1) /\ Tail(free) \in Seq(Bufs)
  BY <1>1, <1>2, TailFacts
<1>5. b \in ToSet(free) /\ ToSet(Tail(free)) \subseteq ToSet(free) \ {b}
  <2>1. b \in ToSet(free)
    BY <1>4 DEF ToSet
  <2>2. ToSet(RemoveAt(free, 1)) = ToSet(free) \ {free[1]}
    BY <1>1, <1>4, RemoveAtFacts
  <2>3. QED
    BY <1>4, <2>1, <2>2
<1>6. f \in SUBSET Flag /\ "WANTED" \notin f /\ "DONE" \notin f
  BY DEF Flag
<1> HIDE DEF b
<1>7. blkOf'[b] = Want(p) /\ \A e \in Bufs \ {b} : blkOf'[e] = blkOf[e]
  BY <1>1, <1>2, <1>4 DEF TypeOK
<1>8. QED
  BY <1>2, <1>3, <1>4, <1>5, <1>6, <1>7, GotStrand

(* The buffer first available, or one that is flushed, is written.  Its    *)
(* block is busy, and who looked for another still does.                   *)
LEMMA BehindStrand ==
    ASSUME IInv, WakeInv, StrandInv, NEW p \in Procs, Running(p), pc[p] \in {"getblk", "flush"},
           NEW i \in DOMAIN free, WriteBehind(p, i)
    PROVE  StrandInv'
<1>1. TypeOK /\ CallOK /\ Buffers /\ free \in Seq(Bufs) /\ IsInjective(free)
  BY DEF IInv, Buffers, TypeOK, FreeIffIdle
<1> DEFINE b == free[i]
<1>2. /\ flags' = [flags EXCEPT ![b] = WriteFlags(flags[b] \cup {"BUSY", "ASYNC"})]
      /\ free' = Notavail(i) /\ UNCHANGED <<blkOf, chan>>
      /\ pc' = [pc EXCEPT ![p] = "count"] /\ call' = [call EXCEPT ![p] = call[p]]
  BY DEF WriteBehind, Goto
<1>3. b \in ToSet(free) /\ ToSet(free') \subseteq ToSet(free) \ {b}
  <2>1. b \in ToSet(free)
    BY DEF ToSet
  <2>2. ToSet(RemoveAt(free, i)) = ToSet(free) \ {free[i]}
    BY <1>1, RemoveAtFacts
  <2>3. QED
    BY <1>2, <2>1, <2>2 DEF Notavail
<1> HIDE DEF b
<1>4. b \in Bufs /\ "BUSY" \notin flags[b]
  BY <1>1, <1>3, FreeIsIdle
<1>5. "WANTED" \notin flags'[b] /\ \A e \in Bufs \ {b} : flags'[e] = flags[e]
  BY <1>1, <1>2, <1>4, WantedBusy DEF TypeOK, WriteFlags
<1>6. pc'[p] = "count" /\ call' = call
  BY <1>1, <1>2 DEF TypeOK
<1>7. Seeks(p) => Seeks(p)' /\ Want(p)' = Want(p)
  <2>1. pc[p] = "getblk" => call[p].mode \in {"getblk", "bread", "ahead"}
    BY <1>1 DEF CallOK, Stands
  <2>2. QED
    BY <1>6, <2>1, WantSame DEF Seeks
<1>8. AtHit(p)' /\ Closing(p)'
  <2>1. pc[p] = "getblk" => call[p].mode # "close"
    BY <1>1 DEF CallOK, Stands
  <2>2. Closing(p)
    BY DEF StrandInv
  <2>3. QED
    BY <1>6, <2>1, <2>2 DEF AtHit, Closing, Elsewhere
<1> DEFINE k == blkOf[b]
           c == call[p]
<1>9. blkOf'[b] = k /\ \A e \in Bufs \ {b} : blkOf'[e] = blkOf[e]
  BY <1>2
<1>10. call' = [call EXCEPT ![p] = c]
  BY <1>2
<1> HIDE DEF k, c
<1>11. QED
  BY <1>2, <1>3, <1>5, <1>7, <1>8, <1>9, <1>10, TakeStrand

(* A process gives back a buffer it has. *)
LEMMA ReleaseStrand ==
    ASSUME IInv, WakeInv, StrandInv, NEW p \in Procs, NEW b \in Bufs,
           CallBrelse(p, b) \/ CallBdwrite(p, b)
    PROVE  StrandInv'
<1>1. TypeOK /\ flags[b] \in SUBSET Flag /\ free \in Seq(Bufs)
  BY DEF IInv, TypeOK
<1>2. pc[p] = "user" /\ Running(p) /\ UNCHANGED <<blkOf, pc, call>>
  BY DEF CallBrelse, CallBdwrite, Modify, Owned, InUser
<1>3. PICK f \in {flags[b], flags[b] \cup {"DELWRI", "DONE"}} : Brelse(b, f, free, {})
  BY DEF CallBrelse, CallBdwrite
<1>4. f \in SUBSET Flag /\ ("WANTED" \in f <=> "WANTED" \in flags[b])
  BY <1>1 DEF Flag
<1> DEFINE w == "user"
           c == call[p]
<1>5. w \in {"user", "ahead"} /\ pc' = [pc EXCEPT ![p] = w] /\ call' = [call EXCEPT ![p] = c]
  BY <1>1, <1>2 DEF TypeOK
<1>6. ~Seeks(p) /\ ToSet(free) \subseteq ToSet(free)
  BY <1>2 DEF Seeks
<1> HIDE DEF w, c
<1>7. QED
  BY <1>1, <1>2, <1>3, <1>4, <1>5, <1>6, GiveStrand

LEMMA WrittenStrand ==
    ASSUME IInv, WakeInv, StrandInv, NEW p \in Procs, IowaitWrite(p)
    PROVE  StrandInv'
<1> DEFINE b == call[p].bp
           f == flags[b]
<1>1. TypeOK /\ CallOK /\ free \in Seq(Bufs)
  BY DEF IInv, TypeOK
<1>2. /\ pc[p] = "iowait" /\ Running(p) /\ Brelse(b, f, free, {}) /\ UNCHANGED blkOf
      /\ pc' = [pc EXCEPT ![p] = "user"] /\ call' = [call EXCEPT ![p] = NoCall]
  BY DEF IowaitWrite, InIowait, Return
<1>3. b \in Bufs /\ f \in SUBSET Flag
  BY <1>1, <1>2 DEF CallOK, Stands, TypeOK
<1>4. ~Seeks(p) /\ ToSet(free) \subseteq ToSet(free) /\ ("WANTED" \in f <=> "WANTED" \in flags[b])
  BY <1>2 DEF Seeks
<1> HIDE DEF b, f
<1>5. QED
  BY <1>1, <1>2, <1>3, <1>4, GiveStrand
-----------------------------------------------------------------------------
(* The end of a transfer: a buffer of an asynchronous one is given back,   *)
(* and whoever sleeps on the buffer of another looks at it again.          *)
LEMMA IodoneStrand ==
    ASSUME IInv, WakeInv, StrandInv, NEW i \in DOMAIN ioq, NEW ok \in BOOLEAN, Iodone(ioq[i], ok),
           UNCHANGED <<pc, call, blkOf, run>>
    PROVE  StrandInv'
<1> DEFINE b == ioq[i]
           f == flags[b] \cup (IF ok THEN {"DONE"} ELSE {"DONE", "ERROR"})
<1>1. /\ TypeOK /\ CallOK /\ HoldOK /\ b \in ToSet(ioq) /\ b \in Bufs /\ f \in SUBSET Flag
      /\ free \in Seq(Bufs)
  BY DEF IInv, TypeOK, ToSet, Flag
<1>2. "BUSY" \in flags[b]
  BY <1>1 DEF HoldOK
<1>3. "WANTED" \in f <=> "WANTED" \in flags[b]
  OBVIOUS
<1>4. \/ \E also : also \subseteq {BaSync} /\ Brelse(b, f, free, also)
      \/ flags' = [flags EXCEPT ![b] = f \ {"WANTED"}] /\ chan' = Wakeup({b}) /\ UNCHANGED free
  BY DEF Iodone
<1>5. "STALE" \in f \ {"WANTED"} <=> "STALE" \in flags[b]
  OBVIOUS
<1> HIDE DEF b, f
<1>6. NoChan \notin Bufs /\ FreeList \notin Bufs /\ BaSync \notin Bufs /\ NoChan # FreeList
  BY CacheAssumption
<1>7. /\ \A e \in Bufs \ {b} : flags'[e] = flags[e]
      /\ "WANTED" \notin flags'[b]
      /\ "BUSY" \in flags'[b] => ("STALE" \in flags'[b] <=> "STALE" \in flags[b])
  <2>1. ASSUME NEW also, Brelse(b, f, free, also)
        PROVE  /\ \A e \in Bufs \ {b} : flags'[e] = flags[e]
               /\ "WANTED" \notin flags'[b] /\ "BUSY" \notin flags'[b]
    BY <1>1, <2>1, BrelseFacts, BrelseUnwanted
  <2>2. CASE flags' = [flags EXCEPT ![b] = f \ {"WANTED"}]
    <3>1. flags'[b] = f \ {"WANTED"} /\ \A e \in Bufs \ {b} : flags'[e] = flags[e]
      BY <1>1, <2>2 DEF TypeOK
    <3>2. QED
      BY <1>5, <3>1
  <2>3. QED
    BY <1>4, <2>1, <2>2
<1>8. \A q \in Procs : /\ chan'[q] \in {chan[q], NoChan}
                       /\ chan'[q] = b => "WANTED" \notin flags[b]
                       /\ chan[q] \in Bufs \ {b} => chan'[q] = chan[q]
  <2>1. ASSUME NEW also, also \subseteq {BaSync}, Brelse(b, f, free, also), NEW q \in Procs
        PROVE  /\ chan'[q] \in {chan[q], NoChan}
               /\ chan'[q] = b => "WANTED" \notin flags[b]
               /\ chan[q] \in Bufs \ {b} => chan'[q] = chan[q]
    <3>1. also \cap Bufs = {}
      BY <1>6, <2>1
    <3>2. chan[q] \in Bufs \ {b} => chan'[q] = chan[q]
      BY <1>1, <2>1, <3>1, OthersSleep
    <3>3. chan'[q] \in {chan[q], NoChan} /\ (chan'[q] = b => "WANTED" \notin f)
      BY <1>1, <2>1, BrelseWakes
    <3>4. QED
      BY <1>3, <3>2, <3>3
  <2>2. CASE chan' = Wakeup({b})
    BY <1>1, <1>6, <2>2 DEF Wakeup
  <2>3. QED
    BY <1>4, <2>1, <2>2
<1>9. ASSUME NEW q \in Procs PROVE Waiting(q)' /\ AtHit(q)' /\ Closing(q)'
  <2>1. Waiting(q) /\ AtHit(q) /\ Closing(q) /\ Want(q)' = Want(q)
    BY WantSame DEF StrandInv
  <2>2. Waiting(q)'
    <3> SUFFICES ASSUME chan'[q] \in Bufs, pc[q] = "getblk"
                 PROVE  Want(q) \in Blocks /\ blkOf[chan'[q]] = Want(q) /\ "STALE" \notin flags'[chan'[q]]
      BY <2>1 DEF Waiting
    <3>1. chan'[q] = chan[q]
      BY <1>6, <1>8
    <3>2. "WANTED" \in flags[chan[q]]
      BY <3>1 DEF WakeInv, Asleep
    <3>3. chan[q] # b
      BY <1>8, <3>1, <3>2
    <3>4. QED
      BY <1>7, <2>1, <3>1, <3>3 DEF Waiting
  <2>3. AtHit(q)'
    <3> SUFFICES ASSUME pc[q] = "hit"
                 PROVE  /\ blkOf[call[q].tgt] = Want(q)
                        /\ "STALE" \in flags'[call[q].tgt] => "BUSY" \notin flags'[call[q].tgt]
      BY <2>1 DEF AtHit
    <3>1. call[q].tgt \in Bufs
      BY <1>1 DEF CallOK, Stands
    <3>2. CASE call[q].tgt = b
      BY <1>2, <1>7, <2>1, <3>2 DEF AtHit
    <3>3. CASE call[q].tgt # b
      BY <1>7, <2>1, <3>1, <3>3 DEF AtHit
    <3>4. QED
      BY <3>2, <3>3
  <2>4. Closing(q)'
    BY <2>1 DEF Closing, Elsewhere
  <2>5. QED
    BY <2>2, <2>3, <2>4
<1>10. WantedSlept'
  <2> SUFFICES ASSUME NEW e \in Bufs, "WANTED" \in flags'[e]
               PROVE  \E q \in Procs : chan'[q] = e /\ pc[q] = "getblk"
    BY DEF WantedSlept
  <2>1. e # b /\ "WANTED" \in flags[e]
    BY <1>7
  <2>2. QED
    BY <1>8, <2>1 DEF StrandInv, WantedSlept
<1>11. Sought \subseteq Sought'
  <2>1. \A q \in Procs : chan[q] = NoChan /\ Seeks(q) =>
            chan'[q] = NoChan /\ Seeks(q)' /\ Want(q)' = Want(q)
    BY <1>8, WantSame, SeeksSame
  <2>2. \A e \in Bufs : "BUSY" \in flags'[e] /\ "STALE" \notin flags'[e] =>
            "BUSY" \in flags[e] /\ "STALE" \notin flags[e] /\ blkOf'[e] = blkOf[e]
    BY <1>2, <1>7
  <2>3. Sought \ {} \subseteq Sought'
    BY <2>1, <2>2, SoughtKept
  <2>4. QED
    BY <2>3
<1>12. Enough'
  <2>1. CASE \E also : also \subseteq {BaSync} /\ Brelse(b, f, free, also)
    <3>1. PICK also : Brelse(b, f, free, also)
      BY <2>1
    <3>2. \A q \in Procs : chan[q] # NoChan => pc'[q] = pc[q] /\ call'[q] = call[q]
      OBVIOUS
    <3>3. ToSet(free) \subseteq ToSet(free)
      OBVIOUS
    <3>4. QED
      BY <1>1, <1>3, <1>11, <3>1, <3>2, <3>3, BrelseEnough
  <2>2. CASE UNCHANGED free
    <3>1. \A q \in Procs : chan'[q] = FreeList => chan[q] = FreeList
      BY <1>6, <1>8
    <3>2. QED
      BY <1>11, <2>2, <3>1, EnoughSame DEF StrandInv
  <2>3. QED
    BY <1>4, <2>1, <2>2
<1>13. QED
  BY <1>9, <1>10, <1>12 DEF StrandInv
-----------------------------------------------------------------------------
LEMMA StrandNext == IInv /\ WakeInv /\ StrandInv /\ Next => StrandInv'
<1> SUFFICES ASSUME IInv, WakeInv, StrandInv, Next PROVE StrandInv'
  OBVIOUS
<1>1. ASSUME NEW p \in Procs, EnterCall(p) PROVE StrandInv'
  BY <1>1, EnterStrand
<1>2. ASSUME NEW p \in Procs, Release(p) PROVE StrandInv'
  BY <1>2, ReleaseStrand, WriteStrand DEF Release
<1>3. ASSUME NEW p \in Procs, Step(p) PROVE StrandInv'
  <2>1. CASE GetblkDelwri(p)
    <3>1. free \in Seq(Bufs) /\ free # << >>
      BY <2>1 DEF IInv, TypeOK, GetblkDelwri
    <3>2. 1 \in DOMAIN free /\ pc[p] = "getblk" /\ Running(p) /\ WriteBehind(p, 1)
      BY <2>1, <3>1, TailFacts DEF GetblkDelwri, Miss, InGetblk
    <3>3. QED
      BY <3>2, BehindStrand
  <2>2. CASE FlushNext(p)
    BY <2>2, BehindStrand DEF FlushNext, InFlush
  <2>3. CASE \/ AheadNext(p) \/ AheadEnd(p) \/ IowaitSleep(p) \/ IowaitRead(p)
             \/ FlushEnd(p) \/ BdwaitSleep(p) \/ BdwaitEnd(p)
    BY <2>3, AsideSteps
  <2>4. QED
    BY <1>3, <2>1, <2>2, <2>3, ScanStrand, BusyStrand, HitStrand, EmptyStrand, ReuseStrand,
       CountStrand, WrittenStrand, BinvalStrand DEF Step
<1>4. ASSUME Interrupt PROVE StrandInv'
  <2>1. PICK i \in DOMAIN ioq : TransferOk(i) \/ TransferFails(i)
    BY <1>4 DEF Interrupt
  <2>2. \E ok \in BOOLEAN : Iodone(ioq[i], ok)
    BY <2>1 DEF TransferOk, TransferFails
  <2>3. UNCHANGED <<pc, call, blkOf, run>>
    BY <2>1 DEF TransferOk, TransferFails, Serve, proc
  <2>4. QED
    BY <2>2, <2>3, IodoneStrand
<1>5. QED
  BY <1>1, <1>2, <1>3, <1>4 DEF Next

LEMMA InitStrand == Init => StrandInv
<1> SUFFICES ASSUME Init PROVE StrandInv
  OBVIOUS
<1>1. NoChan \notin Bufs /\ NoChan # FreeList
  BY CacheAssumption
<1>2. ASSUME NEW q \in Procs PROVE Waiting(q) /\ AtHit(q) /\ Closing(q)
  BY <1>1 DEF Init, Waiting, AtHit, Closing
<1>3. WantedSlept /\ Enough
  BY <1>1 DEF Init, WantedSlept, Enough
<1>4. QED
  BY <1>2, <1>3 DEF StrandInv

LEMMA StrandUnchanged == StrandInv /\ UNCHANGED vars => StrandInv'
<1> SUFFICES ASSUME StrandInv, UNCHANGED vars PROVE StrandInv'
  OBVIOUS
<1>1. UNCHANGED <<flags, blkOf, free, pc, call, chan, run>>
  BY DEF vars, cache, proc
<1>2. \A q \in Procs : Want(q)' = Want(q) /\ (Seeks(q)' <=> Seeks(q))
  BY <1>1, WantSame, SeeksSame
<1>3. \A q \in Procs : Waiting(q)' /\ AtHit(q)' /\ Closing(q)'
  BY <1>1, <1>2 DEF StrandInv, Waiting, AtHit, Closing, Elsewhere
<1>4. WantedSlept'
  BY <1>1 DEF StrandInv, WantedSlept
<1>5. Sought' = Sought
  BY <1>1, <1>2 DEF Sought, Taken, Found, Seeker
<1>6. Enough'
  BY <1>1, <1>5 DEF StrandInv, Enough
<1>7. QED
  BY <1>3, <1>4, <1>6 DEF StrandInv

(* One available buffer is enough for somebody to be looking for a block. *)
LEMMA StrandSuffices == IInv /\ StrandInv => FreeNotStranded
<1> SUFFICES ASSUME IInv, StrandInv, NEW p \in Procs, chan[p] = FreeList, free # << >>
             PROVE  \E q \in Procs : pc[q] # "user" /\ chan[q] = NoChan
  BY DEF FreeNotStranded
<1>1. Head(free) \in ToSet(free)
  <2>1. free \in Seq(Bufs)
    BY DEF IInv, TypeOK
  <2>2. 1 \in DOMAIN free /\ Head(free) = free[1]
    BY <2>1
  <2>3. QED
    BY <2>2 DEF ToSet
<1>2. Matched(ToSet(free), Sought)
  BY DEF StrandInv, Enough
<1>3. PICK k : k \in Sought
  BY <1>1, <1>2 DEF Matched
<1>4. PICK q \in Procs : Seeker(q, k)
  BY <1>3 DEF Sought
<1>5. QED
  BY <1>4 DEF Seeker, Seeks

(* Nobody is left asleep for an available buffer that is there while all   *)
(* the others are back in their callers or asleep too: brelse may pass     *)
(* over those who wait for any buffer only because it wakes somebody for   *)
(* this one.                                                               *)
THEOREM NobodyStranded == Spec => []FreeNotStranded
<1>1. IInv /\ WakeInv /\ StrandInv /\ [Next]_vars => StrandInv'
  BY StrandNext, StrandUnchanged
<1>2. QED
  BY WakeInvariance, InitStrand, <1>1, StrandSuffices, PTL DEF Spec

-----------------------------------------------------------------------------
(***************************************************************************)
(* The cache implements BlockStore for callers that see no transfer fail.  *)
(***************************************************************************)

(* b waits to be written by the disk. *)
Queued(b) == b \in ToSet(ioq) /\ IsWrite(flags[b])

(* A buffer that is found and filled in has the last value written. *)
NewestIn(b) ==
    "STALE" \notin flags[b] /\ blkOf[b] \in Blocks /\ ("DONE" \in flags[b] \/ Queued(b)) =>
        data[b] = written[blkOf[b]]

(* A write in the queue is of a value after the one on the medium, and no  *)
(* later than the last.                                                    *)
Between(i) ==
    LET e == ioq[i] IN
    IsWrite(flags[e]) => disk[blkOf[e]] <= data[e] /\ data[e] <= written[blkOf[e]]

(* The writes of a block are queued in their order. *)
WritesInOrder(i, j) ==
    LET d == ioq[i]  e == ioq[j] IN
    i < j /\ blkOf[d] = blkOf[e] /\ IsWrite(flags[d]) /\ IsWrite(flags[e]) => data[d] <= data[e]

(* What is read for a buffer that can be found is queued after the writes. *)
ReadLast(i, j) ==
    LET d == ioq[i]  e == ioq[j] IN
    blkOf[d] = blkOf[e] /\ ~IsWrite(flags[d]) /\ "STALE" \notin flags[d] /\ IsWrite(flags[e]) =>
        j < i

(* The last value written to a block is on the medium or will be. *)
Kept(k) ==
    \/ disk[k] = written[k]
    \/ \E b \in Bufs : /\ blkOf[b] = k /\ data[b] = written[k]
                       /\ "DELWRI" \in flags[b] \/ Queued(b)

DataInv ==
    /\ \A b \in Bufs : NewestIn(b)
    /\ \A i \in DOMAIN ioq : Between(i)
    /\ \A i, j \in DOMAIN ioq : WritesInOrder(i, j)
    /\ \A i, j \in DOMAIN ioq : ReadLast(i, j)
    /\ \A k \in Blocks : Kept(k) /\ disk[k] <= written[k]

(* A step leaves the buffer as it was, but it may go stale. *)
Alike(b) ==
    /\ blkOf'[b] = blkOf[b] /\ data'[b] = data[b]
    /\ \A x \in {"DONE", "READ", "DELWRI"} : x \in flags'[b] <=> x \in flags[b]
    /\ "STALE" \in flags[b] => "STALE" \in flags'[b]

LEMMA DataCalm ==
    ASSUME TypeOK, DataInv, \A b \in Bufs : Alike(b), UNCHANGED <<ioq, disk, written>>
    PROVE  DataInv'
<1>1. ioq \in Seq(Bufs) /\ \A i \in DOMAIN ioq : ioq[i] \in Bufs
  BY DEF TypeOK
<1>2. \A b \in Bufs : IsWrite(flags'[b]) <=> IsWrite(flags[b])
  BY DEF Alike, IsWrite
<1>3. \A b \in Bufs : Queued(b)' <=> Queued(b)
  BY <1>2 DEF Queued
<1>4. \A b \in Bufs : NewestIn(b)'
  BY <1>3 DEF DataInv, NewestIn, Alike
<1>5. \A i \in DOMAIN ioq : /\ IsWrite(flags'[ioq[i]]) <=> IsWrite(flags[ioq[i]])
                            /\ blkOf'[ioq[i]] = blkOf[ioq[i]] /\ data'[ioq[i]] = data[ioq[i]]
                            /\ "STALE" \in flags[ioq[i]] => "STALE" \in flags'[ioq[i]]
  BY <1>1, <1>2 DEF Alike
<1>6. \A i \in DOMAIN ioq : Between(i)'
  BY <1>5 DEF DataInv, Between
<1>7. \A i, j \in DOMAIN ioq : WritesInOrder(i, j)'
  BY <1>5 DEF DataInv, WritesInOrder
<1>8. \A i, j \in DOMAIN ioq : ReadLast(i, j)'
  BY <1>5 DEF DataInv, ReadLast
<1>9. \A k \in Blocks : Kept(k)' /\ disk'[k] <= written'[k]
  BY <1>3 DEF DataInv, Kept, Alike
<1>10. QED
  BY <1>4, <1>6, <1>7, <1>8, <1>9 DEF DataInv

(* A buffer is made to hold another block, or the same again from the      *)
(* medium, which is read now or later.                                     *)
Fetches(b) ==
    /\ b \notin ToSet(ioq) /\ "DELWRI" \notin flags[b]
    /\ "DONE" \notin flags'[b] /\ "DELWRI" \notin flags'[b]
    /\ \A c \in Bufs \ {b} : Alike(c)
    /\ ioq' = ioq \/ (ioq' = Append(ioq, b) /\ "READ" \in flags'[b])
    /\ UNCHANGED <<disk, written>>

LEMMA DataFetch ==
    ASSUME TypeOK, DataInv, NEW b \in Bufs, Fetches(b)
    PROVE  DataInv'
<1>1. /\ ioq \in Seq(Bufs) /\ Len(ioq) \in Nat /\ DOMAIN ioq = 1..Len(ioq)
      /\ \A i \in DOMAIN ioq : ioq[i] \in Bufs \ {b}
  BY DEF TypeOK, Fetches, ToSet
<1>2. \A c \in Bufs \ {b} : /\ IsWrite(flags'[c]) <=> IsWrite(flags[c])
                            /\ blkOf'[c] = blkOf[c] /\ data'[c] = data[c]
                            /\ \A x \in {"DONE", "DELWRI"} : x \in flags'[c] <=> x \in flags[c]
                            /\ "STALE" \in flags[c] => "STALE" \in flags'[c]
  BY DEF Fetches, Alike, IsWrite
<1>3. /\ DOMAIN ioq' \in {1..Len(ioq), 1..(Len(ioq) + 1)}
      /\ \A i \in 1..Len(ioq) : ioq'[i] = ioq[i]
      /\ \A i \in DOMAIN ioq' : i \notin 1..Len(ioq) =>
            i = Len(ioq) + 1 /\ ioq'[i] = b /\ ~IsWrite(flags'[b])
  <2>1. CASE ioq' = ioq
    BY <1>1, <2>1
  <2>2. CASE ioq' = Append(ioq, b) /\ "READ" \in flags'[b]
    BY <1>1, <2>2, AppendProperties DEF IsWrite
  <2>3. QED
    BY <2>1, <2>2 DEF Fetches
<1>4. \A i \in DOMAIN ioq' : IsWrite(flags'[ioq'[i]]) => i \in DOMAIN ioq
  BY <1>1, <1>3
<1>5. /\ \A c \in Bufs \ {b} : Queued(c)' <=> Queued(c)
      /\ ~Queued(b)' /\ ~Queued(b)
  <2>1. \A c \in Bufs \ {b} : c \in ToSet(ioq') <=> c \in ToSet(ioq)
    BY <1>1, <1>3 DEF ToSet
  <2>2. b \in ToSet(ioq') => ~IsWrite(flags'[b])
    BY <1>1, <1>3 DEF ToSet
  <2>3. QED
    BY <1>2, <2>1, <2>2 DEF Queued, Fetches
<1>6. \A c \in Bufs : NewestIn(c)'
  BY <1>2, <1>5 DEF DataInv, NewestIn, Fetches
<1>7. ASSUME NEW i \in DOMAIN ioq', i \in DOMAIN ioq
      PROVE  /\ ioq'[i] = ioq[i] /\ (IsWrite(flags'[ioq[i]]) <=> IsWrite(flags[ioq[i]]))
             /\ blkOf'[ioq[i]] = blkOf[ioq[i]] /\ data'[ioq[i]] = data[ioq[i]]
             /\ "STALE" \in flags[ioq[i]] => "STALE" \in flags'[ioq[i]]
  BY <1>1, <1>2, <1>3, <1>7
<1>8. ASSUME NEW i \in DOMAIN ioq' PROVE Between(i)'
  BY <1>4, <1>7 DEF DataInv, Between, Fetches
<1>9. ASSUME NEW i \in DOMAIN ioq', NEW j \in DOMAIN ioq' PROVE WritesInOrder(i, j)'
  <2>1. CASE i \in DOMAIN ioq /\ j \in DOMAIN ioq
    BY <1>7, <2>1 DEF DataInv, WritesInOrder
  <2>2. CASE ~(i \in DOMAIN ioq /\ j \in DOMAIN ioq)
    BY <1>4, <2>2 DEF WritesInOrder
  <2>3. QED
    BY <2>1, <2>2
<1>10. ASSUME NEW i \in DOMAIN ioq', NEW j \in DOMAIN ioq' PROVE ReadLast(i, j)'
  <2>1. CASE i \in DOMAIN ioq /\ j \in DOMAIN ioq
    BY <1>7, <2>1 DEF DataInv, ReadLast
  <2>2. CASE j \notin DOMAIN ioq
    BY <1>4, <2>2 DEF ReadLast
  <2>3. CASE i \notin DOMAIN ioq /\ j \in DOMAIN ioq
    <3>1. j < i
      BY <1>1, <1>3, <2>3
    <3>2. QED
      BY <3>1 DEF ReadLast
  <2>4. QED
    BY <2>1, <2>2, <2>3
<1>11. \A k \in Blocks : Kept(k)' /\ disk'[k] <= written'[k]
  BY <1>2, <1>5 DEF DataInv, Kept, Fetches
<1>12. QED
  BY <1>6, <1>8, <1>9, <1>10, <1>11 DEF DataInv

(* A buffer that is found gets, or has, the last value written, and is     *)
(* left for later or handed to the disk.                                   *)
Writes(b) ==
    /\ b \notin ToSet(ioq) /\ "STALE" \notin flags[b] /\ blkOf[b] \in Blocks /\ blkOf' = blkOf
    /\ \A c \in Bufs \ {b} : Alike(c)
    /\ \/ written' = written
       \/ written' = [written EXCEPT ![blkOf[b]] = written[blkOf[b]] + 1]
    /\ data'[b] = written'[blkOf[b]]
    /\ \/ ioq' = ioq /\ "DELWRI" \in flags'[b] /\ "DONE" \in flags'[b]
       \/ ioq' = Append(ioq, b) /\ {"DELWRI", "DONE", "READ"} \cap flags'[b] = {}
    /\ disk' = disk

LEMMA DataWrite ==
    ASSUME TypeOK, TypeOK', Buffers, DataInv, NEW b \in Bufs, Writes(b)
    PROVE  DataInv'
<1> DEFINE h == blkOf[b]
<1>1. /\ ioq \in Seq(Bufs) /\ Len(ioq) \in Nat /\ DOMAIN ioq = 1..Len(ioq)
      /\ \A i \in DOMAIN ioq : ioq[i] \in Bufs \ {b}
  BY DEF TypeOK, Writes, ToSet
<1>2. \A c \in Bufs \ {b} : /\ IsWrite(flags'[c]) <=> IsWrite(flags[c])
                            /\ blkOf'[c] = blkOf[c] /\ data'[c] = data[c]
                            /\ \A x \in {"DONE", "DELWRI"} : x \in flags'[c] <=> x \in flags[c]
                            /\ "STALE" \in flags[c] => "STALE" \in flags'[c]
  BY DEF Writes, Alike, IsWrite
<1>3. /\ DOMAIN ioq' \in {1..Len(ioq), 1..(Len(ioq) + 1)}
      /\ \A i \in 1..Len(ioq) : ioq'[i] = ioq[i]
      /\ \A i \in DOMAIN ioq' : i \notin 1..Len(ioq) =>
            i = Len(ioq) + 1 /\ ioq'[i] = b /\ IsWrite(flags'[b])
  <2>1. CASE ioq' = ioq
    BY <1>1, <2>1
  <2>2. CASE ioq' = Append(ioq, b) /\ "READ" \notin flags'[b]
    BY <1>1, <2>2, AppendProperties DEF IsWrite
  <2>3. QED
    BY <2>1, <2>2 DEF Writes
<1>4. \A c \in Bufs \ {b} : Queued(c)' <=> Queued(c)
  <2>1. \A c \in Bufs \ {b} : c \in ToSet(ioq') <=> c \in ToSet(ioq)
    BY <1>1, <1>3 DEF ToSet
  <2>2. QED
    BY <1>2, <2>1 DEF Queued
<1>5. "DELWRI" \in flags'[b] \/ Queued(b)'
  <2>1. CASE ioq' = Append(ioq, b) /\ "READ" \notin flags'[b]
    <3>1. b \in ToSet(ioq')
      BY <1>1, <2>1, AppendFacts
    <3>2. QED
      BY <2>1, <3>1 DEF Queued, IsWrite
  <2>2. QED
    BY <2>1 DEF Writes
<1>6. /\ h \in Blocks /\ blkOf' = blkOf /\ data'[b] = written'[h]
      /\ written'[h] \in Nat /\ written[h] \in Nat /\ written[h] <= written'[h]
      /\ \A k \in Blocks \ {h} : written'[k] = written[k]
  BY DEF TypeOK, Writes
<1>7. \A c \in Bufs \ {b} : blkOf[c] = h => "STALE" \in flags[c]
  BY DEF Buffers, UniqueBlock, Found, Writes
<1> HIDE DEF h
<1>8. \A c \in Bufs : NewestIn(c)'
  <2>1. NewestIn(b)'
    BY <1>6 DEF NewestIn, h
  <2>2. ASSUME NEW c \in Bufs \ {b} PROVE NewestIn(c)'
    BY <1>2, <1>4, <1>6, <1>7 DEF DataInv, NewestIn
  <2>3. QED
    BY <2>1, <2>2
<1>9. \A k \in Blocks : /\ disk[k] \in Nat /\ written[k] \in Nat /\ disk[k] <= written[k]
                        /\ written[k] <= written'[k] /\ written'[k] \in Nat
  <2>1. ASSUME NEW k \in Blocks
        PROVE  /\ disk[k] \in Nat /\ written[k] \in Nat /\ written'[k] \in Nat
               /\ disk[k] <= written[k] /\ (k # h => written'[k] = written[k])
    BY <1>6 DEF DataInv, TypeOK
  <2>2. QED
    BY <1>6, <2>1
<1>10. ASSUME NEW i \in DOMAIN ioq', i \in DOMAIN ioq
       PROVE  /\ ioq'[i] = ioq[i] /\ (IsWrite(flags'[ioq[i]]) <=> IsWrite(flags[ioq[i]]))
              /\ blkOf'[ioq[i]] = blkOf[ioq[i]] /\ data'[ioq[i]] = data[ioq[i]]
              /\ "STALE" \in flags[ioq[i]] => "STALE" \in flags'[ioq[i]]
              /\ blkOf[ioq[i]] \in Blocks /\ ioq[i] \in Bufs \ {b} /\ data[ioq[i]] \in Int
  <2>1. ioq[i] \in ToSet(ioq)
    BY <1>10 DEF ToSet
  <2>2. blkOf[ioq[i]] \in Blocks /\ ioq[i] \in Bufs \ {b} /\ data[ioq[i]] \in Int
    BY <1>1, <1>10, <2>1 DEF Buffers, HoldOK, TypeOK, Garbage
  <2>3. QED
    BY <1>1, <1>2, <1>3, <1>10, <2>2
<1>11. ASSUME NEW i \in DOMAIN ioq', i \notin DOMAIN ioq
       PROVE  i = Len(ioq) + 1 /\ ioq'[i] = b /\ blkOf'[b] = h /\ data'[b] = written'[h] /\ IsWrite(flags'[b])
  BY <1>1, <1>3, <1>6, <1>11 DEF h
<1>12. ASSUME NEW i \in DOMAIN ioq' PROVE Between(i)'
  <2>1. CASE i \notin DOMAIN ioq
    <3>1. disk'[h] <= written'[h] /\ written'[h] <= written'[h]
      BY <1>6, <1>9 DEF Writes
    <3>2. QED
      BY <1>11, <2>1, <3>1 DEF Between
  <2>2. CASE i \in DOMAIN ioq
    <3> DEFINE e == ioq[i]
               k == blkOf[e]
    <3>1. /\ ioq'[i] = e /\ blkOf'[e] = k /\ data'[e] = data[e] /\ k \in Blocks /\ data[e] \in Int
          /\ IsWrite(flags'[e]) <=> IsWrite(flags[e])
      BY <1>10, <2>2
    <3>2. IsWrite(flags[e]) => disk[k] <= data[e] /\ data[e] <= written[k]
      BY <2>2 DEF DataInv, Between
    <3>3. disk' = disk
      BY DEF Writes
    <3> HIDE DEF e, k
    <3>4. IsWrite(flags[e]) => disk'[k] <= data[e] /\ data[e] <= written'[k]
      BY <1>9, <3>1, <3>2, <3>3
    <3>5. QED
      BY <3>1, <3>4 DEF Between
  <2>3. QED
    BY <2>1, <2>2
<1>13. ASSUME NEW i \in DOMAIN ioq', NEW j \in DOMAIN ioq' PROVE WritesInOrder(i, j)'
  <2>1. CASE i \in DOMAIN ioq /\ j \in DOMAIN ioq
    BY <1>10, <2>1 DEF DataInv, WritesInOrder
  <2>2. CASE i \notin DOMAIN ioq
    <3>1. ~(i < j)
      BY <1>1, <1>3, <2>2
    <3>2. QED
      BY <3>1 DEF WritesInOrder
  <2>3. CASE i \in DOMAIN ioq /\ j \notin DOMAIN ioq
    <3> DEFINE e == ioq[i]
    <3>1. /\ ioq'[i] = e /\ blkOf'[e] = blkOf[e] /\ data'[e] = data[e] /\ data[e] \in Int
          /\ IsWrite(flags'[e]) <=> IsWrite(flags[e])
      BY <1>10, <2>3
    <3>2. IsWrite(flags[e]) => data[e] <= written[blkOf[e]]
      BY <2>3 DEF DataInv, Between
    <3>3. ioq'[j] = b /\ blkOf'[b] = h /\ data'[b] = written'[h]
      BY <1>11, <2>3
    <3> HIDE DEF e
    <3>4. IsWrite(flags[e]) /\ blkOf[e] = h => data[e] <= written'[h]
      BY <1>6, <3>1, <3>2
    <3>5. QED
      BY <3>1, <3>3, <3>4 DEF WritesInOrder
  <2>4. QED
    BY <2>1, <2>2, <2>3
<1>14. ASSUME NEW i \in DOMAIN ioq', NEW j \in DOMAIN ioq' PROVE ReadLast(i, j)'
  <2>1. CASE i \in DOMAIN ioq /\ j \in DOMAIN ioq
    BY <1>10, <2>1 DEF DataInv, ReadLast
  <2>2. CASE i \notin DOMAIN ioq
    BY <1>11, <2>2 DEF ReadLast
  <2>3. CASE i \in DOMAIN ioq /\ j \notin DOMAIN ioq
    <3>1. blkOf[ioq[i]] = h => "STALE" \in flags'[ioq[i]]
      BY <1>7, <1>10, <2>3
    <3>2. QED
      BY <1>10, <1>11, <2>3, <3>1 DEF ReadLast
  <2>4. QED
    BY <2>1, <2>2, <2>3
<1>15. ASSUME NEW k \in Blocks PROVE Kept(k)' /\ disk'[k] <= written'[k]
  <2>1. disk'[k] <= written'[k]
    BY <1>9 DEF Writes
  <2>2. CASE k = h
    BY <1>5, <1>6, <2>1, <2>2 DEF Kept, h
  <2>3. CASE k # h /\ disk[k] = written[k]
    BY <1>6, <2>1, <2>3 DEF Kept, Writes
  <2>4. CASE k # h /\ disk[k] # written[k]
    <3>1. PICK c \in Bufs : blkOf[c] = k /\ data[c] = written[k] /\ ("DELWRI" \in flags[c] \/ Queued(c))
      BY <2>4 DEF DataInv, Kept
    <3>2. c # b
      BY <2>4, <3>1 DEF h
    <3>3. QED
      BY <1>2, <1>4, <1>6, <2>1, <2>4, <3>1, <3>2 DEF Kept
  <2>5. QED
    BY <2>2, <2>3, <2>4
<1>16. QED
  BY <1>8, <1>12, <1>13, <1>14, <1>15 DEF DataInv

(* What is to be written later is complete and can be found. *)
DelayedFresh ==
    \A b \in Bufs : "DELWRI" \in flags[b] => "DONE" \in flags[b] /\ "STALE" \notin flags[b]

(* A transfer that does not fail, the first of those for its block. *)
Ends(i) ==
    LET b == ioq[i] IN
    /\ \A j \in 1..(i - 1) : blkOf[ioq[j]] # blkOf[b]
    /\ ioq' = RemoveAt(ioq, i) /\ blkOf' = blkOf /\ written' = written
    /\ \A c \in Bufs \ {b} : Alike(c)
    /\ "DONE" \in flags'[b]
    /\ \A x \in {"READ", "DELWRI", "STALE"} : x \in flags'[b] <=> x \in flags[b]
    /\ IF "READ" \in flags[b]
       THEN data'[b] = disk[blkOf[b]] /\ disk' = disk
       ELSE data'[b] = data[b] /\ disk' = [disk EXCEPT ![blkOf[b]] = data[b]]

LEMMA DataEnd ==
    ASSUME TypeOK, TypeOK', Buffers, DelayedFresh, DataInv, NEW i \in DOMAIN ioq, Ends(i)
    PROVE  DataInv'
<1> DEFINE b == ioq[i]
           h == blkOf[b]
           Old(j) == IF j < i THEN j ELSE j + 1
<1>1. /\ ioq \in Seq(Bufs) /\ Len(ioq) \in Nat /\ DOMAIN ioq = 1..Len(ioq) /\ IsInjective(ioq)
      /\ \A j \in DOMAIN ioq : ioq[j] \in ToSet(ioq) /\ ioq[j] \in Bufs /\ blkOf[ioq[j]] \in Blocks
  BY DEF TypeOK, Buffers, HoldOK, ToSet
<1>2. /\ b \in Bufs /\ h \in Blocks /\ "DONE" \notin flags[b] /\ "DELWRI" \notin flags[b]
      /\ "READ" \notin flags[b] => data[b] \in Nat
  BY <1>1 DEF Buffers, HoldOK, DelayedFresh
<1>3. \A c \in Bufs \ {b} : /\ IsWrite(flags'[c]) <=> IsWrite(flags[c])
                            /\ blkOf'[c] = blkOf[c] /\ data'[c] = data[c]
                            /\ \A x \in {"DONE", "DELWRI"} : x \in flags'[c] <=> x \in flags[c]
                            /\ "STALE" \in flags[c] => "STALE" \in flags'[c]
  BY DEF Ends, Alike, IsWrite
<1>4. /\ DOMAIN ioq' = 1..(Len(ioq) - 1)
      /\ \A j \in DOMAIN ioq' : ioq'[j] = IF j < i THEN ioq[j] ELSE ioq[j + 1]
      /\ ToSet(ioq') = ToSet(ioq) \ {b}
  <2>1. /\ RemoveAt(ioq, i) \in Seq(Bufs) /\ Len(RemoveAt(ioq, i)) = Len(ioq) - 1
        /\ \A j \in 1..Len(RemoveAt(ioq, i)) :
             RemoveAt(ioq, i)[j] = IF j < i THEN ioq[j] ELSE ioq[j + 1]
    BY <1>1, RemoveAtPlaces
  <2>2. ToSet(RemoveAt(ioq, i)) = ToSet(ioq) \ {b}
    BY <1>1, RemoveAtFacts
  <2>3. QED
    BY <2>1, <2>2 DEF Ends
<1>5. ASSUME NEW j \in DOMAIN ioq'
      PROVE  Old(j) \in DOMAIN ioq /\ Old(j) # i /\ ioq'[j] = ioq[Old(j)] /\ ioq[Old(j)] \in Bufs \ {b}
  <2>1. Old(j) \in DOMAIN ioq /\ Old(j) # i /\ ioq'[j] = ioq[Old(j)]
    BY <1>1, <1>4
  <2>2. ioq[Old(j)] # b
    BY <1>1, <2>1 DEF IsInjective
  <2>3. QED
    BY <1>1, <2>1, <2>2
<1>6. \A j, l \in DOMAIN ioq' : (j < l <=> Old(j) < Old(l)) /\ Old(j) \in Nat
  BY <1>1, <1>4
<1>7. \A j \in DOMAIN ioq : blkOf[ioq[j]] = h /\ j # i => i < j
  BY <1>1 DEF Ends
<1>8. \A c \in Bufs \ {b} : Queued(c)' <=> Queued(c)
  BY <1>3, <1>4 DEF Queued
<1>9. /\ blkOf' = blkOf /\ written' = written
      /\ \A k \in Blocks : disk[k] \in Nat /\ written[k] \in Nat /\ disk[k] <= written[k]
      /\ \A k \in Blocks \ {h} : disk'[k] = disk[k]
      /\ "READ" \in flags[b] => data'[b] = disk[h] /\ disk'[h] = disk[h]
      /\ "READ" \notin flags[b] => data'[b] = data[b] /\ disk'[h] = data[b]
  BY <1>1, <1>2 DEF Ends, TypeOK, DataInv
<1>10. "READ" \notin flags[b] => disk[h] <= data[b] /\ data[b] <= written[h]
  BY DEF DataInv, Between, IsWrite
<1> HIDE DEF Old
(* What is read is the last value written. *)
<1>11. ASSUME "READ" \in flags[b], "STALE" \notin flags[b] PROVE disk[h] = written[h]
  <2> SUFFICES ASSUME disk[h] # written[h] PROVE FALSE
    OBVIOUS
  <2>1. PICK c \in Bufs : blkOf[c] = h /\ ("DELWRI" \in flags[c] \/ Queued(c))
    BY <1>2 DEF DataInv, Kept
  <2>2. CASE Queued(c)
    <3>1. PICK j \in DOMAIN ioq : ioq[j] = c /\ IsWrite(flags[ioq[j]])
      BY <1>1, <2>2 DEF Queued, ToSet
    <3>2. j < i
      BY <1>11, <2>1, <3>1 DEF DataInv, ReadLast, IsWrite
    <3>3. QED
      BY <1>1, <1>7, <2>1, <3>1, <3>2
  <2>3. CASE "DELWRI" \in flags[c]
    <3>1. c = b
      BY <1>2, <1>11, <2>1, <2>3 DEF DelayedFresh, Buffers, UniqueBlock, Found
    <3>2. QED
      BY <1>2, <2>3, <3>1
  <2>4. QED
    BY <2>1, <2>2, <2>3
<1>12. ASSUME NEW c \in Bufs PROVE NewestIn(c)'
  <2>1. CASE c # b
    BY <1>3, <1>8, <1>9, <2>1 DEF DataInv, NewestIn
  <2>2. CASE c = b /\ "READ" \in flags[b]
    BY <1>9, <1>11, <2>2 DEF NewestIn, Ends
  <2>3. CASE c = b /\ "READ" \notin flags[b]
    <3>1. Queued(b)
      BY <1>1, <2>3 DEF Queued, IsWrite
    <3>2. "STALE" \notin flags[b] => data[b] = written[h]
      BY <1>2, <3>1 DEF DataInv, NewestIn
    <3>3. QED
      BY <1>9, <2>3, <3>2 DEF NewestIn, Ends
  <2>4. QED
    BY <2>1, <2>2, <2>3
<1>13. ASSUME NEW j \in DOMAIN ioq'
       PROVE  /\ IsWrite(flags'[ioq'[j]]) <=> IsWrite(flags[ioq[Old(j)]])
              /\ blkOf'[ioq'[j]] = blkOf[ioq[Old(j)]] /\ data'[ioq'[j]] = data[ioq[Old(j)]]
              /\ "STALE" \in flags[ioq[Old(j)]] => "STALE" \in flags'[ioq'[j]]
  BY <1>3, <1>5
<1>14. ASSUME NEW j \in DOMAIN ioq' PROVE Between(j)'
  <2> DEFINE e == ioq[Old(j)]
             k == blkOf[e]
  <2>1. Old(j) \in DOMAIN ioq /\ Old(j) # i /\ k \in Blocks
    BY <1>1, <1>5
  <2>2. IsWrite(flags[e]) => disk[k] <= data[e] /\ data[e] <= written[k]
    BY <2>1 DEF DataInv, Between
  <2>3. IsWrite(flags[e]) => disk'[k] <= data[e]
    <3>1. CASE k = h /\ "READ" \notin flags[b]
      <4>1. i < Old(j)
        BY <1>7, <2>1, <3>1
      <4>2. IsWrite(flags[e]) => data[b] <= data[e]
        BY <2>1, <3>1, <4>1 DEF DataInv, WritesInOrder, IsWrite
      <4>3. QED
        BY <1>9, <3>1, <4>2
    <3>2. CASE k # h \/ "READ" \in flags[b]
      BY <1>9, <2>1, <2>2, <3>2
    <3>3. QED
      BY <3>1, <3>2
  <2> HIDE DEF k
  <2>4. QED
    BY <1>9, <1>13, <2>2, <2>3 DEF Between, k
<1>15. \A j, l \in DOMAIN ioq' : WritesInOrder(j, l)'
  <2> SUFFICES ASSUME NEW j \in DOMAIN ioq', NEW l \in DOMAIN ioq' PROVE WritesInOrder(j, l)'
    OBVIOUS
  <2>1. WritesInOrder(Old(j), Old(l))
    BY <1>5 DEF DataInv
  <2>2. QED
    BY <1>6, <1>13, <2>1 DEF WritesInOrder
<1>16. \A j, l \in DOMAIN ioq' : ReadLast(j, l)'
  <2> SUFFICES ASSUME NEW j \in DOMAIN ioq', NEW l \in DOMAIN ioq' PROVE ReadLast(j, l)'
    OBVIOUS
  <2>1. ReadLast(Old(j), Old(l))
    BY <1>5 DEF DataInv
  <2>2. QED
    BY <1>6, <1>13, <2>1 DEF ReadLast
<1>17. ASSUME NEW k \in Blocks PROVE Kept(k)' /\ disk'[k] <= written'[k]
  <2>1. disk'[k] <= written'[k]
    <3>1. CASE k = h /\ "READ" \notin flags[b]
      BY <1>2, <1>9, <1>10, <3>1
    <3>2. CASE k # h \/ "READ" \in flags[b]
      BY <1>9, <3>2
    <3>3. QED
      BY <3>1, <3>2
  <2>2. Kept(k)'
    <3>1. CASE disk'[k] = written'[k]
      BY <3>1 DEF Kept
    <3>2. CASE disk'[k] # written'[k]
      <4>1. disk[k] # written[k]
        <5>1. CASE k = h /\ "READ" \notin flags[b]
          BY <1>2, <1>9, <1>10, <3>2, <5>1
        <5>2. CASE k # h \/ "READ" \in flags[b]
          BY <1>9, <3>2, <5>2
        <5>3. QED
          BY <5>1, <5>2
      <4>2. PICK c \in Bufs : blkOf[c] = k /\ data[c] = written[k] /\ ("DELWRI" \in flags[c] \/ Queued(c))
        BY <4>1 DEF DataInv, Kept
      <4>3. c # b
        <5> SUFFICES ASSUME c = b PROVE FALSE
          OBVIOUS
        <5>1. Queued(b) /\ k = h /\ data[b] = written[h]
          BY <1>2, <4>2
        <5>2. "READ" \notin flags[b]
          BY <5>1 DEF Queued, IsWrite
        <5>3. QED
          BY <1>9, <3>2, <5>1, <5>2
      <4>4. QED
        BY <1>3, <1>8, <1>9, <4>2, <4>3 DEF Kept
    <3>3. QED
      BY <3>1, <3>2
  <2>3. QED
    BY <2>1, <2>2
<1>18. QED
  BY <1>12, <1>14, <1>15, <1>16, <1>17 DEF DataInv

(* No buffer is marked by a transfer that failed. *)
Unfailed == \A b \in Bufs : "ERROR" \notin flags[b]

(* Nobody has a stale buffer of a block, and no scan has stopped at one. *)
HeldFresh ==
    \A p \in Procs : \A b \in hold[p] : blkOf[b] \in Blocks => "STALE" \notin flags[b]
HitFresh == \A p \in Procs : pc[p] = "hit" => "STALE" \notin flags[call[p].tgt]

(* While a device is closed nobody has a buffer of it. *)
Closed ==
    \A q \in Procs : pc[q] \in {"flush", "count"} /\ call[q].mode = "close" =>
        \A r \in Procs : \A b \in hold[r] :
            blkOf[b] \in Blocks => DevOf[blkOf[b]] # call[q].arg

FreshInv == Unfailed /\ DelayedFresh /\ HeldFresh /\ HitFresh /\ Closed
StoreInv == FreshInv /\ DataInv
-----------------------------------------------------------------------------
(* What the steps do to buffers, to queue and medium, and to who has what. *)
Still(b) ==
    /\ blkOf'[b] = blkOf[b] /\ data'[b] = data[b]
    /\ \A x \in {"DONE", "READ", "DELWRI", "STALE", "ERROR"} : x \in flags'[b] <=> x \in flags[b]

Rest(b) == \A c \in Bufs \ {b} : Still(c)

Idles ==
    (\A b \in Bufs : Still(b)) /\ UNCHANGED <<ioq, disk, written, hold>>

Gives(p, b) ==
    /\ b \in hold[p] /\ hold' = [hold EXCEPT ![p] = hold[p] \ {b}]
    /\ (\A c \in Bufs : Still(c)) /\ UNCHANGED <<ioq, disk, written>>

Gets(p, b) ==
    /\ b \in ToSet(free) /\ hold' = [hold EXCEPT ![p] = hold[p] \cup {b}]
    /\ "STALE" \notin flags[b]
    /\ (\A c \in Bufs : Still(c)) /\ UNCHANGED <<ioq, disk, written>>

Fills(p, b) ==
    /\ b \in ToSet(free) /\ hold' \in {hold, [hold EXCEPT ![p] = hold[p] \cup {b}]}
    /\ Fetches(b) /\ Rest(b) /\ "STALE" \notin flags'[b] /\ "ERROR" \notin flags'[b]

Modifies(p, b) ==
    /\ b \in hold[p] /\ b \notin ToSet(ioq)
    /\ \/ hold' = [hold EXCEPT ![p] = hold[p] \ {b}]
       \/ hold' = hold /\ "DONE" \notin flags'[b]
    /\ written' = [written EXCEPT ![blkOf[b]] = written[blkOf[b]] + 1]
    /\ Writes(b) /\ Rest(b) /\ "STALE" \notin flags'[b] /\ "ERROR" \notin flags'[b]

Behind(b) ==
    /\ b \in ToSet(free) /\ hold' = hold /\ written' = written
    /\ Writes(b) /\ Rest(b) /\ "STALE" \notin flags'[b] /\ "ERROR" \notin flags'[b]

Completes(i) ==
    Ends(i) /\ Rest(ioq[i]) /\ "ERROR" \notin flags'[ioq[i]] /\ hold' = hold

LEMMA StillAlike == \A b : Still(b) => Alike(b)
  BY DEF Still, Alike

(* brelse of a buffer without error. *)
LEMMA BrelseMarks ==
    ASSUME TypeOK, NEW b \in Bufs, NEW f \in SUBSET Flag, "ERROR" \notin f, NEW s, NEW also,
           Brelse(b, f, s, also)
    PROVE  /\ \A c \in Bufs \ {b} : flags'[c] = flags[c]
           /\ flags'[b] = f \ {"WANTED", "BUSY", "ASYNC", "AGE"}
           /\ \A x \in {"DONE", "READ", "DELWRI", "STALE", "ERROR"} : x \in flags'[b] <=> x \in f
<1>1. flags' = [flags EXCEPT ![b] = f \ {"WANTED", "BUSY", "ASYNC", "AGE"}]
  BY DEF Brelse
<1>2. flags \in [Bufs -> SUBSET Flag]
  BY DEF TypeOK
<1>3. /\ \A c \in Bufs \ {b} : flags'[c] = flags[c]
      /\ flags'[b] = f \ {"WANTED", "BUSY", "ASYNC", "AGE"}
  BY <1>1, <1>2
<1>4. QED
  BY <1>3

LEMMA EnterIdles ==
    ASSUME NEW p \in Procs, EnterCall(p) PROVE Idles
<1>1. UNCHANGED <<cache, store, ioq, hold>>
  BY DEF EnterCall, CallGetblk, CallGeteblk, CallBread, CallBreada, CallFlush, CallClose, Enter
<1>2. QED
  BY <1>1 DEF cache, store, Idles, Still

(* The steps of a call that only move it on. *)
MovesOn(p) ==
    \/ GetblkScan(p) \/ GetblkEmpty(p) \/ Count(p) \/ AheadNext(p) \/ AheadEnd(p)
    \/ IowaitSleep(p) \/ IowaitRead(p) \/ FlushEnd(p) \/ BdwaitSleep(p) \/ BdwaitEnd(p)

LEMMA StepIdles ==
    ASSUME TypeOK, NEW p \in Procs, MovesOn(p) \/ GetblkBusy(p)
    PROVE  Idles
<1>1. CASE MovesOn(p)
  <2>1. UNCHANGED <<flags, blkOf, data, ioq, disk, written, hold>>
    BY <1>1 DEF MovesOn, GetblkScan, GetblkEmpty, Count, AheadNext, AheadEnd, IowaitSleep,
       IowaitRead, FlushEnd, BdwaitSleep, BdwaitEnd, cache, store, proc
  <2>2. QED
    BY <2>1 DEF Idles, Still
<1>2. CASE GetblkBusy(p)
  <2>1. /\ flags' = [flags EXCEPT ![call[p].tgt] = flags[call[p].tgt] \cup {"WANTED"}]
        /\ UNCHANGED <<blkOf, data, ioq, disk, written, hold>>
    BY <1>2 DEF GetblkBusy, store
  <2>2. \A b \in Bufs : flags'[b] = flags[b] \/ flags'[b] = flags[b] \cup {"WANTED"}
    BY <2>1 DEF TypeOK
  <2>3. QED
    BY <2>1, <2>2 DEF Idles, Still
<1>3. QED
  BY <1>1, <1>2

LEMMA ReleaseGives ==
    ASSUME TypeOK, Unfailed, NEW p \in Procs, NEW b \in hold[p], b \in Bufs, Brelse(b, flags[b], free, {}),
           hold' = [hold EXCEPT ![p] = hold[p] \ {b}],
           UNCHANGED <<blkOf, data, ioq, disk, written>>
    PROVE  Gives(p, b)
<1>1. flags[b] \in SUBSET Flag /\ "ERROR" \notin flags[b]
  BY DEF TypeOK, Unfailed
<1>2. /\ \A c \in Bufs \ {b} : flags'[c] = flags[c]
      /\ \A x \in {"DONE", "READ", "DELWRI", "STALE", "ERROR"} : x \in flags'[b] <=> x \in flags[b]
  BY <1>1, BrelseMarks
<1>3. QED
  BY <1>2 DEF Gives, Still

LEMMA GivesSteps ==
    ASSUME IInv, Unfailed, NEW p \in Procs
    PROVE  /\ \A b \in Bufs : CallBrelse(p, b) => Gives(p, b)
           /\ IowaitWrite(p) => \E b \in Bufs : Gives(p, b)
<1>1. TypeOK
  BY DEF IInv
<1>2. ASSUME NEW b \in Bufs, CallBrelse(p, b) PROVE Gives(p, b)
  BY <1>1, <1>2, ReleaseGives DEF CallBrelse, Owned, store
<1>3. ASSUME IowaitWrite(p) PROVE Gives(p, call[p].bp) /\ call[p].bp \in Bufs
  <2>1. call[p].bp \in hold[p] /\ call[p].bp \in Bufs
    BY <1>3 DEF IowaitWrite, InIowait, IInv, CallOK, Stands
  <2>2. QED
    BY <1>1, <1>3, <2>1, ReleaseGives DEF IowaitWrite, store
<1>4. QED
  BY <1>2, <1>3

(* A caller writes its buffer. *)
LEMMA WriteModifies ==
    ASSUME IInv, FreshInv, NEW p \in Procs, NEW b \in Bufs,
           CallBdwrite(p, b) \/ CallBwrite(p, b) \/ CallBawrite(p, b)
    PROVE  Modifies(p, b)
<1>1. TypeOK /\ HoldOK /\ CallOK /\ flags \in [Bufs -> SUBSET Flag]
  BY DEF IInv, TypeOK
<1> DEFINE k == blkOf[b]
<1>2. /\ pc[p] = "user" /\ b \in hold[p] /\ k # NoBlk /\ "ERROR" \notin flags[b]
      /\ written' = [written EXCEPT ![k] = written[k] + 1]
      /\ data' = [data EXCEPT ![b] = written[k] + 1] /\ UNCHANGED <<blkOf, disk>>
  BY DEF CallBdwrite, CallBwrite, CallBawrite, Modify, Owned, InUser
<1>3. k \in Blocks /\ "STALE" \notin flags[b]
  BY <1>1, <1>2 DEF TypeOK, FreshInv, HeldFresh
<1>4. b \notin ToSet(ioq)
  <2>1. call[p].bp = NoBuf
    BY <1>1, <1>2, NoCallFacts DEF CallOK, Stands
  <2>2. QED
    BY <1>1, <1>2, <2>1, CacheAssumption DEF HoldOK
<1>5. data'[b] = written'[k] /\ \A c \in Bufs \ {b} : data'[c] = data[c]
  BY <1>1, <1>2, <1>3 DEF TypeOK
<1> HIDE DEF k
<1>6. /\ \A c \in Bufs \ {b} : flags'[c] = flags[c]
      /\ "STALE" \notin flags'[b] /\ "ERROR" \notin flags'[b]
      /\ \/ /\ ioq' = ioq /\ "DELWRI" \in flags'[b] /\ "DONE" \in flags'[b]
            /\ hold' = [hold EXCEPT ![p] = hold[p] \ {b}]
         \/ /\ ioq' = Append(ioq, b) /\ {"DELWRI", "DONE", "READ"} \cap flags'[b] = {}
            /\ hold' = hold \/ hold' = [hold EXCEPT ![p] = hold[p] \ {b}]
  <2>1. CASE CallBdwrite(p, b)
    <3> DEFINE f == flags[b] \cup {"DELWRI", "DONE"}
    <3>1. f \in SUBSET Flag /\ "ERROR" \notin f /\ "STALE" \notin f
      BY <1>1, <1>2, <1>3 DEF Flag
    <3>2. Brelse(b, f, free, {}) /\ ioq' = ioq /\ hold' = [hold EXCEPT ![p] = hold[p] \ {b}]
      BY <2>1 DEF CallBdwrite
    <3>3. "DELWRI" \in f /\ "DONE" \in f
      OBVIOUS
    <3> HIDE DEF f
    <3>4. /\ \A c \in Bufs \ {b} : flags'[c] = flags[c]
          /\ \A x \in {"DONE", "READ", "DELWRI", "STALE", "ERROR"} : x \in flags'[b] <=> x \in f
      BY <1>1, <3>1, <3>2, BrelseMarks
    <3>5. QED
      BY <3>1, <3>2, <3>3, <3>4
  <2>2. CASE CallBwrite(p, b) \/ CallBawrite(p, b)
    <3>1. /\ \/ flags' = [flags EXCEPT ![b] = WriteFlags(flags[b])]
             \/ flags' = [flags EXCEPT ![b] = WriteFlags(flags[b] \cup {"ASYNC"})]
          /\ ioq' = Append(ioq, b)
          /\ hold' = hold \/ hold' = [hold EXCEPT ![p] = hold[p] \ {b}]
      BY <2>2 DEF CallBwrite, CallBawrite
    <3>2. /\ \A c \in Bufs \ {b} : flags'[c] = flags[c]
          /\ flags'[b] \in {WriteFlags(flags[b]), WriteFlags(flags[b] \cup {"ASYNC"})}
      BY <1>1, <3>1
    <3>3. QED
      BY <1>3, <3>1, <3>2 DEF WriteFlags
  <2>3. QED
    BY <2>1, <2>2
<1>7. Rest(b)
  BY <1>2, <1>5, <1>6 DEF Rest, Still
<1>8. \A c \in Bufs \ {b} : Alike(c)
  BY <1>7, StillAlike DEF Rest
<1>9. Writes(b)
  BY <1>2, <1>3, <1>4, <1>5, <1>6, <1>8 DEF Writes, k
<1>10. QED
  BY <1>2, <1>4, <1>6, <1>7, <1>9 DEF Modifies, k

(* An available buffer is written for whoever needs it or flushes. *)
LEMMA BehindWrites ==
    ASSUME IInv, StoreInv, NEW p \in Procs, NEW i \in DOMAIN free, "DELWRI" \in flags[free[i]],
           WriteBehind(p, i)
    PROVE  Behind(free[i])
<1> DEFINE b == free[i]
<1>1. TypeOK /\ Buffers /\ flags \in [Bufs -> SUBSET Flag] /\ b \in ToSet(free)
  BY DEF IInv, TypeOK, Buffers, ToSet
<1>2. /\ b \in Bufs /\ b \notin ToSet(ioq) /\ blkOf[b] \in Blocks
  BY <1>1, FreeIsIdle
<1>3. /\ "STALE" \notin flags[b] /\ "ERROR" \notin flags[b] /\ data[b] = written[blkOf[b]]
  BY <1>2 DEF StoreInv, FreshInv, Unfailed, DelayedFresh, DataInv, NewestIn
<1>4. /\ flags' = [flags EXCEPT ![b] = WriteFlags(flags[b] \cup {"BUSY", "ASYNC"})]
      /\ ioq' = Append(ioq, b) /\ UNCHANGED <<blkOf, data, disk, written, hold>>
  BY DEF WriteBehind, store
<1> HIDE DEF b
<1>5. /\ \A c \in Bufs \ {b} : flags'[c] = flags[c]
      /\ flags'[b] = WriteFlags(flags[b] \cup {"BUSY", "ASYNC"})
  BY <1>1, <1>2, <1>4
<1>6. Rest(b)
  BY <1>4, <1>5 DEF Rest, Still
<1>7. \A c \in Bufs \ {b} : Alike(c)
  BY <1>6, StillAlike DEF Rest
<1>8. {"DELWRI", "DONE", "READ", "STALE", "ERROR"} \cap flags'[b] = {}
  BY <1>3, <1>5 DEF WriteFlags
<1>9. Writes(b)
  BY <1>2, <1>3, <1>4, <1>7, <1>8 DEF Writes
<1>10. Behind(b)
  BY <1>1, <1>4, <1>6, <1>8, <1>9 DEF Behind
<1>11. QED
  BY <1>10 DEF b

(* getblk's caller has, gives back or fills the buffer found or reused. *)
LEMMA GotKinds ==
    ASSUME TypeOK, DelayedFresh, NEW p \in Procs, NEW b \in ToSet(free), b \in Bufs, b \notin ToSet(ioq),
           NEW f \in SUBSET Flag, "ERROR" \notin f, "STALE" \notin f, NEW s, Got(p, b, f, s),
           UNCHANGED <<disk, written>>,
           \A c \in Bufs \ {b} : blkOf'[c] = blkOf[c] /\ data'[c] = data[c],
           \/ /\ \A x \in {"DONE", "READ", "DELWRI", "STALE", "ERROR"} : x \in f <=> x \in flags[b]
              /\ UNCHANGED <<blkOf, data>>
           \/ {"DONE", "DELWRI"} \cap (f \cup flags[b]) \subseteq {"DONE"} \ f
    PROVE  Idles \/ Gets(p, b) \/ Fills(p, b)
<1> DEFINE g == [call[p] EXCEPT !.tgt = NoBuf]
           m == g.mode
           h == [hold EXCEPT ![p] = hold[p] \cup {b}]
<1>1. \/ /\ flags' = [flags EXCEPT ![b] = f] /\ ioq' = ioq /\ hold' = h
         /\ m = "getblk" \/ "DONE" \in f
      \/ /\ "DONE" \notin f /\ flags' = [flags EXCEPT ![b] = f \cup {"READ"}]
         /\ ioq' = Append(ioq, b) /\ hold' = h
      \/ "DONE" \in f /\ Brelse(b, f, s, {}) /\ ioq' = ioq /\ hold' = hold
      \/ /\ "DONE" \notin f /\ flags' = [flags EXCEPT ![b] = f \cup {"READ", "ASYNC"}]
         /\ ioq' = Append(ioq, b) /\ hold' = hold
  BY DEF Got
<1> HIDE DEF h, m, g
<1>2. flags \in [Bufs -> SUBSET Flag]
  BY DEF TypeOK
<1>3. ASSUME NEW e, flags' = [flags EXCEPT ![b] = e]
      PROVE  flags'[b] = e /\ \A c \in Bufs \ {b} : flags'[c] = flags[c]
  BY <1>2, <1>3
<1>4. ASSUME \A c \in Bufs \ {b} : flags'[c] = flags[c] PROVE Rest(b) /\ \A c \in Bufs \ {b} : Alike(c)
  <2>1. Rest(b)
    BY <1>4 DEF Rest, Still
  <2>2. QED
    BY <2>1, StillAlike DEF Rest
<1>5. "DONE" \notin f => "DELWRI" \notin f /\ "DELWRI" \notin flags[b]
  BY DEF DelayedFresh
<1>6. ASSUME "DONE" \in f
      PROVE  /\ \A x \in {"DONE", "READ", "DELWRI", "STALE", "ERROR"} : x \in f <=> x \in flags[b]
             /\ UNCHANGED <<blkOf, data>>
  BY <1>6
<1>7. ASSUME NEW e \in {f, f \cup {"READ"}, f \cup {"READ", "ASYNC"}}, "DONE" \notin f,
             flags' = [flags EXCEPT ![b] = e], hold' \in {hold, h},
             ioq' = ioq \/ (ioq' = Append(ioq, b) /\ "READ" \in e)
      PROVE  Fills(p, b)
  <2>1. flags'[b] = e /\ Rest(b) /\ \A c \in Bufs \ {b} : Alike(c)
    BY <1>3, <1>4, <1>7
  <2>2. {"DONE", "DELWRI", "STALE", "ERROR"} \cap flags'[b] = {}
    BY <1>5, <1>7, <2>1
  <2>3. Fetches(b)
    BY <1>5, <1>7, <2>1, <2>2 DEF Fetches
  <2>4. QED
    BY <1>7, <2>1, <2>2, <2>3 DEF Fills, h
<1>8. CASE flags' = [flags EXCEPT ![b] = f] /\ ioq' = ioq /\ hold' = h
  <2>1. flags'[b] = f /\ Rest(b)
    BY <1>3, <1>4, <1>8
  <2>2. CASE /\ \A x \in {"DONE", "READ", "DELWRI", "STALE", "ERROR"} : x \in f <=> x \in flags[b]
             /\ UNCHANGED <<blkOf, data>>
    <3>1. \A c \in Bufs : Still(c)
      BY <2>1, <2>2 DEF Rest, Still
    <3>2. QED
      BY <1>8, <2>2, <3>1 DEF Gets, h
  <2>3. CASE "DONE" \notin f
    BY <1>7, <1>8, <2>3
  <2>4. QED
    BY <1>6, <2>2, <2>3
<1>9. CASE "DONE" \in f /\ Brelse(b, f, s, {}) /\ ioq' = ioq /\ hold' = hold
  <2>1. /\ \A c \in Bufs \ {b} : flags'[c] = flags[c]
        /\ \A x \in {"DONE", "READ", "DELWRI", "STALE", "ERROR"} : x \in flags'[b] <=> x \in f
    BY <1>9, BrelseMarks
  <2>2. \A c \in Bufs : Still(c)
    BY <1>4, <1>6, <1>9, <2>1 DEF Rest, Still
  <2>3. QED
    BY <1>9, <2>2 DEF Idles
<1>10. CASE "DONE" \notin f /\ ~(flags' = [flags EXCEPT ![b] = f] /\ ioq' = ioq /\ hold' = h)
  BY <1>1, <1>7, <1>10
<1>11. QED
  BY <1>1, <1>8, <1>9, <1>10

LEMMA GetblkKinds ==
    ASSUME IInv, StoreInv, NEW p \in Procs, GetblkHit(p) \/ GetblkReuse(p)
    PROVE  \E b \in Bufs : Idles \/ Gets(p, b) \/ Fills(p, b)
<1>1. TypeOK /\ Buffers /\ free \in Seq(Bufs) /\ DelayedFresh /\ Unfailed /\ HitFresh
  BY DEF IInv, TypeOK, Buffers, StoreInv, FreshInv
<1>2. CASE GetblkHit(p)
  <2> DEFINE b == call[p].tgt
             f == flags[b] \cup {"BUSY"}
  <2>1. PICK i \in DOMAIN free : free[i] = b /\ Got(p, b, f, Notavail(i))
    BY <1>2 DEF GetblkHit
  <2>2. /\ pc[p] = "hit" /\ UNCHANGED <<blkOf, data, disk, written>>
    BY <1>2 DEF GetblkHit, InHit, store
  <2>3. b \in ToSet(free) /\ b \in Bufs /\ b \notin ToSet(ioq)
    <3>1. b \in ToSet(free)
      BY <2>1 DEF ToSet
    <3>2. QED
      BY <1>1, <3>1, FreeIsIdle
  <2>4. "STALE" \notin flags[b] /\ "ERROR" \notin flags[b] /\ flags[b] \in SUBSET Flag
    BY <1>1, <2>2, <2>3 DEF HitFresh, Unfailed, TypeOK
  <2>5. /\ f \in SUBSET Flag /\ "ERROR" \notin f /\ "STALE" \notin f
        /\ \A x \in {"DONE", "READ", "DELWRI", "STALE", "ERROR"} : x \in f <=> x \in flags[b]
    BY <2>4 DEF Flag
  <2> HIDE DEF b, f
  <2>6. \A c \in Bufs \ {b} : blkOf'[c] = blkOf[c] /\ data'[c] = data[c]
    BY <2>2
  <2>7. Idles \/ Gets(p, b) \/ Fills(p, b)
    BY <1>1, <2>1, <2>2, <2>3, <2>5, <2>6, GotKinds
  <2>8. QED
    BY <2>3, <2>7
<1>3. CASE GetblkReuse(p)
  <2> DEFINE b == Head(free)
  <2>1. /\ free # << >> /\ "DELWRI" \notin flags[b]
        /\ blkOf' = [blkOf EXCEPT ![b] = Want(p)] /\ data' = [data EXCEPT ![b] = Garbage]
        /\ UNCHANGED <<disk, written>>
    BY <1>3 DEF GetblkReuse, Delayed, store
  <2>2. PICK f \in {{"BUSY"}, {"BUSY", "AGE"}} : Got(p, b, f, Tail(free))
    BY <1>3 DEF GetblkReuse
  <2>3. b \in ToSet(free) /\ b \in Bufs /\ b \notin ToSet(ioq)
    <3>1. b = free[1] /\ 1 \in DOMAIN free
      BY <1>1, <2>1, TailFacts
    <3>2. b \in ToSet(free)
      BY <3>1 DEF ToSet
    <3>3. QED
      BY <1>1, <3>2, FreeIsIdle
  <2>4. f \in SUBSET Flag /\ "ERROR" \notin f /\ "STALE" \notin f /\ "DONE" \notin f /\ "DELWRI" \notin f
    BY DEF Flag
  <2> HIDE DEF b
  <2>5. \A c \in Bufs \ {b} : blkOf'[c] = blkOf[c] /\ data'[c] = data[c]
    BY <1>1, <2>1 DEF TypeOK
  <2>6. {"DONE", "DELWRI"} \cap (f \cup flags[b]) \subseteq {"DONE"} \ f
    BY <2>1, <2>4
  <2>7. Idles \/ Gets(p, b) \/ Fills(p, b)
    BY <1>1, <2>1, <2>2, <2>3, <2>4, <2>5, <2>6, GotKinds
  <2>8. QED
    BY <2>3, <2>7
<1>4. QED
  BY <1>2, <1>3

(* A transfer that does not fail. *)
LEMMA TransferCompletes ==
    ASSUME IInv, StoreInv, NEW i \in DOMAIN ioq, TransferOk(i)
    PROVE  Completes(i)
<1> DEFINE b == ioq[i]
           f == flags[b] \cup {"DONE"}
<1>1. TypeOK /\ Buffers /\ flags \in [Bufs -> SUBSET Flag] /\ b \in ToSet(ioq) /\ b \in Bufs
  BY DEF IInv, TypeOK, Buffers, ToSet
<1>2. /\ f \in SUBSET Flag /\ "ERROR" \notin f /\ "ERROR" \notin flags[b] /\ "DONE" \in f
      /\ \A x \in {"READ", "DELWRI", "STALE"} : x \in f <=> x \in flags[b]
  BY <1>1 DEF StoreInv, FreshInv, Unfailed, Flag
<1>3. /\ \A j \in 1..(i - 1) : blkOf[ioq[j]] # blkOf[b]
      /\ ioq' = RemoveAt(ioq, i) /\ UNCHANGED <<blkOf, written, hold>>
  BY DEF TransferOk, Serve, proc
<1>4. \/ \E also : Brelse(b, f, free, also)
      \/ flags' = [flags EXCEPT ![b] = f \ {"WANTED"}]
  BY DEF TransferOk, Iodone
<1>5. IF "READ" \in flags[b]
      THEN data' = [data EXCEPT ![b] = disk[blkOf[b]]] /\ disk' = disk
      ELSE data' = data /\ disk' = [disk EXCEPT ![blkOf[b]] = data[b]]
  BY DEF TransferOk
<1> HIDE DEF b, f
<1>6. /\ \A c \in Bufs \ {b} : flags'[c] = flags[c]
      /\ \A x \in {"DONE", "READ", "DELWRI", "STALE", "ERROR"} : x \in flags'[b] <=> x \in f
  <2>1. CASE \E also : Brelse(b, f, free, also)
    BY <1>1, <1>2, <2>1, BrelseMarks
  <2>2. CASE flags' = [flags EXCEPT ![b] = f \ {"WANTED"}]
    <3>1. flags'[b] = f \ {"WANTED"} /\ \A c \in Bufs \ {b} : flags'[c] = flags[c]
      BY <1>1, <2>2
    <3>2. QED
      BY <3>1
  <2>3. QED
    BY <1>4, <2>1, <2>2
<1>7. \A c \in Bufs \ {b} : data'[c] = data[c]
  BY <1>1, <1>5 DEF TypeOK
<1>8. Rest(b) /\ \A c \in Bufs \ {b} : Alike(c)
  <2>1. Rest(b)
    BY <1>3, <1>6, <1>7 DEF Rest, Still
  <2>2. QED
    BY <2>1, StillAlike DEF Rest
<1>9. IF "READ" \in flags[b]
      THEN data'[b] = disk[blkOf[b]] /\ disk' = disk
      ELSE data'[b] = data[b] /\ disk' = [disk EXCEPT ![blkOf[b]] = data[b]]
  BY <1>1, <1>5 DEF TypeOK
<1>10. Ends(i)
  BY <1>2, <1>3, <1>6, <1>8, <1>9 DEF Ends, b
<1>11. QED
  BY <1>2, <1>3, <1>6, <1>8, <1>10 DEF Completes, b

-----------------------------------------------------------------------------
(* The steps other than binval are of these kinds. *)
Moved ==
    \/ Idles
    \/ \E p \in Procs : \E b \in Bufs : Gives(p, b) \/ Gets(p, b) \/ Fills(p, b) \/ Modifies(p, b)
    \/ \E b \in Bufs : Behind(b)
    \/ \E i \in DOMAIN ioq : Completes(i)

LEMMA MovedData ==
    ASSUME IInv, TypeOK', StoreInv, Moved
    PROVE  DataInv'
<1>1. TypeOK /\ Buffers /\ DataInv /\ DelayedFresh
  BY DEF IInv, Buffers, StoreInv, FreshInv
<1>2. ASSUME \A b \in Bufs : Still(b), UNCHANGED <<ioq, disk, written>> PROVE DataInv'
  BY <1>1, <1>2, StillAlike, DataCalm
<1>3. ASSUME NEW p \in Procs, NEW b \in Bufs, Fills(p, b) PROVE DataInv'
  BY <1>1, <1>3, DataFetch DEF Fills
<1>4. ASSUME NEW b \in Bufs, Writes(b) PROVE DataInv'
  BY <1>1, <1>4, DataWrite
<1>5. ASSUME NEW i \in DOMAIN ioq, Completes(i) PROVE DataInv'
  BY <1>1, <1>5, DataEnd DEF Completes
<1>6. QED
  BY <1>2, <1>3, <1>4, <1>5 DEF Moved, Idles, Gives, Gets, Modifies, Behind

(* One buffer changes, or none; it is fresh if somebody gets it. *)
OneMoves(b) ==
    /\ Rest(b)
    /\ \/ Still(b)
       \/ /\ "ERROR" \notin flags'[b]
          /\ "DELWRI" \in flags'[b] => "DONE" \in flags'[b] /\ "STALE" \notin flags'[b]
          /\ "STALE" \in flags'[b] => "STALE" \in flags[b] /\ blkOf'[b] = blkOf[b]
    /\ \A q \in Procs : \A c \in hold'[q] : c \in hold[q] \/ (c = b /\ "STALE" \notin flags'[b])

LEMMA MovedOne ==
    ASSUME IInv, StoreInv, Moved
    PROVE  Bufs = {} \/ \E b \in Bufs : OneMoves(b)
<1>1. TypeOK /\ Buffers /\ DelayedFresh /\ hold \in [Procs -> SUBSET Bufs]
  BY DEF IInv, TypeOK, Buffers, StoreInv, FreshInv
<1>2. CASE Idles
  BY <1>2 DEF Idles, OneMoves, Rest
<1>3. ASSUME NEW p \in Procs, NEW b \in Bufs, Gives(p, b) PROVE OneMoves(b)
  BY <1>1, <1>3 DEF Gives, OneMoves, Rest
<1>4. ASSUME NEW p \in Procs, NEW b \in Bufs, Gets(p, b) PROVE OneMoves(b)
  <2>1. "STALE" \notin flags'[b] /\ Rest(b) /\ Still(b)
    BY <1>4 DEF Gets, Still, Rest
  <2>2. \A q \in Procs : \A c \in hold'[q] : c \in hold[q] \/ c = b
    BY <1>1, <1>4 DEF Gets
  <2>3. QED
    BY <2>1, <2>2 DEF OneMoves
<1>5. ASSUME NEW p \in Procs, NEW b \in Bufs, Fills(p, b) PROVE OneMoves(b)
  <2>1. \A q \in Procs : \A c \in hold'[q] : c \in hold[q] \/ c = b
    BY <1>1, <1>5 DEF Fills
  <2>2. QED
    BY <1>5, <2>1 DEF OneMoves, Fills, Fetches
<1>6. ASSUME NEW p \in Procs, NEW b \in Bufs, Modifies(p, b) PROVE OneMoves(b)
  <2>1. \A q \in Procs : \A c \in hold'[q] : c \in hold[q]
    BY <1>1, <1>6 DEF Modifies
  <2>2. QED
    BY <1>6, <2>1 DEF OneMoves, Modifies, Writes
<1>7. ASSUME NEW b \in Bufs, Behind(b) PROVE OneMoves(b)
  BY <1>7 DEF OneMoves, Behind, Writes
<1>8. ASSUME NEW i \in DOMAIN ioq, Completes(i) PROVE OneMoves(ioq[i]) /\ ioq[i] \in Bufs
  <2> DEFINE b == ioq[i]
  <2>1. b \in Bufs /\ "DONE" \notin flags[b]
    BY <1>1 DEF TypeOK, Buffers, HoldOK, ToSet
  <2>2. /\ Rest(b) /\ hold' = hold /\ blkOf' = blkOf /\ "ERROR" \notin flags'[b]
        /\ \A x \in {"READ", "DELWRI", "STALE"} : x \in flags'[b] <=> x \in flags[b]
    BY <1>8 DEF Completes, Ends
  <2>3. "DELWRI" \notin flags[b]
    BY <1>1, <2>1 DEF DelayedFresh
  <2> HIDE DEF b
  <2>4. OneMoves(b)
    BY <2>2, <2>3 DEF OneMoves
  <2>5. QED
    BY <2>1, <2>4 DEF b
<1>9. QED
  BY <1>2, <1>3, <1>4, <1>5, <1>6, <1>7, <1>8 DEF Moved

LEMMA MovedFresh ==
    ASSUME IInv, IInv', StoreInv, Moved
    PROVE  /\ Unfailed' /\ DelayedFresh' /\ HeldFresh'
           /\ \A c \in Bufs : "STALE" \in flags'[c] => "STALE" \in flags[c]
<1>1. Unfailed /\ DelayedFresh /\ HeldFresh /\ \A q \in Procs : hold[q] \subseteq Bufs /\ hold'[q] \subseteq Bufs
  BY DEF IInv, TypeOK, StoreInv, FreshInv
<1>2. CASE Bufs = {}
  BY <1>1, <1>2 DEF Unfailed, DelayedFresh, HeldFresh
<1>3. ASSUME NEW b \in Bufs, OneMoves(b)
      PROVE  /\ Unfailed' /\ DelayedFresh' /\ HeldFresh'
             /\ \A c \in Bufs : "STALE" \in flags'[c] => "STALE" \in flags[c]
  <2>1. \A c \in Bufs : "STALE" \in flags'[c] => "STALE" \in flags[c] /\ blkOf'[c] = blkOf[c]
    BY <1>3 DEF OneMoves, Rest, Still
  <2>2. Unfailed'
    BY <1>1, <1>3 DEF OneMoves, Rest, Still, Unfailed
  <2>3. DelayedFresh'
    BY <1>1, <1>3 DEF OneMoves, Rest, Still, DelayedFresh
  <2>4. HeldFresh'
    BY <1>1, <1>3, <2>1 DEF OneMoves, HeldFresh
  <2>5. QED
    BY <2>1, <2>2, <2>3, <2>4
<1>4. QED
  BY <1>2, <1>3, MovedOne
-----------------------------------------------------------------------------
(* Where a step takes the process that makes it. *)
Goes(p, w, c) ==
    /\ Running(p) /\ pc' = [pc EXCEPT ![p] = w] /\ call' = [call EXCEPT ![p] = c]
    /\ w = "hit" => GetblkScan(p)
    /\ w \in {"flush", "count"} /\ c.mode = "close" =>
         /\ UNCHANGED <<hold, blkOf>>
         /\ DevIdle(c.arg) \/ (pc[p] \in {"flush", "count"} /\ c = call[p])

LEMMA ActorGoes ==
    ASSUME TypeOK, CallOK, NEW p \in Procs, EnterCall(p) \/ Release(p) \/ Step(p)
    PROVE  \E w, c : Goes(p, w, c)
<1>1. /\ pc = [pc EXCEPT ![p] = pc[p]] /\ call = [call EXCEPT ![p] = call[p]]
      /\ Stands(pc[p], call[p], hold[p])
  BY DEF TypeOK, CallOK
<1>2. ASSUME UNCHANGED <<pc, call>>, Running(p), pc[p] \notin {"hit", "flush", "count"}
      PROVE  Goes(p, pc[p], call[p])
  BY <1>1, <1>2 DEF Goes
<1>3. ASSUME NEW w, NEW c, Running(p), pc' = [pc EXCEPT ![p] = w], call' = [call EXCEPT ![p] = c],
             w \notin {"hit", "flush", "count"}
      PROVE  Goes(p, w, c)
  BY <1>3 DEF Goes
<1>4. CASE EnterCall(p)
  <2>1. PICK m, a, s, w :
          /\ Enter(p, m, a, s, w) /\ w \in {"getblk", "ahead", "flush"}
          /\ w = "flush" /\ m = "close" => CallClose(p, a)
    BY <1>4 DEF EnterCall, CallGetblk, CallGeteblk, CallBread, CallBreada, CallFlush, CallClose
  <2> DEFINE c == [NoCall EXCEPT !.mode = m, !.arg = a, !.ra = s]
  <2>2. c.mode = m /\ c.arg = a
    BY DEF NoCall
  <2>3. /\ Running(p) /\ pc' = [pc EXCEPT ![p] = w] /\ call' = [call EXCEPT ![p] = c]
        /\ UNCHANGED <<hold, blkOf>>
    BY <2>1 DEF Enter, InUser, Goto, cache
  <2> HIDE DEF c
  <2>4. Goes(p, w, c)
    BY <2>1, <2>2, <2>3 DEF Goes, CallClose
  <2>5. QED
    BY <2>4
<1>5. ASSUME NEW b \in Bufs, CallBrelse(p, b) \/ CallBdwrite(p, b) PROVE Goes(p, pc[p], call[p])
  <2>1. UNCHANGED <<pc, call>> /\ Running(p) /\ pc[p] = "user"
    BY <1>5 DEF CallBrelse, CallBdwrite, Modify, Owned, InUser
  <2>2. QED
    BY <1>2, <2>1
<1>6. ASSUME NEW b \in Bufs, CallBwrite(p, b) \/ CallBawrite(p, b) PROVE \E w, c : Goes(p, w, c)
  <2>1. PICK w \in {"iowait", "count"}, x \in {b, NoBuf} :
          Goto(p, w, [NoCall EXCEPT !.mode = "write", !.bp = x])
    <3>1. NoCall = [NoCall EXCEPT !.bp = NoBuf]
      BY DEF NoCall
    <3>2. QED
      BY <1>6, <3>1 DEF CallBwrite, CallBawrite, NoCall
  <2> DEFINE c == [NoCall EXCEPT !.mode = "write", !.bp = x]
  <2>2. c.mode = "write"
    BY DEF NoCall
  <2>3. /\ Running(p) /\ pc' = [pc EXCEPT ![p] = w] /\ call' = [call EXCEPT ![p] = c]
    BY <1>6, <2>1 DEF CallBwrite, CallBawrite, Modify, Owned, InUser, Goto
  <2> HIDE DEF c
  <2>4. Goes(p, w, c)
    BY <2>2, <2>3 DEF Goes
  <2>5. QED
    BY <2>4
<1>7. CASE GetblkScan(p)
  <2>1. PICK c : Goto(p, "hit", c)
    BY <1>7 DEF GetblkScan
  <2>2. Goes(p, "hit", c)
    BY <1>7, <2>1 DEF Goes, Goto, GetblkScan, InGetblk
  <2>3. QED
    BY <2>2
<1>8. CASE GetblkBusy(p) \/ AheadNext(p) \/ AheadEnd(p) \/ IowaitRead(p) \/ IowaitWrite(p)
           \/ FlushEnd(p) \/ Binval(p) \/ BdwaitEnd(p)
  <2>1. /\ Running(p)
        /\ \E w \in {"user", "getblk", "ahead", "iowait", "bdwait"} : \E c :
             pc' = [pc EXCEPT ![p] = w] /\ call' = [call EXCEPT ![p] = c]
    BY <1>8 DEF GetblkBusy, AheadNext, AheadEnd, IowaitRead, IowaitWrite, FlushEnd, Binval, BdwaitEnd,
       InHit, InAhead, InIowait, FlushOver, InFlush, InBdwait, Goto, Return
  <2>2. QED
    BY <1>3, <2>1
<1>9. CASE GetblkHit(p) \/ GetblkReuse(p)
  <2>1. Running(p) /\ \E b, f, s : Got(p, b, f, s)
    BY <1>9 DEF GetblkHit, GetblkReuse, InHit, Miss, InGetblk
  <2>2. \E w \in {"user", "ahead", "iowait"} : \E c :
             pc' = [pc EXCEPT ![p] = w] /\ call' = [call EXCEPT ![p] = c]
    BY <2>1 DEF Got, Goto, Return
  <2>3. QED
    BY <1>3, <2>1, <2>2
<1>10. CASE GetblkEmpty(p) \/ IowaitSleep(p) \/ BdwaitSleep(p)
  <2>1. UNCHANGED <<pc, call>> /\ Running(p) /\ pc[p] \in {"getblk", "iowait", "bdwait"}
    BY <1>10 DEF GetblkEmpty, IowaitSleep, BdwaitSleep, Miss, InGetblk, InIowait, InBdwait, proc
  <2>2. QED
    BY <1>2, <2>1
<1>11. CASE Count(p)
  <2>1. pc[p] = "count" /\ Running(p) /\ UNCHANGED <<hold, blkOf>>
    BY <1>11 DEF Count, cache
  <2>2. CASE Return(p)
    BY <1>3, <2>1, <2>2 DEF Return
  <2>3. ASSUME NEW w \in {"getblk", "flush"}, Goto(p, w, call[p]) PROVE Goes(p, w, call[p])
    BY <2>1, <2>3 DEF Goes, Goto
  <2>4. QED
    BY <1>11, <2>2, <2>3 DEF Count
<1>12. CASE GetblkDelwri(p) \/ FlushNext(p)
  <2>1. /\ Running(p) /\ pc[p] \in {"getblk", "flush"}
        /\ pc' = [pc EXCEPT ![p] = "count"] /\ call' = [call EXCEPT ![p] = call[p]]
        /\ UNCHANGED <<hold, blkOf>>
    BY <1>12 DEF GetblkDelwri, FlushNext, Miss, InGetblk, InFlush, WriteBehind, Goto
  <2>2. call[p].mode = "close" => pc[p] = "flush"
    BY <1>1, <2>1 DEF Stands
  <2>3. Goes(p, "count", call[p])
    BY <2>1, <2>2 DEF Goes
  <2>4. QED
    BY <2>3
<1>13. QED
  BY <1>4, <1>5, <1>6, <1>7, <1>8, <1>9, <1>10, <1>11, <1>12 DEF Release, Step

(* While p runs nobody else stands at a buffer found, or flushes. *)
LEMMA NobodyElse ==
    ASSUME CallOK, StrandInv, NEW p \in Procs, Running(p), NEW q \in Procs \ {p}
    PROVE  pc[q] \notin {"hit", "count", "flush"}
  BY CacheAssumption DEF CallOK, StrandInv, Closing, Running

LEMMA GoesFresh ==
    ASSUME IInv, StrandInv, StoreInv, NEW p \in Procs, NEW w, NEW c, Goes(p, w, c),
           \A b \in Bufs : "STALE" \in flags'[b] => "STALE" \in flags[b]
    PROVE  HitFresh' /\ Closed'
<1>1. TypeOK /\ CallOK /\ HitFresh /\ Closed /\ \A q \in Procs : hold[q] \subseteq Bufs
  BY DEF IInv, TypeOK, StoreInv, FreshInv
<1>2. /\ pc'[p] = w /\ call'[p] = c /\ Running(p)
      /\ \A q \in Procs \ {p} : pc'[q] = pc[q] /\ call'[q] = call[q] /\ pc[q] \notin {"hit", "count", "flush"}
  BY <1>1, NobodyElse DEF Goes, TypeOK
<1>3. HitFresh'
  <2> SUFFICES ASSUME NEW q \in Procs, pc'[q] = "hit" PROVE "STALE" \notin flags'[call'[q].tgt]
    BY DEF HitFresh
  <2>1. q = p /\ GetblkScan(p)
    BY <1>2 DEF Goes
  <2>2. PICK b \in Found(Want(p)) : Goto(p, "hit", [call[p] EXCEPT !.tgt = b])
    BY <2>1 DEF GetblkScan
  <2> DEFINE d == [call[p] EXCEPT !.tgt = b]
  <2>3. d.tgt = b
    BY <1>1 DEF TypeOK, CallType
  <2>4. call' = [call EXCEPT ![p] = d]
    BY <2>2 DEF Goto
  <2> HIDE DEF d
  <2>5. call'[p].tgt = b
    BY <1>1, <2>3, <2>4 DEF TypeOK
  <2>6. b \in Bufs /\ "STALE" \notin flags[b]
    BY DEF Found
  <2>7. QED
    BY <2>1, <2>5, <2>6
<1>4. Closed'
  <2> SUFFICES ASSUME NEW q \in Procs, pc'[q] \in {"flush", "count"}, call'[q].mode = "close",
                      NEW r \in Procs, NEW b \in hold'[r], blkOf'[b] \in Blocks
               PROVE  DevOf[blkOf'[b]] # call'[q].arg
    BY DEF Closed
  <2>1. /\ q = p /\ w \in {"flush", "count"} /\ c.mode = "close"
    BY <1>2
  <2>2. UNCHANGED <<hold, blkOf>> /\ (DevIdle(c.arg) \/ (pc[p] \in {"flush", "count"} /\ c = call[p]))
    BY <2>1 DEF Goes
  <2>3. CASE DevIdle(c.arg)
    BY <1>2, <2>1, <2>2, <2>3 DEF DevIdle
  <2>4. CASE pc[p] \in {"flush", "count"} /\ c = call[p]
    BY <1>1, <1>2, <2>1, <2>2, <2>4 DEF Closed
  <2>5. QED
    BY <2>2, <2>3, <2>4
<1>5. QED
  BY <1>3, <1>4

(* binval: the buffers of the device are written or being written, and     *)
(* nobody's.                                                               *)
LEMMA BinvalStore ==
    ASSUME IInv, StrandInv, StoreInv, NEW p \in Procs, Binval(p)
    PROVE  StoreInv' /\ UNCHANGED <<blkOf, data, ioq, disk, written, hold>>
           /\ \A b \in Bufs : "DONE" \in flags'[b] <=> "DONE" \in flags[b]
<1>1. /\ TypeOK /\ CallOK /\ Buffers /\ Unfailed /\ DelayedFresh /\ HeldFresh /\ HitFresh /\ Closed /\ DataInv
      /\ free \in Seq(Bufs) /\ \A q \in Procs : hold[q] \subseteq Bufs
  BY DEF IInv, TypeOK, Buffers, StoreInv, FreshInv
<1> DEFINE d == call[p].arg
<1>2. /\ pc[p] = "flush" /\ Running(p) /\ UNCHANGED <<blkOf, data, ioq, disk, written, hold>>
      /\ pc' = [pc EXCEPT ![p] = "user"] /\ call' = [call EXCEPT ![p] = NoCall]
      /\ call[p].mode = "close" /\ \A i \in DOMAIN free : ~Dirty(p, i)
      /\ flags' = [b \in Bufs |-> flags[b] \cup (IF OnDev(b, d) THEN {"STALE", "AGE"} ELSE {})]
  BY DEF Binval, FlushOver, InFlush, Return, store
<1>3. d \in Devs /\ d # AllDevs
  BY <1>2, CacheAssumption DEF StrandInv, Closing
<1>4. \A r \in Procs : \A b \in hold[r] : blkOf[b] \in Blocks => DevOf[blkOf[b]] # d
  BY <1>1, <1>2 DEF Closed
<1> HIDE DEF d
<1>5. \A b \in Bufs : /\ \A x \in {"DONE", "READ", "DELWRI", "ERROR"} : x \in flags'[b] <=> x \in flags[b]
                      /\ "STALE" \in flags[b] => "STALE" \in flags'[b]
                      /\ "STALE" \in flags'[b] => "STALE" \in flags[b] \/ OnDev(b, d)
  BY <1>2
<1>6. Unfailed'
  BY <1>1, <1>5 DEF Unfailed
<1>7. DelayedFresh'
  <2> SUFFICES ASSUME NEW b \in Bufs, "DELWRI" \in flags[b], OnDev(b, d) PROVE FALSE
    BY <1>1, <1>5 DEF DelayedFresh
  <2>1. "DONE" \in flags[b] /\ blkOf[b] \in Blocks /\ DevOf[blkOf[b]] = d
    BY <1>1, <1>3 DEF DelayedFresh, OnDev
  <2>2. b \notin ToSet(ioq)
    BY <1>1, <2>1 DEF Buffers, HoldOK
  <2>3. \A r \in Procs : b \notin hold[r]
    BY <1>4, <2>1
  <2>4. "BUSY" \notin flags[b]
    BY <1>1, <2>2, <2>3 DEF Buffers, BusyIsOwned, AsyncIo
  <2>5. b \in ToSet(free)
    BY <1>1, <2>4 DEF Buffers, FreeIffIdle
  <2>6. PICK i \in DOMAIN free : free[i] = b
    BY <1>1, <2>5 DEF ToSet
  <2>7. QED
    BY <1>2, <2>6 DEF Dirty, d
<1>8. HeldFresh'
  <2> SUFFICES ASSUME NEW q \in Procs, NEW b \in hold[q], blkOf[b] \in Blocks PROVE "STALE" \notin flags'[b]
    BY <1>2 DEF HeldFresh
  <2>1. ~OnDev(b, d)
    BY <1>3, <1>4 DEF OnDev
  <2>2. QED
    BY <1>1, <1>5, <2>1 DEF HeldFresh
<1>9. HitFresh' /\ Closed'
  <2>1. \A q \in Procs : pc'[q] \notin {"hit", "flush", "count"}
    <3>1. /\ pc'[p] = "user"
          /\ \A q \in Procs \ {p} : pc'[q] = pc[q] /\ pc[q] \notin {"hit", "count", "flush"}
      BY <1>1, <1>2, NobodyElse DEF TypeOK
    <3>2. QED
      BY <3>1
  <2>2. QED
    BY <2>1 DEF HitFresh, Closed
<1>10. DataInv'
  <2>1. \A b \in Bufs : Alike(b)
    BY <1>2, <1>5 DEF Alike
  <2>2. QED
    BY <1>1, <1>2, <2>1, DataCalm
<1>11. QED
  BY <1>2, <1>5, <1>6, <1>7, <1>8, <1>9, <1>10 DEF StoreInv, FreshInv

(* Every step but binval is of one of the kinds. *)
LEMMA ActorMoved ==
    ASSUME IInv, StoreInv, NEW p \in Procs, EnterCall(p) \/ Release(p) \/ Step(p), ~Binval(p)
    PROVE  Moved
<1>1. TypeOK /\ Unfailed /\ FreshInv
  BY DEF IInv, StoreInv, FreshInv
<1>2. CASE EnterCall(p)
  BY <1>2, EnterIdles DEF Moved
<1>3. CASE Release(p)
  BY <1>1, <1>3, GivesSteps, WriteModifies DEF Release, Moved
<1>4. CASE GetblkDelwri(p)
  <2>1. free \in Seq(Bufs) /\ free # << >> /\ "DELWRI" \in flags[Head(free)] /\ WriteBehind(p, 1)
    BY <1>1, <1>4 DEF TypeOK, GetblkDelwri, Delayed
  <2>2. 1 \in DOMAIN free /\ Head(free) = free[1] /\ free[1] \in Bufs
    BY <2>1, TailFacts
  <2>3. QED
    BY <2>1, <2>2, BehindWrites DEF Moved
<1>5. CASE FlushNext(p)
  <2>1. PICK i \in DOMAIN free : "DELWRI" \in flags[free[i]] /\ WriteBehind(p, i)
    BY <1>5 DEF FlushNext, Dirty
  <2>2. free[i] \in Bufs
    BY <1>1 DEF TypeOK
  <2>3. QED
    BY <2>1, <2>2, BehindWrites DEF Moved
<1>6. CASE GetblkHit(p) \/ GetblkReuse(p)
  BY <1>6, GetblkKinds DEF Moved
<1>7. CASE IowaitWrite(p)
  BY <1>1, <1>7, GivesSteps DEF Moved
<1>8. CASE MovesOn(p) \/ GetblkBusy(p)
  BY <1>1, <1>8, StepIdles DEF Moved
<1>9. QED
  BY <1>2, <1>3, <1>4, <1>5, <1>6, <1>7, <1>8 DEF Step, MovesOn

LEMMA StoreNext == IInv /\ IInv' /\ StrandInv /\ StoreInv /\ errs' = 0 /\ Next => StoreInv'
<1> SUFFICES ASSUME IInv, IInv', StrandInv, StoreInv, errs' = 0, Next PROVE StoreInv'
  OBVIOUS
<1>1. TypeOK /\ TypeOK' /\ CallOK
  BY DEF IInv
<1>2. ASSUME Moved, HitFresh' /\ Closed' PROVE StoreInv'
  BY <1>1, <1>2, MovedData, MovedFresh DEF StoreInv, FreshInv
<1>3. ASSUME NEW p \in Procs, EnterCall(p) \/ Release(p) \/ Step(p) PROVE StoreInv'
  <2>1. CASE Binval(p)
    BY <2>1, BinvalStore
  <2>2. CASE ~Binval(p)
    <3>1. Moved
      BY <1>3, <2>2, ActorMoved
    <3>2. PICK w, c : Goes(p, w, c)
      BY <1>1, <1>3, ActorGoes
    <3>3. HitFresh' /\ Closed'
      BY <3>1, <3>2, MovedFresh, GoesFresh
    <3>4. QED
      BY <1>2, <3>1, <3>3
  <2>3. QED
    BY <2>1, <2>2
<1>4. ASSUME NEW i \in DOMAIN ioq, TransferOk(i) PROVE StoreInv'
  <2>1. Completes(i)
    BY <1>4, TransferCompletes
  <2>2. Moved
    BY <2>1 DEF Moved
  <2>3. UNCHANGED <<pc, call, hold, blkOf>>
    BY <1>4 DEF TransferOk, Serve, proc
  <2>4. \A b \in Bufs : "STALE" \in flags'[b] => "STALE" \in flags[b]
    BY <2>2, MovedFresh
  <2>5. \A q \in Procs : pc[q] = "hit" => call[q].tgt \in Bufs
    BY <1>1 DEF CallOK, Stands
  <2>6. HitFresh' /\ Closed'
    BY <2>3, <2>4, <2>5 DEF HitFresh, Closed, StoreInv, FreshInv
  <2>7. QED
    BY <1>2, <2>2, <2>6
<1>5. ASSUME NEW i \in DOMAIN ioq PROVE ~TransferFails(i)
  <2> SUFFICES ASSUME TransferFails(i) PROVE FALSE
    OBVIOUS
  <2>1. errs' = errs + 1 /\ errs \in Nat
    BY <1>1 DEF TransferFails, TypeOK
  <2>2. QED
    BY <2>1
<1>6. QED
  BY <1>3, <1>4, <1>5 DEF Next, Interrupt

LEMMA StoreUnchanged == StoreInv /\ UNCHANGED vars => StoreInv'
<1> SUFFICES ASSUME StoreInv, UNCHANGED vars PROVE StoreInv'
  OBVIOUS
<1>1. UNCHANGED <<flags, blkOf, data, ioq, disk, written, pc, call, hold>>
  BY DEF vars, cache, store, proc
<1>2. FreshInv'
  BY <1>1 DEF StoreInv, FreshInv, Unfailed, DelayedFresh, HeldFresh, HitFresh, Closed
<1>3. DataInv'
  BY <1>1 DEF StoreInv, DataInv, NewestIn, Between, WritesInOrder, ReadLast, Kept, Queued
<1>4. QED
  BY <1>2, <1>3 DEF StoreInv

LEMMA InitStore == Init => StoreInv
<1> SUFFICES ASSUME Init PROVE StoreInv
  OBVIOUS
<1>1. /\ flags = [b \in Bufs |-> {}] /\ blkOf = [b \in Bufs |-> NoBlk] /\ ioq = << >>
      /\ disk = [k \in Blocks |-> 0] /\ written = [k \in Blocks |-> 0]
      /\ \A p \in Procs : pc[p] = "user" /\ hold[p] = {}
      /\ NoBlk \notin Blocks
  BY CacheAssumption DEF Init
<1>2. FreshInv
  BY <1>1 DEF FreshInv, Unfailed, DelayedFresh, HeldFresh, HitFresh, Closed
<1>3. DOMAIN ioq = {}
  BY <1>1
<1>4. DataInv
  BY <1>1, <1>3 DEF DataInv, NewestIn, Between, WritesInOrder, ReadLast, Kept
<1>5. QED
  BY <1>2, <1>4 DEF StoreInv

(* As long as no transfer fails. *)
LEMMA StoreInvariance == Spec /\ [](errs = 0) => [](IInv /\ StrandInv /\ StoreInv)
<1>1. IInv /\ IInv' /\ StrandInv /\ StoreInv /\ (errs = 0)' /\ [Next]_vars => StoreInv'
  BY StoreNext, StoreUnchanged
<1>2. IInv /\ WakeInv /\ StrandInv /\ [Next]_vars => StrandInv'
  BY StrandNext, StrandUnchanged
<1>3. QED
  BY WakeInvariance, InitStrand, InitStore, <1>1, <1>2, PTL DEF Spec

-----------------------------------------------------------------------------
(* The refinement mapping: who has a block, and what it sees there.        *)
View(k) == IF Holder(k) # {} /\ "DONE" \in flags[HeldBuf(k)] THEN data[HeldBuf(k)] ELSE Garbage
Shown(b) == IF "DONE" \in flags[b] THEN data[b] ELSE Garbage
Has(p, b, k) == b \in hold[p] /\ blkOf[b] = k

(* A block is had by way of one buffer, by one process. *)
OneHolder ==
    \A k \in Blocks :
        /\ \A p, q \in Procs : \A b, c \in Bufs : Has(p, b, k) /\ Has(q, c, k) => b = c
        /\ \A p \in Procs : \A b \in Bufs : Has(p, b, k) => Holder(k) = {p} /\ View(k) = Shown(b)
        /\ (\A p \in Procs : \A b \in Bufs : ~Has(p, b, k)) => Holder(k) = {} /\ View(k) = Garbage

LEMMA OneHolderHolds == IInv /\ StoreInv => OneHolder
<1> SUFFICES ASSUME IInv, StoreInv, NEW k \in Blocks
             PROVE  /\ \A p, q \in Procs : \A b, c \in Bufs : Has(p, b, k) /\ Has(q, c, k) => b = c
                    /\ \A p \in Procs : \A b \in Bufs :
                         Has(p, b, k) => Holder(k) = {p} /\ View(k) = Shown(b)
                    /\ (\A p \in Procs : \A b \in Bufs : ~Has(p, b, k)) =>
                         Holder(k) = {} /\ View(k) = Garbage
  BY DEF OneHolder
<1>1. HoldOK /\ UniqueBlock /\ HeldFresh /\ \A p \in Procs : hold[p] \subseteq Bufs
  BY DEF IInv, TypeOK, StoreInv, FreshInv
<1>2. ASSUME NEW p \in Procs, NEW q \in Procs, NEW b \in Bufs, NEW c \in Bufs, Has(p, b, k), Has(q, c, k)
      PROVE  b = c /\ q = p
  <2>1. b \in Found(k) /\ c \in Found(k)
    BY <1>1, <1>2 DEF Has, Found, HeldFresh
  <2>2. b = c
    BY <1>1, <2>1 DEF UniqueBlock
  <2>3. QED
    BY <1>1, <1>2, <2>2 DEF Has, HoldOK
<1>3. ASSUME NEW p \in Procs, NEW b \in Bufs, Has(p, b, k)
      PROVE  Holder(k) = {p} /\ View(k) = Shown(b)
  <2>1. Holder(k) = {p}
    BY <1>1, <1>2, <1>3 DEF Holder, Has
  <2>2. /\ b \in UNION {hold[q] : q \in Procs} /\ blkOf[b] = k
        /\ \A c \in UNION {hold[q] : q \in Procs} : blkOf[c] = k => c = b
    BY <1>1, <1>2, <1>3 DEF Has
  <2>3. HeldBuf(k) = b
    BY <2>2 DEF HeldBuf
  <2>4. QED
    BY <2>1, <2>3 DEF View, Shown
<1>4. ASSUME \A p \in Procs : \A b \in Bufs : ~Has(p, b, k)
      PROVE  Holder(k) = {} /\ View(k) = Garbage
  <2>1. Holder(k) = {}
    BY <1>1, <1>4 DEF Holder, Has
  <2>2. QED
    BY <2>1 DEF View
<1>5. QED
  BY <1>2, <1>3, <1>4
-----------------------------------------------------------------------------
(* What the callers see of a step: at most one block changes, by one of    *)
(* the actions of BlockStore.                                              *)
SameSight(k) == Holder(k)' = Holder(k) /\ View(k)' = View(k)
SameWords(k) == written'[k] = written[k] /\ disk'[k] = disk[k]
Same(k) == SameSight(k) /\ SameWords(k)

TakenAt(k) ==
    /\ Holder(k) = {} /\ (\E p \in Procs : Holder(k)' = {p})
    /\ View(k)' \in {View(k), written[k]} /\ SameWords(k)
SeenAt(k) ==
    /\ Holder(k) # {} /\ Holder(k)' = Holder(k) /\ View(k)' = written[k]
    /\ written'[k] = written[k] /\ disk'[k] \in {disk[k], written[k]}
WrittenAt(k) ==
    /\ Holder(k) # {} /\ Holder(k)' \in {Holder(k), {}} /\ View(k)' = Garbage
    /\ written'[k] = written[k] + 1 /\ disk'[k] = disk[k]
GivenAt(k) ==
    Holder(k) # {} /\ Holder(k)' = {} /\ View(k)' = Garbage /\ SameWords(k)
SettledAt(k) ==
    SameSight(k) /\ written'[k] = written[k] /\ disk'[k] \in (disk[k] + 1)..written[k]

StepAt(k) ==
    /\ \A l \in Blocks \ {k} : Same(l)
    /\ Same(k) \/ TakenAt(k) \/ SeenAt(k) \/ WrittenAt(k) \/ GivenAt(k) \/ SettledAt(k)

Visibly == (\A k \in Blocks : Same(k)) \/ \E k \in Blocks : StepAt(k)

Owners == [k \in Blocks |-> Holder(k)]
Views == [k \in Blocks |-> View(k)]

LEMMA VarsSame ==
    ASSUME TypeOK, TypeOK', \A k \in Blocks : Same(k)
    PROVE  UNCHANGED Store!vars
<1>1. Owners' = Owners /\ Views' = Views
  BY DEF Owners, Views, Same, SameSight
<1>2. written' = written /\ disk' = disk
  BY DEF TypeOK, Same, SameWords
<1>3. QED
  BY <1>1, <1>2 DEF Store!vars, Owners, Views, View

LEMMA VisibleSteps ==
    ASSUME TypeOK, TypeOK', Visibly
    PROVE  [Store!Next]_(Store!vars)
<1>1. CASE \A k \in Blocks : Same(k)
  BY <1>1, VarsSame
<1>2. ASSUME NEW k \in Blocks, StepAt(k) PROVE [Store!Next]_(Store!vars)
  <2>1. /\ written' = [written EXCEPT ![k] = written'[k]]
        /\ disk' = [disk EXCEPT ![k] = disk'[k]]
        /\ written = [written EXCEPT ![k] = written[k]]
        /\ disk = [disk EXCEPT ![k] = disk[k]]
    BY <1>2 DEF StepAt, Same, SameWords, TypeOK
  <2>2. /\ Owners' = [Owners EXCEPT ![k] = Holder(k)']
        /\ Views' = [Views EXCEPT ![k] = View(k)']
        /\ Owners = [Owners EXCEPT ![k] = Holder(k)]
        /\ Views = [Views EXCEPT ![k] = View(k)]
        /\ Owners[k] = Holder(k) /\ Views[k] = View(k)
    BY <1>2 DEF StepAt, Same, SameSight, Owners, Views
  <2>3. CASE Same(k)
    BY <1>2, <2>3, VarsSame DEF StepAt
  <2>4. CASE TakenAt(k)
    <3>1. PICK p \in Procs : Holder(k)' = {p}
      BY <2>4 DEF TakenAt
    <3>2. /\ Owners[k] = {} /\ Owners' = [Owners EXCEPT ![k] = {p}]
          /\ Views' \in {Views, [Views EXCEPT ![k] = written[k]]}
          /\ written' = written /\ disk' = disk
      BY <2>1, <2>2, <2>4, <3>1 DEF TakenAt, SameWords
    <3>3. Store!Take(p, k)
      BY <3>2 DEF Store!Take, Owners, Views, View
    <3>4. QED
      BY <3>3 DEF Store!Next
  <2>5. CASE SeenAt(k)
    <3>1. /\ Owners[k] # {} /\ Owners' = Owners /\ Views' = [Views EXCEPT ![k] = written[k]]
          /\ written' = written /\ disk' \in {disk, [disk EXCEPT ![k] = written[k]]}
      BY <2>1, <2>2, <2>5 DEF SeenAt
    <3>2. Store!See(k)
      BY <3>1 DEF Store!See, Owners, Views, View
    <3>3. QED
      BY <3>2 DEF Store!Next
  <2>6. CASE WrittenAt(k)
    <3>1. /\ Owners[k] # {} /\ Owners' \in {Owners, [Owners EXCEPT ![k] = {}]}
          /\ Views' = [Views EXCEPT ![k] = Garbage]
          /\ written' = [written EXCEPT ![k] = written[k] + 1] /\ disk' = disk
      BY <2>1, <2>2, <2>6 DEF WrittenAt
    <3>2. Store!Write(k)
      BY <3>1 DEF Store!Write, Owners, Views, View
    <3>3. QED
      BY <3>2 DEF Store!Next
  <2>7. CASE GivenAt(k)
    <3>1. /\ Owners[k] # {} /\ Owners' = [Owners EXCEPT ![k] = {}]
          /\ Views' = [Views EXCEPT ![k] = Garbage] /\ written' = written /\ disk' = disk
      BY <2>1, <2>2, <2>7 DEF GivenAt, SameWords
    <3>2. Store!Give(k)
      BY <3>1 DEF Store!Give, Owners, Views, View
    <3>3. QED
      BY <3>2 DEF Store!Next
  <2>8. CASE SettledAt(k)
    <3>1. /\ Owners' = Owners /\ Views' = Views /\ written' = written
          /\ disk' \in {[disk EXCEPT ![k] = v] : v \in (disk[k] + 1)..written[k]}
      BY <2>1, <2>2, <2>8 DEF SettledAt, SameSight
    <3>2. Store!Settle(k)
      BY <3>1 DEF Store!Settle, Owners, Views, View
    <3>3. QED
      BY <3>2 DEF Store!Next
  <2>9. QED
    BY <1>2, <2>3, <2>4, <2>5, <2>6, <2>7, <2>8 DEF StepAt
<1>3. QED
  BY <1>1, <1>2 DEF Visibly

-----------------------------------------------------------------------------
(* What each kind of step does to the blocks.                              *)
Facts == IInv /\ StoreInv /\ OneHolder

(* A block nobody gets or gives, in buffers that show the same, is seen    *)
(* the same.                                                               *)
LEMMA SeenElsewhere ==
    ASSUME OneHolder, OneHolder', NEW k \in Blocks,
           \A q \in Procs : \A c \in Bufs : Has(q, c, k) <=> Has(q, c, k)',
           \A q \in Procs : \A c \in Bufs : Has(q, c, k) => Shown(c)' = Shown(c)
    PROVE  SameSight(k)
<1>1. ASSUME NEW q \in Procs, NEW c \in Bufs, Has(q, c, k) PROVE SameSight(k)
  <2>1. Holder(k) = {q} /\ View(k) = Shown(c)
    BY <1>1 DEF OneHolder
  <2>2. Has(q, c, k)'
    BY <1>1
  <2>3. Holder(k)' = {q} /\ View(k)' = Shown(c)'
    BY <2>2 DEF OneHolder
  <2>4. QED
    BY <1>1, <2>1, <2>3 DEF SameSight
<1>2. CASE \A q \in Procs : \A c \in Bufs : ~Has(q, c, k)
  <2>1. Holder(k) = {} /\ View(k) = Garbage
    BY <1>2 DEF OneHolder
  <2>2. \A q \in Procs : \A c \in Bufs : ~Has(q, c, k)'
    BY <1>2
  <2>3. Holder(k)' = {} /\ View(k)' = Garbage
    BY <2>2 DEF OneHolder
  <2>4. QED
    BY <2>1, <2>3 DEF SameSight
<1>3. QED
  BY <1>1, <1>2

LEMMA StillShown == \A c : Still(c) => Shown(c)' = Shown(c)
  BY DEF Still, Shown

(* The buffer that changes is nobody's, before and after. *)
LEMMA QuietSight ==
    ASSUME Facts, Facts', NEW b \in Bufs, Rest(b), hold' = hold,
           \A q \in Procs : b \notin hold[q]
    PROVE  \A k \in Blocks : SameSight(k)
<1>1. \A c \in Bufs \ {b} : Shown(c)' = Shown(c) /\ blkOf'[c] = blkOf[c]
  BY StillShown DEF Rest, Still
<1> SUFFICES ASSUME NEW k \in Blocks PROVE SameSight(k)
  OBVIOUS
<1>2. \A q \in Procs : \A c \in Bufs : Has(q, c, k) <=> Has(q, c, k)'
  BY <1>1 DEF Has
<1>3. \A q \in Procs : \A c \in Bufs : Has(q, c, k) => Shown(c)' = Shown(c)
  BY <1>1 DEF Has
<1>4. QED
  BY <1>2, <1>3, SeenElsewhere DEF Facts

LEMMA IdlesVisibly ==
    ASSUME Facts, Facts', (\A b \in Bufs : Shown(b)' = Shown(b)),
           UNCHANGED <<blkOf, hold, disk, written>>
    PROVE  Visibly
<1> SUFFICES ASSUME NEW k \in Blocks PROVE Same(k)
  BY DEF Visibly
<1>1. \A q \in Procs : \A c \in Bufs : Has(q, c, k) <=> Has(q, c, k)'
  BY DEF Has
<1>2. SameSight(k)
  BY <1>1, SeenElsewhere DEF Facts
<1>3. QED
  BY <1>2 DEF Same, SameWords

(* p gets or gives b, or has it. *)
Swaps(p, b) ==
    /\ Rest(b) /\ hold'[p] \ {b} = hold[p] \ {b}
    /\ \A q \in Procs \ {p} : hold'[q] = hold[q] /\ b \notin hold[q]

LEMMA OtherBlocks ==
    ASSUME Facts, Facts', NEW p \in Procs, NEW b \in Bufs, Swaps(p, b), NEW k,
           b \in hold[p] => blkOf[b] = k, b \in hold'[p] => blkOf'[b] = k
    PROVE  \A l \in Blocks : l # k => SameSight(l)
<1> SUFFICES ASSUME NEW l \in Blocks, l # k PROVE SameSight(l)
  OBVIOUS
<1>1. \A c \in Bufs \ {b} : Shown(c)' = Shown(c) /\ blkOf'[c] = blkOf[c]
  BY StillShown DEF Swaps, Rest, Still
<1>2. \A q \in Procs : ~Has(q, b, l) /\ ~Has(q, b, l)'
  BY DEF Swaps, Has
<1>3. \A q \in Procs : \A c \in Bufs \ {b} : c \in hold[q] <=> c \in hold'[q]
  BY DEF Swaps
<1>4. \A q \in Procs : \A c \in Bufs : Has(q, c, l) <=> Has(q, c, l)'
  BY <1>1, <1>2, <1>3 DEF Has
<1>5. \A q \in Procs : \A c \in Bufs : Has(q, c, l) => Shown(c)' = Shown(c)
  BY <1>1, <1>2
<1>6. QED
  BY <1>4, <1>5, SeenElsewhere DEF Facts

LEMMA HeldAlone ==
    ASSUME Facts, NEW p \in Procs, NEW b \in hold[p]
    PROVE  b \in Bufs /\ \A q \in Procs \ {p} : b \notin hold[q]
  BY DEF Facts, IInv, TypeOK, HoldOK

(* p gives the buffer b back. *)
LEMMA GivesVisibly ==
    ASSUME Facts, Facts', NEW p \in Procs, NEW b \in Bufs, Gives(p, b)
    PROVE  Visibly
<1> DEFINE h == hold[p] \ {b}
<1>0. PICK k : k = blkOf[b]
  OBVIOUS
<1>1. /\ b \in hold[p] /\ hold' = [hold EXCEPT ![p] = h] /\ Rest(b) /\ UNCHANGED <<disk, written>>
      /\ \A c \in Bufs : Still(c)
  BY <1>0 DEF Gives, Rest
<1>2. \A q \in Procs \ {p} : b \notin hold[q]
  BY <1>0, <1>1, HeldAlone
<1>3. hold'[p] = h /\ \A q \in Procs \ {p} : hold'[q] = hold[q]
  BY <1>1 DEF Facts, IInv, TypeOK
<1>4. h \ {b} = hold[p] \ {b} /\ b \notin h
  OBVIOUS
<1> HIDE DEF h
<1>5. \A l \in Blocks : l # k => Same(l)
  <2>1. Swaps(p, b) /\ b \notin hold'[p]
    BY <1>1, <1>2, <1>3, <1>4 DEF Swaps
  <2>2. QED
    BY <1>0, <1>1, <2>1, OtherBlocks DEF Same, SameWords
<1>6. CASE k \notin Blocks
  BY <1>5, <1>6 DEF Visibly
<1>7. CASE k \in Blocks
  <2>1. Holder(k) # {} /\ \A q \in Procs : \A c \in Bufs : Has(q, c, k) => c = b
    BY <1>0, <1>1, <1>7 DEF Facts, OneHolder, Has
  <2>2. \A q \in Procs : \A c \in Bufs : ~Has(q, c, k)'
    BY <1>0, <1>1, <1>2, <1>3, <1>4, <2>1 DEF Has, Still
  <2>3. Holder(k)' = {} /\ View(k)' = Garbage
    BY <1>7, <2>2 DEF Facts, OneHolder
  <2>4. GivenAt(k)
    BY <1>0, <1>1, <2>1, <2>3 DEF GivenAt, SameWords
  <2>5. StepAt(k)
    BY <1>5, <2>4 DEF StepAt
  <2>6. QED
    BY <1>7, <2>5 DEF Visibly
<1>8. QED
  BY <1>6, <1>7

(* p gets the buffer b, as it is or for another block. *)
LEMMA GetsVisibly ==
    ASSUME Facts, Facts', NEW p \in Procs, NEW b \in Bufs, b \in ToSet(free), Rest(b),
           hold' = [hold EXCEPT ![p] = hold[p] \cup {b}], UNCHANGED <<disk, written>>
    PROVE  Visibly
<1> DEFINE h == hold[p] \cup {b}
<1>0. PICK k : k = blkOf'[b]
  OBVIOUS
<1>1. \A q \in Procs : b \notin hold[q]
  BY DEF Facts, IInv, FreeIffIdle, HoldOK
<1>2. hold'[p] = h /\ \A q \in Procs \ {p} : hold'[q] = hold[q]
  BY DEF Facts, IInv, TypeOK
<1>3. h \ {b} = hold[p] \ {b} /\ b \in h /\ hold' = [hold EXCEPT ![p] = h]
  OBVIOUS
<1> HIDE DEF h
<1>4. \A l \in Blocks : l # k => Same(l)
  <2>1. Swaps(p, b) /\ b \notin hold[p]
    BY <1>1, <1>2, <1>3 DEF Swaps
  <2>2. QED
    BY <1>0, <2>1, OtherBlocks DEF Same, SameWords
<1>5. CASE k \notin Blocks
  BY <1>4, <1>5 DEF Visibly
<1>6. CASE k \in Blocks
  <2>1. Has(p, b, k)'
    BY <1>0, <1>2, <1>3 DEF Has
  <2>2. ASSUME NEW q \in Procs, NEW c \in Bufs, Has(q, c, k) PROVE FALSE
    <3>1. c # b /\ blkOf'[c] = blkOf[c]
      BY <1>0, <1>1, <2>2 DEF Has, Rest, Still
    <3>2. c \in hold'[q]
      BY <1>2, <1>3, <2>2, <3>1 DEF Has
    <3>3. Has(q, c, k)'
      BY <2>2, <3>1, <3>2 DEF Has
    <3>4. c = b
      BY <1>6, <2>1, <3>3 DEF Facts, OneHolder
    <3>5. QED
      BY <3>1, <3>4
  <2>3. Holder(k) = {} /\ View(k) = Garbage
    BY <1>6, <2>2 DEF Facts, OneHolder
  <2>4. Holder(k)' = {p} /\ View(k)' = Shown(b)'
    BY <1>6, <2>1 DEF Facts, OneHolder
  <2>5. "DONE" \in flags'[b] => data'[b] = written'[k]
    <3>1. "STALE" \notin flags'[b]
      BY <1>0, <1>2, <1>3, <1>6 DEF Facts, StoreInv, FreshInv, HeldFresh
    <3>2. QED
      BY <1>0, <1>6, <3>1 DEF Facts, StoreInv, DataInv, NewestIn
  <2>6. View(k)' \in {Garbage, written[k]}
    BY <2>4, <2>5 DEF Shown
  <2>7. TakenAt(k)
    BY <2>3, <2>4, <2>6 DEF TakenAt, SameWords
  <2>8. StepAt(k)
    BY <1>4, <2>7 DEF StepAt
  <2>9. QED
    BY <1>6, <2>8 DEF Visibly
<1>7. QED
  BY <1>5, <1>6

(* p writes its buffer b. *)
LEMMA ModifiesVisibly ==
    ASSUME Facts, Facts', NEW p \in Procs, NEW b \in Bufs, Modifies(p, b)
    PROVE  Visibly
<1>0. PICK k : k = blkOf[b]
  OBVIOUS
<1>1. /\ b \in hold[p] /\ Rest(b) /\ k \in Blocks /\ blkOf' = blkOf /\ disk' = disk
      /\ written' = [written EXCEPT ![k] = written[k] + 1]
  BY <1>0 DEF Modifies, Writes
<1>2. PICK h : /\ hold' = [hold EXCEPT ![p] = h]
               /\ h = hold[p] \ {b} \/ (h = hold[p] /\ "DONE" \notin flags'[b])
  <2>1. hold = [hold EXCEPT ![p] = hold[p]]
    BY DEF Facts, IInv, TypeOK
  <2>2. QED
    BY <2>1 DEF Modifies
<1>3. \A q \in Procs \ {p} : b \notin hold[q]
  BY <1>0, <1>1, HeldAlone
<1>4. hold'[p] = h /\ \A q \in Procs \ {p} : hold'[q] = hold[q]
  BY <1>2 DEF Facts, IInv, TypeOK
<1>5. h \ {b} = hold[p] \ {b} /\ \A c \in h : c = b \/ c \in hold[p]
  BY <1>2
<1>6. written'[k] = written[k] + 1 /\ \A l \in Blocks : l # k => written'[l] = written[l]
  BY <1>1 DEF Facts, IInv, TypeOK
<1>7. \A l \in Blocks : l # k => Same(l)
  <2>1. Swaps(p, b)
    BY <1>1, <1>3, <1>4, <1>5 DEF Swaps
  <2>2. \A l \in Blocks : l # k => SameSight(l)
    BY <1>0, <1>1, <2>1, OtherBlocks
  <2>3. QED
    BY <1>1, <1>6, <2>2 DEF Same, SameWords
<1>8. Holder(k) = {p} /\ \A q \in Procs : \A c \in Bufs : Has(q, c, k) => c = b
  BY <1>0, <1>1 DEF Facts, OneHolder, Has
<1>9. Holder(k)' \in {{p}, {}} /\ View(k)' = Garbage
  <2>1. CASE b \notin h
    <3>1. \A q \in Procs : \A c \in Bufs : ~Has(q, c, k)'
      BY <1>0, <1>1, <1>3, <1>4, <1>5, <1>8, <2>1 DEF Has
    <3>2. QED
      BY <1>0, <1>1, <3>1 DEF Facts, OneHolder
  <2>2. CASE b \in h
    <3>1. Has(p, b, k)' /\ "DONE" \notin flags'[b]
      BY <1>0, <1>1, <1>2, <1>4, <2>2 DEF Has
    <3>2. QED
      BY <1>0, <1>1, <3>1 DEF Facts, OneHolder, Shown
  <2>3. QED
    BY <2>1, <2>2
<1>10. WrittenAt(k)
  BY <1>0, <1>1, <1>6, <1>8, <1>9 DEF WrittenAt
<1>11. StepAt(k)
  BY <1>7, <1>10 DEF StepAt
<1>12. QED
  BY <1>0, <1>1, <1>11 DEF Visibly

(* A transfer ends. *)
LEMMA CompletesVisibly ==
    ASSUME Facts, Facts', NEW i \in DOMAIN ioq, Completes(i)
    PROVE  Visibly
<1>0. PICK b, k : b = ioq[i] /\ k = blkOf[b]
  OBVIOUS
<1>1. b \in Bufs /\ k \in Blocks /\ ("READ" \notin flags[b] => data[b] \in Nat)
  BY <1>0 DEF Facts, IInv, TypeOK, HoldOK, ToSet
<1>2. /\ Rest(b) /\ hold' = hold /\ blkOf' = blkOf /\ written' = written /\ "DONE" \in flags'[b]
      /\ IF "READ" \in flags[b]
         THEN data'[b] = disk[k] /\ disk' = disk
         ELSE data'[b] = data[b] /\ disk' = [disk EXCEPT ![k] = data[b]]
  BY <1>0 DEF Completes, Ends
<1>3. "READ" \notin flags[b] => disk[k] <= data[b] /\ data[b] <= written[k]
  BY <1>0 DEF Facts, StoreInv, DataInv, Between, IsWrite
<1>4. /\ \A l \in Blocks : l # k => SameWords(l)
      /\ disk'[k] = (IF "READ" \in flags[b] THEN disk[k] ELSE data[b]) /\ written'[k] = written[k]
      /\ disk[k] \in Nat /\ written[k] \in Nat
  BY <1>0, <1>1, <1>2 DEF SameWords, Facts, IInv, TypeOK
<1>5. CASE \A q \in Procs : b \notin hold[q]
  <2>1. \A l \in Blocks : SameSight(l)
    BY <1>0, <1>1, <1>2, <1>5, QuietSight
  <2>2. disk'[k] = disk[k] \/ disk'[k] \in (disk[k] + 1)..written[k]
    BY <1>0, <1>1, <1>3, <1>4
  <2>3. SettledAt(k) \/ Same(k)
    BY <1>0, <1>1, <1>4, <2>1, <2>2 DEF SettledAt, Same, SameWords
  <2>4. StepAt(k)
    BY <1>4, <2>1, <2>3 DEF StepAt, Same
  <2>5. QED
    BY <1>0, <1>1, <2>4 DEF Visibly
<1>6. ASSUME NEW p \in Procs, b \in hold[p] PROVE Visibly
  <2>1. Has(p, b, k) /\ Has(p, b, k)'
    BY <1>0, <1>2, <1>6 DEF Has
  <2>2. Holder(k) = {p} /\ Holder(k)' = {p} /\ View(k)' = data'[b]
    BY <1>0, <1>1, <1>2, <2>1 DEF Facts, OneHolder, Shown
  <2>3. data'[b] = written[k]
    <3>1. "STALE" \notin flags'[b]
      BY <1>0, <1>1, <1>2, <1>6 DEF Facts, StoreInv, FreshInv, HeldFresh
    <3>2. QED
      BY <1>0, <1>1, <1>2, <3>1 DEF Facts, StoreInv, DataInv, NewestIn
  <2>4. SeenAt(k)
    BY <1>2, <1>4, <2>2, <2>3 DEF SeenAt
  <2>5. \A l \in Blocks : l # k => SameSight(l)
    <3>1. Swaps(p, b)
      BY <1>2, <1>6, HeldAlone DEF Swaps
    <3>2. QED
      BY <1>0, <1>1, <1>2, <3>1, OtherBlocks
  <2>6. StepAt(k)
    BY <1>4, <2>4, <2>5 DEF StepAt, Same
  <2>7. QED
    BY <1>0, <1>1, <2>6 DEF Visibly
<1>7. QED
  BY <1>5, <1>6

LEMMA MovedVisibly ==
    ASSUME Facts, Facts', Moved
    PROVE  Visibly
<1>1. ASSUME NEW b \in Bufs, b \in ToSet(free) PROVE \A q \in Procs : b \notin hold[q]
  BY <1>1 DEF Facts, IInv, FreeIffIdle, HoldOK
<1>2. ASSUME NEW b \in Bufs, b \in ToSet(free), Rest(b), hold' = hold, UNCHANGED <<disk, written>>
      PROVE  Visibly
  <2>1. \A k \in Blocks : SameSight(k)
    BY <1>1, <1>2, QuietSight
  <2>2. QED
    BY <1>2, <2>1 DEF Visibly, Same, SameWords
<1>3. CASE Idles
  <2>1. blkOf' = blkOf
    BY <1>3 DEF Idles, Still, Facts, IInv, TypeOK
  <2>2. QED
    BY <1>3, <2>1, StillShown, IdlesVisibly DEF Idles
<1>4. ASSUME NEW p \in Procs, NEW b \in Bufs, Gives(p, b) \/ Modifies(p, b) PROVE Visibly
  BY <1>4, GivesVisibly, ModifiesVisibly
<1>5. ASSUME NEW p \in Procs, NEW b \in Bufs, Gets(p, b) PROVE Visibly
  <2>1. b \in ToSet(free) /\ Rest(b) /\ hold' = [hold EXCEPT ![p] = hold[p] \cup {b}]
        /\ UNCHANGED <<disk, written>>
    BY <1>5 DEF Gets, Rest
  <2>2. QED
    BY <2>1, GetsVisibly
<1>6. ASSUME NEW p \in Procs, NEW b \in Bufs, Fills(p, b) PROVE Visibly
  <2>1. /\ b \in ToSet(free) /\ Rest(b) /\ UNCHANGED <<disk, written>>
        /\ hold' = hold \/ hold' = [hold EXCEPT ![p] = hold[p] \cup {b}]
    BY <1>6 DEF Fills, Fetches
  <2>2. CASE hold' = hold
    BY <1>2, <2>1, <2>2
  <2>3. CASE hold' = [hold EXCEPT ![p] = hold[p] \cup {b}]
    BY <2>1, <2>3, GetsVisibly
  <2>4. QED
    BY <2>1, <2>2, <2>3
<1>7. ASSUME NEW b \in Bufs, Behind(b) PROVE Visibly
  BY <1>2, <1>7 DEF Behind, Writes
<1>8. ASSUME NEW i \in DOMAIN ioq, Completes(i) PROVE Visibly
  BY <1>8, CompletesVisibly
<1>9. QED
  BY <1>3, <1>4, <1>5, <1>6, <1>7, <1>8 DEF Moved

LEMMA StoreStep ==
    Facts /\ Facts' /\ StrandInv /\ errs' = 0 /\ [Next]_vars => [Store!Next]_(Store!vars)
<1> SUFFICES ASSUME Facts, Facts', StrandInv, errs' = 0, [Next]_vars PROVE Visibly
  BY VisibleSteps DEF Facts, IInv
<1>1. CASE UNCHANGED vars
  BY <1>1, IdlesVisibly DEF vars, cache, store, proc, Shown
<1>2. ASSUME NEW p \in Procs, Binval(p) PROVE Visibly
  BY <1>2, BinvalStore, IdlesVisibly DEF Facts, Shown
<1>3. ASSUME NEW p \in Procs, EnterCall(p) \/ Release(p) \/ Step(p), ~Binval(p) PROVE Visibly
  BY <1>3, ActorMoved, MovedVisibly DEF Facts
<1>4. ASSUME NEW i \in DOMAIN ioq, TransferOk(i) PROVE Visibly
  <2>1. Completes(i)
    BY <1>4, TransferCompletes DEF Facts
  <2>2. QED
    BY <2>1, CompletesVisibly
<1>5. ASSUME NEW i \in DOMAIN ioq, TransferFails(i) PROVE FALSE
  <2>1. errs' = errs + 1 /\ errs \in Nat
    BY <1>5 DEF TransferFails, Facts, IInv, TypeOK
  <2>2. QED
    BY <2>1
<1>6. QED
  BY <1>1, <1>2, <1>3, <1>4, <1>5 DEF Next, Interrupt

LEMMA StoreInit == Init => Store!Init
<1> SUFFICES ASSUME Init PROVE Store!Init
  OBVIOUS
<1>1. \A k \in Blocks : Holder(k) = {}
  BY DEF Init, Holder
<1>2. QED
  BY <1>1 DEF Init, Store!Init

(* While no transfer fails the cache is invisible: whatever is written     *)
(* behind, read ahead, reused or invalidated, a block is a register, and   *)
(* who has it sees the last value written.                                 *)
THEOREM BlockStoreImplemented == Spec /\ [](errs = 0) => ImplementsBlockStore
<1>1. Facts /\ Facts' /\ StrandInv /\ (errs = 0)' /\ [Next]_vars => [Store!Next]_(Store!vars)
  BY StoreStep
<1>2. QED
  BY <1>1, StoreInvariance, OneHolderHolds, StoreInit, PTL
     DEF Spec, Facts, ImplementsBlockStore, Store!Spec

(* That is so of every behaviour of a medium that does not fail. *)
LEMMA NothingFails == MaxErrs = 0 => (Spec => [](errs = 0))
<1>1. SUFFICES ASSUME MaxErrs = 0 PROVE Spec => [](errs = 0)
  OBVIOUS
<1>2. Init => errs = 0
  BY DEF Init
<1>3. TypeOK /\ errs = 0 /\ [Next]_vars => (errs = 0)'
  <2> SUFFICES ASSUME TypeOK, errs = 0, [Next]_vars PROVE errs' = 0
    OBVIOUS
  <2>1. CASE UNCHANGED vars
    BY <2>1 DEF vars, store
  <2>2. ASSUME NEW p \in Procs, EnterCall(p) \/ Release(p) \/ Step(p) PROVE errs' = errs
    BY <2>2 DEF EnterCall, CallGetblk, CallGeteblk, CallBread, CallBreada, CallFlush, CallClose, Enter,
       Release, CallBrelse, CallBdwrite, CallBwrite, CallBawrite, Modify,
       Step, GetblkScan, GetblkBusy, GetblkHit, GetblkEmpty, GetblkReuse, GetblkDelwri, WriteBehind,
       Count, AheadNext, AheadEnd, IowaitSleep, IowaitRead, IowaitWrite, FlushNext, FlushEnd, Binval,
       BdwaitSleep, BdwaitEnd, store
  <2>3. ASSUME NEW i \in DOMAIN ioq, TransferOk(i) \/ TransferFails(i) PROVE errs' = errs
    BY <1>1, <2>3 DEF TransferOk, TransferFails
  <2>4. QED
    BY <2>1, <2>2, <2>3 DEF Next, Interrupt
<1>4. QED
  BY <1>2, <1>3, WakeInvariance, PTL DEF Spec, IInv

THEOREM SoundMedium == MaxErrs = 0 => (Spec => ImplementsBlockStore)
  BY NothingFails, BlockStoreImplemented, PTL

(* Nor do two processes have a block at the same time, as they may after a *)
(* write-behind that failed.                                               *)
THEOREM NobodyElseHasIt == Spec /\ [](errs = 0) => []NoOneElse
<1>1. OneHolder => NoOneElse
  <2> SUFFICES ASSUME OneHolder, NEW k \in Blocks PROVE Cardinality(Holder(k)) <= 1
    BY DEF NoOneElse
  <2>1. PICK S : S = Holder(k)
    OBVIOUS
  <2>2. S = {} \/ \E p : S = {p}
    BY <2>1 DEF OneHolder
  <2>3. Cardinality(S) \in {0, 1}
    BY <2>2, FS_EmptySet, FS_Singleton
  <2>4. QED
    BY <2>1, <2>3
<1>2. QED
  BY <1>1, StoreInvariance, OneHolderHolds, PTL
=============================================================================
