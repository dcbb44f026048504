-------------------------------- MODULE Messages --------------------------------
(***************************************************************************)
(* Messages, io/msg.c: msgsnd, msgrcv, msgget and msgctl on queues that    *)
(* share one list of headers and one map of text segments.  A process      *)
(* copies text with its queue locked and sleeps there for pages; it sleeps *)
(* unlocked for room in a queue, a header, text segments or a message, and *)
(* looks at everything again when it wakes.                                *)
(***************************************************************************)
EXTENDS ResourceMap

CONSTANTS
    Procs, Queues,
    Requests,   \* what processes ask for, [op, q, typ, cnt, nowait, noerror]
    Limits,     \* the byte limits IPC_SET gives each queue
    MSGTQL,     \* headers
    MSGSEG,     \* text segments
    MSGSSZ,     \* bytes of a segment
    MSGMNB,     \* the limit of a new queue
    MaxSeq      \* bound: how often a queue is removed

ASSUME MessagesAssumption ==
    /\ MSGTQL \in Nat \ {0} /\ MSGSEG \in Nat \ {0} /\ MSGSSZ \in Nat \ {0}
    /\ MSGMNB \in Nat /\ Limits \in [Queues -> SUBSET Nat] /\ MaxSeq \in Nat
    /\ Requests \subseteq [op : {"snd", "rcv"}, q : Queues, typ : Int, cnt : Nat,
                            nowait : BOOLEAN, noerror : BOOLEAN]
    /\ \A r \in Requests : r.op = "snd" => r.typ > 0      \* msg.c:386

VARIABLES
    msgque,     \* [alloc, seq, msgs, cbytes, qbytes, rwait, wwait] of a queue
    msglock,    \* queues that are locked
    msgfp,      \* headers that are free
    msgmap,     \* the segments that are free, and mapwant: somebody waits
    proc        \* [pc, asleep], and within a call its request and more

vars == <<msgque, msglock, msgfp, msgmap, proc>>

Idle == [pc |-> "user", asleep |-> FALSE]
Sleeps == {"room", "header", "space", "reader"}

(* In a call on incarnation s of a queue; k is the place of the text that  *)
(* is copied in, that of the message copied out, or the limit of a queue   *)
(* that had no room.                                                       *)
At(pc, r, s, k) ==
    [pc |-> pc, asleep |-> pc \in Sleeps, req |-> r, seq |-> s, at |-> k]

Init ==
    /\ msgque = [q \in Queues |-> [alloc |-> FALSE, seq |-> 0, msgs |-> <<>>,
                    cbytes |-> 0, qbytes |-> 0, rwait |-> FALSE, wwait |-> FALSE]]
    /\ msglock = {}
    /\ msgfp = MSGTQL
    /\ msgmap = [free |-> Mfree(<<>>, MSGSEG, 1), want |-> FALSE]
    /\ proc = [p \in Procs |-> Idle]

Btoq(n) == (n + MSGSSZ - 1) \div MSGSSZ

Wakeup(pr, on, Q) ==
    [p \in Procs |->
        IF pr[p].asleep /\ pr[p].pc = on /\ pr[p].req.q \in Q
        THEN [pr[p] EXCEPT !.asleep = FALSE] ELSE pr[p]]

(* A header goes back to a list of fp headers.                             *)
HeaderBack(pr, fp) == IF fp = 0 THEN Wakeup(pr, "header", Queues) ELSE pr

(* The segments of a message, to the map; mfree clears mapwant.            *)
TextBack(mm, m) ==
    IF m.ts = 0 THEN mm
    ELSE IF Overflows(mm.free, Btoq(m.ts), m.spot) THEN mm
    ELSE [free |-> Mfree(mm.free, Btoq(m.ts), m.spot), want |-> FALSE]

(* Those of the messages s, one after the other.                           *)
TextsBack(mm, s) ==
    LET back[i \in 0..Len(s)] == IF i = 0 THEN mm ELSE TextBack(back[i - 1], s[i])
    IN  back[Len(s)]

MapWakes(pr, mm) ==
    IF msgmap.want /\ ~mm.want THEN Wakeup(pr, "space", Queues) ELSE pr

(* msgfree, for a message that leaves queue q for process p.               *)
Msgfree(p, q, i) ==
    LET m == msgque[q].msgs[i]
        room == IF msgque[q].wwait THEN Wakeup(proc, "room", {q}) ELSE proc
    IN  /\ msgque' = [msgque EXCEPT ![q].msgs = RemoveAt(@, i), ![q].wwait = FALSE,
                                    ![q].cbytes = @ - m.ts]
        /\ msgmap' = TextBack(msgmap, m)
        /\ msgfp' = msgfp + 1
        /\ proc' = [HeaderBack(MapWakes(room, msgmap'), msgfp) EXCEPT ![p] = Idle]

(* msgconv: the queue of an identifier, if it is still the same.           *)
Valid(q, s) == msgque[q].alloc /\ msgque[q].seq = s
--------------------------------------------------------------------------------
(* What msgsnd lacks first.                                                *)
Lack(r) ==
    IF r.cnt + msgque[r.q].cbytes > msgque[r.q].qbytes THEN "room"
    ELSE IF msgfp = 0 THEN "header"
    ELSE IF r.cnt > 0 /\ Fits(msgmap.free, Btoq(r.cnt)) = {} THEN "space"
    ELSE "none"

(* The header taken before malloc was tried goes back.                     *)
GaveBack(pr, r) == IF Lack(r) = "space" THEN HeaderBack(pr, msgfp - 1) ELSE pr

Refuses(p, r, s) ==
    /\ Lack(r) # "none" /\ r.nowait
    /\ proc' = GaveBack([proc EXCEPT ![p] = Idle], r)
    /\ UNCHANGED <<msgque, msglock, msgfp, msgmap>>

Waits(p, r, s) ==
    /\ Lack(r) # "none" /\ ~r.nowait
    /\ proc' = GaveBack([proc EXCEPT ![p] = At(Lack(r), r, s, msgque[r.q].qbytes)], r)
    /\ msgque' = [msgque EXCEPT ![r.q].wwait = @ \/ Lack(r) = "room"]
    /\ msgmap' = [msgmap EXCEPT !.want = @ \/ Lack(r) = "space"]
    /\ UNCHANGED <<msglock, msgfp>>

(* The message goes on the queue, its text at k.                           *)
Link(p, r, k) ==
    /\ msgque' = [msgque EXCEPT ![r.q].rwait = FALSE, ![r.q].cbytes = @ + r.cnt,
            ![r.q].msgs = Append(@, [type |-> r.typ, ts |-> r.cnt, spot |-> k])]
    /\ proc' = [(IF msgque[r.q].rwait THEN Wakeup(proc, "reader", {r.q}) ELSE proc)
                EXCEPT ![p] = Idle]

LinksEmpty(p, r, s) ==
    /\ Lack(r) = "none" /\ r.cnt = 0
    /\ msgfp' = msgfp - 1
    /\ Link(p, r, 0)
    /\ UNCHANGED <<msglock, msgmap>>

Copyin(p, r, s) ==
    /\ Lack(r) = "none" /\ r.cnt > 0
    /\ msgfp' = msgfp - 1
    /\ msgmap' = [msgmap EXCEPT !.free = Taken(@, Btoq(r.cnt))]
    /\ msglock' = msglock \union {r.q}
    /\ proc' = [proc EXCEPT ![p] = At("copyin", r, s, Malloc(msgmap.free, Btoq(r.cnt)))]
    /\ UNCHANGED msgque

(* msgsnd from getres on.                                                  *)
Getres(p, r, s) ==
    Refuses(p, r, s) \/ Waits(p, r, s) \/ LinksEmpty(p, r, s) \/ Copyin(p, r, s)

CopiedIn(p) ==
    /\ proc[p].pc = "copyin"
    /\ Link(p, proc[p].req, proc[p].at)
    /\ msglock' = msglock \ {proc[p].req.q}
    /\ UNCHANGED <<msgfp, msgmap>>

(* Mutant of CopyinFails: the header stays away.                           *)
CopyinLoses(p) ==
    LET r == proc[p].req IN
    /\ proc[p].pc = "copyin"
    /\ msgmap' = TextBack(msgmap, [ts |-> r.cnt, spot |-> proc[p].at])
    /\ msgfp' = msgfp
    /\ proc' = MapWakes([proc EXCEPT ![p] = Idle], msgmap')
    /\ msglock' = msglock \ {r.q}
    /\ UNCHANGED msgque

CopyinFails(p) ==
    LET r == proc[p].req IN
    /\ proc[p].pc = "copyin"
    /\ msgmap' = TextBack(msgmap, [ts |-> r.cnt, spot |-> proc[p].at])
    /\ msgfp' = msgfp + 1
    /\ proc' = HeaderBack(MapWakes([proc EXCEPT ![p] = Idle], msgmap'), msgfp)
    /\ msglock' = msglock \ {r.q}
    /\ UNCHANGED msgque
--------------------------------------------------------------------------------
(* The messages a receiver asks for: any, those of a type, those up to it. *)
Wanted(s, t) ==
    {i \in DOMAIN s : t = 0 \/ s[i].type = t \/ s[i].type <= -t}

(* Mutant of Chosen: among messages of the lowest type the last.           *)
ChosenLast(s, t) ==
    IF t >= 0 THEN Min(Wanted(s, t))
    ELSE Max({i \in Wanted(s, t) :
                \A j \in Wanted(s, t) : s[i].type <= s[j].type})

Chosen(s, t) ==
    IF t >= 0 THEN Min(Wanted(s, t))
    ELSE Min({i \in Wanted(s, t) :
                \A j \in Wanted(s, t) : s[i].type <= s[j].type})

(* msgrcv from findmsg on.  Too long a message stays, E2BIG.               *)
Copyout(p, r, s) ==
    LET k == msgque[r.q].msgs
        i == Chosen(k, r.typ)
    IN  /\ Wanted(k, r.typ) # {}
        /\ k[i].ts <= r.cnt \/ r.noerror
        /\ msglock' = msglock \union {r.q}
        /\ proc' = [proc EXCEPT ![p] = At("copyout", r, s, i)]
        /\ UNCHANGED <<msgque, msgfp, msgmap>>

Awaits(p, r, s) ==
    /\ Wanted(msgque[r.q].msgs, r.typ) = {} /\ ~r.nowait
    /\ msgque' = [msgque EXCEPT ![r.q].rwait = TRUE]
    /\ proc' = [proc EXCEPT ![p] = At("reader", r, s, 0)]
    /\ UNCHANGED <<msglock, msgfp, msgmap>>

(* ENOMSG and E2BIG.                                                       *)
Finds0(p, r, s) ==
    LET k == msgque[r.q].msgs IN
    /\ IF Wanted(k, r.typ) = {} THEN r.nowait
       ELSE k[Chosen(k, r.typ)].ts > r.cnt /\ ~r.noerror
    /\ proc' = [proc EXCEPT ![p] = Idle]
    /\ UNCHANGED <<msgque, msglock, msgfp, msgmap>>

Findmsg(p, r, s) == Copyout(p, r, s) \/ Awaits(p, r, s) \/ Finds0(p, r, s)

CopiedOut(p) ==
    LET q == proc[p].req.q IN
    /\ proc[p].pc = "copyout"
    /\ Msgfree(p, q, proc[p].at)
    /\ msglock' = msglock \ {q}

(* The message stays in the queue.                                         *)
CopyoutFails(p) ==
    /\ proc[p].pc = "copyout"
    /\ msglock' = msglock \ {proc[p].req.q}
    /\ proc' = [proc EXCEPT ![p] = Idle]
    /\ UNCHANGED <<msgque, msgfp, msgmap>>
--------------------------------------------------------------------------------
(* A call, past the first look at the queue; an invalid one fails there.   *)
Calls(p) ==
    /\ proc[p].pc = "user"
    /\ \E r \in Requests :
        /\ r.q \notin msglock /\ msgque[r.q].alloc
        /\ \/ r.op = "snd" /\ Getres(p, r, msgque[r.q].seq)
           \/ r.op = "rcv" /\ Findmsg(p, r, msgque[r.q].seq)

(* Woken: from getres or findmsg again, EIDRM if the queue was removed.    *)
Again(p) ==
    LET r == proc[p].req  s == proc[p].seq IN
    /\ proc[p].pc \in Sleeps /\ ~proc[p].asleep
    /\ r.q \notin msglock
    /\ \/ /\ ~Valid(r.q, s)
          /\ proc' = [proc EXCEPT ![p] = Idle]
          /\ UNCHANGED <<msgque, msglock, msgfp, msgmap>>
       \/ Valid(r.q, s) /\ r.op = "snd" /\ Getres(p, r, s)
       \/ Valid(r.q, s) /\ r.op = "rcv" /\ Findmsg(p, r, s)

(* A signal, also in the way back from a wakeup.  Who waited for room has  *)
(* to look at the queue, unless he has woken and waits for its lock again; *)
(* for all others nothing is left to do.                                   *)
Interrupt(p) ==
    /\ proc[p].pc \in Sleeps
    /\ \/ /\ proc[p].pc = "room"
          /\ proc' = [proc EXCEPT ![p] = At("intr", @.req, @.seq, 0)]
       \/ /\ proc[p].pc = "room" => ~proc[p].asleep
          /\ proc' = [proc EXCEPT ![p] = Idle]
    /\ UNCHANGED <<msgque, msglock, msgfp, msgmap>>

(* The signal ends the sleep for the queue's lock too: the flag stays.     *)
IntrLocked(p) ==
    /\ proc[p].req.q \in msglock
    /\ proc' = [proc EXCEPT ![p] = Idle]
    /\ UNCHANGED msgque

(* Mutant of IntrLooks: the others are not woken.                          *)
IntrLooksOnly(p) ==
    LET q == proc[p].req.q IN
    /\ q \notin msglock
    /\ msgque' = [msgque EXCEPT ![q].wwait = @ /\ ~Valid(q, proc[p].seq)]
    /\ proc' = [proc EXCEPT ![p] = Idle]

(* The flag goes, and the others look.                                     *)
IntrLooks(p) ==
    LET q == proc[p].req.q
        same == Valid(q, proc[p].seq)
    IN  /\ q \notin msglock
        /\ msgque' = [msgque EXCEPT ![q].wwait = @ /\ ~same]
        /\ proc' = [(IF same THEN Wakeup(proc, "room", {q}) ELSE proc)
                    EXCEPT ![p] = Idle]

(* Interrupted on the way to room.                                         *)
RoomIntr(p) ==
    /\ proc[p].pc = "intr"
    /\ IntrLocked(p) \/ IntrLooks(p)
    /\ UNCHANGED <<msglock, msgfp, msgmap>>

(* msgget of a new queue takes no lock.                                    *)
Msgget(q) ==
    /\ ~msgque[q].alloc
    /\ msgque' = [msgque EXCEPT ![q].alloc = TRUE, ![q].msgs = <<>>,
                                ![q].qbytes = MSGMNB]
    /\ UNCHANGED <<msglock, msgfp, msgmap, proc>>

(* msgctl IPC_RMID.                                                        *)
Rmid(q) ==
    LET k == msgque[q]
        room == IF k.wwait THEN Wakeup(proc, "room", {q}) ELSE proc
        text == MapWakes(room, msgmap')
        head == IF k.msgs # <<>> THEN HeaderBack(text, msgfp) ELSE text
    IN  /\ q \notin msglock /\ k.alloc /\ k.seq < MaxSeq
        /\ msgmap' = TextsBack(msgmap, k.msgs)
        /\ msgfp' = msgfp + Len(k.msgs)
        /\ msgque' = [msgque EXCEPT ![q] = [k EXCEPT !.alloc = FALSE, !.seq = @ + 1,
                        !.msgs = <<>>, !.cbytes = 0, !.rwait = FALSE, !.wwait = FALSE]]
        /\ proc' = IF k.rwait THEN Wakeup(head, "reader", {q}) ELSE head
        /\ UNCHANGED msglock

(* msgctl IPC_SET, with a limit up or down.                                *)
Set(q) ==
    /\ q \notin msglock /\ msgque[q].alloc
    /\ \E b \in Limits[q] : msgque' = [msgque EXCEPT ![q].qbytes = b]
    /\ UNCHANGED <<msglock, msgfp, msgmap, proc>>

Next ==
    \/ \E p \in Procs :
        \/ Calls(p) \/ Again(p) \/ CopiedIn(p) \/ CopyinFails(p)
        \/ CopiedOut(p) \/ CopyoutFails(p) \/ Interrupt(p) \/ RoomIntr(p)
    \/ \E q \in Queues : Msgget(q) \/ Rmid(q) \/ Set(q)

Spec == Init /\ [][Next]_vars
--------------------------------------------------------------------------------
(* The queues as a caller knows them.                                      *)
Sent(s) == [i \in DOMAIN s |-> [type |-> s[i].type, size |-> s[i].ts]]

Promise == INSTANCE MessageQueues WITH
    Messages <- {[type |-> r.typ, size |-> r.cnt] : r \in Requests},
    Limits <- (UNION {Limits[q] : q \in Queues}) \union {0, MSGMNB},
    queue <- [q \in Queues |-> Sent(msgque[q].msgs)],
    made <- [q \in Queues |->
        2 * msgque[q].seq + (IF msgque[q].alloc THEN 1 ELSE 0)],
    limit <- [q \in Queues |-> msgque[q].qbytes]

(* Headers, marks and states stay in their ranges, and the map in order.   *)
TypeOK ==
    /\ msgfp \in 0..MSGTQL
    /\ msglock = {proc[p].req.q : p \in {x \in Procs : proc[x].pc \in {"copyin", "copyout"}}}
    /\ InOrder(msgmap.free) /\ msgmap.want \in BOOLEAN
    /\ \A q \in Queues : msgque[q].seq \in 0..MaxSeq /\ msgque[q].cbytes \in Nat
    /\ \A p \in Procs :
        /\ proc[p].pc \in Sleeps \union {"user", "copyin", "copyout", "intr"}
        /\ proc[p].asleep => proc[p].pc \in Sleeps

Copying == {p \in Procs : proc[p].pc = "copyin"}
Texts(q) == [i \in DOMAIN msgque[q].msgs |->
    Units(msgque[q].msgs[i].spot, Btoq(msgque[q].msgs[i].ts))]

(* Every header is free, on a queue or with a sender who copies his text;  *)
(* every segment is in the map or in exactly one text; the byte count of a *)
(* queue is that of its messages.  msgsnd takes and gives back in pieces,  *)
(* on five ways out.                                                       *)
PoolAccounted ==
    LET queued == UNION {{q} \X DOMAIN msgque[q].msgs : q \in Queues}
        units(x) == Texts(x[1])[x[2]]
        copy(p) == Units(proc[p].at, Btoq(proc[p].req.cnt))
    IN  /\ msgfp + Cardinality(queued) + Cardinality(Copying) = MSGTQL
        /\ UnitsOf(msgmap.free) \union (UNION {units(x) : x \in queued})
            \union (UNION {copy(p) : p \in Copying}) = 1..MSGSEG
        /\ \A x, y \in queued : x # y => units(x) \intersect units(y) = {}
        /\ \A p \in Copying, x \in queued : copy(p) \intersect units(x) = {}
        /\ \A p, o \in Copying : p # o => copy(p) \intersect copy(o) = {}
        /\ \A q \in Queues :
            msgque[q].cbytes = Promise!Bytes(Sent(msgque[q].msgs))

(* Who sleeps has a reason to, and whoever ends the reason will know that  *)
(* he sleeps: the wakeups of six places, three flags and a list that must  *)
(* have been empty agree with what the sleepers wait for.  A higher limit  *)
(* set for the queue wakes nobody: the reason is the limit he saw.         *)
SleepersBlocked ==
    \A p \in Procs : proc[p].asleep =>
        LET r == proc[p].req
            k == msgque[r.q]
        IN  CASE proc[p].pc = "room" ->
                    /\ Valid(r.q, proc[p].seq) /\ k.wwait
                    /\ r.cnt + k.cbytes > proc[p].at
              [] proc[p].pc = "header" -> msgfp = 0
              [] proc[p].pc = "space" ->
                    msgmap.want /\ Fits(msgmap.free, Btoq(r.cnt)) = {}
              [] proc[p].pc = "reader" ->
                    /\ Valid(r.q, proc[p].seq) /\ k.rwait
                    /\ Wanted(k.msgs, r.typ) = {}

(* The queues are what MessageQueues says of them: in whatever order the   *)
(* processes sleep and copy, messages of a type are received in the order  *)
(* they were sent, none is lost but with its queue, and nobody sends past  *)
(* the limit.                                                              *)
ImplementsMessageQueues == Promise!Spec
================================================================================
