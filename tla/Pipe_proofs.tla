------------------------------ MODULE Pipe_proofs ------------------------------
(***************************************************************************)
(* Proofs about Pipe for any number of processes, any ways to open the     *)
(* fifo, any lengths of transfers and any sizes of blocks.                 *)
(***************************************************************************)
EXTENDS Pipe, FiniteSetTheorems, SequenceTheorems, TLAPS

Mode == [dir : {"R", "W"}, ndelay : BOOLEAN]
Short == [pc : {"closed", "open", "opening", "abort"}, asleep : BOOLEAN, mode : Mode]
Long == [pc : {"rwait", "wwait", "read", "write", "floop"}, asleep : BOOLEAN,
         mode : Mode, n : Int, left : Int, save : Int, off : Nat]
State == Short \union Long

Shaped ==
    /\ proc \in [Procs -> State]
    /\ size \in Nat /\ frptr \in Nat /\ fwptr \in Nat
    /\ fflag \subseteq {"IFIR", "IFIW"}
    /\ ilock \in BOOLEAN

(* The counts of readers and writers, those who are only opening too.      *)
Counted ==
    frcnt = Cardinality(Having("R")) /\ fwcnt = Cardinality(Having("W"))

(* One process transfers at a time, and with the inode locked.             *)
Transfers == Busy({"read", "write", "floop"})
Alone == IF ilock THEN \E p \in Procs : Transfers = {p} ELSE Transfers = {}

(* Who sleeps where, by which end, and what a transfer has left to do.     *)
SidedAt(p) ==
    /\ proc[p].asleep => proc[p].pc \in {"opening", "rwait", "wwait"}
    /\ proc[p].pc \in {"rwait", "read"} => proc[p].mode.dir = "R"
    /\ proc[p].pc \in {"wwait", "write", "floop"} => proc[p].mode.dir = "W"
    /\ proc[p].pc \in {"read", "wwait", "floop"} => proc[p].left > 0
    /\ proc[p].pc = "rwait" => proc[p].n > 0
    /\ proc[p].pc = "read" => size > 0
    /\ proc[p].pc = "write" => 0 <= proc[p].save /\ proc[p].save < proc[p].left
    /\ proc[p].pc \in {"wwait", "write", "floop"} =>
            proc[p].n \in Counts[p] /\ proc[p].left <= proc[p].n
Sided == \A p \in Procs : SidedAt(p)

(* SleepersBlocked, once Sided has said where one may sleep.               *)
ReasonFor(p) ==
    /\ proc[p].pc = "rwait" =>
            "IFIR" \in fflag /\ fwcnt > 0 /\ (size = 0 \/ Busy({"write"}) # {})
    /\ proc[p].pc = "wwait" =>
            /\ "IFIW" \in fflag /\ frcnt > 0
            /\ Room(proc[p].left) = 0 \/ Busy({"read"}) # {}
    /\ proc[p].pc = "opening" /\ proc[p].mode.dir = "R" => fwcnt = 0
    /\ proc[p].pc = "opening" /\ proc[p].mode.dir = "W" => frcnt = 0
Reasons == \A p \in Procs : proc[p].asleep => ReasonFor(p)

(* The place x bytes after the start of the circle, for less than twice    *)
(* its length.                                                             *)
Wrap(x) == IF x < PIPSIZ THEN x ELSE x - PIPSIZ

(* What is in the fifo is between the pointers; during a transfer, what    *)
(* its process has in hand takes the place of one of them.                 *)
CircleAt(p) ==
    /\ proc[p].pc = "read" => proc[p].off < PIPSIZ /\ Wrap(proc[p].off + size) = fwptr
    /\ proc[p].pc = "write" =>
            /\ proc[p].off < PIPSIZ /\ Wrap(frptr + size) = proc[p].off
            /\ size + proc[p].left - proc[p].save <= PIPSIZ
Circle ==
    /\ size <= PIPSIZ /\ frptr < PIPSIZ /\ fwptr < PIPSIZ
    /\ Busy({"read", "write"}) = {} => Wrap(frptr + size) = fwptr
    /\ \A p \in Procs : CircleAt(p)

IInv == Shaped /\ Counted /\ Alone /\ Sided /\ Circle /\ Reasons
--------------------------------------------------------------------------------
(* The fifo has room for a byte.                                           *)
LEMMA PipsizPositive == Blk \in Nat \ {0} /\ PIPSIZ \in Nat \ {0}
  BY PipeAssumption DEF PIPSIZ

(* The rest of a division is below the divisor.                            *)
LEMMA ModType ==
    ASSUME NEW a \in Nat, NEW b \in Nat \ {0}
    PROVE  a % b \in 0..(b - 1)
  OBVIOUS

(* The least of two and of three integers is one of them.                  *)
LEMMA MinFacts ==
    ASSUME NEW a \in Int, NEW b \in Int, NEW c \in Int
    PROVE  /\ Min({a, b}) \in {a, b} /\ Min({a, b}) <= a /\ Min({a, b}) <= b
           /\ Min({a, b, c}) \in {a, b, c}
           /\ Min({a, b, c}) <= a /\ Min({a, b, c}) <= b /\ Min({a, b, c}) <= c
<1>1. \E x \in {a, b} : \A y \in {a, b} : x <= y
  OBVIOUS
<1>2. \E x \in {a, b, c} : \A y \in {a, b, c} : x <= y
  OBVIOUS
<1>3. QED
  BY <1>1, <1>2 DEF Min

(* A process after a wakeup: the same, but it may have stopped sleeping.   *)
Same(z, y) ==
    /\ z.pc = y.pc /\ z.mode = y.mode
    /\ y \in Long =>
         z \in Long /\ z.n = y.n /\ z.left = y.left /\ z.save = y.save /\ z.off = y.off
    /\ z.asleep => y.asleep
    /\ ~y.asleep => z = y

(* What a wakeup does: it ends sleeps on its channel and nothing else.     *)
LEMMA WakeFacts ==
    ASSUME Shaped, NEW p \in Procs, NEW x \in State, NEW cond \in BOOLEAN, NEW c,
           NEW pr, pr = WakeIf(cond, Set(p, x), c)
    PROVE  /\ pr \in [Procs -> State]
           /\ Same(pr[p], x) /\ (pr[p].asleep /\ cond => Channel(x) # c)
           /\ \A q \in Procs \ {p} :
                Same(pr[q], proc[q]) /\ (pr[q].asleep /\ cond => Channel(proc[q]) # c)
<1>1. Set(p, x) \in [Procs -> State]
  BY DEF Shaped, Set
<1>2. \A q \in Procs : Set(p, x)[q] = IF q = p THEN x ELSE proc[q]
  BY DEF Shaped, Set
<1>3. \A y \in State : y.asleep \in BOOLEAN /\ Same(y, y)
  BY DEF State, Short, Long, Same
<1>4. ASSUME NEW y \in State
      PROVE  LET z == [y EXCEPT !.asleep = FALSE] IN z \in State /\ Same(z, y) /\ ~z.asleep
  <2>1. CASE y \in Short
    BY <2>1 DEF State, Short, Long, Same
  <2>2. CASE y \in Long
    BY <2>2 DEF State, Long, Same
  <2>3. QED
    BY <2>1, <2>2 DEF State
<1>5. CASE cond
  <2>1. pr = Wakeup(Set(p, x), c)
    BY <1>5 DEF WakeIf
  <2>2. ASSUME NEW q \in Procs
        PROVE  LET y == Set(p, x)[q] IN
               pr[q] \in State /\ Same(pr[q], y) /\ (pr[q].asleep => Channel(y) # c)
    <3>1. Set(p, x)[q] \in State
      BY <1>1
    <3>2. CASE Set(p, x)[q].asleep /\ Channel(Set(p, x)[q]) = c
      <4>1. pr[q] = [Set(p, x)[q] EXCEPT !.asleep = FALSE]
        BY <2>1, <3>2 DEF Wakeup
      <4>2. QED
        BY <1>4, <3>1, <4>1
    <3>3. CASE ~(Set(p, x)[q].asleep /\ Channel(Set(p, x)[q]) = c)
      <4>1. pr[q] = Set(p, x)[q]
        BY <2>1, <3>3 DEF Wakeup
      <4>2. QED
        BY <1>3, <3>1, <3>3, <4>1
    <3>4. QED
      BY <3>2, <3>3
  <2>3. pr \in [Procs -> State]
    <3>1. \E g : pr = [q \in Procs |-> g[q]]
      BY <2>1 DEF Wakeup
    <3>2. QED
      BY <2>2, <3>1
  <2>4. QED
    BY <1>2, <1>5, <2>2, <2>3
<1>6. CASE ~cond
  <2>1. pr = Set(p, x)
    BY <1>6 DEF WakeIf
  <2>2. QED
    BY <1>1, <1>2, <1>3, <1>6, <2>1
<1>7. QED
  BY <1>5, <1>6

(* The step of p: it moves to x, and with cond the sleepers on c wake up.  *)
Moves(p, x, cond, c) ==
    x \in State /\ cond \in BOOLEAN /\ proc' = WakeIf(cond, Set(p, x), c)

(* What such a step leaves to the other processes.                         *)
LEMMA MovesFacts ==
    ASSUME Shaped, NEW p \in Procs, NEW x, NEW cond, NEW c, Moves(p, x, cond, c)
    PROVE  /\ proc' \in [Procs -> State]
           /\ Same(proc'[p], x)
           /\ \A q \in Procs \ {p} :
                Same(proc'[q], proc[q]) /\ (proc'[q].asleep /\ cond => Channel(proc[q]) # c)
<1>1. \A pr : pr = WakeIf(cond, Set(p, x), c) =>
         /\ pr \in [Procs -> State]
         /\ Same(pr[p], x)
         /\ \A q \in Procs \ {p} :
              Same(pr[q], proc[q]) /\ (pr[q].asleep /\ cond => Channel(proc[q]) # c)
  BY WakeFacts DEF Moves
<1>2. QED
  BY <1>1 DEF Moves

(* Who has the fifo open, and who transfers, after a step of p.            *)
LEMMA MovesSets ==
    ASSUME Shaped, NEW p \in Procs, NEW x, NEW cond, NEW c, Moves(p, x, cond, c)
    PROVE  /\ \A d : Having(d)' =
                IF x.pc # "closed" /\ x.mode.dir = d THEN Having(d) \union {p} ELSE Having(d) \ {p}
           /\ \A s : Busy(s)' = IF x.pc \in s THEN Busy(s) \union {p} ELSE Busy(s) \ {p}
<1>1. /\ proc'[p].pc = x.pc /\ proc'[p].mode = x.mode
      /\ \A q \in Procs \ {p} : proc'[q].pc = proc[q].pc /\ proc'[q].mode = proc[q].mode
  BY MovesFacts DEF Same
<1>2. ASSUME NEW d
      PROVE  Having(d)' =
                IF x.pc # "closed" /\ x.mode.dir = d THEN Having(d) \union {p} ELSE Having(d) \ {p}
  BY <1>1 DEF Having
<1>3. ASSUME NEW s
      PROVE  Busy(s)' = IF x.pc \in s THEN Busy(s) \union {p} ELSE Busy(s) \ {p}
  BY <1>1 DEF Busy
<1>4. QED
  BY <1>2, <1>3

(* Nobody else's place changes.                                            *)
LEMMA OthersPc ==
    ASSUME Shaped, NEW p \in Procs, NEW x, NEW cond, NEW c, Moves(p, x, cond, c)
    PROVE  \A q \in Procs \ {p} : proc'[q].pc = proc[q].pc
<1>1. \A q \in Procs \ {p} : Same(proc'[q], proc[q])
  BY MovesFacts
<1>2. QED
  BY <1>1 DEF Same

(* Who is and was not transferring does not matter to who transfers.       *)
LEMMA BusyKept ==
    ASSUME Shaped, NEW p \in Procs, NEW x, NEW cond, NEW c, Moves(p, x, cond, c),
           proc[p].pc \notin {"read", "write", "floop"},
           x.pc \notin {"read", "write", "floop"}
    PROVE  Busy({"read"})' = Busy({"read"}) /\ Busy({"write"})' = Busy({"write"})
           /\ Busy({"read", "write"})' = Busy({"read", "write"}) /\ Transfers' = Transfers
<1>1. ASSUME NEW s, proc[p].pc \notin s, x.pc \notin s
      PROVE  Busy(s)' = Busy(s)
  <2>1. p \notin Busy(s) /\ Busy(s)' = Busy(s) \ {p}
    BY <1>1, MovesSets DEF Busy
  <2>2. QED
    BY <2>1
<1>2. QED
  BY <1>1 DEF Transfers

(* Room never exceeds what is asked for, and when there is none, there is  *)
(* none in a fuller fifo.                                                  *)
LEMMA RoomFacts ==
    ASSUME size \in Nat, NEW left \in Int, left > 0
    PROVE  /\ Room(left) \in 0..left
           /\ size <= PIPSIZ => size + Room(left) <= PIPSIZ
           /\ size' \in Nat /\ size' >= size /\ Room(left) = 0 => Room(left)' = 0
  BY PipsizPositive DEF Room

(* The remainder by the length of the circle.                              *)
LEMMA WrapFacts ==
    ASSUME NEW x \in Nat, x < 2 * PIPSIZ
    PROVE  x % PIPSIZ = Wrap(x) /\ x % PIPSIZ \in Nat /\ x % PIPSIZ < PIPSIZ
<1>1. PICK P \in Nat \ {0} : P = PIPSIZ
  BY PipsizPositive
<1>2. x % P \in 0..(P - 1) /\ x = P * (x \div P) + (x % P) /\ x \div P \in Int
  OBVIOUS
<1>3. x \div P \in {0, 1}
  <2>1. x < 2 * P
    BY <1>1
  <2>2. ASSUME x \div P >= 2
        PROVE  FALSE
    <3>1. P * (x \div P) >= P * 2
      BY <1>2, <2>2
    <3>2. QED
      BY <1>2, <2>1, <3>1
  <2>3. ASSUME x \div P <= -1
        PROVE  FALSE
    <3>1. P * (x \div P) <= P * (-1)
      BY <1>2, <2>3
    <3>2. QED
      BY <1>2, <3>1
  <2>4. QED
    BY <1>2, <2>2, <2>3
<1>4. CASE x \div P = 0
  BY <1>1, <1>2, <1>4 DEF Wrap
<1>5. CASE x \div P = 1
  BY <1>1, <1>2, <1>5 DEF Wrap
<1>6. QED
  BY <1>3, <1>4, <1>5

(* A step of a transfer moves at least one byte and no more than a block.  *)
LEMMA BlockFacts ==
    ASSUME NEW off \in Nat, NEW a \in Nat \ {0}, NEW b \in Nat \ {0}
    PROVE  LET n == Min({Blk - (off % Blk), a, b})
               m == Min({Blk - (off % Blk), a})
           IN  /\ n \in 1..PIPSIZ /\ n <= a /\ n <= b
               /\ m \in 1..PIPSIZ /\ m <= a
<1>1. off % Blk \in 0..(Blk - 1) /\ Blk \in Nat \ {0}
  BY PipsizPositive, ModType
<1>2. Blk <= PIPSIZ
  <2>1. PICK B \in Nat \ {0}, N \in Nat \ {0} : B = Blk /\ N = NBlk
    BY PipeAssumption
  <2>2. B <= B * N
    OBVIOUS
  <2>3. QED
    BY <2>1, <2>2 DEF PIPSIZ
<1>3. PICK c \in 1..PIPSIZ : c = Blk - (off % Blk)
  BY <1>1, <1>2, PipsizPositive
<1>4. /\ Min({c, a, b}) \in {c, a, b} /\ Min({c, a, b}) <= c
      /\ Min({c, a, b}) <= a /\ Min({c, a, b}) <= b
      /\ Min({c, a}) \in {c, a} /\ Min({c, a}) <= c /\ Min({c, a}) <= a
  <2>1. c \in Int /\ a \in Int /\ b \in Int
    BY PipsizPositive
  <2>2. /\ Min({c, a, b}) \in {c, a, b} /\ Min({c, a, b}) <= c
        /\ Min({c, a, b}) <= a /\ Min({c, a, b}) <= b
    BY ONLY <2>1, MinFacts
  <2>3. Min({c, a}) \in {c, a} /\ Min({c, a}) <= c /\ Min({c, a}) <= a
    BY ONLY <2>1, MinFacts
  <2>4. QED
    BY <2>2, <2>3
<1>5. \A n \in {c, a, b} : n <= c => n \in 1..PIPSIZ
  BY PipsizPositive
<1>6. QED
  BY <1>3, <1>4, <1>5
--------------------------------------------------------------------------------
(* A transfer of somebody else goes on as it did.                          *)
LEMMA OthersSided ==
    ASSUME Shaped, Sided, NEW p \in Procs, NEW x, NEW cond, NEW c, Moves(p, x, cond, c),
           NEW q \in Procs \ {p}, proc[q].pc = "read" => size' > 0
    PROVE  SidedAt(q)'
<1>1. Same(proc'[q], proc[q]) /\ proc[q] \in State
  BY MovesFacts DEF Shaped
<1>2. SidedAt(q)
  BY DEF Sided
<1>3. proc[q].pc \in {"rwait", "wwait", "read", "write", "floop"} => proc[q] \in Long
  BY <1>1 DEF State, Short
<1>4. QED
  BY <1>1, <1>2, <1>3 DEF SidedAt, Same

(* Who still sleeps when p has moved was not woken and had a reason.       *)
LEMMA StillAsleep ==
    ASSUME IInv, NEW p \in Procs, NEW x, NEW cond, NEW c, Moves(p, x, cond, c),
           NEW q \in Procs \ {p}, proc'[q].asleep
    PROVE  /\ proc'[q].pc = proc[q].pc /\ proc'[q].mode = proc[q].mode
           /\ proc[q].pc \in {"opening", "rwait", "wwait"}
           /\ proc[q].mode.dir \in {"R", "W"}
           /\ proc[q].pc = "rwait" => proc[q].mode.dir = "R" /\ ~(cond /\ c = "frcnt")
           /\ proc[q].pc = "wwait" =>
                /\ proc[q].mode.dir = "W" /\ ~(cond /\ c = "fwcnt")
                /\ proc[q].left \in Int /\ proc[q].left > 0 /\ proc'[q].left = proc[q].left
           /\ proc[q].pc = "opening" =>
                ~(cond /\ c = IF proc[q].mode.dir = "R" THEN "fwcnt" ELSE "frcnt")
           /\ ReasonFor(q)
<1>1. Same(proc'[q], proc[q]) /\ ~(cond /\ Channel(proc[q]) = c) /\ proc[q] \in State
  BY MovesFacts DEF IInv, Shaped
<1>2. proc[q].asleep /\ proc'[q].pc = proc[q].pc /\ proc'[q].mode = proc[q].mode
  BY <1>1 DEF Same
<1>3. SidedAt(q) /\ ReasonFor(q)
  BY <1>2 DEF IInv, Sided, Reasons
<1>4. proc[q].mode.dir \in {"R", "W"}
  BY <1>1 DEF State, Short, Long, Mode
<1>5. proc[q].pc \in {"rwait", "wwait"} => proc[q] \in Long
  BY <1>1 DEF State, Short
<1>6. proc[q].pc = "wwait" => proc[q].left \in Int /\ proc'[q].left = proc[q].left
  BY <1>1, <1>5 DEF Same, Long
<1>7. QED
  BY <1>1, <1>2, <1>3, <1>4, <1>6 DEF SidedAt, Channel

(* Who neither opens nor closes is counted as before.                      *)
LEMMA CountedKept ==
    ASSUME IInv, NEW p \in Procs, NEW x, NEW cond, NEW c, Moves(p, x, cond, c),
           proc[p].pc # "closed", x.pc # "closed", x.mode = proc[p].mode,
           UNCHANGED cnts
    PROVE  Counted'
<1>1. Having("R")' = Having("R") /\ Having("W")' = Having("W")
  BY MovesSets DEF IInv, Having
<1>2. QED
  BY <1>1 DEF IInv, Counted, cnts

(* Who keeps out of the transfers leaves the circle as it is.              *)
LEMMA CircleKept ==
    ASSUME IInv, NEW p \in Procs, NEW x, NEW cond, NEW c, Moves(p, x, cond, c),
           UNCHANGED <<size, frptr, fwptr>>,
           proc[p].pc \notin {"read", "write"}, x.pc \notin {"read", "write"}
    PROVE  Circle'
<1>1. Busy({"read", "write"})' = Busy({"read", "write"})
  <2>1. p \notin Busy({"read", "write"})
    BY DEF Busy
  <2>2. Busy({"read", "write"})' = Busy({"read", "write"}) \ {p}
    BY MovesSets DEF IInv
  <2>3. QED
    BY <2>1, <2>2
<1>2. ASSUME NEW q \in Procs
      PROVE  CircleAt(q)'
  <2>1. CASE q = p
    <3>1. proc'[p].pc = x.pc
      BY MovesFacts DEF IInv, Same
    <3>2. QED
      BY <2>1, <3>1 DEF CircleAt
  <2>2. CASE q # p
    <3>1. Same(proc'[q], proc[q]) /\ proc[q] \in State /\ CircleAt(q)
      BY <2>2, MovesFacts DEF IInv, Shaped, Circle
    <3>2. proc[q].pc \in {"read", "write"} => proc[q] \in Long
      BY <3>1 DEF State, Short
    <3>3. QED
      BY <3>1, <3>2 DEF CircleAt, Same, Wrap
  <2>3. QED
    BY <2>1, <2>2
<1>3. QED
  BY <1>1, <1>2 DEF IInv, Circle, Wrap

(* Where the first byte of the fifo is.                                    *)
FrontOK ==
    /\ Front \in Nat /\ Front < PIPSIZ
    /\ \A p \in Procs : proc[p].pc = "read" => Front = proc[p].off
    /\ Busy({"read"}) = {} => Front = frptr
LEMMA FrontHere == IInv => FrontOK
<1> SUFFICES ASSUME IInv
             PROVE  FrontOK
  OBVIOUS
<1>1. CASE Busy({"read"}) = {}
  BY <1>1 DEF Front, FrontOK, IInv, Shaped, Circle, Busy
<1>2. ASSUME NEW p \in Procs, proc[p].pc = "read"
      PROVE  FrontOK
  <2>1. Busy({"read"}) = {p}
    BY <1>2 DEF IInv, Alone, Transfers, Busy
  <2>2. Front = proc[p].off
    BY <2>1 DEF Front
  <2>3. proc[p].off \in Nat /\ proc[p].off < PIPSIZ
    BY <1>2 DEF IInv, Shaped, State, Short, Long, Circle, CircleAt
  <2>4. \A q \in Procs : proc[q].pc = "read" => q = p
    BY <2>1 DEF Busy
  <2>5. QED
    BY <2>1, <2>2, <2>3, <2>4 DEF FrontOK
<1>3. QED
  BY <1>1, <1>2 DEF Busy

(* The same after a step.                                                  *)
LEMMA FrontThere == IInv' => FrontOK'
  BY FrontHere, PTL

(* Only who reads moves the front.                                         *)
LEMMA FrontKept ==
    ASSUME IInv, IInv', NEW p \in Procs, NEW x, NEW cond, NEW c, Moves(p, x, cond, c),
           proc[p].pc # "read", x.pc # "read", frptr' = frptr
    PROVE  Front' = Front
<1>1. FrontOK /\ FrontOK'
  BY FrontHere, FrontThere
<1>2. Busy({"read"})' = Busy({"read"})
  <2>1. p \notin Busy({"read"}) /\ Busy({"read"})' = Busy({"read"}) \ {p}
    BY MovesSets DEF IInv, Busy
  <2>2. QED
    BY <2>1
<1>3. CASE Busy({"read"}) = {}
  BY <1>1, <1>2, <1>3 DEF FrontOK
<1>4. ASSUME NEW q \in Procs, proc[q].pc = "read"
      PROVE  Front' = Front
  <2>1. Same(proc'[q], proc[q]) /\ proc[q] \in State
    BY <1>4, MovesFacts DEF IInv, Shaped
  <2>2. proc'[q].pc = "read" /\ proc'[q].off = proc[q].off
    BY <1>4, <2>1 DEF Same, State, Short
  <2>3. QED
    BY <1>1, <1>4, <2>2 DEF FrontOK
<1>5. QED
  BY <1>3, <1>4 DEF Busy

(* The sets that are counted are finite; being in one makes its count      *)
(* positive.                                                               *)
LEMMA CountsPositive ==
    ASSUME NEW d
    PROVE  /\ IsFiniteSet(Having(d)) /\ Cardinality(Having(d)) \in Nat
           /\ \A p \in Having(d) : Cardinality(Having(d)) > 0
           /\ \A p \in Having(d) :
                Cardinality(Having(d) \ {p}) = Cardinality(Having(d)) - 1
           /\ \A p \in Procs \ Having(d) :
                Cardinality(Having(d) \union {p}) = Cardinality(Having(d)) + 1
<1>1. Having(d) \subseteq Procs
  BY DEF Having
<1>2. IsFiniteSet(Having(d))
  BY <1>1, PipeAssumption, FS_Subset
<1>3. Cardinality(Having(d)) \in Nat
  BY <1>2, FS_CardinalityType
<1>4. Cardinality(Having(d)) = 0 <=> Having(d) = {}
  BY <1>2, FS_EmptySet
<1>5. \A p \in Having(d) : Cardinality(Having(d) \ {p}) = Cardinality(Having(d)) - 1
  BY <1>2, FS_RemoveElement
<1>6. \A p \in Procs \ Having(d) :
          Cardinality(Having(d) \union {p}) = Cardinality(Having(d)) + 1
  BY <1>2, FS_AddElement
<1>7. QED
  BY <1>2, <1>3, <1>4, <1>5, <1>6
--------------------------------------------------------------------------------
(* An open for reading: he counts, and wakes the writers that waited for   *)
(* the first reader.                                                       *)
LEMMA OpenRStep ==
    ASSUME IInv, NEW p \in Procs, OpenR(p)
    PROVE  IInv' /\ Front' = Front
<1>1. PICK m \in {x \in Modes[p] : x.dir = "R"} :
          proc' = WakeIf(frcnt = 0, Set(p, Opening(m, ReaderWaits(m))), "frcnt")
  BY DEF OpenR
<1>2. m \in Mode /\ m.dir = "R"
  BY <1>1, PipeAssumption DEF Mode
<1>3. ReaderWaits(m) \in BOOLEAN /\ (ReaderWaits(m) => fwcnt = 0)
  BY DEF ReaderWaits
<1> DEFINE x == Opening(m, ReaderWaits(m))
           cond == frcnt = 0
<1>4. /\ x \in State /\ x.pc \in {"open", "opening"} /\ x.mode = m
      /\ x.asleep => ReaderWaits(m) /\ x.pc = "opening"
  BY <1>2, <1>3 DEF Opening, State, Short
<1>5. Moves(p, x, cond, "frcnt")
  BY <1>1, <1>4 DEF Moves
<1>6. /\ proc[p].pc = "closed" /\ frcnt' = frcnt + 1
      /\ UNCHANGED <<size, frptr, fwptr, data, fwcnt, fflag, ilock>>
  BY DEF OpenR
<1> HIDE DEF x, cond
<1>7. Same(proc'[p], x)
  BY <1>5, MovesFacts DEF IInv
<1>8. Busy({"read"})' = Busy({"read"}) /\ Busy({"write"})' = Busy({"write"}) /\ Transfers' = Transfers
  BY <1>4, <1>5, <1>6, BusyKept DEF IInv
<1>9. Shaped'
  BY <1>5, <1>6, MovesFacts DEF IInv, Shaped
<1>10. Counted'
  <2>1. p \in Procs \ Having("R") /\ p \notin Having("W")
    BY <1>6 DEF Having
  <2>2. Having("R")' = Having("R") \union {p} /\ Having("W")' = Having("W")
    <3>1. x.pc # "closed" /\ x.mode.dir = "R"
      BY <1>2, <1>4
    <3>2. Having("R")' = Having("R") \union {p} /\ Having("W")' = Having("W") \ {p}
      BY <1>5, <3>1, MovesSets DEF IInv
    <3>3. QED
      BY <2>1, <3>2
  <2>3. QED
    BY <1>6, <2>1, <2>2, CountsPositive DEF IInv, Counted
<1>11. Alone'
  BY <1>6, <1>8 DEF IInv, Alone
<1>12. Sided'
  <2>1. SidedAt(p)'
    BY <1>4, <1>7 DEF SidedAt, Same
  <2>2. ASSUME NEW q \in Procs \ {p}
        PROVE  SidedAt(q)'
    BY <1>5, <1>6, OthersSided DEF IInv, Sided, SidedAt
  <2>3. QED
    BY <2>1, <2>2 DEF Sided
<1>13. Reasons'
  <2>1. proc'[p].asleep => ReasonFor(p)'
    BY <1>2, <1>3, <1>4, <1>6, <1>7 DEF ReasonFor, Same
  <2>2. ASSUME NEW q \in Procs \ {p}, proc'[q].asleep
        PROVE  ReasonFor(q)'
    <3>1. frcnt \in Nat
      BY CountsPositive DEF IInv, Counted
    <3>2. CASE proc[q].pc = "rwait"
      BY <1>5, <1>6, <1>8, <2>2, <3>1, <3>2, StillAsleep DEF ReasonFor
    <3>3. CASE proc[q].pc = "wwait"
      BY <1>5, <1>6, <1>8, <2>2, <3>1, <3>3, StillAsleep DEF ReasonFor, Room
    <3>4. CASE proc[q].pc = "opening"
      BY <1>5, <1>6, <2>2, <3>4, StillAsleep DEF ReasonFor, cond
    <3>5. QED
      BY <1>5, <2>2, <3>2, <3>3, <3>4, StillAsleep
  <2>3. QED
    BY <2>1, <2>2 DEF Reasons
<1>14. Circle'
  BY <1>4, <1>5, <1>6, CircleKept
<1>15. IInv'
  BY <1>9, <1>10, <1>11, <1>12, <1>13, <1>14 DEF IInv
<1>16. Front' = Front
  BY <1>4, <1>5, <1>6, <1>15, FrontKept
<1>17. QED
  BY <1>15, <1>16
(* An open for writing: the same the other way round.                      *)
LEMMA OpenWStep ==
    ASSUME IInv, NEW p \in Procs, OpenW(p)
    PROVE  IInv' /\ Front' = Front
<1>1. PICK m \in {x \in Modes[p] : x.dir = "W"} :
          /\ ~(m.ndelay /\ frcnt = 0)
          /\ proc' = WakeIf(fwcnt = 0, Set(p, Opening(m, WriterWaits)), "fwcnt")
  BY DEF OpenW
<1>2. m \in Mode /\ m.dir = "W"
  BY <1>1, PipeAssumption DEF Mode
<1>3. WriterWaits \in BOOLEAN /\ (WriterWaits => frcnt = 0)
  BY DEF WriterWaits
<1> DEFINE x == Opening(m, WriterWaits)
           cond == fwcnt = 0
<1>4. /\ x \in State /\ x.pc \in {"open", "opening"} /\ x.mode = m
      /\ x.asleep => WriterWaits /\ x.pc = "opening"
  BY <1>2, <1>3 DEF Opening, State, Short
<1>5. Moves(p, x, cond, "fwcnt")
  BY <1>1, <1>4 DEF Moves
<1>6. /\ proc[p].pc = "closed" /\ fwcnt' = fwcnt + 1
      /\ UNCHANGED <<size, frptr, fwptr, data, frcnt, fflag, ilock>>
  BY DEF OpenW
<1> HIDE DEF x, cond
<1>7. Same(proc'[p], x)
  BY <1>5, MovesFacts DEF IInv
<1>8. Busy({"read"})' = Busy({"read"}) /\ Busy({"write"})' = Busy({"write"}) /\ Transfers' = Transfers
  BY <1>4, <1>5, <1>6, BusyKept DEF IInv
<1>9. Shaped'
  BY <1>5, <1>6, MovesFacts DEF IInv, Shaped
<1>10. Counted'
  <2>1. p \in Procs \ Having("W") /\ p \notin Having("R")
    BY <1>6 DEF Having
  <2>2. Having("W")' = Having("W") \union {p} /\ Having("R")' = Having("R")
    <3>1. x.pc # "closed" /\ x.mode.dir = "W"
      BY <1>2, <1>4
    <3>2. Having("W")' = Having("W") \union {p} /\ Having("R")' = Having("R") \ {p}
      BY <1>5, <3>1, MovesSets DEF IInv
    <3>3. QED
      BY <2>1, <3>2
  <2>3. QED
    BY <1>6, <2>1, <2>2, CountsPositive DEF IInv, Counted
<1>11. Alone'
  BY <1>6, <1>8 DEF IInv, Alone
<1>12. Sided'
  <2>1. SidedAt(p)'
    BY <1>4, <1>7 DEF SidedAt, Same
  <2>2. ASSUME NEW q \in Procs \ {p}
        PROVE  SidedAt(q)'
    BY <1>5, <1>6, OthersSided DEF IInv, Sided, SidedAt
  <2>3. QED
    BY <2>1, <2>2 DEF Sided
<1>13. Reasons'
  <2>1. proc'[p].asleep => ReasonFor(p)'
    BY <1>2, <1>3, <1>4, <1>6, <1>7 DEF ReasonFor, Same
  <2>2. ASSUME NEW q \in Procs \ {p}, proc'[q].asleep
        PROVE  ReasonFor(q)'
    <3>1. fwcnt \in Nat
      BY CountsPositive DEF IInv, Counted
    <3>2. CASE proc[q].pc = "rwait"
      BY <1>5, <1>6, <1>8, <2>2, <3>1, <3>2, StillAsleep DEF ReasonFor
    <3>3. CASE proc[q].pc = "wwait"
      BY <1>5, <1>6, <1>8, <2>2, <3>1, <3>3, StillAsleep DEF ReasonFor, Room
    <3>4. CASE proc[q].pc = "opening"
      BY <1>5, <1>6, <2>2, <3>4, StillAsleep DEF ReasonFor, cond
    <3>5. QED
      BY <1>5, <2>2, <3>2, <3>3, <3>4, StillAsleep
  <2>3. QED
    BY <2>1, <2>2 DEF Reasons
<1>14. Circle'
  BY <1>4, <1>5, <1>6, CircleKept
<1>15. IInv'
  BY <1>9, <1>10, <1>11, <1>12, <1>13, <1>14 DEF IInv
<1>16. Front' = Front
  BY <1>4, <1>5, <1>6, <1>15, FrontKept
<1>17. QED
  BY <1>15, <1>16

(* Who slept before has the same reason, if nothing it rests on changed.   *)
LEMMA ReasonKept ==
    ASSUME IInv, NEW p \in Procs, NEW x, NEW cond, NEW c, Moves(p, x, cond, c),
           UNCHANGED <<size, frcnt, fwcnt>>, fflag \subseteq fflag',
           proc[p].pc \notin {"read", "write"},
           NEW q \in Procs \ {p}, proc'[q].asleep
    PROVE  ReasonFor(q)'
<1>1. Busy({"read"}) \subseteq Busy({"read"})' /\ Busy({"write"}) \subseteq Busy({"write"})'
  <2>1. ASSUME NEW s \in {{"read"}, {"write"}}
        PROVE  Busy(s) \subseteq Busy(s)'
    <3>1. p \notin Busy(s)
      BY DEF Busy
    <3>2. Busy(s)' = Busy(s) \union {p} \/ Busy(s)' = Busy(s) \ {p}
      BY MovesSets DEF IInv
    <3>3. QED
      BY <3>1, <3>2
  <2>2. QED
    BY <2>1
<1>2. CASE proc[q].pc = "rwait"
  BY <1>1, <1>2, StillAsleep DEF ReasonFor
<1>3. CASE proc[q].pc = "wwait"
  BY <1>1, <1>3, StillAsleep DEF ReasonFor, Room
<1>4. CASE proc[q].pc = "opening"
  BY <1>4, StillAsleep DEF ReasonFor
<1>5. QED
  BY <1>2, <1>3, <1>4, StillAsleep

(* The same test again in s5openf, or a signal.                            *)
LEMMA ReopenStep ==
    ASSUME IInv, NEW p \in Procs, Reopen(p) \/ Interrupt(p)
    PROVE  IInv' /\ Front' = Front
<1>1. proc[p] \in State /\ proc[p].mode.dir \in {"R", "W"} /\ SidedAt(p)
  BY DEF IInv, Shaped, State, Short, Long, Mode, Sided
<1>2. PICK x \in State : /\ proc' = Set(p, x) /\ x.mode = proc[p].mode
                         /\ x.pc \in {"open", "opening", "abort"}
                         /\ x.asleep =>
                               /\ x.pc = "opening"
                               /\ x.mode.dir = "R" => fwcnt = 0
                               /\ x.mode.dir = "W" => frcnt = 0
  <2>1. CASE Reopen(p)
    <3> DEFINE m == proc[p].mode
               w == IF m.dir = "R" THEN ReaderWaits(m) ELSE WriterWaits
    <3>1. m \in Mode
      BY <1>1 DEF State, Short, Long
    <3>2. /\ w \in BOOLEAN /\ (w /\ m.dir = "R" => fwcnt = 0)
          /\ (w /\ m.dir = "W" => frcnt = 0)
      BY DEF ReaderWaits, WriterWaits
    <3>3. proc' = Set(p, Opening(m, w))
      BY <2>1 DEF Reopen
    <3>4. Opening(m, w) \in State /\ Opening(m, w).mode = m
          /\ Opening(m, w).pc \in {"open", "opening"}
          /\ (Opening(m, w).asleep => w /\ Opening(m, w).pc = "opening")
      <4> HIDE DEF m, w
      <4>1. QED
        BY <3>1, <3>2 DEF Opening, State, Short
    <3>5. QED
      BY <3>2, <3>3, <3>4
  <2>2. CASE Interrupt(p)
    <3>1. CASE proc[p].pc = "opening"
      <4>1. proc[p] \in Short
        BY <1>1, <3>1 DEF State, Long
      <4>2. proc' = Set(p, [proc[p] EXCEPT !.pc = "abort", !.asleep = FALSE])
        BY <2>2, <3>1 DEF Interrupt
      <4> DEFINE x == [proc[p] EXCEPT !.pc = "abort", !.asleep = FALSE]
      <4>3. x \in State /\ x.mode = proc[p].mode /\ x.pc = "abort" /\ ~x.asleep
        BY <4>1 DEF State, Short
      <4>4. QED
        BY <4>2, <4>3
    <3>2. CASE proc[p].pc # "opening"
      <4>1. proc[p].mode \in Mode
        BY <1>1 DEF State, Short, Long
      <4>2. proc' = Set(p, Opened(proc[p].mode))
        BY <2>2, <3>2 DEF Interrupt
      <4>3. /\ Opened(proc[p].mode) \in State /\ Opened(proc[p].mode).mode = proc[p].mode
            /\ Opened(proc[p].mode).pc = "open" /\ ~Opened(proc[p].mode).asleep
        BY <4>1 DEF State, Short, Opened
      <4>4. QED
        BY <4>2, <4>3
    <3>3. QED
      BY <3>1, <3>2
  <2>3. QED
    BY <2>1, <2>2
<1>3. Moves(p, x, FALSE, "frcnt")
  BY <1>2 DEF Moves, WakeIf
<1>4. UNCHANGED <<size, frptr, fwptr, data, frcnt, fwcnt, fflag, ilock>>
  BY DEF Reopen, Interrupt, ptrs, cnts
<1>5. proc[p].pc \in {"opening", "rwait", "wwait"}
  BY DEF Reopen, Interrupt
<1>6. Same(proc'[p], x) /\ Transfers' = Transfers
  BY <1>2, <1>3, <1>5, MovesFacts, BusyKept DEF IInv
<1>7. Shaped'
  BY <1>3, <1>4, MovesFacts DEF IInv, Shaped
<1>8. Counted'
  BY <1>2, <1>3, <1>4, <1>5, CountedKept DEF cnts
<1>9. Alone'
  BY <1>4, <1>6 DEF IInv, Alone
<1>10. Sided'
  <2>1. SidedAt(p)'
    BY <1>2, <1>6 DEF SidedAt, Same
  <2>2. ASSUME NEW q \in Procs \ {p}
        PROVE  SidedAt(q)'
    BY <1>3, <1>4, OthersSided DEF IInv, Sided, SidedAt
  <2>3. QED
    BY <2>1, <2>2 DEF Sided
<1>11. Reasons'
  <2>1. proc'[p].asleep => ReasonFor(p)'
    BY <1>2, <1>4, <1>6 DEF ReasonFor, Same
  <2>2. ASSUME NEW q \in Procs \ {p}, proc'[q].asleep
        PROVE  ReasonFor(q)'
    BY <1>3, <1>4, <1>5, <2>2, ReasonKept
  <2>3. QED
    BY <2>1, <2>2 DEF Reasons
<1>12. Circle'
  BY <1>2, <1>3, <1>4, <1>5, CircleKept
<1>13. IInv'
  BY <1>7, <1>8, <1>9, <1>10, <1>11, <1>12 DEF IInv
<1>14. Front' = Front
  BY <1>2, <1>3, <1>4, <1>5, <1>13, FrontKept
<1>15. QED
  BY <1>13, <1>14

(* A close, or an open given up: the counts go down, the last of a kind    *)
(* wakes the other side.  A sleeper of the other kind is counted, so that  *)
(* the fifo is not emptied under him.                                      *)
LEMMA CloseStep ==
    ASSUME IInv, NEW p \in Procs, Close(p) \/ Abort(p)
    PROVE  IInv' /\ (size' > 0 => Front' = Front)
<1> DEFINE m == proc[p].mode
           r == IF m.dir = "R" THEN frcnt - 1 ELSE frcnt
           w == IF m.dir = "W" THEN fwcnt - 1 ELSE fwcnt
           flag == IF m.dir = "R" THEN "IFIW" ELSE "IFIR"
           last == (IF m.dir = "R" THEN r ELSE w) = 0 /\ flag \in fflag
           c == IF m.dir = "R" THEN "fwcnt" ELSE "frcnt"
<1>1. /\ proc[p].pc \in {"open", "abort"} /\ ~ilock
      /\ ilock' = ilock
      /\ frcnt' = r /\ fwcnt' = w /\ fflag' = fflag \ (IF last THEN {flag} ELSE {})
      /\ proc' = WakeIf(last, Set(p, Closed), c)
      /\ IF r + w = 0
         THEN size' = 0 /\ frptr' = 0 /\ fwptr' = 0
         ELSE UNCHANGED <<size, frptr, fwptr>>
  BY DEF Close, Abort, S5closef
<1>2. Closed \in State /\ Closed.pc = "closed" /\ ~Closed.asleep /\ m.dir \in {"R", "W"}
  BY DEF Closed, IInv, Shaped, State, Short, Long, Mode
<1>3. last \in BOOLEAN
  OBVIOUS
<1>4. Moves(p, Closed, last, c)
  BY <1>1, <1>2, <1>3 DEF Moves
<1>5. Same(proc'[p], Closed)
  BY <1>4, MovesFacts DEF IInv
<1>6. /\ Busy({"read"})' = Busy({"read"}) /\ Busy({"write"})' = Busy({"write"})
      /\ Transfers' = Transfers /\ Transfers = {}
  BY <1>1, <1>2, <1>4, BusyKept DEF IInv, Alone
<1>7. /\ \A d : Having(d)' = Having(d) \ {p}
      /\ p \in Having(m.dir) /\ \A d : d # m.dir => p \notin Having(d)
  <2>1. \A d : Having(d)' = Having(d) \ {p}
    <3> HIDE DEF last, c
    <3>1. QED
      BY <1>2, <1>4, MovesSets DEF IInv
  <2>2. p \in Having(m.dir) /\ \A d : d # m.dir => p \notin Having(d)
    BY <1>1 DEF Having
  <2>3. QED
    BY <2>1, <2>2
<1>8. Counted'
  BY <1>1, <1>2, <1>7, CountsPositive DEF IInv, Counted
<1>9. frcnt \in Nat /\ fwcnt \in Nat /\ r \in Nat /\ w \in Nat
  BY <1>2, <1>7, CountsPositive DEF IInv, Counted
<1>10. \A q \in Procs \ {p} :
          /\ proc[q].pc # "closed" /\ proc[q].mode.dir = "R" => r > 0
          /\ proc[q].pc # "closed" /\ proc[q].mode.dir = "W" => w > 0
  <2>1. ASSUME NEW q \in Procs \ {p}, NEW d \in {"R", "W"},
               proc[q].pc # "closed", proc[q].mode.dir = d
        PROVE  Cardinality(Having(d) \ {p}) > 0
    <3>1. q \in Having(d) \ {p}
      BY <2>1 DEF Having
    <3>2. IsFiniteSet(Having(d) \ {p})
      BY CountsPositive, FS_Subset
    <3>3. QED
      BY <3>1, <3>2, FS_EmptySet, FS_CardinalityType
  <2>2. r = Cardinality(Having("R") \ {p}) /\ w = Cardinality(Having("W") \ {p})
    BY <1>1, <1>7, <1>8 DEF Counted
  <2>3. QED
    BY <2>1, <2>2
<1> HIDE DEF c, last
<1>11. Shaped'
  BY <1>1, <1>4, MovesFacts DEF IInv, Shaped
<1>12. Alone'
  BY <1>1, <1>6 DEF IInv, Alone
<1>13. Sided'
  <2>1. SidedAt(p)'
    BY <1>2, <1>5 DEF SidedAt, Same
  <2>2. ASSUME NEW q \in Procs \ {p}
        PROVE  SidedAt(q)'
    <3>1. proc[q].pc # "read"
      BY <1>6 DEF Transfers, Busy
    <3>2. QED
      BY <1>4, <3>1, OthersSided DEF IInv
  <2>3. QED
    BY <2>1, <2>2 DEF Sided
<1>14. Reasons'
  <2>1. ~proc'[p].asleep
    BY <1>2, <1>5 DEF Same
  <2>2. ASSUME NEW q \in Procs \ {p}, proc'[q].asleep
        PROVE  ReasonFor(q)'
    <3>1. CASE proc[q].pc = "rwait"
      <4>1. r > 0 /\ UNCHANGED size
        BY <1>1, <1>4, <1>9, <1>10, <2>2, <3>1, StillAsleep
      <4>2. ReasonFor(q) /\ proc'[q].pc = "rwait" /\ ~(last /\ c = "frcnt")
        BY <1>4, <2>2, <3>1, StillAsleep
      <4>3. "IFIR" \in fflag /\ fwcnt > 0
        BY <3>1, <4>2 DEF ReasonFor
      <4>4. w > 0 /\ "IFIR" \in fflag'
        BY <1>1, <1>2, <1>9, <4>2, <4>3 DEF last, c
      <4>5. QED
        BY <1>1, <1>6, <3>1, <4>1, <4>2, <4>4 DEF ReasonFor
    <3>2. CASE proc[q].pc = "wwait"
      <4>1. w > 0 /\ UNCHANGED size
        BY <1>1, <1>4, <1>9, <1>10, <2>2, <3>2, StillAsleep
      <4>2. /\ ReasonFor(q) /\ proc'[q].pc = "wwait" /\ ~(last /\ c = "fwcnt")
            /\ proc'[q].left = proc[q].left
        BY <1>4, <2>2, <3>2, StillAsleep
      <4>3. "IFIW" \in fflag /\ frcnt > 0
        BY <3>2, <4>2 DEF ReasonFor
      <4>4. r > 0 /\ "IFIW" \in fflag'
        BY <1>1, <1>2, <1>9, <4>2, <4>3 DEF last, c
      <4>5. QED
        BY <1>1, <1>6, <3>2, <4>1, <4>2, <4>4 DEF ReasonFor, Room
    <3>3. CASE proc[q].pc = "opening"
      <4>1. /\ ReasonFor(q) /\ proc'[q].pc = "opening" /\ proc'[q].mode = proc[q].mode
        BY <1>4, <2>2, <3>3, StillAsleep
      <4>2. /\ proc[q].mode.dir = "R" => fwcnt = 0 /\ m.dir = "R"
            /\ proc[q].mode.dir = "W" => frcnt = 0 /\ m.dir = "W"
        BY <1>2, <1>9, <3>3, <4>1 DEF ReasonFor
      <4>3. QED
        BY <1>1, <3>3, <4>1, <4>2 DEF ReasonFor
    <3>4. QED
      BY <1>4, <2>2, <3>1, <3>2, <3>3, StillAsleep
  <2>3. QED
    BY <2>1, <2>2 DEF Reasons
<1>15. Circle'
  <2>1. CASE r + w = 0
    <3>1. Transfers' = {} /\ size' = 0 /\ frptr' = 0 /\ fwptr' = 0
      BY <1>1, <1>6, <2>1
    <3>2. \A q \in Procs : CircleAt(q)'
      BY <3>1 DEF CircleAt, Transfers, Busy
    <3>3. QED
      BY <3>1, <3>2, PipsizPositive DEF Circle, Wrap
  <2>2. CASE r + w # 0
    BY <1>1, <1>2, <1>4, <2>2, CircleKept
  <2>3. QED
    BY <2>1, <2>2
<1>16. IInv'
  BY <1>8, <1>11, <1>12, <1>13, <1>14, <1>15 DEF IInv
<1>17. size' > 0 => Front' = Front
  <2>1. size' > 0 => frptr' = frptr
    BY <1>1
  <2>2. QED
    BY <1>1, <1>2, <1>4, <1>16, <2>1, FrontKept
<1>18. QED
  BY <1>16, <1>17

(* What a process may do next: nothing.                                    *)
LEMMA OpenedState ==
    ASSUME NEW m \in Mode
    PROVE  /\ Opened(m) \in State /\ Opened(m).pc = "open" /\ Opened(m).mode = m
           /\ ~Opened(m).asleep
  BY DEF Opened, State, Short

(* A process that transfers, or is to transfer what it saved.              *)
LEMMA TransferState ==
    ASSUME NEW pc \in {"read", "write", "floop"}, NEW m \in Mode, NEW n \in Int,
           NEW left \in Int, NEW save \in Int, NEW off \in Nat,
           NEW x, x = Transfer(pc, m, n, left, save, off)
    PROVE  /\ x \in State /\ x \in Long /\ x.pc = pc /\ x.mode = m /\ ~x.asleep
           /\ x.left = left /\ x.save = save /\ x.n = n /\ x.off = off
  BY DEF Transfer, State, Long

(* A process that waits for data or for room.                              *)
LEMMA WaitingState ==
    ASSUME NEW pc \in {"rwait", "wwait"}, NEW m \in Mode, NEW n \in Int, NEW left \in Int,
           NEW x, x = Waiting(pc, m, n, left)
    PROVE  /\ x \in State /\ x \in Long /\ x.pc = pc /\ x.mode = m /\ x.asleep
           /\ x.left = left /\ x.n = n
<1> DEFINE t == Transfer(pc, m, n, left, 0, 0)
<1>1. t \in Long /\ t.pc = pc /\ t.mode = m /\ t.left = left /\ t.n = n
  BY DEF Transfer, Long
<1>2. x = [t EXCEPT !.asleep = TRUE]
  BY DEF Waiting
<1> HIDE DEF t
<1>3. QED
  BY <1>1, <1>2 DEF State, Long

(* The start of a read: it returns at once, sleeps with IFIR set, or locks *)
(* the inode for its blocks.                                               *)
LEMMA ReadStep ==
    ASSUME IInv, NEW p \in Procs, Read(p)
    PROVE  IInv' /\ Front' = Front
<1> DEFINE m == proc[p].mode
<1>1. proc[p] \in State /\ m \in Mode /\ SidedAt(p)
  BY DEF IInv, Shaped, State, Short, Long, Sided
<1>2. PICK n \in Int : S5readi(p, m, n) /\ n > 0
  <2>1. CASE proc[p].pc = "open"
    BY <2>1, PipeAssumption DEF Read
  <2>2. CASE proc[p].pc = "rwait"
    <3>1. proc[p].n \in Int /\ proc[p].n > 0
      BY <1>1, <2>2 DEF State, Short, Long, SidedAt
    <3>2. QED
      BY <2>2, <3>1 DEF Read
  <2>3. QED
    BY <2>1, <2>2 DEF Read
<1>3. /\ ~ilock /\ proc[p].pc \in {"open", "rwait"} /\ m.dir = "R"
      /\ UNCHANGED <<size, frptr, fwptr, data, frcnt, fwcnt>>
  BY <1>1 DEF Read, SidedAt, ptrs, cnts
<1>4. size \in Nat /\ frptr \in Nat /\ Transfers = {}
  BY <1>3 DEF IInv, Shaped, Alone
<1>5. PICK x : /\ Moves(p, x, FALSE, "frcnt") /\ x.mode = m
               /\ \/ x.pc = "open" /\ ~x.asleep /\ UNCHANGED <<fflag, ilock>>
                  \/ /\ x.pc = "rwait" /\ x.n = n /\ x \in Long
                     /\ size = 0 /\ fwcnt > 0 /\ fflag' = fflag \union {"IFIR"}
                     /\ UNCHANGED ilock
                  \/ /\ x.pc = "read" /\ x.left = n /\ ~x.asleep /\ x \in Long
                     /\ x.off = frptr
                     /\ size > 0 /\ ilock' = TRUE /\ UNCHANGED fflag
  <2>1. CASE proc' = Set(p, Opened(m)) /\ UNCHANGED <<fflag, ilock>>
    <3>1. Moves(p, Opened(m), FALSE, "frcnt")
      BY <1>1, <2>1, OpenedState DEF Moves, WakeIf
    <3>2. QED
      BY <1>1, <2>1, <3>1, OpenedState
  <2>2. CASE /\ size = 0 /\ fwcnt > 0 /\ fflag' = fflag \union {"IFIR"}
             /\ proc' = Set(p, Waiting("rwait", m, n, n)) /\ UNCHANGED ilock
    <3> DEFINE x == Waiting("rwait", m, n, n)
    <3>1. x \in State /\ x \in Long /\ x.pc = "rwait" /\ x.mode = m /\ x.n = n
      BY <1>1, WaitingState
    <3> HIDE DEF x
    <3>2. Moves(p, x, FALSE, "frcnt")
      BY <2>2, <3>1 DEF Moves, WakeIf, x
    <3>3. QED
      BY <2>2, <3>1, <3>2
  <2>3. CASE /\ size > 0 /\ ilock' = TRUE /\ UNCHANGED fflag
             /\ proc' = Set(p, Transfer("read", m, n, n, 0, frptr))
    <3> DEFINE x == Transfer("read", m, n, n, 0, frptr)
    <3>0. 0 \in Int /\ frptr \in Nat /\ n \in Int /\ m \in Mode
      BY <1>1, <1>4
    <3>1. x \in State /\ x \in Long /\ x.pc = "read" /\ x.mode = m /\ x.left = n /\ ~x.asleep
          /\ x.off = frptr
      BY ONLY <3>0, TransferState
    <3> HIDE DEF x
    <3>2. Moves(p, x, FALSE, "frcnt")
      BY <2>3, <3>1 DEF Moves, WakeIf, x
    <3>3. QED
      BY <2>3, <3>1, <3>2
  <2>4. QED
    BY <1>2, <2>1, <2>2, <2>3 DEF S5readi
<1>6. Same(proc'[p], x)
  BY <1>5, MovesFacts DEF IInv
<1>7. Shaped'
  BY <1>3, <1>5, MovesFacts DEF IInv, Shaped
<1>8. Counted'
  <2>1. proc[p].pc # "closed" /\ x.pc # "closed" /\ UNCHANGED cnts
    BY <1>3, <1>5 DEF cnts
  <2>2. QED
    BY <1>5, <2>1, CountedKept
<1>9. Alone'
  <2>1. Transfers' = IF x.pc \in {"read", "write", "floop"} THEN {p} ELSE {}
    <3>1. Transfers' = IF x.pc \in {"read", "write", "floop"} THEN Transfers \union {p}
                       ELSE Transfers \ {p}
      BY <1>5, MovesSets DEF IInv, Transfers
    <3>2. QED
      BY <1>4, <3>1
  <2>2. QED
    BY <1>3, <1>5, <2>1 DEF Alone
<1>10. Sided'
  <2>1. SidedAt(p)'
    BY <1>2, <1>3, <1>5, <1>6 DEF SidedAt, Same
  <2>2. ASSUME NEW q \in Procs \ {p}
        PROVE  SidedAt(q)'
    <3>1. proc[q].pc # "read"
      BY <1>4 DEF Transfers, Busy
    <3>2. QED
      BY <1>5, <3>1, OthersSided DEF IInv
  <2>3. QED
    BY <2>1, <2>2 DEF Sided
<1>11. Reasons'
  <2>1. proc'[p].asleep => ReasonFor(p)'
    BY <1>3, <1>5, <1>6 DEF ReasonFor, Same
  <2>2. ASSUME NEW q \in Procs \ {p}, proc'[q].asleep
        PROVE  ReasonFor(q)'
    <3>1. fflag \subseteq fflag'
      BY <1>5
    <3>2. QED
      BY <1>3, <1>5, <2>2, <3>1, ReasonKept
  <2>3. QED
    BY <2>1, <2>2 DEF Reasons
<1>12. Circle'
  <2>1. CASE x.pc # "read"
    BY <1>3, <1>5, <2>1, CircleKept
  <2>2. CASE x.pc = "read"
    <3>1. Wrap(frptr + size) = fwptr
      BY <1>4 DEF IInv, Circle, Transfers, Busy
    <3>2. CircleAt(p)'
      BY <1>3, <1>5, <1>6, <2>2, <3>1 DEF IInv, Circle, CircleAt, Same, Wrap
    <3>3. \A q \in Procs \ {p} : CircleAt(q)'
      <4>1. \A q \in Procs \ {p} : proc'[q].pc = proc[q].pc
        BY <1>5, OthersPc DEF IInv
      <4>2. QED
        BY <1>4, <4>1 DEF CircleAt, Transfers, Busy
    <3>4. Busy({"read", "write"})' # {}
      BY <1>6, <2>2 DEF Busy, Same
    <3>5. QED
      BY <1>3, <3>2, <3>3, <3>4 DEF IInv, Circle
  <2>3. QED
    BY <2>1, <2>2
<1>13. IInv'
  BY <1>7, <1>8, <1>9, <1>10, <1>11, <1>12 DEF IInv
<1>14. Front' = Front
  <2>1. CASE x.pc # "read"
    BY <1>3, <1>5, <1>13, <2>1, FrontKept
  <2>2. CASE x.pc = "read"
    <3>1. Front = frptr
      BY <1>4, FrontHere DEF FrontOK, Transfers, Busy
    <3>2. proc'[p].pc = "read" /\ proc'[p].off = frptr
      BY <1>5, <1>6, <2>2 DEF Same
    <3>3. QED
      BY <1>13, <3>1, <3>2, FrontThere DEF FrontOK
  <2>3. QED
    BY <2>1, <2>2
<1>15. QED
  BY <1>13, <1>14

(* A transfer after n bytes more.                                          *)
GoneOn(y, n, off) == [y EXCEPT !.left = @ - n, !.off = off]

(* It is the same transfer, with less left.                                *)
LEMMA GoesOn ==
    ASSUME NEW y \in Long, NEW n \in Int, NEW off \in Nat, NEW x, x = GoneOn(y, n, off)
    PROVE  /\ x \in State /\ x \in Long /\ x.pc = y.pc /\ x.mode = y.mode
           /\ x.asleep = y.asleep /\ x.n = y.n /\ x.save = y.save
           /\ x.left = y.left - n /\ x.off = off
<1> USE DEF GoneOn
<1>1. y.left - n \in Int
  BY DEF Long
<1>2. x.pc = y.pc /\ x.mode = y.mode /\ x.asleep = y.asleep /\ x.n = y.n /\ x.save = y.save
  BY DEF Long
<1>3. x.left = y.left - n /\ x.off = off
  BY DEF Long
<1>4. x \in Long
  BY <1>1 DEF Long
<1>5. QED
  BY <1>2, <1>3, <1>4 DEF State

(* One block of a read.  At the end of the transfer those who wait for     *)
(* room wake up; before it the reader is still busy.                       *)
LEMMA ReadBlockStep ==
    ASSUME IInv, NEW p \in Procs, ReadBlock(p)
    PROVE  IInv' /\ (size' > 0 => Front' = (proc[p].off + (size - size')) % PIPSIZ)
<1> DEFINE y == proc[p]
           n == Min({Blk - (y.off % Blk), y.left, size})
           off == (y.off + n) % PIPSIZ
           done == n = y.left \/ n = size
<1>1. /\ y.pc = "read" /\ size' = size - n /\ UNCHANGED cnts
      /\ done => ReadDone(p, off, size - n)
      /\ ~done => /\ proc' = Set(p, [y EXCEPT !.left = @ - n, !.off = off])
                  /\ UNCHANGED <<frptr, fwptr, fflag, ilock>>
  BY DEF ReadBlock
<1>2. /\ y \in Long /\ y.mode \in Mode /\ y.mode.dir = "R" /\ y.left \in Nat \ {0}
      /\ size \in Nat \ {0} /\ y.off \in Nat /\ ~y.asleep
  <2>1. y \in State /\ SidedAt(p) /\ size \in Nat
    BY DEF IInv, Shaped, Sided
  <2>2. y \in Long
    BY <1>1, <2>1 DEF State, Short
  <2>3. QED
    BY <1>1, <2>1, <2>2 DEF Long, SidedAt
<1>3. n \in 1..PIPSIZ /\ n <= y.left /\ n <= size
  BY <1>2, BlockFacts
<1>4. /\ y.off < PIPSIZ /\ Wrap(y.off + size) = fwptr /\ size <= PIPSIZ
      /\ frptr < PIPSIZ /\ fwptr < PIPSIZ /\ frptr \in Nat /\ fwptr \in Nat
  BY <1>1 DEF IInv, Circle, CircleAt, Shaped
<1>5. off = Wrap(y.off + n) /\ off \in Nat /\ off < PIPSIZ
  <2>1. y.off + n \in Nat /\ y.off + n < 2 * PIPSIZ
    BY <1>2, <1>3, <1>4, PipsizPositive
  <2>2. QED
    BY <2>1, WrapFacts
<1>6. ilock /\ Transfers = {p}
  BY <1>1 DEF IInv, Alone, Transfers, Busy
<1> HIDE DEF n, off
<1>7. Wrap(off + size') = fwptr /\ size' \in Nat /\ size' <= PIPSIZ
  BY <1>1, <1>2, <1>3, <1>4, <1>5, PipsizPositive DEF Wrap
<1>8. PICK x, cond : /\ Moves(p, x, cond, "fwcnt") /\ x.mode = y.mode /\ ~x.asleep
                     /\ fflag \ {"IFIW"} \subseteq fflag' /\ fflag' \subseteq fflag
                     /\ \/ /\ x.pc = "open" /\ ilock' = FALSE /\ (cond <=> "IFIW" \in fflag)
                           /\ frptr' = (IF size' > 0 THEN off ELSE 0)
                           /\ fwptr' = (IF size' > 0 THEN fwptr ELSE 0)
                        \/ /\ x.pc = "read" /\ x \in Long /\ x.left > 0 /\ size' > 0
                           /\ x.off = off
                           /\ UNCHANGED <<frptr, fwptr, fflag, ilock>>
  <2>1. CASE done
    <3>1. /\ frptr' = IF size' > 0 THEN off ELSE 0
          /\ fwptr' = IF size' > 0 THEN fwptr ELSE 0
          /\ fflag' = fflag \ {"IFIW"} /\ ilock' = FALSE
          /\ proc' = WakeIf("IFIW" \in fflag, Set(p, Opened(y.mode)), "fwcnt")
      BY <1>1, <2>1 DEF ReadDone
    <3> DEFINE cond == "IFIW" \in fflag
    <3>2. Moves(p, Opened(y.mode), cond, "fwcnt")
      BY <1>2, <3>1, OpenedState DEF Moves
    <3>3. /\ Opened(y.mode).mode = y.mode /\ ~Opened(y.mode).asleep
          /\ Opened(y.mode).pc = "open"
      BY <1>2, OpenedState
    <3>4. cond <=> "IFIW" \in fflag
      OBVIOUS
    <3> HIDE DEF cond
    <3>5. QED
      BY <3>1, <3>2, <3>3, <3>4
  <2>2. CASE ~done
    <3> DEFINE x == GoneOn(y, n, off)
    <3>1. n \in Int
      BY <1>3
    <3>2. /\ x \in State /\ x \in Long /\ x.pc = y.pc /\ x.mode = y.mode
          /\ x.asleep = y.asleep /\ x.left = y.left - n /\ x.off = off
      BY ONLY <1>2, <1>5, <3>1, GoesOn
    <3> HIDE DEF x
    <3>3. Moves(p, x, FALSE, "fwcnt")
      BY <1>1, <2>2, <3>2 DEF Moves, WakeIf, x, GoneOn
    <3>4. x.left > 0 /\ size' > 0
      BY <1>1, <1>2, <1>3, <2>2, <3>2
    <3>5. QED
      BY <1>1, <1>2, <2>2, <3>2, <3>3, <3>4
  <2>3. QED
    BY <2>1, <2>2
<1>9. Same(proc'[p], x)
  BY <1>8, MovesFacts DEF IInv
<1>10. Shaped'
  <2>1. fflag' \subseteq {"IFIR", "IFIW"} /\ ilock' \in BOOLEAN
    BY <1>6, <1>8 DEF IInv, Shaped
  <2>2. frptr' \in Nat /\ fwptr' \in Nat
    BY <1>4, <1>5, <1>8
  <2>3. QED
    BY <1>7, <1>8, <2>1, <2>2, MovesFacts DEF IInv, Shaped
<1>11. Counted'
  <2>1. proc[p].pc # "closed" /\ x.pc # "closed"
    BY <1>1, <1>8
  <2>2. QED
    BY <1>1, <1>8, <2>1, CountedKept
<1>12. Transfers' = IF x.pc = "read" THEN {p} ELSE {}
  <2>1. Transfers' = IF x.pc \in {"read", "write", "floop"} THEN Transfers \union {p}
                     ELSE Transfers \ {p}
    BY <1>8, MovesSets DEF IInv, Transfers
  <2>2. QED
    BY <1>6, <1>8, <2>1
<1>13. Alone'
  BY <1>6, <1>8, <1>12 DEF Alone
<1>14. \A q \in Procs \ {p} :
          proc[q].pc \notin {"read", "write"} /\ proc'[q].pc \notin {"read", "write"}
  <2>1. \A q \in Procs \ {p} : proc'[q].pc = proc[q].pc
    BY <1>8, OthersPc DEF IInv
  <2>2. QED
    BY <1>6, <2>1 DEF Transfers, Busy
<1>15. Sided'
  <2>1. SidedAt(p)'
    BY <1>2, <1>8, <1>9 DEF SidedAt, Same
  <2>2. ASSUME NEW q \in Procs \ {p}
        PROVE  SidedAt(q)'
    BY <1>8, <1>14, OthersSided DEF IInv
  <2>3. QED
    BY <2>1, <2>2 DEF Sided
<1>16. Circle'
  <2>1. frptr' < PIPSIZ /\ fwptr' < PIPSIZ
    BY <1>4, <1>5, <1>8, PipsizPositive
  <2>2. CircleAt(p)'
    BY <1>5, <1>7, <1>8, <1>9 DEF CircleAt, Same, Wrap
  <2>3. \A q \in Procs \ {p} : CircleAt(q)'
    BY <1>14 DEF CircleAt
  <2>4. Busy({"read", "write"})' = {} => Wrap(frptr' + size') = fwptr'
    <3>1. CASE x.pc = "read"
      BY <1>9, <3>1 DEF Busy, Same
    <3>2. CASE x.pc # "read"
      BY <1>4, <1>5, <1>7, <1>8, <3>2, PipsizPositive DEF Wrap
    <3>3. QED
      BY <3>1, <3>2
  <2>5. QED
    BY <1>7, <2>1, <2>2, <2>3, <2>4 DEF Circle, Wrap
<1>17. Reasons'
  <2>1. ~proc'[p].asleep
    BY <1>8, <1>9 DEF Same
  <2>2. ASSUME NEW q \in Procs \ {p}, proc'[q].asleep
        PROVE  ReasonFor(q)'
    <3>1. ReasonFor(q) /\ UNCHANGED <<frcnt, fwcnt>>
      BY <1>1, <1>8, <2>2, StillAsleep DEF cnts
    <3>2. CASE proc[q].pc = "rwait"
      <4>1. Busy({"write"}) = {}
        BY <1>1, <1>14 DEF Busy
      <4>2. QED
        BY <1>2, <3>1, <3>2, <4>1 DEF ReasonFor
    <3>3. CASE proc[q].pc = "wwait"
      <4>1. /\ proc'[q].pc = "wwait" /\ ~(cond /\ "fwcnt" = "fwcnt")
            /\ "IFIW" \in fflag /\ frcnt > 0
        BY <1>8, <2>2, <3>1, <3>3, StillAsleep DEF ReasonFor
      <4>2. x.pc = "read" /\ UNCHANGED fflag
        BY <1>8, <4>1
      <4>3. Busy({"read"})' # {}
        BY <1>9, <4>2 DEF Busy, Same
      <4>4. QED
        BY <3>1, <4>1, <4>2, <4>3 DEF ReasonFor
    <3>4. CASE proc[q].pc = "opening"
      BY <1>8, <2>2, <3>1, <3>4, StillAsleep DEF ReasonFor
    <3>5. QED
      BY <1>8, <2>2, <3>2, <3>3, <3>4, StillAsleep
  <2>3. QED
    BY <2>1, <2>2 DEF Reasons
<1>18. IInv'
  BY <1>10, <1>11, <1>13, <1>15, <1>16, <1>17 DEF IInv
<1>19. size' > 0 => Front' = (y.off + (size - size')) % PIPSIZ
  <2> SUFFICES ASSUME size' > 0
               PROVE  Front' = off
    BY <1>1, <1>2, <1>3 DEF off
  <2>1. CASE x.pc = "read"
    BY <1>8, <1>9, <1>18, <2>1, FrontThere DEF FrontOK, Same
  <2>2. CASE x.pc # "read"
    <3>1. Busy({"read"})' = {} /\ frptr' = off
      BY <1>8, <1>12, <2>2 DEF Transfers, Busy
    <3>2. QED
      BY <1>18, <3>1, FrontThere DEF FrontOK
  <2>3. QED
    BY <2>1, <2>2
<1>20. QED
  BY <1>18, <1>19

(* A round of a write: it ends, sleeps with IFIW set, or keeps the inode   *)
(* locked for its blocks.                                                  *)
LEMMA WriteStep ==
    ASSUME IInv, NEW p \in Procs, Write(p)
    PROVE  IInv' /\ Front' = Front
<1> DEFINE m == proc[p].mode
<1>1. proc[p] \in State /\ m \in Mode /\ SidedAt(p)
  BY DEF IInv, Shaped, State, Short, Long, Sided
<1>2. PICK n \in Int, left \in Int : /\ S5writei(p, m, n, left) /\ left > 0
                                    /\ n \in Counts[p] /\ left <= n
  <2>1. CASE proc[p].pc = "open"
    BY <2>1, PipeAssumption DEF Write
  <2>2. CASE proc[p].pc \in {"wwait", "floop"}
    <3>1. /\ proc[p].n \in Int /\ proc[p].left \in Int /\ proc[p].left > 0
          /\ proc[p].n \in Counts[p] /\ proc[p].left <= proc[p].n
      BY <1>1, <2>2 DEF State, Short, Long, SidedAt
    <3>2. QED
      BY <2>2, <3>1 DEF Write
  <2>3. QED
    BY <2>1, <2>2 DEF Write
<1>3. /\ proc[p].pc \in {"open", "wwait", "floop"} /\ m.dir = "W"
      /\ UNCHANGED <<size, frptr, fwptr, data, frcnt, fwcnt>>
      /\ ilock => proc[p].pc = "floop"
  BY <1>1 DEF Write, SidedAt, ptrs, cnts
<1>4. size \in Nat /\ fwptr \in Nat /\ Transfers \subseteq {p} /\ size <= PIPSIZ
  BY <1>3 DEF IInv, Shaped, Alone, Circle, Transfers, Busy
<1>5. Room(left) \in 0..left /\ size + Room(left) <= PIPSIZ
  BY <1>2, <1>4, RoomFacts
<1>6. PICK x : /\ Moves(p, x, FALSE, "fwcnt") /\ x.mode = m
               /\ \/ x.pc = "open" /\ ~x.asleep /\ ilock' = FALSE /\ UNCHANGED fflag
                  \/ /\ x.pc = "wwait" /\ x.left = left /\ x \in Long /\ x.n = n
                     /\ frcnt > 0 /\ Room(left) = 0 /\ fflag' = fflag \union {"IFIW"}
                     /\ ilock' = FALSE
                  \/ /\ x.pc = "write" /\ x.left = left /\ ~x.asleep /\ x \in Long /\ x.n = n
                     /\ x.save = left - Room(left) /\ x.off = fwptr
                     /\ Room(left) > 0 /\ ilock' = TRUE /\ UNCHANGED fflag
  <2>1. CASE proc' = Set(p, Opened(m)) /\ ilock' = FALSE /\ UNCHANGED fflag
    <3>1. Moves(p, Opened(m), FALSE, "fwcnt")
      BY <1>1, <2>1, OpenedState DEF Moves, WakeIf
    <3>2. QED
      BY <1>1, <2>1, <3>1, OpenedState
  <2>2. CASE /\ frcnt > 0 /\ Room(left) = 0 /\ fflag' = fflag \union {"IFIW"}
             /\ proc' = Set(p, Waiting("wwait", m, n, left)) /\ ilock' = FALSE
    <3> DEFINE x == Waiting("wwait", m, n, left)
    <3>1. x \in State /\ x \in Long /\ x.pc = "wwait" /\ x.mode = m /\ x.left = left
          /\ x.n = n
      BY <1>1, WaitingState
    <3> HIDE DEF x
    <3>2. Moves(p, x, FALSE, "fwcnt")
      BY <2>2, <3>1 DEF Moves, WakeIf, x
    <3>3. QED
      BY <2>2, <3>1, <3>2
  <2>3. CASE /\ Room(left) > 0 /\ ilock' = TRUE /\ UNCHANGED fflag
             /\ proc' = Set(p, Transfer("write", m, n, left, left - Room(left), fwptr))
    <3> DEFINE x == Transfer("write", m, n, left, left - Room(left), fwptr)
    <3>1. left - Room(left) \in Int /\ fwptr \in Nat /\ n \in Int /\ m \in Mode /\ left \in Int
      BY <1>1, <1>4, <1>5
    <3>2. x \in State /\ x \in Long /\ x.pc = "write" /\ x.mode = m /\ x.left = left /\ ~x.asleep
          /\ x.save = left - Room(left) /\ x.off = fwptr /\ x.n = n
      BY ONLY <3>1, TransferState
    <3> HIDE DEF x
    <3>3. Moves(p, x, FALSE, "fwcnt")
      BY <2>3, <3>2 DEF Moves, WakeIf, x
    <3>4. QED
      BY <2>3, <3>2, <3>3
  <2>4. QED
    BY <1>2, <2>1, <2>2, <2>3 DEF S5writei
<1>7. Same(proc'[p], x)
  BY <1>6, MovesFacts DEF IInv
<1>8. Shaped'
  BY <1>3, <1>6, MovesFacts DEF IInv, Shaped
<1>9. Counted'
  <2>1. proc[p].pc # "closed" /\ x.pc # "closed" /\ UNCHANGED cnts
    BY <1>3, <1>6 DEF cnts
  <2>2. QED
    BY <1>6, <2>1, CountedKept
<1>10. Alone'
  <2>1. Transfers' = IF x.pc \in {"read", "write", "floop"} THEN {p} ELSE {}
    <3>1. Transfers' = IF x.pc \in {"read", "write", "floop"} THEN Transfers \union {p}
                       ELSE Transfers \ {p}
      BY <1>6, MovesSets DEF IInv, Transfers
    <3>2. QED
      BY <1>4, <3>1
  <2>2. QED
    BY <1>6, <2>1 DEF Alone
<1>11. Sided'
  <2>1. SidedAt(p)'
    BY <1>2, <1>3, <1>5, <1>6, <1>7 DEF SidedAt, Same
  <2>2. ASSUME NEW q \in Procs \ {p}
        PROVE  SidedAt(q)'
    <3>1. proc[q].pc # "read"
      BY <1>4 DEF Transfers, Busy
    <3>2. QED
      BY <1>6, <3>1, OthersSided DEF IInv
  <2>3. QED
    BY <2>1, <2>2 DEF Sided
<1>12. Circle'
  <2>1. CASE x.pc # "write"
    BY <1>3, <1>6, <2>1, CircleKept
  <2>2. CASE x.pc = "write"
    <3>1. Wrap(frptr + size) = fwptr
      BY <1>3, <1>4 DEF IInv, Circle, Transfers, Busy
    <3>2. CircleAt(p)'
      BY <1>3, <1>4, <1>5, <1>6, <1>7, <2>2, <3>1 DEF IInv, Circle, CircleAt, Same, Wrap
    <3>3. \A q \in Procs \ {p} : CircleAt(q)'
      <4>1. \A q \in Procs \ {p} : proc'[q].pc = proc[q].pc
        BY <1>6, OthersPc DEF IInv
      <4>2. QED
        BY <1>4, <4>1 DEF CircleAt, Transfers, Busy
    <3>4. Busy({"read", "write"})' # {}
      BY <1>7, <2>2 DEF Busy, Same
    <3>5. QED
      BY <1>3, <3>2, <3>3, <3>4 DEF IInv, Circle
  <2>3. QED
    BY <2>1, <2>2
<1>13. Reasons'
  <2>1. proc'[p].asleep => ReasonFor(p)'
    BY <1>3, <1>6, <1>7 DEF ReasonFor, Same, Room
  <2>2. ASSUME NEW q \in Procs \ {p}, proc'[q].asleep
        PROVE  ReasonFor(q)'
    <3>1. fflag \subseteq fflag'
      BY <1>6
    <3>2. QED
      BY <1>3, <1>6, <2>2, <3>1, ReasonKept
  <2>3. QED
    BY <2>1, <2>2 DEF Reasons
<1>14. IInv'
  BY <1>8, <1>9, <1>10, <1>11, <1>12, <1>13 DEF IInv
<1>15. Front' = Front
  BY <1>3, <1>6, <1>14, FrontKept
<1>16. QED
  BY <1>14, <1>15

(* One block of a write, which leaves less room and does not end the wait  *)
(* of another writer; at the end of the round the readers wake up.         *)
LEMMA WriteBlockStep ==
    ASSUME IInv, NEW p \in Procs, WriteBlock(p)
    PROVE  IInv' /\ Front' = Front
<1> DEFINE y == proc[p]
           n == Min({Blk - (y.off % Blk), y.left - y.save})
           off == (y.off + n) % PIPSIZ
           done == n = y.left - y.save
<1>1. /\ y.pc = "write" /\ size' = size + n /\ UNCHANGED <<frptr, frcnt, fwcnt>>
      /\ done => WriteDone(p, off)
      /\ ~done => /\ proc' = Set(p, [y EXCEPT !.left = @ - n, !.off = off])
                  /\ UNCHANGED <<fwptr, fflag, ilock>>
  BY DEF WriteBlock, cnts
<1>2. /\ y \in Long /\ y.mode \in Mode /\ y.mode.dir = "W" /\ y.left - y.save \in Nat \ {0}
      /\ size \in Nat /\ y.off \in Nat /\ ~y.asleep /\ y.n \in Int
      /\ y.save \in Nat /\ y.left \in Nat /\ y.n \in Counts[p] /\ y.left <= y.n
  <2>1. y \in State /\ SidedAt(p) /\ size \in Nat
    BY DEF IInv, Shaped, Sided
  <2>2. y \in Long
    BY <1>1, <2>1 DEF State, Short
  <2>3. QED
    BY <1>1, <2>1, <2>2 DEF Long, SidedAt
<1>3. n \in 1..PIPSIZ /\ n <= y.left - y.save
  BY <1>2, BlockFacts
<1>4. /\ y.off < PIPSIZ /\ Wrap(frptr + size) = y.off /\ size + y.left - y.save <= PIPSIZ
      /\ frptr < PIPSIZ /\ fwptr < PIPSIZ /\ frptr \in Nat /\ fwptr \in Nat
  BY <1>1 DEF IInv, Circle, CircleAt, Shaped
<1>5. off = Wrap(y.off + n) /\ off \in Nat /\ off < PIPSIZ
  <2>1. y.off + n \in Nat /\ y.off + n < 2 * PIPSIZ
    BY <1>2, <1>3, <1>4, PipsizPositive
  <2>2. QED
    BY <2>1, WrapFacts
<1>6. ilock /\ Transfers = {p}
  BY <1>1 DEF IInv, Alone, Transfers, Busy
<1> HIDE DEF n, off
<1>7. Wrap(frptr + size') = off /\ size' \in Nat /\ size' <= PIPSIZ /\ size' >= size
  BY <1>1, <1>2, <1>3, <1>4, <1>5, PipsizPositive DEF Wrap
<1>8. PICK x, cond : /\ Moves(p, x, cond, "frcnt") /\ x.mode = y.mode /\ ~x.asleep
                     /\ fflag \ {"IFIR"} \subseteq fflag' /\ fflag' \subseteq fflag
                     /\ \/ /\ x.pc = "open" /\ ilock' = FALSE /\ (cond <=> "IFIR" \in fflag)
                           /\ fwptr' = off
                        \/ /\ x.pc = "floop" /\ x \in Long /\ x.left > 0 /\ x.left <= x.n
                           /\ x.n = y.n /\ ilock' = TRUE /\ (cond <=> "IFIR" \in fflag)
                           /\ fwptr' = off
                        \/ /\ x.pc = "write" /\ x \in Long /\ 0 <= x.save /\ x.save < x.left
                           /\ x.off = off /\ size' + x.left - x.save <= PIPSIZ
                           /\ x.n = y.n /\ x.left <= x.n
                           /\ UNCHANGED <<fwptr, fflag, ilock>>
  <2>1. CASE done
    <3> DEFINE cond == "IFIR" \in fflag
               x == IF y.save = 0 THEN Opened(y.mode)
                    ELSE Transfer("floop", y.mode, y.n, y.save, 0, 0)
    <3>1. /\ fwptr' = off
          /\ fflag' = fflag \ {"IFIR"} /\ ilock' = (y.save > 0)
          /\ proc' = WakeIf(cond, Set(p, x), "frcnt")
      BY <1>1, <2>1 DEF WriteDone
    <3>2. /\ x \in State /\ x.mode = y.mode /\ ~x.asleep
          /\ y.save = 0 => x.pc = "open"
          /\ y.save # 0 => x.pc = "floop" /\ x \in Long /\ x.left = y.save /\ x.n = y.n
      <4>1. CASE y.save = 0
        BY <1>2, <4>1, OpenedState
      <4>2. CASE y.save # 0
        <5>1. y.save \in Int /\ 0 \in Int /\ 0 \in Nat
          BY <1>2
        <5>2. x = Transfer("floop", y.mode, y.n, y.save, 0, 0)
          BY <4>2
        <5> HIDE DEF x
        <5>3. x \in State /\ x \in Long /\ x.pc = "floop" /\ x.mode = y.mode /\ ~x.asleep
              /\ x.left = y.save /\ x.n = y.n
          BY ONLY <1>2, <5>1, <5>2, TransferState
        <5>4. QED
          BY <4>2, <5>3
      <4>3. QED
        BY <4>1, <4>2
    <3>3. Moves(p, x, cond, "frcnt")
      BY <3>1, <3>2 DEF Moves
    <3>4. cond <=> "IFIR" \in fflag
      OBVIOUS
    <3> HIDE DEF cond, x
    <3>5. CASE y.save = 0
      <4>1. (y.save > 0) = FALSE
        BY <3>5
      <4>2. ilock' = FALSE
        BY <3>1, <4>1
      <4>3. QED
        BY <3>1, <3>2, <3>3, <3>4, <3>5, <4>2
    <3>6. CASE y.save # 0
      <4>0. (y.save > 0) = TRUE
        BY <1>2, <3>6
      <4>1. y.save > 0 /\ y.save <= y.n
        BY <1>2, <3>6
      <4>2. x.pc = "floop" /\ x \in Long /\ x.left > 0 /\ ilock' = TRUE /\ x.left <= x.n
        BY <3>1, <3>2, <3>6, <4>0, <4>1
      <4>3. QED
        BY <3>1, <3>2, <3>3, <3>4, <4>2
    <3>7. QED
      BY <3>5, <3>6
  <2>2. CASE ~done
    <3> DEFINE x == GoneOn(y, n, off)
    <3>1. n \in Int
      BY <1>3
    <3>2. /\ x \in State /\ x \in Long /\ x.pc = y.pc /\ x.mode = y.mode
          /\ x.asleep = y.asleep /\ x.left = y.left - n /\ x.off = off /\ x.save = y.save
          /\ x.n = y.n
      BY ONLY <1>2, <1>5, <3>1, GoesOn
    <3> HIDE DEF x
    <3>3. Moves(p, x, FALSE, "frcnt")
      BY <1>1, <2>2, <3>2 DEF Moves, WakeIf, x, GoneOn
    <3>4. 0 <= x.save /\ x.save < x.left /\ size' + x.left - x.save <= PIPSIZ /\ x.left <= x.n
      BY <1>1, <1>2, <1>3, <1>4, <2>2, <3>2, PipsizPositive
    <3>5. QED
      BY <1>1, <1>2, <2>2, <3>2, <3>3, <3>4
  <2>3. QED
    BY <2>1, <2>2
<1>9. Same(proc'[p], x)
  BY <1>8, MovesFacts DEF IInv
<1>10. Shaped'
  <2>1. fflag' \subseteq {"IFIR", "IFIW"} /\ ilock' \in BOOLEAN
    BY <1>6, <1>8 DEF IInv, Shaped
  <2>2. frptr' \in Nat /\ fwptr' \in Nat
    BY <1>1, <1>4, <1>5, <1>8
  <2>3. QED
    BY <1>7, <1>8, <2>1, <2>2, MovesFacts DEF IInv, Shaped
<1>11. Counted'
  <2>1. proc[p].pc # "closed" /\ x.pc # "closed" /\ UNCHANGED cnts
    BY <1>1, <1>8 DEF cnts
  <2>2. QED
    BY <1>8, <2>1, CountedKept
<1>12. Transfers' = IF x.pc = "open" THEN {} ELSE {p}
  <2>1. Transfers' = IF x.pc \in {"read", "write", "floop"} THEN Transfers \union {p}
                     ELSE Transfers \ {p}
    BY <1>8, MovesSets DEF IInv, Transfers
  <2>2. QED
    BY <1>6, <1>8, <2>1
<1>13. Alone'
  BY <1>6, <1>8, <1>12 DEF Alone
<1>14. \A q \in Procs \ {p} :
          proc[q].pc \notin {"read", "write"} /\ proc'[q].pc \notin {"read", "write"}
  <2>1. \A q \in Procs \ {p} : proc'[q].pc = proc[q].pc
    BY <1>8, OthersPc DEF IInv
  <2>2. QED
    BY <1>6, <2>1 DEF Transfers, Busy
<1>15. Sided'
  <2>1. SidedAt(p)'
    BY <1>2, <1>8, <1>9 DEF SidedAt, Same
  <2>2. ASSUME NEW q \in Procs \ {p}
        PROVE  SidedAt(q)'
    BY <1>8, <1>14, OthersSided DEF IInv
  <2>3. QED
    BY <2>1, <2>2 DEF Sided
<1>16. Circle'
  <2>1. frptr' < PIPSIZ /\ fwptr' < PIPSIZ
    BY <1>1, <1>4, <1>5, <1>8, PipsizPositive
  <2>2. CircleAt(p)'
    BY <1>1, <1>5, <1>7, <1>8, <1>9 DEF CircleAt, Same, Wrap
  <2>3. \A q \in Procs \ {p} : CircleAt(q)'
    BY <1>14 DEF CircleAt
  <2>4. Busy({"read", "write"})' = {} => Wrap(frptr' + size') = fwptr'
    <3>1. CASE x.pc = "write"
      BY <1>9, <3>1 DEF Busy, Same
    <3>2. CASE x.pc # "write"
      BY <1>1, <1>7, <1>8, <3>2
    <3>3. QED
      BY <3>1, <3>2
  <2>5. QED
    BY <1>7, <2>1, <2>2, <2>3, <2>4 DEF Circle, Wrap
<1>17. Reasons'
  <2>1. ~proc'[p].asleep
    BY <1>8, <1>9 DEF Same
  <2>2. ASSUME NEW q \in Procs \ {p}, proc'[q].asleep
        PROVE  ReasonFor(q)'
    <3>1. ReasonFor(q) /\ UNCHANGED <<frcnt, fwcnt>>
      BY <1>1, <1>8, <2>2, StillAsleep
    <3>2. CASE proc[q].pc = "wwait"
      <4>1. Busy({"read"}) = {}
        BY <1>1, <1>14 DEF Busy
      <4>2. /\ proc'[q].pc = "wwait" /\ "IFIW" \in fflag /\ frcnt > 0
            /\ proc[q].left \in Int /\ proc[q].left > 0 /\ proc'[q].left = proc[q].left
            /\ Room(proc[q].left) = 0
        BY <1>8, <2>2, <3>1, <3>2, <4>1, StillAsleep DEF ReasonFor
      <4>3. PICK l \in Int : l = proc[q].left /\ l > 0 /\ l = proc'[q].left /\ Room(l) = 0
        BY <4>2
      <4>4. Room(l)' = 0
        BY <1>2, <1>7, <4>3, RoomFacts
      <4>5. Room(proc[q].left)' = 0
        BY <4>3, <4>4 DEF Room
      <4>6. "IFIW" \in fflag'
        BY <1>8, <4>2
      <4>7. QED
        BY <3>1, <4>2, <4>5, <4>6 DEF ReasonFor
    <3>3. CASE proc[q].pc = "rwait"
      <4>1. /\ proc'[q].pc = "rwait" /\ ~(cond /\ "frcnt" = "frcnt")
            /\ "IFIR" \in fflag /\ fwcnt > 0
        BY <1>8, <2>2, <3>1, <3>3, StillAsleep DEF ReasonFor
      <4>2. x.pc = "write" /\ UNCHANGED fflag
        BY <1>8, <4>1
      <4>3. Busy({"write"})' # {}
        BY <1>9, <4>2 DEF Busy, Same
      <4>4. QED
        BY <3>1, <4>1, <4>2, <4>3 DEF ReasonFor
    <3>4. CASE proc[q].pc = "opening"
      BY <1>8, <2>2, <3>1, <3>4, StillAsleep DEF ReasonFor
    <3>5. QED
      BY <1>8, <2>2, <3>2, <3>3, <3>4, StillAsleep
  <2>3. QED
    BY <2>1, <2>2 DEF Reasons
<1>18. IInv'
  BY <1>10, <1>11, <1>13, <1>15, <1>16, <1>17 DEF IInv
<1>19. Front' = Front
  BY <1>1, <1>8, <1>18, FrontKept
<1>20. QED
  BY <1>18, <1>19
--------------------------------------------------------------------------------
(* Every step of any process keeps the inductive invariant.                *)
LEMMA NextStep ==
    ASSUME IInv, [Next]_vars
    PROVE  IInv'
<1>1. CASE Next
  <2>1. PICK p \in Procs :
          \/ OpenR(p) \/ OpenW(p) \/ Reopen(p) \/ Close(p) \/ Abort(p)
          \/ Interrupt(p)
          \/ Read(p) \/ ReadBlock(p) \/ Write(p) \/ WriteBlock(p)
    BY <1>1 DEF Next
  <2>2. CASE OpenR(p)
    BY <2>2, OpenRStep
  <2>3. CASE OpenW(p)
    BY <2>3, OpenWStep
  <2>4. CASE Reopen(p) \/ Interrupt(p)
    BY <2>4, ReopenStep
  <2>5. CASE Close(p) \/ Abort(p)
    BY <2>5, CloseStep
  <2>6. CASE Read(p)
    BY <2>6, ReadStep
  <2>7. CASE ReadBlock(p)
    BY <2>7, ReadBlockStep
  <2>8. CASE Write(p)
    BY <2>8, WriteStep
  <2>9. CASE WriteBlock(p)
    BY <2>9, WriteBlockStep
  <2>10. QED
    BY <2>1, <2>2, <2>3, <2>4, <2>5, <2>6, <2>7, <2>8, <2>9
<1>2. CASE UNCHANGED vars
  BY <1>2 DEF vars, IInv, Shaped, Counted, Having, Alone, Transfers, Busy, Sided, SidedAt,
              Circle, CircleAt, Wrap, Reasons, ReasonFor, Room
<1>3. QED
  BY <1>1, <1>2

(* A fifo that nobody has open satisfies the inductive invariant.          *)
LEMMA InitInvariant ==
    ASSUME Init
    PROVE  IInv
<1>1. /\ \A p \in Procs : proc[p] = Closed
      /\ proc \in [Procs -> {Closed}]
      /\ size = 0 /\ frptr = 0 /\ fwptr = 0
      /\ frcnt = 0 /\ fwcnt = 0 /\ fflag = {} /\ ilock = FALSE
  BY DEF Init
<1>2. Closed \in State /\ Closed.pc = "closed" /\ ~Closed.asleep
  BY DEF Closed, State, Short, Mode
<1>3. Shaped
  BY <1>1, <1>2 DEF Shaped
<1>4. Having("R") = {} /\ Having("W") = {} /\ Transfers = {}
  BY <1>1, <1>2 DEF Having, Transfers, Busy
<1>5. Counted
  BY <1>1, <1>4, FS_EmptySet DEF Counted
<1>6. Alone
  BY <1>1, <1>4 DEF Alone
<1>7. Sided /\ Reasons
  BY <1>1, <1>2 DEF Sided, SidedAt, Reasons
<1>8. Circle
  BY <1>1, <1>2, PipsizPositive DEF Circle, CircleAt, Wrap
<1>9. QED
  BY <1>3, <1>5, <1>6, <1>7, <1>8 DEF IInv

(* The inductive invariant holds in every reachable state: of a fifo that  *)
(* nobody has open, and after each step of any process.                    *)
THEOREM Invariance == Spec => []IInv
<1>1. Init => IInv
  BY InitInvariant
<1>2. IInv /\ [Next]_vars => IInv'
  BY NextStep
<1>3. QED
  BY <1>1, <1>2, PTL DEF Spec

(* The counts of readers and writers are right, one process transfers at a *)
(* time, and the pointers stay in the circle and agree with the size:      *)
(* s5readi and s5writei never leave the fifo's blocks.                     *)
THEOREM PointersAndCounts == Spec => []TypeOK
<1>1. IInv => TypeOK
  <2> SUFFICES ASSUME IInv
               PROVE  TypeOK
    OBVIOUS
  <2>1. /\ size \in 0..PIPSIZ /\ frptr \in 0..(PIPSIZ - 1) /\ fwptr \in 0..(PIPSIZ - 1)
        /\ fflag \subseteq {"IFIR", "IFIW"}
    BY PipsizPositive DEF IInv, Shaped, Circle
  <2>2. frcnt = Cardinality(Having("R")) /\ fwcnt = Cardinality(Having("W"))
    BY DEF IInv, Counted
  <2>3. Cardinality(Transfers) = IF ilock THEN 1 ELSE 0
    <3>1. CASE ilock
      BY <3>1, FS_Singleton DEF IInv, Alone
    <3>2. CASE ~ilock
      BY <3>2, FS_EmptySet DEF IInv, Alone
    <3>3. QED
      BY <3>1, <3>2
  <2>4. Busy({"read", "write"}) = {} => (frptr + size) % PIPSIZ = fwptr
    <3>1. frptr + size \in Nat /\ frptr + size < 2 * PIPSIZ
      BY <2>1, PipsizPositive
    <3>2. QED
      BY <3>1, WrapFacts DEF IInv, Circle
  <2>5. QED
    BY <2>1, <2>2, <2>3, <2>4 DEF TypeOK, Transfers
<1>2. QED
  BY <1>1, Invariance, PTL

(* No lost wakeup: whoever sleeps in s5openf, s5readi or s5writei has a    *)
(* reason, and has set the flag by which the other side will wake him.     *)
THEOREM SleepersHaveReason == Spec => []SleepersBlocked
<1>1. IInv => SleepersBlocked
  <2> SUFFICES ASSUME IInv, NEW p \in Procs, proc[p].asleep
               PROVE  CASE proc[p].pc = "rwait" ->
                             "IFIR" \in fflag /\ fwcnt > 0 /\ (size = 0 \/ Busy({"write"}) # {})
                        [] proc[p].pc = "wwait" ->
                             /\ "IFIW" \in fflag /\ frcnt > 0
                             /\ Room(proc[p].left) = 0 \/ Busy({"read"}) # {}
                        [] proc[p].pc = "opening" ->
                             IF proc[p].mode.dir = "R" THEN fwcnt = 0 ELSE frcnt = 0
    BY DEF SleepersBlocked
  <2>1. proc[p].pc \in {"opening", "rwait", "wwait"} /\ ReasonFor(p)
    BY DEF IInv, Sided, SidedAt, Reasons
  <2>2. proc[p].mode.dir \in {"R", "W"}
    BY DEF IInv, Shaped, State, Short, Long, Mode
  <2>3. QED
    BY <2>1, <2>2 DEF ReasonFor
<1>2. QED
  BY <1>1, Invariance, PTL
-----------------------------------------------------------------------------
(***************************************************************************)
(* Pipe implements Fifo, for any number of processes, any lengths of       *)
(* transfers and any sizes of blocks: the circle of blocks is a queue of   *)
(* bytes, although it is transferred block by block, wraps around, is not  *)
(* read before it is written over and not always written back.  And a      *)
(* write that fits into the fifo comes out in one piece.                   *)
(***************************************************************************)

(* Every byte in the fifo was written by somebody.                         *)
Stored ==
    /\ data = [i \in 0..(PIPSIZ - 1) |-> data[i]]
    /\ \A i \in 1..size : Contents[i] \in Written

RInv == IInv /\ Stored
--------------------------------------------------------------------------------
(* The i-th byte is i - 1 places behind the front.                         *)
LEMMA ContentsAt ==
    IInv => /\ \A i \in 1..size : Contents[i] = data[Wrap(Front + i - 1)]
            /\ Contents = [i \in 1..size |-> Contents[i]]
<1> SUFFICES ASSUME IInv
             PROVE  /\ \A i \in 1..size : Contents[i] = data[Wrap(Front + i - 1)]
                    /\ Contents = [i \in 1..size |-> Contents[i]]
  OBVIOUS
<1>1. Front \in Nat /\ Front < PIPSIZ /\ size \in Nat /\ size <= PIPSIZ
  BY FrontHere DEF FrontOK, IInv, Shaped, Circle
<1>2. ASSUME NEW i \in 1..size
      PROVE  (Front + i - 1) % PIPSIZ = Wrap(Front + i - 1)
  <2>1. Front + i - 1 \in Nat /\ Front + i - 1 < 2 * PIPSIZ
    BY <1>1, PipsizPositive
  <2>2. QED
    BY <2>1, WrapFacts
<1>3. QED
  BY <1>2 DEF Contents

(* The same after a step.                                                  *)
LEMMA ContentsThere ==
    IInv' => /\ \A i \in 1..size' : Contents'[i] = data'[Wrap(Front' + i - 1)]
             /\ Contents' = [i \in 1..size' |-> Contents'[i]]
<1>1. (IInv => /\ \A i \in 1..size : Contents[i] = data[Wrap(Front + i - 1)]
               /\ Contents = [i \in 1..size |-> Contents[i]])'
  BY ContentsAt, PTL
<1>2. QED
  BY <1>1 DEF Wrap

(* A block lies within the circle.                                         *)
LEMMA BlockWithin ==
    ASSUME NEW off \in Nat, off < PIPSIZ
    PROVE  /\ off % Blk \in 0..(Blk - 1)
           /\ off - (off % Blk) >= 0 /\ off - (off % Blk) + Blk <= PIPSIZ
<1>1. PICK B \in Nat \ {0}, N \in Nat \ {0} : B = Blk /\ N = NBlk
  BY PipeAssumption
<1>2. /\ off % B \in 0..(B - 1) /\ off = B * (off \div B) + (off % B)
      /\ off \div B \in Int
  OBVIOUS
<1>3. PICK q \in Int, r \in 0..(B - 1) : q = off \div B /\ r = off % B /\ off = B * q + r
  BY <1>2
<1>4. q < N
  <2>1. SUFFICES ASSUME q >= N
                 PROVE  FALSE
    OBVIOUS
  <2>2. B * q >= B * N
    BY <2>1
  <2>3. QED
    BY <1>1, <1>3, <2>2 DEF PIPSIZ
<1>5. q >= 0
  <2>1. SUFFICES ASSUME q <= -1
                 PROVE  FALSE
    OBVIOUS
  <2>2. B * q <= B * (-1)
    BY <2>1
  <2>3. QED
    BY <1>3, <2>2
<1>6. B * q >= 0 /\ B * q + B <= B * N
  <2>1. B * q >= 0
    BY <1>5
  <2>2. B * (q + 1) <= B * N
    BY <1>4
  <2>3. B * (q + 1) = B * q + B
    OBVIOUS
  <2>4. QED
    BY <2>1, <2>2, <2>3
<1>7. QED
  BY <1>1, <1>3, <1>6 DEF PIPSIZ
--------------------------------------------------------------------------------
(* The contents as a sequence of bytes that were written.                  *)
LEMMA ContentsSeq ==
    RInv => Contents \in Seq(Written) /\ Len(Contents) = size /\ size \in Nat /\ size <= PIPSIZ
<1> SUFFICES ASSUME RInv
             PROVE  /\ Contents \in Seq(Written) /\ Len(Contents) = size
                    /\ size \in Nat /\ size <= PIPSIZ
  OBVIOUS
<1>1. size \in Nat /\ size <= PIPSIZ
  BY DEF RInv, IInv, Shaped, Circle
<1>2. Contents \in [1..size -> Written]
  <2>1. Contents = [i \in 1..size |-> Contents[i]]
    BY ContentsAt DEF RInv
  <2>2. QED
    BY <2>1 DEF RInv, Stored
<1>3. QED
  BY <1>1, <1>2

(* The same after a step.                                                  *)
LEMMA ContentsSeqThere ==
    RInv' => Contents' \in Seq(Written) /\ Len(Contents') = size'
<1>1. (RInv => Contents \in Seq(Written) /\ Len(Contents) = size)'
  BY ContentsSeq, PTL
<1>2. QED
  BY <1>1 DEF Written, Byte, Sizes

(* A step that touches neither the bytes nor the front.                    *)
LEMMA SameContents ==
    ASSUME RInv, UNCHANGED <<size, data>>, Front' = Front
    PROVE  Contents' = Contents /\ Stored'
<1>1. Contents' = Contents
  BY DEF Contents
<1>2. QED
  BY <1>1 DEF RInv, Stored, Written, Byte, Sizes

(* What is forgotten of a block that was read to its end is none of the    *)
(* bytes still in the fifo.                                                *)
LEMMA ReadBlockTakes ==
    ASSUME RInv, IInv', NEW p \in Procs, ReadBlock(p)
    PROVE  /\ \E k \in 1..size : /\ size' = size - k
                                  /\ \A i \in 1..size' : Contents'[i] = Contents[i + k]
           /\ data' = [i \in 0..(PIPSIZ - 1) |-> data'[i]]
           /\ frcnt > 0 /\ UNCHANGED <<frcnt, fwcnt>>
<1> DEFINE y == proc[p]
           on == y.off % Blk
           n == Min({Blk - on, y.left, size})
<1>1. /\ y.pc = "read" /\ size' = size - n /\ UNCHANGED cnts
      /\ \E lost \in {FALSE, Forgets(on, n, size - n)} :
            data' = [i \in DOMAIN data |->
                        IF \/ i \in y.off..(y.off + n - 1)
                           \/ lost /\ i \in BlockOf(y.off)
                        THEN Garbage ELSE data[i]]
  BY DEF ReadBlock
<1>2. IInv /\ Stored
  BY DEF RInv
<1>3. /\ y.left \in Nat \ {0} /\ size \in Nat \ {0} /\ size <= PIPSIZ
      /\ y.off \in Nat /\ y.off < PIPSIZ /\ Front = y.off
  <2>1. y \in Long /\ SidedAt(p) /\ CircleAt(p)
    BY <1>1, <1>2 DEF IInv, Shaped, State, Short, Sided, Circle
  <2>2. y.left \in Int /\ y.off \in Nat /\ y.left > 0
    BY <1>1, <2>1 DEF Long, SidedAt
  <2>3. QED
    BY <1>1, <1>2, <2>1, <2>2, FrontHere DEF SidedAt, IInv, Shaped, Circle, CircleAt, FrontOK
<1>4. n \in 1..PIPSIZ /\ n <= size /\ n <= Blk - on
  <2>1. n \in 1..PIPSIZ /\ n <= size
    BY <1>3, BlockFacts
  <2>2. Blk - on \in Int
    BY <1>3, BlockWithin, PipsizPositive
  <2>3. y.left \in Int /\ size \in Int
    BY <1>3
  <2>4. Min({Blk - on, y.left, size}) <= Blk - on
    BY ONLY <2>2, <2>3, MinFacts
  <2>5. QED
    BY <2>1, <2>4
<1> HIDE DEF n
<1>5. on \in 0..(Blk - 1) /\ y.off - on >= 0 /\ y.off - on + Blk <= PIPSIZ /\ Blk \in Nat \ {0}
  BY <1>3, BlockWithin, PipsizPositive
<1>6. size' > 0 => Front' = Wrap(y.off + n)
  <2>0. size' = size - n
    BY <1>1
  <2>1. y.off + n \in Nat /\ y.off + n < 2 * PIPSIZ /\ size - size' = n
    BY <1>3, <1>4, <2>0, PipsizPositive
  <2>2. size' > 0 => Front' = (y.off + n) % PIPSIZ
    BY <1>2, <2>1, ReadBlockStep
  <2>3. QED
    BY <2>1, <2>2, WrapFacts
<1> HIDE DEF on
<1>7. PICK lost \in BOOLEAN :
        /\ lost => on + n = Blk /\ size' < PIPSIZ - Blk
        /\ data' = [i \in DOMAIN data |->
                        IF \/ i \in y.off..(y.off + n - 1)
                           \/ lost /\ i \in BlockOf(y.off)
                        THEN Garbage ELSE data[i]]
  BY <1>1 DEF Forgets, n
<1>8. DOMAIN data = 0..(PIPSIZ - 1)
  BY <1>2 DEF Stored
<1>9. BlockOf(y.off) = (y.off - on)..(y.off - on + Blk - 1)
  BY DEF BlockOf, on
<1>10. ASSUME NEW i \in 1..size'
       PROVE  Contents'[i] = Contents[i + n]
  <2> DEFINE j == Wrap(y.off + i + n - 1)
  <2>1. i + n \in 1..size /\ i \in 1..size /\ size' > 0 /\ size' = size - n
    BY <1>1, <1>3, <1>4
  <2>2. Contents[i + n] = data[j]
    <3>1. Contents[i + n] = data[Wrap(Front + (i + n) - 1)]
      BY <1>2, <2>1, ContentsAt
    <3>2. Front + (i + n) - 1 = y.off + i + n - 1
      BY <1>3, <1>4
    <3>3. QED
      BY <3>1, <3>2
  <2>3. Contents'[i] = data'[j]
    <3>1. Contents'[i] = data'[Wrap(Front' + i - 1)]
      BY ContentsThere
    <3>2. Wrap(Front' + i - 1) = j
      BY <1>3, <1>4, <1>6, <2>1, PipsizPositive DEF Wrap
    <3>3. QED
      BY <3>1, <3>2
  <2>4. j \in 0..(PIPSIZ - 1) /\ j \notin y.off..(y.off + n - 1)
    BY <1>3, <1>4, <1>5, <2>1, PipsizPositive DEF Wrap
  <2>5. lost => j \notin (y.off - on)..(y.off - on + Blk - 1)
    <3>1. SUFFICES ASSUME lost
                   PROVE  j \notin (y.off - on)..(y.off - on + Blk - 1)
      OBVIOUS
    <3>2. y.off + n = y.off - on + Blk /\ size - n < PIPSIZ - Blk
      BY <1>3, <1>4, <1>5, <1>7, <2>1, <3>1
    <3>3. j < y.off - on \/ j > y.off - on + Blk - 1
      BY <1>3, <1>4, <1>5, <2>1, <3>2, PipsizPositive DEF Wrap
    <3>4. QED
      BY <1>3, <1>5, <2>4, <3>3
  <2> HIDE DEF j
  <2>6. data'[j] = data[j]
    BY <1>7, <1>8, <1>9, <2>4, <2>5
  <2>7. QED
    BY <2>2, <2>3, <2>6
<1>11. data' = [i \in 0..(PIPSIZ - 1) |-> data'[i]]
  BY <1>7, <1>8
<1>12. frcnt > 0 /\ UNCHANGED <<frcnt, fwcnt>>
  <2>1. p \in Having("R")
    BY <1>1, <1>2 DEF Having, IInv, Sided, SidedAt
  <2>2. QED
    BY <1>1, <1>2, <2>1, CountsPositive DEF IInv, Counted, cnts
<1>13. n \in 1..size /\ size' = size - n
  BY <1>1, <1>3, <1>4
<1>14. QED
  BY <1>10, <1>11, <1>12, <1>13

(* A block that is not read first has none of the bytes in the fifo, and   *)
(* the bytes written come after them.                                      *)
LEMMA WriteBlockPuts ==
    ASSUME RInv, IInv', NEW p \in Procs, WriteBlock(p)
    PROVE  /\ size' > size
           /\ \A i \in 1..size : Contents'[i] = Contents[i]
           /\ \A i \in (size + 1)..size' : 
                /\ Contents'[i] \in Written
                /\ Contents'[i] = Byte(p, proc[p].n, proc[p].n - proc[p].left + i - size)
           /\ data' = [i \in 0..(PIPSIZ - 1) |-> data'[i]]
           /\ fwcnt > 0 /\ UNCHANGED <<frcnt, fwcnt>>
<1> DEFINE y == proc[p]
           on == y.off % Blk
           n == Min({Blk - on, y.left - y.save})
<1>1. /\ y.pc = "write" /\ size' = size + n /\ UNCHANGED <<frcnt, fwcnt>>
      /\ \E old \in {TRUE, ~Unread(on, n)} :
            data' = [i \in DOMAIN data |->
                IF i \in y.off..(y.off + n - 1)
                THEN Byte(p, y.n, y.n - y.left + 1 + i - y.off)
                ELSE IF ~old /\ i \in BlockOf(y.off) THEN Garbage ELSE data[i]]
  BY DEF WriteBlock, cnts
<1>2. IInv /\ Stored
  BY DEF RInv
<1>3. /\ y.left \in Nat /\ y.save \in Nat /\ y.left - y.save \in Nat \ {0} /\ y.left <= y.n
      /\ y.n \in Counts[p] /\ y.n \in Nat /\ size \in Nat
      /\ y.off \in Nat /\ y.off < PIPSIZ /\ size + y.left - y.save <= PIPSIZ
      /\ frptr \in Nat /\ frptr < PIPSIZ /\ Wrap(frptr + size) = y.off
  <2>1. y \in Long /\ SidedAt(p) /\ CircleAt(p)
    BY <1>1, <1>2 DEF IInv, Shaped, State, Short, Sided, Circle
  <2>2. y.left \in Int /\ y.off \in Nat /\ y.save \in Int /\ y.n \in Int
    BY <2>1 DEF Long
  <2>3. 0 <= y.save /\ y.save < y.left /\ y.n \in Counts[p] /\ y.left <= y.n
    BY <1>1, <2>1 DEF SidedAt
  <2>4. /\ size \in Nat /\ frptr \in Nat /\ frptr < PIPSIZ
        /\ y.off < PIPSIZ /\ Wrap(frptr + size) = y.off /\ size + y.left - y.save <= PIPSIZ
    BY <1>1, <1>2, <2>1 DEF CircleAt, IInv, Shaped, Circle
  <2>5. QED
    BY <2>2, <2>3, <2>4
<1>4. n \in 1..PIPSIZ /\ n <= y.left - y.save /\ n <= Blk - on
  <2>1. n \in 1..PIPSIZ /\ n <= y.left - y.save
    BY <1>3, BlockFacts
  <2>2. Blk - on \in Int
    BY <1>3, BlockWithin, PipsizPositive
  <2>3. y.left - y.save \in Int
    BY <1>3
  <2>4. Min({Blk - on, y.left - y.save}) <= Blk - on
    BY ONLY <2>2, <2>3, MinFacts
  <2>5. QED
    BY <2>1, <2>4
<1> HIDE DEF n
<1>5. on \in 0..(Blk - 1) /\ y.off - on >= 0 /\ y.off - on + Blk <= PIPSIZ /\ Blk \in Nat \ {0}
  BY <1>3, BlockWithin, PipsizPositive
<1>6. Front = frptr /\ Front' = frptr
  <2>1. Front = frptr
    <3>1. Busy({"read"}) = {}
      BY <1>1, <1>2 DEF IInv, Alone, Transfers, Busy
    <3>2. QED
      BY <1>2, <3>1, FrontHere DEF FrontOK
  <2>2. QED
    BY <1>2, <2>1, WriteBlockStep
<1> HIDE DEF on
<1>7. PICK old \in BOOLEAN :
        /\ ~old => n = Blk \/ (on = 0 /\ size < PIPSIZ - Blk)
        /\ data' = [i \in DOMAIN data |->
                IF i \in y.off..(y.off + n - 1)
                THEN Byte(p, y.n, y.n - y.left + 1 + i - y.off)
                ELSE IF ~old /\ i \in BlockOf(y.off) THEN Garbage ELSE data[i]]
  BY <1>1 DEF Unread, n
<1>8. DOMAIN data = 0..(PIPSIZ - 1)
  BY <1>2 DEF Stored
<1>9. BlockOf(y.off) = (y.off - on)..(y.off - on + Blk - 1)
  BY DEF BlockOf, on
<1>10. size' = size + n /\ size' > size /\ size' <= PIPSIZ /\ size' \in Nat
  <2>1. size' = size + n /\ size \in Nat /\ n \in Int /\ n > 0 /\ n <= y.left - y.save
    BY <1>1, <1>3, <1>4, PipsizPositive
  <2>2. PICK r \in Int : r = y.left - y.save
    BY <1>3
  <2>3. size + r <= PIPSIZ
    BY <1>3, <2>2
  <2>4. QED
    BY <2>1, <2>2, <2>3, PipsizPositive
<1>11. ASSUME NEW i \in 1..size
       PROVE  Contents'[i] = Contents[i]
  <2> DEFINE j == Wrap(frptr + i - 1)
  <2>1. Contents[i] = data[j]
    BY <1>2, <1>6, ContentsAt
  <2>2. i \in 1..size'
    BY <1>3, <1>10
  <2>3. Contents'[i] = data'[j]
    BY <1>6, <2>2, ContentsThere
  <2>4. j \in 0..(PIPSIZ - 1) /\ j \notin y.off..(y.off + n - 1)
    BY <1>3, <1>4, <1>5, PipsizPositive DEF Wrap
  <2>5. ~old => j \notin (y.off - on)..(y.off - on + Blk - 1)
    <3>1. SUFFICES ASSUME ~old
                   PROVE  j \notin (y.off - on)..(y.off - on + Blk - 1)
      OBVIOUS
    <3>2. on = 0 /\ (n = Blk \/ size < PIPSIZ - Blk)
      BY <1>4, <1>5, <1>7, <3>1
    <3>3. j < y.off \/ j > y.off + Blk - 1
      BY <1>3, <1>4, <1>5, <2>4, <3>2, PipsizPositive DEF Wrap
    <3>4. QED
      BY <1>3, <1>5, <2>4, <3>2, <3>3
  <2> HIDE DEF j
  <2>6. data'[j] = data[j]
    BY <1>7, <1>8, <1>9, <2>4, <2>5
  <2>7. QED
    BY <2>1, <2>3, <2>6
<1>12. ASSUME NEW i \in (size + 1)..size'
       PROVE  /\ Contents'[i] \in Written
              /\ Contents'[i] = Byte(p, y.n, y.n - y.left + i - size)
  <2> DEFINE j == Wrap(frptr + i - 1)
             ix == y.n - y.left + 1 + j - y.off
  <2>1. i \in 1..size'
    BY <1>3, <1>10
  <2>2. Contents'[i] = data'[j]
    BY <1>6, <2>1, ContentsThere
  <2>3. j \in 0..(PIPSIZ - 1) /\ j \in y.off..(y.off + n - 1)
    BY <1>3, <1>4, <1>5, <1>10, PipsizPositive DEF Wrap
  <2> HIDE DEF j
  <2>4. data'[j] = Byte(p, y.n, ix)
    BY <1>7, <1>8, <2>3
  <2>5. ix \in 1..y.n
    BY <1>3, <1>4, <2>3
  <2>11. ix = y.n - y.left + i - size
    BY <1>3, <1>4, <1>5, <1>10, PipsizPositive DEF Wrap, j
  <2>6. y.n \in Sizes
    BY <1>3 DEF Sizes
  <2> HIDE DEF ix
  <2> DEFINE S == {Byte(p, y.n, k) : k \in 1..y.n}
             SS == {{Byte(q, m, k) : k \in 1..m} : q \in Procs, m \in Sizes}
  <2>7. Byte(p, y.n, ix) \in S
    BY <2>5
  <2>8. S \in SS
    BY <2>6
  <2>9. Byte(p, y.n, ix) \in Written
    <3>1. Written = UNION SS
      BY DEF Written
    <3> HIDE DEF S, SS
    <3>2. QED
      BY <2>7, <2>8, <3>1
  <2>10. QED
    BY <2>2, <2>4, <2>9, <2>11
<1>13. data' = [i \in 0..(PIPSIZ - 1) |-> data'[i]]
  BY <1>7, <1>8
<1>14. fwcnt > 0
  <2>1. p \in Having("W")
    BY <1>1, <1>2 DEF Having, IInv, Sided, SidedAt
  <2>2. QED
    BY <1>2, <2>1, CountsPositive DEF IInv, Counted
<1>15. QED
  BY <1>1, <1>10, <1>11, <1>12, <1>13, <1>14
--------------------------------------------------------------------------------
(* Taking some bytes off the front of a sequence.                          *)
LEMMA TakeFront ==
    ASSUME NEW S, NEW s \in Seq(S), NEW t \in Seq(S), NEW k \in 1..Len(s),
           Len(t) = Len(s) - k, \A i \in 1..Len(t) : t[i] = s[i + k]
    PROVE  t = SubSeq(s, k + 1, Len(s))
<1> DEFINE u == SubSeq(s, k + 1, Len(s))
<1>1. Len(s) \in Nat /\ \A i \in 1..Len(s) : s[i] \in S
  BY LenProperties
<1>2. k + 1 \in Int /\ Len(s) \in Int /\ \A i \in (k + 1)..Len(s) : s[i] \in S
  BY <1>1
<1>3. /\ u \in Seq(S)
      /\ Len(u) = IF k + 1 <= Len(s) THEN Len(s) - (k + 1) + 1 ELSE 0
      /\ \A i \in 1..(Len(s) - (k + 1) + 1) : u[i] = s[(k + 1) + i - 1]
  BY <1>2, SubSeqProperties
<1> HIDE DEF u
<1>4. Len(u) = Len(t)
  BY <1>1, <1>3
<1>5. ASSUME NEW i \in 1..Len(t)
      PROVE  t[i] = u[i]
  <2>1. t[i] = s[i + k]
    OBVIOUS
  <2>2. i \in 1..(Len(s) - (k + 1) + 1) /\ (k + 1) + i - 1 = i + k
    BY <1>1
  <2>3. u[i] = s[(k + 1) + i - 1]
    BY <1>3, <2>2
  <2>4. QED
    BY <2>1, <2>2, <2>3
<1>6. QED
  BY <1>3, <1>4, <1>5, SeqEqual DEF u

(* Putting some bytes behind a sequence.                                   *)
LEMMA PutBehind ==
    ASSUME NEW S, NEW s \in Seq(S), NEW t \in Seq(S), Len(t) > Len(s),
           \A i \in 1..Len(s) : t[i] = s[i]
    PROVE  SubSeq(t, 1, Len(s)) = s
<1> DEFINE u == SubSeq(t, 1, Len(s))
<1>1. Len(s) \in Nat /\ Len(t) \in Nat /\ \A i \in 1..Len(t) : t[i] \in S
  BY LenProperties
<1>2. 1 \in Int /\ Len(s) \in Int /\ \A i \in 1..Len(s) : t[i] \in S
  BY <1>1
<1>3. /\ u \in Seq(S)
      /\ Len(u) = IF 1 <= Len(s) THEN Len(s) - 1 + 1 ELSE 0
      /\ \A i \in 1..(Len(s) - 1 + 1) : u[i] = t[1 + i - 1]
  BY <1>2, SubSeqProperties
<1> HIDE DEF u
<1>4. Len(u) = Len(s)
  BY <1>1, <1>3
<1>5. \A i \in 1..Len(u) : u[i] = s[i]
  BY <1>1, <1>3, <1>4
<1>6. QED
  BY <1>3, <1>4, <1>5, SeqEqual DEF u

(* A fifo without bytes has no contents.                                   *)
LEMMA EmptyContents == RInv /\ size = 0 => Contents = <<>>
  BY ContentsSeq, EmptySeq

(* The same after a step.                                                  *)
LEMMA EmptyContentsThere == RInv' /\ size' = 0 => Contents' = <<>>
  BY ContentsSeqThere, EmptySeq
--------------------------------------------------------------------------------
(* The steps that touch neither the bytes nor the counts.                  *)
LEMMA QuietMaps ==
    ASSUME RInv, NEW p \in Procs, Reopen(p) \/ Interrupt(p) \/ Read(p) \/ Write(p)
    PROVE  RInv' /\ UNCHANGED Promise!vars
<1>1. UNCHANGED <<size, data, frcnt, fwcnt>>
  BY DEF Reopen, Interrupt, Read, Write, cnts
<1>2. IInv' /\ Front' = Front
  BY ReopenStep, ReadStep, WriteStep DEF RInv
<1>3. Contents' = Contents /\ Stored'
  BY <1>1, <1>2, SameContents
<1>4. QED
  BY <1>1, <1>2, <1>3 DEF RInv, Promise!vars

(* An open adds a reader or a writer.                                      *)
LEMMA OpenMaps ==
    ASSUME RInv, NEW p \in Procs, OpenR(p) \/ OpenW(p)
    PROVE  RInv' /\ Promise!Ends
<1>1. frcnt \in Nat /\ fwcnt \in Nat
  BY CountsPositive DEF RInv, IInv, Counted
<1>2. /\ UNCHANGED <<size, data>>
      /\ \/ frcnt' = frcnt + 1 /\ fwcnt' = fwcnt
         \/ fwcnt' = fwcnt + 1 /\ frcnt' = frcnt
  BY DEF OpenR, OpenW
<1>3. IInv' /\ Front' = Front
  BY OpenRStep, OpenWStep DEF RInv
<1>4. Contents' = Contents /\ Stored'
  BY <1>2, <1>3, SameContents
<1>5. frcnt' + fwcnt' # 0
  BY <1>1, <1>2
<1>6. \/ Promise!Step(frcnt, frcnt') /\ fwcnt' = fwcnt
      \/ Promise!Step(fwcnt, fwcnt') /\ frcnt' = frcnt
  BY <1>1, <1>2 DEF Promise!Step
<1>7. QED
  BY <1>3, <1>4, <1>5, <1>6 DEF RInv, Promise!Ends

(* A close takes one away, and the last one the bytes.                     *)
LEMMA CloseMaps ==
    ASSUME RInv, NEW p \in Procs, Close(p) \/ Abort(p)
    PROVE  RInv' /\ Promise!Ends
<1> DEFINE r == IF proc[p].mode.dir = "R" THEN frcnt - 1 ELSE frcnt
           w == IF proc[p].mode.dir = "W" THEN fwcnt - 1 ELSE fwcnt
<1>1. /\ proc[p].pc \in {"open", "abort"} /\ frcnt' = r /\ fwcnt' = w
      /\ r + w = 0 => size' = 0 /\ data' = [i \in DOMAIN data |-> Garbage]
      /\ r + w # 0 => UNCHANGED <<size, data>>
  BY DEF Close, Abort, S5closef
<1>2. frcnt \in Nat /\ fwcnt \in Nat
  BY CountsPositive DEF RInv, IInv, Counted
<1>3. /\ proc[p].mode.dir \in {"R", "W"}
      /\ proc[p].mode.dir = "R" => frcnt > 0
      /\ proc[p].mode.dir = "W" => fwcnt > 0
  <2>1. proc[p].mode.dir \in {"R", "W"}
    BY DEF RInv, IInv, Shaped, State, Short, Long, Mode
  <2>2. p \in Having(proc[p].mode.dir)
    BY <1>1 DEF Having
  <2>3. QED
    BY <2>1, <2>2, CountsPositive DEF RInv, IInv, Counted
<1>4. \/ Promise!Step(frcnt, frcnt') /\ fwcnt' = fwcnt
      \/ Promise!Step(fwcnt, fwcnt') /\ frcnt' = frcnt
  BY <1>1, <1>2, <1>3 DEF Promise!Step
<1>5. IInv' /\ (size' > 0 => Front' = Front)
  BY CloseStep DEF RInv
<1> HIDE DEF r, w
<1>6. size \in Nat /\ data = [i \in 0..(PIPSIZ - 1) |-> data[i]]
  BY DEF RInv, IInv, Shaped, Stored
<1>7. CASE r + w = 0
  <2>1. Stored'
    BY <1>1, <1>6, <1>7 DEF Stored
  <2>2. RInv'
    BY <1>5, <2>1 DEF RInv
  <2>3. Contents' = <<>>
    BY <1>1, <1>7, <2>2, EmptyContentsThere
  <2>4. QED
    BY <1>1, <1>4, <1>7, <2>2, <2>3 DEF Promise!Ends
<1>8. CASE r + w # 0 /\ size > 0
  <2>1. UNCHANGED <<size, data>> /\ Front' = Front
    BY <1>1, <1>5, <1>8
  <2>2. Contents' = Contents /\ Stored'
    BY <2>1, SameContents
  <2>3. QED
    BY <1>1, <1>4, <1>5, <1>8, <2>2 DEF RInv, Promise!Ends
<1>9. CASE r + w # 0 /\ size = 0
  <2>1. Stored'
    BY <1>1, <1>6, <1>9 DEF Stored
  <2>2. RInv'
    BY <1>5, <2>1 DEF RInv
  <2>3. Contents = <<>> /\ Contents' = <<>>
    BY <1>1, <1>9, <2>2, EmptyContents, EmptyContentsThere
  <2>4. QED
    BY <1>1, <1>4, <1>9, <2>2, <2>3 DEF Promise!Ends
<1>10. QED
  BY <1>6, <1>7, <1>8, <1>9

(* A block of a read takes bytes off the front.                            *)
LEMMA ReadBlockMaps ==
    ASSUME RInv, NEW p \in Procs, ReadBlock(p)
    PROVE  RInv' /\ Promise!Take
<1>1. IInv'
  BY ReadBlockStep DEF RInv
<1>2. PICK k \in 1..size :
        size' = size - k /\ \A i \in 1..size' : Contents'[i] = Contents[i + k]
  BY <1>1, ReadBlockTakes
<1>3. /\ data' = [i \in 0..(PIPSIZ - 1) |-> data'[i]]
      /\ frcnt > 0 /\ UNCHANGED <<frcnt, fwcnt>>
  BY <1>1, ReadBlockTakes
<1>4. Contents \in Seq(Written) /\ Len(Contents) = size /\ size \in Nat
  BY ContentsSeq
<1>5. Stored'
  <2>1. \A i \in 1..size : Contents[i] \in Written
    BY DEF RInv, Stored
  <2>2. \A i \in 1..size' : Contents'[i] \in Written
    BY <1>2, <1>4, <2>1
  <2>3. QED
    BY <1>3, <2>2 DEF Stored, Written, Byte, Sizes
<1>6. RInv'
  BY <1>1, <1>5 DEF RInv
<1>7. Contents' \in Seq(Written) /\ Len(Contents') = size'
  BY <1>6, ContentsSeqThere
<1>8. Contents' = SubSeq(Contents, k + 1, Len(Contents))
  BY <1>2, <1>4, <1>7, TakeFront
<1>9. k \in DOMAIN Contents
  BY <1>2, <1>4, LenProperties
<1>10. QED
  BY <1>3, <1>6, <1>8, <1>9 DEF Promise!Take

(* A block of a write puts bytes behind those in the fifo.                 *)
LEMMA WriteBlockMaps ==
    ASSUME RInv, NEW p \in Procs, WriteBlock(p)
    PROVE  RInv' /\ Promise!Put
<1>1. IInv'
  BY WriteBlockStep DEF RInv
<1>2. /\ size' > size
      /\ \A i \in 1..size : Contents'[i] = Contents[i]
      /\ \A i \in (size + 1)..size' : Contents'[i] \in Written
      /\ data' = [i \in 0..(PIPSIZ - 1) |-> data'[i]]
      /\ fwcnt > 0 /\ UNCHANGED <<frcnt, fwcnt>>
  BY <1>1, WriteBlockPuts
<1>3. Contents \in Seq(Written) /\ Len(Contents) = size /\ size \in Nat
  BY ContentsSeq
<1>4. size' \in Nat /\ size' <= PIPSIZ
  BY <1>1 DEF IInv, Shaped, Circle
<1>5. \A i \in 1..size' : Contents'[i] \in Written
  <2>1. \A i \in 1..size : Contents[i] \in Written
    BY DEF RInv, Stored
  <2>2. \A i \in 1..size' : i \in 1..size \/ i \in (size + 1)..size'
    BY <1>3, <1>4
  <2>3. QED
    BY <1>2, <2>1, <2>2
<1>6. Stored'
  BY <1>2, <1>5 DEF Stored, Written, Byte, Sizes
<1>7. RInv'
  BY <1>1, <1>6 DEF RInv
<1>8. Contents' \in Seq(Written) /\ Len(Contents') = size' /\ DOMAIN Contents' = 1..size'
  BY <1>7, ContentsSeqThere, LenProperties
<1>9. SubSeq(Contents', 1, Len(Contents)) = Contents
  BY <1>2, <1>3, <1>8, PutBehind
<1>10. Len(Contents') \in (Len(Contents) + 1)..PIPSIZ
  BY <1>2, <1>3, <1>4, <1>8, PipsizPositive
<1>11. \A i \in DOMAIN Contents' : Contents'[i] \in Written
  BY <1>5, <1>8
<1>12. QED
  BY <1>2, <1>7, <1>9, <1>10, <1>11 DEF Promise!Put
--------------------------------------------------------------------------------
(* Every step of the pipe is a step of the fifo, or none.                  *)
LEMMA StepMaps ==
    ASSUME RInv, [Next]_vars
    PROVE  RInv' /\ [Promise!Next]_(Promise!vars)
<1>1. CASE Next
  <2>1. PICK p \in Procs :
          \/ OpenR(p) \/ OpenW(p) \/ Reopen(p) \/ Close(p) \/ Abort(p)
          \/ Interrupt(p)
          \/ Read(p) \/ ReadBlock(p) \/ Write(p) \/ WriteBlock(p)
    BY <1>1 DEF Next
  <2>2. CASE Reopen(p) \/ Interrupt(p) \/ Read(p) \/ Write(p)
    BY <2>2, QuietMaps
  <2>3. CASE OpenR(p) \/ OpenW(p)
    BY <2>3, OpenMaps DEF Promise!Next
  <2>4. CASE Close(p) \/ Abort(p)
    BY <2>4, CloseMaps DEF Promise!Next
  <2>5. CASE ReadBlock(p)
    BY <2>5, ReadBlockMaps DEF Promise!Next
  <2>6. CASE WriteBlock(p)
    BY <2>6, WriteBlockMaps DEF Promise!Next
  <2>7. QED
    BY <2>1, <2>2, <2>3, <2>4, <2>5, <2>6
<1>2. CASE UNCHANGED vars
  <2>1. IInv'
    BY NextStep DEF RInv
  <2>2. UNCHANGED <<size, data, frcnt, fwcnt>> /\ Front' = Front
    BY <1>2 DEF vars, Front, Busy
  <2>3. Contents' = Contents /\ Stored'
    BY <2>2, SameContents
  <2>4. QED
    BY <2>1, <2>2, <2>3 DEF RInv, Promise!vars
<1>3. QED
  BY <1>1, <1>2

(* The bytes come out of a fifo in the order in which they went in, none   *)
(* is lost before everybody has closed it, and no more than PIPSIZ are in  *)
(* it: s5readi and s5writei implement a queue of bytes with the blocks of  *)
(* the buffer cache.                                                       *)
THEOREM FifoImplemented == Spec => ImplementsFifo
<1>1. Init => RInv /\ Promise!Init
  <2> SUFFICES ASSUME Init
               PROVE  RInv /\ Promise!Init
    OBVIOUS
  <2>1. IInv
    BY InitInvariant
  <2>2. size = 0 /\ frcnt = 0 /\ fwcnt = 0 /\ data = [i \in 0..(PIPSIZ - 1) |-> Garbage]
    BY DEF Init
  <2>3. RInv
    BY <2>1, <2>2 DEF RInv, Stored
  <2>4. QED
    BY <2>2, <2>3, EmptyContents DEF Promise!Init
<1>2. RInv /\ [Next]_vars => RInv' /\ [Promise!Next]_(Promise!vars)
  BY StepMaps
<1>3. QED
  BY <1>1, <1>2, PTL DEF Spec, ImplementsFifo, Promise!Spec
--------------------------------------------------------------------------------
(* Writes in one piece.                                                   *)

(* Byte b may come behind byte a.                                          *)
Follows(a, b) ==
    /\ a.ix < a.of /\ a.of <= PIPSIZ => b = [a EXCEPT !.ix = @ + 1]
    /\ b.ix > 1 => a = [b EXCEPT !.ix = @ - 1] \/ b.of > PIPSIZ

(* A write that fits in the fifo has all to come until its one round, and  *)
(* in it its last byte is the last in the fifo.                            *)
WholeAt(p) ==
    /\ proc[p].pc = "wwait" /\ proc[p].n <= PIPSIZ => proc[p].left = proc[p].n
    /\ proc[p].pc = "floop" => proc[p].n > PIPSIZ
    /\ proc[p].pc = "write" /\ proc[p].n <= PIPSIZ =>
         /\ proc[p].save = 0
         /\ \/ proc[p].left = proc[p].n
            \/ size > 0 /\ Contents[size] = Byte(p, proc[p].n, proc[p].n - proc[p].left)

(* The last byte has others to come only while its writer transfers them.  *)
LastWritten ==
    size > 0 /\ Contents[size].ix < Contents[size].of /\ Contents[size].of <= PIPSIZ =>
        \E p \in Procs :
            /\ proc[p].pc = "write"
            /\ Contents[size] = Byte(p, proc[p].n, proc[p].n - proc[p].left)

CInv == RInv /\ Contiguous /\ (\A p \in Procs : WholeAt(p)) /\ LastWritten

(* A step of p at most wakes the others.                                   *)
LEMMA OthersSame ==
    ASSUME Shaped, NEW p \in Procs, NEW x, NEW cond, NEW c, proc' = WakeIf(cond, Set(p, x), c)
    PROVE  \A q \in Procs \ {p} : Same(proc'[q], proc[q])
<1>1. ASSUME NEW y \in State
      PROVE  Same(y, y) /\ Same([y EXCEPT !.asleep = FALSE], y)
  <2>1. CASE y \in Short
    BY <2>1 DEF State, Short, Long, Same
  <2>2. CASE y \in Long
    BY <2>2 DEF State, Long, Same
  <2>3. QED
    BY <2>1, <2>2 DEF State
<1>2. \A q \in Procs \ {p} : Set(p, x)[q] = proc[q] /\ proc[q] \in State
  BY DEF Shaped, Set
<1>3. \A q \in Procs :
        proc'[q] = Set(p, x)[q] \/ proc'[q] = [Set(p, x)[q] EXCEPT !.asleep = FALSE]
  BY DEF WakeIf, Wakeup, Shaped, Set
<1>4. QED
  BY <1>1, <1>2, <1>3

(* So it is with every step of the pipe.                                   *)
LEMMA StepOthers ==
    ASSUME IInv, NEW p \in Procs,
           \/ OpenR(p) \/ OpenW(p) \/ Reopen(p) \/ Close(p) \/ Abort(p) \/ Interrupt(p)
           \/ Read(p) \/ ReadBlock(p) \/ Write(p) \/ WriteBlock(p)
    PROVE  \A q \in Procs \ {p} : Same(proc'[q], proc[q])
<1>1. \A x : Set(p, x) = WakeIf(FALSE, Set(p, x), "frcnt")
  BY DEF WakeIf
<1>2. \E x, cond, c : proc' = WakeIf(cond, Set(p, x), c)
  <2>1. CASE OpenR(p) \/ OpenW(p)
    BY <2>1 DEF OpenR, OpenW
  <2>2. CASE Close(p) \/ Abort(p)
    BY <2>2 DEF Close, Abort, S5closef
  <2>3. CASE Reopen(p) \/ Interrupt(p)
    BY <1>1, <2>3 DEF Reopen, Interrupt
  <2>4. CASE Read(p)
    BY <1>1, <2>4 DEF Read, S5readi
  <2>5. CASE Write(p)
    BY <1>1, <2>5 DEF Write, S5writei
  <2>6. CASE ReadBlock(p)
    BY <1>1, <2>6 DEF ReadBlock, ReadDone
  <2>7. CASE WriteBlock(p)
    <3>1. \/ \E off : WriteDone(p, off)
          \/ \E x : proc' = Set(p, x)
      BY <2>7 DEF WriteBlock
    <3>2. CASE \E off : WriteDone(p, off)
      BY <3>2 DEF WriteDone
    <3>3. QED
      BY <1>1, <3>1, <3>2
  <2>8. QED
    BY <2>1, <2>2, <2>3, <2>4, <2>5, <2>6, <2>7
<1>3. QED
  BY <1>2, OthersSame DEF IInv

(* Contiguous in one formula.                                              *)
LEMMA ContiguousIs ==
    Contiguous <=> \A i \in 1..(size - 1) : Follows(Contents[i], Contents[i + 1])
  BY DEF Contiguous, Follows

(* The same after a step.                                                  *)
LEMMA ContiguousThere ==
    Contiguous' <=> \A i \in 1..(size' - 1) : Follows(Contents'[i], Contents'[i + 1])
<1>1. (Contiguous <=> \A i \in 1..(size - 1) : Follows(Contents[i], Contents[i + 1]))'
  BY ContiguousIs, PTL
<1>2. QED
  BY <1>1 DEF Follows

(* A process in the middle of a write, before and after a step of another. *)
LEMMA OtherWrite ==
    ASSUME Shaped, NEW q \in Procs, Same(proc'[q], proc[q])
    PROVE  /\ proc'[q].pc = proc[q].pc
           /\ proc[q].pc \in {"wwait", "floop", "write"} =>
                /\ proc'[q].n = proc[q].n /\ proc'[q].left = proc[q].left
                /\ proc'[q].save = proc[q].save
<1>1. proc[q].pc \in {"wwait", "floop", "write"} => proc[q] \in Long
  BY DEF Shaped, State, Short
<1>2. QED
  BY <1>1 DEF Same

(* A step that puts no bytes in leaves writes in one piece: it takes k     *)
(* bytes off the front, none while somebody writes.                        *)
LEMMA ShiftedKept ==
    ASSUME CInv, NEW p \in Procs, NEW k \in Nat,
           \A q \in Procs \ {p} : Same(proc'[q], proc[q]),
           proc[p].pc # "write", WholeAt(p)',
           k > 0 => \A q \in Procs : proc[q].pc # "write",
           size' = size - k, size' \in Nat,
           \A i \in 1..size' : Contents'[i] = Contents[i + k]
    PROVE  Contiguous' /\ (\A q \in Procs : WholeAt(q)') /\ LastWritten'
<1>1. Shaped /\ size \in Nat
  BY DEF CInv, RInv, IInv, Shaped
<1>2. Contiguous'
  <2>1. ASSUME NEW i \in 1..(size' - 1)
        PROVE  Follows(Contents'[i], Contents'[i + 1])
    <3>1. i \in 1..size' /\ i + 1 \in 1..size' /\ i + k \in 1..(size - 1)
          /\ (i + 1) + k = (i + k) + 1
      BY <1>1
    <3>2. Contents'[i] = Contents[i + k] /\ Contents'[i + 1] = Contents[(i + 1) + k]
      BY <3>1
    <3>3. Follows(Contents[i + k], Contents[(i + k) + 1])
      BY <3>1, ContiguousIs DEF CInv
    <3>4. QED
      BY <3>1, <3>2, <3>3
  <2>2. QED
    BY <2>1, ContiguousThere
<1>3. size' > 0 => size > 0 /\ Contents'[size'] = Contents[size]
  <2>1. SUFFICES ASSUME size' > 0
                 PROVE  size > 0 /\ Contents'[size'] = Contents[size]
    OBVIOUS
  <2>2. size' \in 1..size' /\ size' + k = size /\ size > 0
    BY <1>1, <2>1
  <2>3. Contents'[size'] = Contents[size' + k]
    BY <2>2
  <2>4. QED
    BY <2>2, <2>3
<1>4. LastWritten'
  <2>1. SUFFICES ASSUME size' > 0, Contents'[size'].ix < Contents'[size'].of,
                        Contents'[size'].of <= PIPSIZ
                 PROVE  \E q \in Procs :
                          /\ proc'[q].pc = "write"
                          /\ Contents'[size'] = Byte(q, proc'[q].n, proc'[q].n - proc'[q].left)
    BY DEF LastWritten, Byte
  <2>2. PICK q \in Procs : /\ proc[q].pc = "write"
                           /\ Contents[size] = Byte(q, proc[q].n, proc[q].n - proc[q].left)
    BY <1>3, <2>1 DEF CInv, LastWritten
  <2>3. q \in Procs \ {p}
    BY <2>2
  <2>4. proc'[q].pc = "write" /\ proc'[q].n = proc[q].n /\ proc'[q].left = proc[q].left
    BY <1>1, <2>2, <2>3, OtherWrite
  <2>5. QED
    BY <1>3, <2>1, <2>2, <2>4
<1>5. ASSUME NEW q \in Procs
      PROVE  WholeAt(q)'
  <2>1. CASE q = p
    BY <2>1
  <2>2. CASE q # p
    <3>1. /\ proc'[q].pc = proc[q].pc
          /\ proc[q].pc \in {"wwait", "floop", "write"} =>
               /\ proc'[q].n = proc[q].n /\ proc'[q].left = proc[q].left
               /\ proc'[q].save = proc[q].save
      BY <1>1, <2>2, OtherWrite
    <3>2. WholeAt(q)
      BY DEF CInv
    <3>3. proc[q].pc = "write" => size' = size
      BY <1>1
    <3>4. QED
      BY <1>3, <3>1, <3>2, <3>3 DEF WholeAt, Byte
  <2>3. QED
    BY <2>1, <2>2
<1>6. QED
  BY <1>2, <1>4, <1>5

(* A process that moves to x is there after the step.                      *)
LEMMA SelfSame ==
    ASSUME Shaped, NEW p \in Procs, NEW x \in State, NEW cond \in BOOLEAN, NEW c,
           proc' = WakeIf(cond, Set(p, x), c)
    PROVE  Same(proc'[p], x)
<1>1. Moves(p, x, cond, c)
  BY DEF Moves
<1>2. QED
  BY <1>1, MovesFacts

(* A process that opens, closes, gives up or reads is not in a write.      *)
LEMMA SelfElse ==
    ASSUME IInv, NEW p \in Procs,
           \/ OpenR(p) \/ OpenW(p) \/ Reopen(p) \/ Close(p) \/ Abort(p) \/ Interrupt(p)
           \/ Read(p) \/ ReadBlock(p)
    PROVE  proc[p].pc # "write" /\ WholeAt(p)'
<1> DEFINE m == proc[p].mode
           At(x) == x \in State /\ x.pc \notin {"wwait", "floop", "write"}
<1>1. proc[p] \in State /\ m \in Mode /\ Shaped /\ SidedAt(p)
  BY DEF IInv, Shaped, State, Short, Long, Sided
<1> DEFINE Left == proc'[p].pc \notin {"wwait", "floop", "write"}
<1>2. ASSUME NEW x, At(x), NEW cond \in BOOLEAN, NEW c, proc' = WakeIf(cond, Set(p, x), c)
      PROVE  Left
  <2>1. Same(proc'[p], x)
    BY <1>1, <1>2, SelfSame
  <2>2. QED
    BY <1>2, <2>1 DEF Same
<1>3. ASSUME NEW x, At(x), proc' = Set(p, x)
      PROVE  Left
  <2>1. proc' = WakeIf(FALSE, Set(p, x), "frcnt")
    BY <1>3 DEF WakeIf
  <2>2. QED
    BY <1>2, <1>3, <2>1
<1>4. At(Opened(m))
  BY <1>1, OpenedState
<1>5. \A w \in BOOLEAN, o \in Mode : At(Opening(o, w))
  BY DEF Opening, State, Short
<1>6. At(Closed)
  BY DEF Closed, State, Short, Mode
<1> HIDE DEF At, Left
<1>7. Left
  <2>1. CASE OpenR(p)
    <3>1. PICK o \in Modes[p] :
            proc' = WakeIf(frcnt = 0, Set(p, Opening(o, ReaderWaits(o))), "frcnt")
      BY <2>1 DEF OpenR
    <3>2. o \in Mode /\ ReaderWaits(o) \in BOOLEAN
      BY <3>1, PipeAssumption DEF Mode, ReaderWaits
    <3>3. QED
      BY <1>2, <1>5, <3>1, <3>2
  <2>2. CASE OpenW(p)
    <3>1. PICK o \in Modes[p] :
            proc' = WakeIf(fwcnt = 0, Set(p, Opening(o, WriterWaits)), "fwcnt")
      BY <2>2 DEF OpenW
    <3>2. o \in Mode /\ WriterWaits \in BOOLEAN
      BY <3>1, PipeAssumption DEF Mode, WriterWaits
    <3>3. QED
      BY <1>2, <1>5, <3>1, <3>2
  <2>3. CASE Reopen(p)
    <3> DEFINE w == IF m.dir = "R" THEN ReaderWaits(m) ELSE WriterWaits
    <3>1. proc' = Set(p, Opening(m, w))
      BY <2>3 DEF Reopen
    <3>2. w \in BOOLEAN
      BY DEF ReaderWaits, WriterWaits
    <3>3. QED
      BY <1>1, <1>5, <1>3, <3>1, <3>2
  <2>4. CASE Close(p) \/ Abort(p)
    <3>1. \E cond \in BOOLEAN : \E c : proc' = WakeIf(cond, Set(p, Closed), c)
      BY <2>4 DEF Close, Abort, S5closef
    <3>2. QED
      BY <1>2, <1>6, <3>1
  <2>5. CASE Interrupt(p)
    <3> DEFINE z == [proc[p] EXCEPT !.pc = "abort", !.asleep = FALSE]
    <3>1. proc[p].pc = "opening" => At(z)
      BY <1>1 DEF At, State, Short, Long
    <3>2. proc' = Set(p, z) \/ proc' = Set(p, Opened(m))
      BY <2>5 DEF Interrupt
    <3>3. proc[p].pc # "opening" => proc' = Set(p, Opened(m))
      BY <2>5 DEF Interrupt
    <3>4. QED
      BY <1>4, <1>3, <3>1, <3>2, <3>3
  <2>6. CASE Read(p)
    <3>1. PICK n \in Int : S5readi(p, m, n)
      <4>1. CASE proc[p].pc = "open"
        BY <2>6, <4>1, PipeAssumption DEF Read
      <4>2. CASE proc[p].pc = "rwait"
        BY <1>1, <2>6, <4>2 DEF Read, State, Short, Long
      <4>3. QED
        BY <2>6, <4>1, <4>2 DEF Read
    <3>2. frptr \in Nat
      BY <1>1 DEF Shaped
    <3>3. At(Waiting("rwait", m, n, n))
      BY <1>1, <3>1, WaitingState DEF At
    <3>4. At(Transfer("read", m, n, n, 0, frptr))
      BY <1>1, <3>1, <3>2 DEF At, Transfer, State, Long
    <3>5. \/ proc' = Set(p, Opened(m))
          \/ proc' = Set(p, Waiting("rwait", m, n, n))
          \/ proc' = Set(p, Transfer("read", m, n, n, 0, frptr))
      BY <3>1 DEF S5readi
    <3>6. QED
      BY <1>4, <1>3, <3>3, <3>4, <3>5
  <2>7. CASE ReadBlock(p)
    <3> DEFINE y == proc[p]
               n == Min({Blk - (y.off % Blk), y.left, size})
               off == (y.off + n) % PIPSIZ
    <3>1. /\ y.pc = "read"
          /\ \/ ReadDone(p, off, size - n)
             \/ proc' = Set(p, GoneOn(y, n, off))
      BY <2>7 DEF ReadBlock, GoneOn
    <3>2. y \in Long /\ y.left \in Nat \ {0} /\ size \in Nat \ {0} /\ y.off \in Nat
      BY <1>1, <3>1 DEF State, Short, Long, SidedAt, Shaped
    <3>3. n \in Int /\ n >= 0
      <4>1. n \in 1..PIPSIZ
        BY <3>2, BlockFacts
      <4> HIDE DEF n
      <4>2. QED
        BY <4>1, PipsizPositive
    <3>4. off \in Nat
      <4>1. y.off + n \in Nat
        BY <3>2, <3>3
      <4> HIDE DEF n
      <4>2. QED
        BY <4>1, PipsizPositive, ModType
    <3> HIDE DEF n, off
    <3>5. At(GoneOn(y, n, off))
      BY <3>1, <3>2, <3>3, <3>4, GoesOn DEF At
    <3>6. CASE ReadDone(p, off, size - n)
      <4>1. proc' = WakeIf("IFIW" \in fflag, Set(p, Opened(m)), "fwcnt")
        BY <3>6 DEF ReadDone
      <4>2. ("IFIW" \in fflag) \in BOOLEAN
        OBVIOUS
      <4>3. QED
        BY <1>2, <1>4, <4>1, <4>2
    <3>7. CASE proc' = Set(p, GoneOn(y, n, off))
      BY <1>3, <3>5, <3>7
    <3>8. QED
      BY <3>1, <3>6, <3>7
  <2>8. QED
    BY <2>1, <2>2, <2>3, <2>4, <2>5, <2>6, <2>7
<1>8. proc'[p].pc \notin {"wwait", "floop", "write"}
  BY <1>7 DEF Left
<1>9. proc[p].pc # "write"
  BY <1>1 DEF OpenR, OpenW, Reopen, Close, Abort, Interrupt, Read, ReadBlock
<1>10. QED
  BY <1>8, <1>9 DEF WholeAt

(* Opens, signals and the start of a read: the bytes are the same.         *)
LEMMA QuietWhole ==
    ASSUME CInv, NEW p \in Procs,
           OpenR(p) \/ OpenW(p) \/ Reopen(p) \/ Interrupt(p) \/ Read(p)
    PROVE  CInv'
<1>1. RInv /\ IInv
  BY DEF CInv, RInv
<1>2. RInv'
  BY <1>1, QuietMaps, OpenMaps
<1>3. UNCHANGED <<size, data>> /\ Front' = Front
  BY <1>1, OpenRStep, OpenWStep, ReopenStep, ReadStep DEF OpenR, OpenW, Reopen, Interrupt, Read
<1>4. Contents' = Contents
  BY <1>1, <1>3, SameContents
<1>5. proc[p].pc # "write" /\ WholeAt(p)'
  BY <1>1, SelfElse
<1>6. \A q \in Procs \ {p} : Same(proc'[q], proc[q])
  BY <1>1, StepOthers
<1>7. size' = size - 0 /\ size' \in Nat /\ \A i \in 1..size' : Contents'[i] = Contents[i + 0]
  BY <1>1, <1>3, <1>4 DEF IInv, Shaped
<1>8. Contiguous' /\ (\A q \in Procs : WholeAt(q)') /\ LastWritten'
  <2>1. 0 \in Nat /\ ~(0 > 0)
    OBVIOUS
  <2>2. QED
    BY <1>5, <1>6, <1>7, <2>1, ShiftedKept
<1>9. QED
  BY <1>2, <1>8 DEF CInv

(* A close: the bytes are the same or all gone.                            *)
LEMMA CloseWhole ==
    ASSUME CInv, NEW p \in Procs, Close(p) \/ Abort(p)
    PROVE  CInv'
<1>1. RInv /\ IInv
  BY DEF CInv, RInv
<1>2. RInv'
  BY <1>1, CloseMaps
<1>3. \A q \in Procs : proc[q].pc # "write"
  BY <1>1 DEF Close, Abort, IInv, Alone, Transfers, Busy
<1>4. proc[p].pc # "write" /\ WholeAt(p)'
  BY <1>1, SelfElse
<1>5. \A q \in Procs \ {p} : Same(proc'[q], proc[q])
  BY <1>1, StepOthers
<1>6. size \in Nat /\ size' \in Nat
  BY <1>1, <1>2 DEF RInv, IInv, Shaped
<1>7. \/ size' = 0
      \/ size' = size /\ \A i \in 1..size' : Contents'[i] = Contents[i]
  <2>1. size' = 0 \/ UNCHANGED <<size, data>>
    BY DEF Close, Abort, S5closef
  <2>2. CASE size' # 0
    <3>1. Front' = Front
      BY <1>1, <1>6, <2>2, CloseStep
    <3>2. UNCHANGED <<size, data>>
      BY <2>1, <2>2
    <3>3. Contents' = Contents
      BY <1>1, <3>1, <3>2, SameContents
    <3>4. QED
      BY <3>2, <3>3
  <2>3. QED
    BY <2>2
<1>8. PICK k \in Nat : size' = size - k /\ \A i \in 1..size' : Contents'[i] = Contents[i + k]
  <2>1. CASE size' = 0
    <3>1. size' = size - size
      BY <1>6, <2>1
    <3>2. QED
      BY <1>6, <2>1, <3>1
  <2>2. CASE size' = size /\ \A i \in 1..size' : Contents'[i] = Contents[i]
    <3>1. \A i \in 1..size' : i + 0 = i
      BY <1>6
    <3>2. 0 \in Nat /\ size' = size - 0
      BY <1>6, <2>2
    <3>3. QED
      BY <2>2, <3>1, <3>2
  <2>3. QED
    BY <1>7, <2>1, <2>2
<1>9. Contiguous' /\ (\A q \in Procs : WholeAt(q)') /\ LastWritten'
  BY <1>3, <1>4, <1>5, <1>6, <1>8, ShiftedKept
<1>10. QED
  BY <1>2, <1>9 DEF CInv

(* A block of a read: the bytes that stay are the same.                    *)
LEMMA ReadBlockWhole ==
    ASSUME CInv, NEW p \in Procs, ReadBlock(p)
    PROVE  CInv'
<1>1. RInv /\ IInv
  BY DEF CInv, RInv
<1>2. RInv' /\ IInv'
  BY <1>1, ReadBlockMaps DEF RInv
<1>3. \A q \in Procs : proc[q].pc # "write"
  BY <1>1 DEF ReadBlock, IInv, Alone, Transfers, Busy
<1>4. proc[p].pc # "write" /\ WholeAt(p)'
  BY <1>1, SelfElse
<1>5. \A q \in Procs \ {p} : Same(proc'[q], proc[q])
  BY <1>1, StepOthers
<1>6. size \in Nat /\ size' \in Nat
  BY <1>1, <1>2 DEF IInv, Shaped
<1>7. PICK k \in 1..size :
        size' = size - k /\ \A i \in 1..size' : Contents'[i] = Contents[i + k]
  BY <1>1, <1>2, ReadBlockTakes
<1>8. k \in Nat
  BY <1>6, <1>7
<1>9. Contiguous' /\ (\A q \in Procs : WholeAt(q)') /\ LastWritten'
  BY <1>3, <1>4, <1>5, <1>6, <1>7, <1>8, ShiftedKept
<1>10. QED
  BY <1>2, <1>9 DEF CInv

(* The start of a round: a write that fits waits until all of it does.     *)
LEMMA WriteWhole ==
    ASSUME CInv, NEW p \in Procs, Write(p)
    PROVE  CInv'
<1> DEFINE m == proc[p].mode
<1>1. RInv /\ IInv /\ WholeAt(p)
  BY DEF CInv, RInv
<1>2. RInv'
  BY <1>1, QuietMaps
<1>3. UNCHANGED <<size, data>> /\ Front' = Front
  BY <1>1, WriteStep DEF Write
<1>4. Contents' = Contents
  BY <1>1, <1>3, SameContents
<1>5. proc[p] \in State /\ m \in Mode /\ SidedAt(p) /\ Shaped /\ size \in Nat /\ fwptr \in Nat
  BY <1>1 DEF IInv, Shaped, State, Short, Long, Sided
<1>6. PICK n \in Int, left \in Int : /\ S5writei(p, m, n, left) /\ left > 0
                                     /\ n <= PIPSIZ => left = n
  <2>1. CASE proc[p].pc = "open"
    BY <2>1, PipeAssumption DEF Write
  <2>2. CASE proc[p].pc \in {"wwait", "floop"}
    <3>1. proc[p].n \in Int /\ proc[p].left \in Int /\ proc[p].left > 0
      BY <1>5, <2>2 DEF State, Short, Long, SidedAt
    <3>2. proc[p].n <= PIPSIZ => proc[p].left = proc[p].n
      BY <1>1, <2>2, <3>1, PipsizPositive DEF WholeAt
    <3>3. QED
      BY <2>2, <3>1, <3>2 DEF Write
  <2>3. QED
    BY <2>1, <2>2 DEF Write
<1>7. Room(left) \in 0..left
  BY <1>5, <1>6, RoomFacts
<1>8. Room(left) > 0 /\ left <= PIPSIZ => Room(left) = left
  BY <1>5, <1>6, PipsizPositive DEF Room
<1>9. ASSUME NEW x \in State, proc' = Set(p, x)
      PROVE  Same(proc'[p], x)
  <2>1. proc' = WakeIf(FALSE, Set(p, x), "frcnt")
    BY <1>9 DEF WakeIf
  <2>2. QED
    BY <1>5, <2>1, SelfSame
<1>10. WholeAt(p)'
  <2>1. CASE proc' = Set(p, Opened(m))
    <3>1. Opened(m) \in State /\ Opened(m).pc = "open"
      BY <1>5, OpenedState
    <3>2. proc'[p].pc = "open"
      BY <1>9, <2>1, <3>1 DEF Same
    <3>3. QED
      BY <3>2 DEF WholeAt
  <2>2. CASE proc' = Set(p, Waiting("wwait", m, n, left))
    <3> DEFINE x == Waiting("wwait", m, n, left)
    <3>1. x \in State /\ x \in Long /\ x.pc = "wwait" /\ x.left = left /\ x.n = n
      BY <1>5, WaitingState
    <3> HIDE DEF x
    <3>2. Same(proc'[p], x)
      BY <1>9, <2>2, <3>1 DEF x
    <3>3. proc'[p].pc = "wwait" /\ proc'[p].n = n /\ proc'[p].left = left
      BY <3>1, <3>2 DEF Same
    <3>4. QED
      BY <1>6, <3>3 DEF WholeAt
  <2>3. CASE /\ proc' = Set(p, Transfer("write", m, n, left, left - Room(left), fwptr))
             /\ Room(left) > 0
    <3> DEFINE x == Transfer("write", m, n, left, left - Room(left), fwptr)
    <3>1. m \in Mode /\ left - Room(left) \in Int /\ fwptr \in Nat /\ n \in Int /\ left \in Int
      BY <1>5, <1>7
    <3>2. x = Transfer("write", m, n, left, left - Room(left), fwptr)
      OBVIOUS
    <3> HIDE DEF x
    <3>3. /\ x \in State /\ x \in Long /\ x.pc = "write"
          /\ x.left = left /\ x.n = n /\ x.save = left - Room(left)
      BY ONLY <3>2, <3>1, TransferState
    <3>4. Same(proc'[p], x)
      BY <1>9, <2>3, <3>3 DEF x
    <3>5. /\ proc'[p].pc = "write" /\ proc'[p].n = n /\ proc'[p].left = left
          /\ proc'[p].save = left - Room(left)
      BY <3>3, <3>4 DEF Same
    <3>6. n <= PIPSIZ => left - Room(left) = 0
      BY <1>6, <1>7, <1>8, <2>3
    <3>7. QED
      BY <1>6, <3>5, <3>6 DEF WholeAt
  <2>4. QED
    BY <1>6, <2>1, <2>2, <2>3 DEF S5writei
<1>11. proc[p].pc # "write"
  BY DEF Write
<1>12. \A q \in Procs \ {p} : Same(proc'[q], proc[q])
  BY <1>1, StepOthers
<1>13. size' = size - 0 /\ size' \in Nat /\ \A i \in 1..size' : Contents'[i] = Contents[i + 0]
  BY <1>3, <1>4, <1>5
<1>14. Contiguous' /\ (\A q \in Procs : WholeAt(q)') /\ LastWritten'
  <2>1. 0 \in Nat /\ ~(0 > 0)
    OBVIOUS
  <2>2. QED
    BY <1>10, <1>11, <1>12, <1>13, <2>1, ShiftedKept
<1>15. QED
  BY <1>2, <1>14 DEF CInv

(* Where a writer is after a block.                                        *)
LEMMA WriterThere ==
    ASSUME IInv, NEW p \in Procs, WriteBlock(p)
    PROVE  LET y == proc[p]  z == proc'[p] IN
           /\ y.pc = "write" /\ y.n \in Int /\ y.left \in Int /\ y.save \in Int
           /\ size' \in Int /\ size \in Int
           /\ z.pc \in {"open", "floop", "write"}
           /\ z.pc # "write" => size' - size = y.left - y.save
           /\ z.pc = "floop" => y.save # 0 /\ z.n = y.n
           /\ z.pc = "write" =>
                z.n = y.n /\ z.save = y.save /\ z.left = y.left - (size' - size)
<1> DEFINE y == proc[p]
           n == Min({Blk - (y.off % Blk), y.left - y.save})
           off == (y.off + n) % PIPSIZ
           cond == "IFIR" \in fflag
           f == Transfer("floop", y.mode, y.n, y.save, 0, 0)
<1>1. /\ y.pc = "write" /\ size' = size + n
      /\ n = y.left - y.save => WriteDone(p, off)
      /\ n # y.left - y.save => proc' = Set(p, GoneOn(y, n, off))
  BY DEF WriteBlock, GoneOn
<1>2. /\ y \in Long /\ y.mode \in Mode /\ y.left - y.save \in Nat \ {0} /\ y.n \in Int
      /\ y.left \in Int /\ y.save \in Int /\ y.off \in Nat /\ size \in Nat /\ Shaped
  <2>1. y \in State /\ SidedAt(p) /\ size \in Nat /\ Shaped
    BY DEF IInv, Shaped, Sided
  <2>2. y \in Long
    BY <1>1, <2>1 DEF State, Short
  <2>3. QED
    BY <1>1, <2>1, <2>2 DEF Long, SidedAt
<1>3. n \in Nat
  <2>1. n \in 1..PIPSIZ
    BY <1>2, BlockFacts
  <2> HIDE DEF n
  <2>2. QED
    BY <2>1, PipsizPositive
<1> HIDE DEF n
<1>4. off \in Nat
  <2>1. y.off + n \in Nat
    BY <1>2, <1>3
  <2>2. PIPSIZ \in Nat \ {0}
    BY PipsizPositive
  <2>3. (y.off + n) % PIPSIZ \in 0..(PIPSIZ - 1)
    BY ONLY <2>1, <2>2, ModType
  <2>4. QED
    BY <2>2, <2>3
<1> HIDE DEF off
<1>5. CASE n # y.left - y.save
  <2> DEFINE x == GoneOn(y, n, off)
  <2>1. /\ x \in State /\ x \in Long /\ x.pc = "write" /\ x.n = y.n /\ x.save = y.save
        /\ x.left = y.left - n
    BY <1>1, <1>2, <1>3, <1>4, GoesOn
  <2> HIDE DEF x
  <2>2. proc' = WakeIf(FALSE, Set(p, x), "frcnt")
    BY <1>1, <1>5 DEF WakeIf, x
  <2>3. Same(proc'[p], x)
    BY <1>2, <2>1, <2>2, SelfSame
  <2>4. /\ proc'[p].pc = "write" /\ proc'[p].n = y.n /\ proc'[p].save = y.save
        /\ proc'[p].left = y.left - n
    BY <2>1, <2>3 DEF Same
  <2>5. n = size' - size
    BY <1>1, <1>2, <1>3
  <2>6. QED
    BY <1>1, <1>2, <1>3, <2>4, <2>5
<1>6. CASE n = y.left - y.save
  <2>1. cond \in BOOLEAN /\ n = size' - size
    BY <1>1, <1>2, <1>3
  <2>2. CASE y.save = 0
    <3> DEFINE x == Opened(y.mode)
    <3>1. x \in State /\ x.pc = "open"
      BY <1>2, OpenedState
    <3>2. proc' = WakeIf(cond, Set(p, x), "frcnt")
      BY <1>1, <1>6, <2>2 DEF WriteDone
    <3> HIDE DEF x
    <3>3. Same(proc'[p], x)
      BY <1>2, <2>1, <3>1, <3>2, SelfSame
    <3>4. QED
      BY <1>1, <1>2, <1>3, <1>6, <2>1, <3>1, <3>3 DEF Same
  <2>3. CASE y.save # 0
    <3>1. f \in State /\ f \in Long /\ f.pc = "floop" /\ f.n = y.n
      <4>1. 0 \in Int /\ 0 \in Nat /\ y.save \in Int /\ y.n \in Int /\ y.mode \in Mode
        BY <1>2
      <4>2. \A x : x = Transfer("floop", y.mode, y.n, y.save, 0, 0) =>
              x \in State /\ x \in Long /\ x.pc = "floop" /\ x.n = y.n
        BY <4>1, TransferState
      <4>3. QED
        BY <4>2
    <3>2. proc' = WakeIf(cond, Set(p, f), "frcnt")
      BY <1>1, <1>6, <2>3 DEF WriteDone
    <3> HIDE DEF f
    <3>3. Same(proc'[p], f)
      BY <1>2, <2>1, <3>1, <3>2, SelfSame
    <3>4. proc'[p].pc = "floop" /\ proc'[p].n = y.n
      BY <3>1, <3>3 DEF Same
    <3>5. QED
      BY <1>1, <1>2, <1>3, <1>6, <2>1, <2>3, <3>4
  <2>4. QED
    BY <2>2, <2>3
<1>7. QED
  BY <1>5, <1>6

(* A block of a write: its first byte follows the last in the fifo, as     *)
(* nobody else is writing, and those of a block follow each other.         *)
LEMMA WriteBlockWhole ==
    ASSUME CInv, NEW p \in Procs, WriteBlock(p)
    PROVE  CInv'
<1> DEFINE y == proc[p]
           z == proc'[p]
           New(i) == Byte(p, y.n, y.n - y.left + i - size)
<1>1. RInv /\ IInv /\ Shaped /\ WholeAt(p) /\ LastWritten
  BY DEF CInv, RInv, IInv
<1>2. RInv' /\ IInv'
  BY <1>1, WriteBlockMaps DEF RInv
<1>3. /\ y.pc = "write" /\ y.n \in Int /\ y.left \in Int /\ y.save \in Int
      /\ z.pc \in {"open", "floop", "write"}
      /\ z.pc # "write" => size' - size = y.left - y.save
      /\ z.pc = "floop" => y.save # 0 /\ z.n = y.n
      /\ z.pc = "write" =>
           z.n = y.n /\ z.save = y.save /\ z.left = y.left - (size' - size)
  BY <1>1, WriterThere
<1>4. /\ size \in Nat /\ size' \in Nat /\ size' > size
      /\ \A i \in 1..size : Contents'[i] = Contents[i]
      /\ \A i \in (size + 1)..size' : Contents'[i] = New(i)
  <2>1. size \in Nat /\ size' \in Nat
    BY <1>1, <1>2 DEF IInv, Shaped
  <2>2. QED
    BY <1>1, <1>2, <2>1, WriteBlockPuts
<1>5. \A q \in Procs : proc[q].pc = "write" => q = p
  BY <1>1, <1>3 DEF IInv, Alone, Transfers, Busy
<1>6. Contiguous'
  <2>1. size \in Nat /\ size' \in Nat
    BY <1>4
  <2>2. ASSUME NEW i \in 1..(size' - 1)
        PROVE  Follows(Contents'[i], Contents'[i + 1])
    <3>1. CASE i + 1 <= size
      <4>1. i \in 1..size /\ i + 1 \in 1..size /\ i \in 1..(size - 1)
        BY <1>4, <3>1
      <4>2. QED
        BY <1>4, <4>1, ContiguousIs DEF CInv
    <3>2. CASE i = size
      <4> DEFINE a == Contents[size]
                 b == Byte(p, y.n, y.n - y.left + 1)
      <4>1. i \in 1..size /\ i + 1 \in (size + 1)..size' /\ size > 0
        BY <1>4, <3>2
      <4>2. Contents'[i] = a
        BY <1>4, <3>2, <4>1
      <4>3. Contents'[i + 1] = b
        <5>1. Contents'[i + 1] = New(i + 1)
          BY <1>4, <4>1
        <5>2. y.n - y.left + (i + 1) - size = y.n - y.left + 1
          BY <1>3, <1>4, <3>2
        <5>3. QED
          BY <5>1, <5>2
      <4>4. a.ix < a.of /\ a.of <= PIPSIZ => b = [a EXCEPT !.ix = @ + 1]
        <5>1. SUFFICES ASSUME a.ix < a.of, a.of <= PIPSIZ
                       PROVE  b = [a EXCEPT !.ix = @ + 1]
          OBVIOUS
        <5>2. PICK q \in Procs : /\ proc[q].pc = "write"
                                 /\ a = Byte(q, proc[q].n, proc[q].n - proc[q].left)
          BY <1>1, <4>1, <5>1 DEF LastWritten
        <5>3. q = p
          BY <1>5, <5>2
        <5>4. a = Byte(p, y.n, y.n - y.left)
          BY <5>2, <5>3
        <5>5. QED
          BY <5>4 DEF Byte
      <4>5. b.ix > 1 => a = [b EXCEPT !.ix = @ - 1] \/ b.of > PIPSIZ
        <5>1. SUFFICES ASSUME b.ix > 1, ~(b.of > PIPSIZ)
                       PROVE  a = [b EXCEPT !.ix = @ - 1]
          OBVIOUS
        <5>2. b.ix = y.n - y.left + 1 /\ b.of = y.n
          BY DEF Byte
        <5>3. y.n <= PIPSIZ /\ y.left # y.n
          BY <1>3, <5>1, <5>2, PipsizPositive
        <5>4. a = Byte(p, y.n, y.n - y.left)
          BY <1>1, <1>3, <5>3 DEF WholeAt
        <5>5. (y.n - y.left + 1) - 1 = y.n - y.left
          BY <1>3
        <5>6. QED
          BY <5>4, <5>5 DEF Byte
      <4> HIDE DEF a, b
      <4>6. QED
        BY <4>2, <4>3, <4>4, <4>5 DEF Follows
    <3>3. CASE i > size
      <4>1. i \in (size + 1)..size' /\ i + 1 \in (size + 1)..size'
        <5>1. PICK s \in Nat, t \in Nat : s = size /\ t = size'
          BY <2>1
        <5>2. i \in 1..(t - 1) /\ i > s
          BY <3>3, <5>1
        <5>3. i \in (s + 1)..t /\ i + 1 \in (s + 1)..t
          BY <5>2
        <5>4. QED
          BY <5>1, <5>3
      <4> DEFINE a == New(i)
                 b == New(i + 1)
      <4>2. Contents'[i] = a /\ Contents'[i + 1] = b
        BY <1>4, <4>1
      <4>3. y.n - y.left + (i + 1) - size = (y.n - y.left + i - size) + 1
        BY <1>3, <1>4
      <4>4. b = [a EXCEPT !.ix = @ + 1]
        BY <4>3 DEF Byte
      <4>5. a = [b EXCEPT !.ix = @ - 1]
        <5>1. (y.n - y.left + (i + 1) - size) - 1 = y.n - y.left + i - size
          BY <1>3, <1>4
        <5>2. QED
          BY <5>1 DEF Byte
      <4> HIDE DEF a, b
      <4>6. QED
        BY <4>2, <4>4, <4>5 DEF Follows
    <3>4. QED
      BY <1>4, <3>1, <3>2, <3>3
  <2>3. QED
    BY <2>2, ContiguousThere
<1>7. size' > 0 /\ Contents'[size'] = New(size')
  <2>1. size' \in (size + 1)..size'
    BY <1>4
  <2>2. QED
    BY <1>4, <2>1
<1>8. z.pc = "write" => Contents'[size'] = Byte(p, z.n, z.n - z.left)
  <2>1. SUFFICES ASSUME z.pc = "write"
                 PROVE  Contents'[size'] = Byte(p, z.n, z.n - z.left)
    OBVIOUS
  <2>2. z.n = y.n /\ z.left = y.left - (size' - size)
    BY <1>3, <2>1
  <2>3. z.n - z.left = y.n - y.left + size' - size
    BY <1>3, <1>4, <2>2
  <2>4. QED
    BY <1>7, <2>2, <2>3
<1>9. LastWritten'
  <2>1. SUFFICES ASSUME Contents'[size'].ix < Contents'[size'].of,
                        Contents'[size'].of <= PIPSIZ
                 PROVE  \E q \in Procs :
                          /\ proc'[q].pc = "write"
                          /\ Contents'[size'] = Byte(q, proc'[q].n, proc'[q].n - proc'[q].left)
    BY DEF LastWritten, Byte
  <2>2. y.n - y.left + size' - size < y.n /\ y.n <= PIPSIZ
    BY <1>7, <2>1 DEF Byte
  <2>3. y.save = 0
    BY <1>1, <1>3, <2>2 DEF WholeAt
  <2>4. z.pc = "write"
    BY <1>3, <1>4, <2>2, <2>3
  <2>5. QED
    BY <1>8, <2>4
<1>10. WholeAt(p)'
  <2>1. z.pc = "floop" => z.n > PIPSIZ
    BY <1>1, <1>3, PipsizPositive DEF WholeAt
  <2>2. z.pc = "write" /\ z.n <= PIPSIZ => z.save = 0
    BY <1>1, <1>3 DEF WholeAt
  <2>3. QED
    BY <1>3, <1>7, <1>8, <2>1, <2>2 DEF WholeAt, Byte
<1>11. ASSUME NEW q \in Procs \ {p}
       PROVE  WholeAt(q)'
  <2>1. Same(proc'[q], proc[q])
    BY <1>1, StepOthers
  <2>2. /\ proc'[q].pc = proc[q].pc
        /\ proc[q].pc \in {"wwait", "floop", "write"} =>
             /\ proc'[q].n = proc[q].n /\ proc'[q].left = proc[q].left
             /\ proc'[q].save = proc[q].save
    BY <1>1, <2>1, OtherWrite
  <2>3. WholeAt(q) /\ proc[q].pc # "write"
    BY <1>5 DEF CInv
  <2>4. QED
    BY <2>2, <2>3 DEF WholeAt
<1>12. QED
  BY <1>2, <1>6, <1>9, <1>10, <1>11 DEF CInv
--------------------------------------------------------------------------------
(* No step breaks a write in two.                                          *)
LEMMA StepWhole ==
    ASSUME CInv, [Next]_vars
    PROVE  CInv'
<1>1. CASE Next
  <2>1. PICK p \in Procs :
          \/ OpenR(p) \/ OpenW(p) \/ Reopen(p) \/ Close(p) \/ Abort(p)
          \/ Interrupt(p)
          \/ Read(p) \/ ReadBlock(p) \/ Write(p) \/ WriteBlock(p)
    BY <1>1 DEF Next
  <2>2. CASE OpenR(p) \/ OpenW(p) \/ Reopen(p) \/ Interrupt(p) \/ Read(p)
    BY <2>2, QuietWhole
  <2>3. CASE Close(p) \/ Abort(p)
    BY <2>3, CloseWhole
  <2>4. CASE ReadBlock(p)
    BY <2>4, ReadBlockWhole
  <2>5. CASE Write(p)
    BY <2>5, WriteWhole
  <2>6. CASE WriteBlock(p)
    BY <2>6, WriteBlockWhole
  <2>7. QED
    BY <2>1, <2>2, <2>3, <2>4, <2>5, <2>6
<1>2. CASE UNCHANGED vars
  <2>1. RInv'
    BY StepMaps DEF CInv
  <2>2. UNCHANGED <<size, data, proc>> /\ Front' = Front
    BY <1>2 DEF vars, Front, Busy
  <2>3. Contents' = Contents
    BY <2>2 DEF Contents
  <2>4. Contiguous' /\ (\A p \in Procs : WholeAt(p)') /\ LastWritten'
    BY <2>2, <2>3 DEF CInv, Contiguous, WholeAt, LastWritten, Byte
  <2>5. QED
    BY <2>1, <2>4 DEF CInv
<1>3. QED
  BY <1>1, <1>2

(* A write of no more than PIPSIZ bytes comes out in one piece, however    *)
(* many write at once and wait for room: s5writei does not start it before *)
(* the whole of it fits, and then does not give up the inode's lock.       *)
THEOREM WritesWhole == Spec => []Contiguous
<1>1. Init => CInv
  <2> SUFFICES ASSUME Init
               PROVE  CInv
    OBVIOUS
  <2>1. /\ size = 0 /\ data = [i \in 0..(PIPSIZ - 1) |-> Garbage]
        /\ \A p \in Procs : proc[p].pc = "closed"
    BY DEF Init, Closed
  <2>2. RInv
    BY <2>1, InitInvariant DEF RInv, Stored
  <2>3. Contiguous /\ (\A p \in Procs : WholeAt(p)) /\ LastWritten
    BY <2>1 DEF Contiguous, WholeAt, LastWritten
  <2>4. QED
    BY <2>2, <2>3 DEF CInv
<1>2. CInv /\ [Next]_vars => CInv'
  BY StepWhole
<1>3. CInv => Contiguous
  BY DEF CInv
<1>4. QED
  BY <1>1, <1>2, <1>3, PTL DEF Spec
=============================================================================
