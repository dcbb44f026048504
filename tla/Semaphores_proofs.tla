--------------------------- MODULE Semaphores_proofs ---------------------------
(***************************************************************************)
(* Proofs about Semaphores: the operations of a call are done all or none, *)
(* values, counts and adjustments keep their limits, and whoever sleeps is *)
(* counted and has a reason to sleep.                                      *)
(***************************************************************************)
EXTENDS Semaphores, SeqLemmas

Chan == Sem \X Kind
Place == Id \X Num      \* what an undo entry is for
Holders == {q \in Procs : hasUndo[q]}
EntriesOf(u) == {x \in Place : u[x] # 0}

Ats == {"go", "n", "z", "ERANGE", "ENOSPC", "EINVAL", "EAGAIN"}
Works ==
    [val : [Sem -> Int], cnt : [Chan -> Nat], undo : [Place -> Int], has : BOOLEAN,
     woken : SUBSET Chan, at : Ats, done : Nat]

(* The adjustments u of a process with (h) or without an undo structure.   *)
UndoOK(u, h) ==
    /\ u \in [Place -> -SemAem..SemAem]
    /\ Cardinality(EntriesOf(u)) <= SemUme
    /\ ~h => EntriesOf(u) = {}

LEMMA WorkFacts ==
    ASSUME NEW w \in Works
    PROVE  /\ w.val \in [Sem -> Int] /\ w.cnt \in [Chan -> Nat] /\ w.undo \in [Place -> Int]
           /\ w.has \in BOOLEAN /\ w.woken \subseteq Chan /\ w.at \in Ats /\ w.done \in Nat
BY DEF Works

LEMMA PlaceFinite == IsFiniteSet(Place)
<1>1. IsFiniteSet(Slot) /\ IsFiniteSet(0..MaxSeq) /\ IsFiniteSet(Num)
  BY FS_Interval, SemAssumption DEF Slot, Num
<1>2. IsFiniteSet(Id)
  BY <1>1, FS_Product DEF Id
<1>3. QED
  BY <1>1, <1>2, FS_Product DEF Place

LEMMA EntriesFinite ==
    ASSUME NEW u
    PROVE  IsFiniteSet(EntriesOf(u)) /\ Cardinality(EntriesOf(u)) \in Nat
<1>1. IsFiniteSet(EntriesOf(u))
  BY PlaceFinite, FS_Subset DEF EntriesOf
<1>2. QED
  BY <1>1, FS_CardinalityType

-----------------------------------------------------------------------------
(* The adjustments of a semaphore after semaoe has added -val for it. *)
Adjusted(w, u, e, val) ==
    /\ u.has /\ (w.has \/ Cardinality(Holders) < SemMnu)
    /\ Abs(val) <= SemAem /\ Abs(w.undo[e] - val) <= SemAem
    /\ w.undo[e] = 0 => Cardinality(EntriesOf(w.undo)) < SemUme
    /\ u.undo = [w.undo EXCEPT ![e] = @ - val]

LEMMA SemaoeFacts ==
    ASSUME NEW w \in Works, NEW id \in Id, NEW o \in Operation, NEW val \in Int
    PROVE  LET u == Semaoe(w, id, o, val) IN
           /\ u \in Works /\ u.val = w.val /\ u.cnt = w.cnt /\ u.woken = w.woken /\ u.done = w.done
           /\ w.has => u.has
           /\ u.has => w.has \/ Cardinality(Holders) < SemMnu
           /\ \/ u.at = w.at /\ (val = 0 \/ ~o.undo) /\ u = w
              \/ u.at = w.at /\ val # 0 /\ o.undo /\ Adjusted(w, u, <<id, o.num>>, val)
              \/ u.at \in {"ERANGE", "ENOSPC", "EINVAL"} /\ u.undo = w.undo /\ val # 0 /\ o.undo
<1> DEFINE e == <<id, o.num>>
           u == Semaoe(w, id, o, val)
           entries == {x \in DOMAIN w.undo : w.undo[x] # 0}
           full == ~w.has /\ Cardinality({q \in Procs : hasUndo[q]}) >= SemMnu
<1>1. /\ w.val \in [Sem -> Int] /\ w.cnt \in [Chan -> Nat] /\ w.undo \in [Place -> Int]
      /\ w.has \in BOOLEAN /\ w.woken \subseteq Chan /\ w.at \in Ats /\ w.done \in Nat
  BY WorkFacts
<1>2. e \in Place /\ o.undo \in BOOLEAN
  BY DEF Place, Operation
<1>3. entries = EntriesOf(w.undo) /\ Cardinality(entries) \in Nat
  <2>1. entries = EntriesOf(w.undo)
    BY <1>1 DEF EntriesOf
  <2>2. QED
    BY <2>1, EntriesFinite
<1>4. full <=> ~w.has /\ ~(Cardinality(Holders) < SemMnu)
  <2>1. IsFiniteSet(Holders)
    BY SemAssumption, FS_Subset DEF Holders
  <2>2. Cardinality(Holders) \in Nat /\ SemMnu \in Nat
    BY <2>1, FS_CardinalityType, SemAssumption
  <2>3. QED
    BY <2>2 DEF Holders
<1>5. SemAem \in Nat /\ SemUme \in Nat /\ Abs(val) \in Int /\ Abs(w.undo[e] - val) \in Int
  BY <1>1, <1>2, SemAssumption DEF Abs
<1>6. u = IF val = 0 \/ ~o.undo THEN w
          ELSE IF Abs(val) > SemAem THEN [w EXCEPT !.at = "ERANGE"]
          ELSE IF full THEN [w EXCEPT !.at = "ENOSPC"]
          ELSE IF w.undo[e] = 0 /\ Cardinality(entries) >= SemUme
               THEN [w EXCEPT !.has = TRUE, !.at = "EINVAL"]
          ELSE IF Abs(w.undo[e] - val) > SemAem THEN [w EXCEPT !.has = TRUE, !.at = "ERANGE"]
          ELSE [w EXCEPT !.has = TRUE, !.undo[e] = @ - val]
  BY DEF Semaoe
<1> HIDE DEF u, entries, full
<1>7. CASE val = 0 \/ ~o.undo
  BY <1>1, <1>6, <1>7 DEF u
<1>8. CASE ~(val = 0 \/ ~o.undo) /\ (Abs(val) > SemAem \/ full)
  <2>1. \E a \in {"ERANGE", "ENOSPC"} : u = [w EXCEPT !.at = a]
    BY <1>6, <1>8
  <2>2. PICK a \in {"ERANGE", "ENOSPC"} : u = [w EXCEPT !.at = a]
    BY <2>1
  <2>3. /\ u \in Works /\ u.val = w.val /\ u.cnt = w.cnt /\ u.woken = w.woken /\ u.done = w.done
        /\ u.has = w.has /\ u.undo = w.undo /\ u.at = a
    BY <2>2 DEF Works, Ats
  <2>4. QED
    BY <1>8, <2>3 DEF u
<1>9. CASE /\ ~(val = 0 \/ ~o.undo) /\ ~(Abs(val) > SemAem \/ full)
           /\ (w.undo[e] = 0 /\ Cardinality(entries) >= SemUme) \/ Abs(w.undo[e] - val) > SemAem
  <2>1. \E a \in {"ERANGE", "EINVAL"} : u = [w EXCEPT !.has = TRUE, !.at = a]
    BY <1>6, <1>9
  <2>2. PICK a \in {"ERANGE", "EINVAL"} : u = [w EXCEPT !.has = TRUE, !.at = a]
    BY <2>1
  <2>3. /\ u \in Works /\ u.val = w.val /\ u.cnt = w.cnt /\ u.woken = w.woken /\ u.done = w.done
        /\ u.has = TRUE /\ u.undo = w.undo /\ u.at = a
    BY <2>2 DEF Works, Ats
  <2>4. QED
    BY <1>4, <1>9, <2>3 DEF u
<1>10. CASE /\ ~(val = 0 \/ ~o.undo) /\ ~(Abs(val) > SemAem \/ full)
            /\ ~((w.undo[e] = 0 /\ Cardinality(entries) >= SemUme) \/ Abs(w.undo[e] - val) > SemAem)
  <2>1. u = [w EXCEPT !.has = TRUE, !.undo[e] = @ - val]
    BY <1>6, <1>10
  <2>2. [w.undo EXCEPT ![e] = @ - val] \in [Place -> Int]
    BY <1>1, <1>2
  <2>3. /\ u \in Works /\ u.val = w.val /\ u.cnt = w.cnt /\ u.woken = w.woken /\ u.done = w.done
        /\ u.has = TRUE /\ u.undo = [w.undo EXCEPT ![e] = @ - val] /\ u.at = w.at
    BY <2>1, <2>2 DEF Works
  <2>4. Adjusted(w, u, e, val)
    BY <1>3, <1>4, <1>5, <1>10, <2>3 DEF Adjusted
  <2>5. QED
    BY <1>4, <1>10, <2>3, <2>4 DEF u
<1>11. QED
  BY <1>7, <1>8, <1>9, <1>10

(* Adjustments keep their limits.                                          *)
LEMMA AdjustedOK ==
    ASSUME NEW w \in Works, UndoOK(w.undo, w.has), NEW u, NEW e \in Place, NEW val \in Int,
           Adjusted(w, u, e, val)
    PROVE  UndoOK(u.undo, u.has)
<1>1. w.undo \in [Place -> -SemAem..SemAem] /\ SemAem \in Nat /\ SemUme \in Nat
  BY SemAssumption DEF UndoOK
<1>2. w.undo[e] - val \in -SemAem..SemAem
  BY <1>1 DEF Adjusted, Abs
<1>3. u.undo \in [Place -> -SemAem..SemAem]
  BY <1>1, <1>2 DEF Adjusted
<1>4. EntriesOf(u.undo) \subseteq EntriesOf(w.undo) \cup {e}
  BY <1>1 DEF Adjusted, EntriesOf
<1>5. Cardinality(EntriesOf(u.undo)) <= SemUme
  <2> DEFINE E == EntriesOf(w.undo)
             F == EntriesOf(u.undo)
  <2>1. IsFiniteSet(E) /\ IsFiniteSet(F) /\ Cardinality(E) \in Nat /\ Cardinality(F) \in Nat
    BY EntriesFinite
  <2>2. Cardinality(E) <= SemUme /\ (w.undo[e] = 0 => Cardinality(E) < SemUme)
    BY DEF UndoOK, Adjusted
  <2>3. w.undo[e] # 0 <=> e \in E
    BY DEF EntriesOf
  <2>4. F \subseteq E \cup {e}
    BY <1>4
  <2> HIDE DEF E, F
  <2>5. IsFiniteSet(E \cup {e}) /\ Cardinality(E \cup {e}) = IF e \in E THEN Cardinality(E) ELSE Cardinality(E) + 1
    BY <2>1, FS_AddElement
  <2>6. Cardinality(F) <= Cardinality(E \cup {e})
    BY <2>4, <2>5, FS_Subset
  <2>7. Cardinality(F) <= SemUme
    BY <1>1, <2>1, <2>2, <2>3, <2>5, <2>6
  <2>8. QED
    BY <2>7 DEF F
<1>6. QED
  BY <1>3, <1>5 DEF UndoOK, Adjusted

-----------------------------------------------------------------------------
LEMMA WakeFacts ==
    ASSUME NEW w \in Works, NEW c \in Chan
    PROVE  LET d == Wake(w, c) IN
           /\ d \in Works /\ d.val = w.val /\ d.undo = w.undo /\ d.has = w.has /\ d.at = w.at
           /\ d.done = w.done
           /\ d.cnt = [w.cnt EXCEPT ![c] = 0]
           /\ d.woken = IF w.cnt[c] > 0 THEN w.woken \cup {c} ELSE w.woken
<1> DEFINE d == Wake(w, c)
<1>1. w.cnt \in [Chan -> Nat] /\ w.woken \subseteq Chan
  BY WorkFacts
<1>2. CASE w.cnt[c] = 0
  <2>1. d = w /\ w.cnt = [w.cnt EXCEPT ![c] = 0]
    BY <1>1, <1>2 DEF Wake
  <2>2. QED
    BY <1>2, <2>1
<1>3. CASE w.cnt[c] # 0
  <2>1. d = [w EXCEPT !.cnt[c] = 0, !.woken = @ \cup {c}] /\ w.cnt[c] > 0
    BY <1>1, <1>3 DEF Wake
  <2>2. [w.cnt EXCEPT ![c] = 0] \in [Chan -> Nat] /\ w.woken \cup {c} \subseteq Chan
    BY <1>1
  <2> HIDE DEF d
  <2>3. /\ d \in Works /\ d.val = w.val /\ d.undo = w.undo /\ d.has = w.has /\ d.at = w.at
        /\ d.done = w.done /\ d.cnt = [w.cnt EXCEPT ![c] = 0] /\ d.woken = w.woken \cup {c}
    BY <2>1, <2>2 DEF Works
  <2>4. QED
    BY <2>1, <2>3 DEF d
<1>4. QED
  BY <1>2, <1>3

(* One operation.  The work goes on (Goes) or stops (Stops) at it.         *)
Goes(w, d, id, o) ==
    LET s == SemOf(id, o.num) IN
    /\ d.at = "go" /\ d.done = w.done + 1
    /\ d.val = [w.val EXCEPT ![s] = @ + o.op]
    /\ w.val[s] + o.op >= 0 /\ (o.op > 0 => w.val[s] + o.op <= SemVmx) /\ (o.op = 0 => w.val[s] = 0)
    /\ \/ d.undo = w.undo /\ d.has = w.has /\ (o.op = 0 \/ ~o.undo)
       \/ Adjusted(w, d, <<id, o.num>>, o.op) /\ o.op # 0 /\ o.undo

Stops(w, d, id, o) ==
    LET s == SemOf(id, o.num) IN
    /\ d.at # "go" /\ d.done = w.done
    /\ d.val = w.val /\ d.undo = w.undo
    /\ d.at = "n" => o.op < 0 /\ w.val[s] + o.op < 0
    /\ d.at = "z" => o.op = 0 /\ w.val[s] # 0

(* Who waits and is not woken by d gets no more of s, and not zero.        *)
Wakes(w, d, s) ==
    /\ \A c \in Chan : /\ c \in d.woken => c \in w.woken \/ w.cnt[c] > 0
                       /\ c \in w.woken => c \in d.woken
                       /\ d.cnt[c] = IF c \in d.woken /\ c \notin w.woken THEN 0 ELSE w.cnt[c]
    /\ w.cnt[<<s, "n">>] > 0 /\ <<s, "n">> \notin d.woken => d.val[s] <= w.val[s]
    /\ w.cnt[<<s, "z">>] > 0 /\ <<s, "z">> \notin d.woken /\ w.val[s] # 0 => d.val[s] # 0

LEMMA WokenBy ==
    ASSUME NEW w \in Works, NEW v \in Works, NEW c \in Chan, NEW d, d = Wake(v, c),
           v.cnt = w.cnt, v.woken = w.woken
    PROVE  /\ \A b \in Chan : /\ b \in d.woken => b \in w.woken \/ w.cnt[b] > 0
                              /\ b \in w.woken => b \in d.woken
                              /\ b \notin w.woken \/ w.cnt[b] = 0
                                   => d.cnt[b] = IF b \in d.woken /\ b \notin w.woken THEN 0 ELSE w.cnt[b]
           /\ w.cnt[c] > 0 => c \in d.woken
<1>1. /\ d.cnt = [w.cnt EXCEPT ![c] = 0]
      /\ d.woken = IF w.cnt[c] > 0 THEN w.woken \cup {c} ELSE w.woken
  BY WakeFacts
<1>2. w.cnt \in [Chan -> Nat]
  BY WorkFacts
<1>3. QED
  BY <1>1, <1>2

LEMMA DoFacts ==
    ASSUME NEW w \in Works, w.at = "go", NEW id \in Id, NEW o \in Operation,
           SemOf(id, o.num) \in Sem, \A c \in w.woken : w.cnt[c] = 0,
           \A s \in Sem : w.val[s] >= 0
    PROVE  LET d == Do(w, id, o) IN
           /\ d \in Works
           /\ Goes(w, d, id, o) \/ Stops(w, d, id, o)
           /\ w.has => d.has
           /\ d.has => w.has \/ Cardinality(Holders) < SemMnu
           /\ Wakes(w, d, SemOf(id, o.num))
<1> DEFINE s == SemOf(id, o.num)
           u == Semaoe(w, id, o, o.op)
           x == w.val[s] + o.op
           v == [u EXCEPT !.val[s] = @ + o.op, !.done = @ + 1]
           d == Do(w, id, o)
<1>1. /\ w.val \in [Sem -> Int] /\ w.cnt \in [Chan -> Nat] /\ w.undo \in [Place -> Int]
      /\ w.has \in BOOLEAN /\ w.woken \subseteq Chan /\ w.at \in Ats /\ w.done \in Nat
  BY WorkFacts
<1>2. o.op \in Int /\ s \in Sem /\ x \in Int /\ o.nowait \in BOOLEAN /\ w.val[s] \in Int /\ w.val[s] >= 0
  BY <1>1 DEF Operation
<1>3. /\ u \in Works /\ u.val = w.val /\ u.cnt = w.cnt /\ u.woken = w.woken /\ u.done = w.done
      /\ w.has => u.has
      /\ u.has => w.has \/ Cardinality(Holders) < SemMnu
      /\ \/ u.at = w.at /\ (o.op = 0 \/ ~o.undo) /\ u = w
         \/ u.at = w.at /\ o.op # 0 /\ o.undo /\ Adjusted(w, u, <<id, o.num>>, o.op)
         \/ u.at \in {"ERANGE", "ENOSPC", "EINVAL"} /\ u.undo = w.undo /\ o.op # 0 /\ o.undo
  BY <1>2, SemaoeFacts
<1>4. d = CASE o.op > 0 ->
                 IF x > SemVmx THEN [w EXCEPT !.at = "ERANGE"]
                 ELSE IF u.at # "go" THEN u ELSE Wake(v, <<s, "n">>)
            [] o.op < 0 ->
                 IF x < 0 THEN [w EXCEPT !.at = IF o.nowait THEN "EAGAIN" ELSE "n"]
                 ELSE IF u.at # "go" THEN u
                 ELSE IF v.val[s] = 0 THEN Wake(v, <<s, "z">>) ELSE v
            [] o.op = 0 ->
                 IF w.val[s] # 0 THEN [w EXCEPT !.at = IF o.nowait THEN "EAGAIN" ELSE "z"]
                 ELSE [w EXCEPT !.done = @ + 1]
  <2>1. CASE o.op > 0
    BY <2>1, <1>2 DEF Do
  <2>2. CASE o.op < 0
    BY <2>2, <1>2 DEF Do
  <2>3. CASE o.op = 0
    BY <2>3, <1>2 DEF Do
  <2>4. QED
    BY <1>2, <2>1, <2>2, <2>3
<1> HIDE DEF u, s, d, x
<1>5. /\ v \in Works /\ v.val = [w.val EXCEPT ![s] = x] /\ v.cnt = w.cnt /\ v.undo = u.undo
      /\ v.has = u.has /\ v.woken = w.woken /\ v.at = u.at /\ v.done = w.done + 1 /\ v.val[s] = x
  <2>1. [u.val EXCEPT ![s] = @ + o.op] = [w.val EXCEPT ![s] = x] /\ u.done + 1 \in Nat
    BY <1>1, <1>2, <1>3 DEF x
  <2>2. [w.val EXCEPT ![s] = x] \in [Sem -> Int] /\ [w.val EXCEPT ![s] = x][s] = x
    BY <1>1, <1>2
  <2>3. QED
    BY <1>3, <2>1, <2>2 DEF Works
<1>6. /\ [w.val EXCEPT ![s] = @ + o.op] = [w.val EXCEPT ![s] = x]
      /\ [w.val EXCEPT ![s] = @ + o.op] \in [Sem -> Int]
      /\ [w.val EXCEPT ![s] = x][s] = x
  BY <1>1, <1>2 DEF x
<1> HIDE DEF v
(* The ways on. *)
<1>7. ASSUME u.at = "go", o.op # 0 => x >= 0, o.op > 0 => x <= SemVmx, o.op = 0 => w.val[s] = 0,
             NEW g \in Works, g.val = v.val, g.undo = v.undo, g.has = v.has, g.at = v.at, g.done = v.done
      PROVE  Goes(w, g, id, o)
  <2>1. \/ g.undo = w.undo /\ g.has = w.has /\ (o.op = 0 \/ ~o.undo)
        \/ Adjusted(w, g, <<id, o.num>>, o.op) /\ o.op # 0 /\ o.undo
    BY <1>3, <1>5, <1>7 DEF Adjusted
  <2>2. x >= 0
    BY <1>2, <1>7 DEF x
  <2>3. QED
    BY <1>5, <1>6, <1>7, <2>1, <2>2 DEF Goes, s, x
<1>8. ASSUME NEW a \in Ats, a # "go",
             a = "n" => o.op < 0 /\ x < 0, a = "z" => o.op = 0 /\ w.val[s] # 0,
             d = [w EXCEPT !.at = a]
      PROVE  /\ d \in Works /\ Stops(w, d, id, o) /\ d.has = w.has /\ Wakes(w, d, s)
  <2>1. /\ d \in Works /\ d.at = a /\ d.val = w.val /\ d.cnt = w.cnt /\ d.undo = w.undo
        /\ d.has = w.has /\ d.woken = w.woken /\ d.done = w.done
    BY <1>8 DEF Works
  <2>2. Stops(w, d, id, o)
    BY <1>8, <2>1 DEF Stops, s, x
  <2>3. Wakes(w, d, s)
    BY <1>2, <2>1 DEF Wakes
  <2>4. QED
    BY <2>1, <2>2, <2>3
<1>9. ASSUME d = u, u.at # "go" PROVE Stops(w, d, id, o) /\ Wakes(w, d, s)
  <2>1. u.at \in {"ERANGE", "ENOSPC", "EINVAL"} /\ u.undo = w.undo
    BY <1>3, <1>9
  <2>2. Wakes(w, d, s)
    BY <1>2, <1>3, <1>9 DEF Wakes
  <2>3. QED
    BY <1>3, <1>9, <2>1, <2>2 DEF Stops
<1>10. ASSUME NEW k \in Kind, d = Wake(v, <<s, k>>), u.at = "go", k = "n" => o.op > 0, k = "z" => o.op < 0 /\ x = 0
       PROVE  /\ d \in Works /\ d.val = v.val /\ d.undo = v.undo /\ d.has = v.has /\ d.at = v.at
              /\ d.done = v.done /\ Wakes(w, d, s)
  <2>1. <<s, k>> \in Chan
    BY <1>2 DEF Chan
  <2>2. d \in Works /\ d.val = v.val /\ d.undo = v.undo /\ d.has = v.has /\ d.at = v.at /\ d.done = v.done
    BY <1>5, <1>10, <2>1, WakeFacts
  <2>3. /\ \A b \in Chan : /\ b \in d.woken => b \in w.woken \/ w.cnt[b] > 0
                           /\ b \in w.woken => b \in d.woken
                           /\ d.cnt[b] = IF b \in d.woken /\ b \notin w.woken THEN 0 ELSE w.cnt[b]
        /\ w.cnt[<<s, k>>] > 0 => <<s, k>> \in d.woken
    BY <1>5, <1>10, <2>1, WokenBy
  <2>4. k \in {"n", "z"} /\ d.val[s] = x
    BY <1>5, <2>2 DEF Kind
  <2>5. w.cnt[<<s, "n">>] > 0 /\ <<s, "n">> \notin d.woken => d.val[s] <= w.val[s]
    <3>1. CASE k = "n"
      BY <2>3, <3>1
    <3>2. CASE k = "z"
      BY <1>2, <1>10, <2>4, <3>2 DEF x
    <3>3. QED
      BY <2>4, <3>1, <3>2
  <2>6. w.cnt[<<s, "z">>] > 0 /\ <<s, "z">> \notin d.woken /\ w.val[s] # 0 => d.val[s] # 0
    <3>1. CASE k = "n"
      <4>1. x > 0
        BY <1>2, <1>10, <3>1 DEF x
      <4>2. QED
        BY <2>4, <4>1
    <3>2. CASE k = "z"
      BY <2>3, <3>2
    <3>3. QED
      BY <2>4, <3>1, <3>2
  <2>7. Wakes(w, d, s)
    BY ONLY <2>3, <2>5, <2>6 DEF Wakes
  <2>8. QED
    BY <2>2, <2>7
<1>11. CASE o.op > 0
  <2>0. ~(o.op < 0) /\ o.op # 0
    BY <1>2, <1>11
  <2>1. CASE x > SemVmx
    BY <1>2, <1>4, <1>8, <1>11, <2>1 DEF Ats, d, s
  <2>2. CASE ~(x > SemVmx) /\ u.at # "go"
    BY <1>2, <1>3, <1>4, <1>9, <1>11, <2>2 DEF d, s
  <2>3. CASE ~(x > SemVmx) /\ u.at = "go"
    <3>1. d = Wake(v, <<s, "n">>)
      BY <1>4, <1>11, <2>0, <2>3
    <3>2. /\ d \in Works /\ d.val = v.val /\ d.undo = v.undo /\ d.has = v.has /\ d.at = v.at
          /\ d.done = v.done /\ Wakes(w, d, s)
      BY <1>10, <1>11, <2>3, <3>1 DEF Kind
    <3>3. x >= 0 /\ x <= SemVmx
      BY <1>2, <1>11, <2>3, SemAssumption DEF x
    <3>4. Goes(w, d, id, o)
      BY <1>2, <1>7, <1>11, <2>3, <3>2, <3>3
    <3>5. QED
      BY <1>3, <1>5, <3>2, <3>4 DEF d, s
  <2>4. QED
    BY <2>1, <2>2, <2>3
<1>12. CASE o.op < 0
  <2>0. ~(o.op > 0) /\ o.op # 0
    BY <1>2, <1>12
  <2>1. CASE x < 0
    <3> DEFINE a == IF o.nowait THEN "EAGAIN" ELSE "n"
    <3>1. d = [w EXCEPT !.at = a] /\ a \in Ats /\ a # "go" /\ a # "z"
      BY <1>4, <1>12, <2>0, <2>1 DEF Ats
    <3> HIDE DEF a
    <3>2. /\ d \in Works /\ Stops(w, d, id, o) /\ d.has = w.has /\ Wakes(w, d, s)
      BY <1>8, <1>12, <2>1, <3>1
    <3>3. QED
      BY <3>2 DEF d, s
  <2>2. CASE ~(x < 0) /\ u.at # "go"
    BY <1>2, <1>3, <1>4, <1>9, <1>12, <2>0, <2>2 DEF d, s
  <2>3. CASE ~(x < 0) /\ u.at = "go" /\ x = 0
    <3>1. d = Wake(v, <<s, "z">>)
      BY <1>4, <1>5, <1>12, <2>0, <2>3
    <3>2. /\ d \in Works /\ d.val = v.val /\ d.undo = v.undo /\ d.has = v.has /\ d.at = v.at
          /\ d.done = v.done /\ Wakes(w, d, s)
      BY <1>10, <1>12, <2>3, <3>1 DEF Kind
    <3>3. Goes(w, d, id, o)
      BY <1>2, <1>7, <1>12, <2>0, <2>3, <3>2
    <3>4. QED
      BY <1>3, <1>5, <3>2, <3>3 DEF d, s
  <2>4. CASE ~(x < 0) /\ u.at = "go" /\ x # 0
    <3>1. d = v
      BY <1>4, <1>5, <1>12, <2>0, <2>4
    <3>2. Goes(w, d, id, o)
      BY <1>2, <1>5, <1>7, <1>12, <2>0, <2>4, <3>1
    <3>3. x < w.val[s]
      BY <1>2, <1>12 DEF x
    <3>4. Wakes(w, d, s)
      BY <1>1, <1>2, <1>5, <2>4, <3>1, <3>3 DEF Wakes
    <3>5. QED
      BY <1>3, <1>5, <3>1, <3>2, <3>4 DEF d, s
  <2>5. QED
    BY <2>1, <2>2, <2>3, <2>4
<1>13. CASE o.op = 0
  <2>0. ~(o.op > 0) /\ ~(o.op < 0)
    BY <1>13
  <2>1. CASE w.val[s] # 0
    <3> DEFINE a == IF o.nowait THEN "EAGAIN" ELSE "z"
    <3>1. d = [w EXCEPT !.at = a] /\ a \in Ats /\ a # "go" /\ a # "n"
      BY <1>4, <1>13, <2>0, <2>1 DEF Ats
    <3> HIDE DEF a
    <3>2. /\ d \in Works /\ Stops(w, d, id, o) /\ d.has = w.has /\ Wakes(w, d, s)
      BY <1>8, <1>13, <2>1, <3>1
    <3>3. QED
      BY <3>2 DEF d, s
  <2>2. CASE w.val[s] = 0
    <3>1. d = [w EXCEPT !.done = @ + 1]
      BY <1>4, <1>13, <2>0, <2>2
    <3>2. /\ d \in Works /\ d.at = w.at /\ d.val = w.val /\ d.cnt = w.cnt /\ d.undo = w.undo
          /\ d.has = w.has /\ d.woken = w.woken /\ d.done = w.done + 1
      BY <1>1, <3>1 DEF Works
    <3>3. Wakes(w, d, s)
      BY <1>2, <3>2 DEF Wakes
    <3>4. w.val = [w.val EXCEPT ![s] = @ + o.op] /\ w.val[s] + o.op >= 0
      BY <1>1, <1>2, <1>13
    <3>5. Goes(w, d, id, o)
      BY <1>13, <2>2, <3>2, <3>4 DEF Goes, s
    <3>6. QED
      BY <3>2, <3>3, <3>5 DEF d, s
  <2>3. QED
    BY <2>1, <2>2
<1>14. QED
  BY <1>2, <1>11, <1>12, <1>13

-----------------------------------------------------------------------------
(* The work w from w0 on, after i operations: t is where it stands.        *)
Order(w, id, ops, i) ==
    LET t == w[i] IN
    /\ t \in Works /\ t.done <= i /\ (t.at = "go" => t.done = i)
    /\ \A j \in 0..t.done : /\ w[j] \in Works /\ w[j].at = "go" /\ w[j].done = j
                            /\ w[j].has => t.has
                            /\ UndoOK(w[j].undo, w[j].has)
    /\ \A j \in 1..t.done : Goes(w[j - 1], w[j], id, ops[j])
    /\ t.val = w[t.done].val /\ t.undo = w[t.done].undo

Limits(w0, t) ==
    /\ t.val \in [Sem -> 0..SemVmx]
    /\ UndoOK(t.undo, t.has)
    /\ w0.has => t.has
    /\ t.has => w0.has \/ Cardinality(Holders) < SemMnu

(* Who waits has been woken, or still has no more, and not zero.           *)
Unwoken(w0, t) ==
    /\ \A c \in Chan : /\ c \in t.woken => w0.cnt[c] > 0
                       /\ t.cnt[c] = IF c \in t.woken THEN 0 ELSE w0.cnt[c]
    /\ \A s \in Sem :
        /\ w0.cnt[<<s, "n">>] > 0 /\ <<s, "n">> \notin t.woken => t.val[s] <= w0.val[s]
        /\ w0.cnt[<<s, "z">>] > 0 /\ <<s, "z">> \notin t.woken /\ w0.val[s] # 0 => t.val[s] # 0

(* Semaphores not named have their value; the work stops for a reason.     *)
Named(w0, t, id, ops, i) ==
    /\ \A s \in Sem : (\A j \in 1..t.done : SemOf(id, ops[j].num) # s) => t.val[s] = w0.val[s]
    /\ t.at # "go" =>
        LET o == ops[t.done + 1]
            s == SemOf(id, o.num)
        IN  /\ t.done < i
            /\ t.at = "n" => o.op < 0 /\ t.val[s] + o.op < 0
            /\ t.at = "z" => o.op = 0 /\ t.val[s] # 0

Ran(w0, w, id, ops, i) ==
    /\ Order(w, id, ops, i)
    /\ Limits(w0, w[i])
    /\ Unwoken(w0, w[i])
    /\ Named(w0, w[i], id, ops, i)

BasesOK == \A i \in Slot : sema[i].base \in 1..Blocks

LEMMA SemOfFacts ==
    ASSUME BasesOK, NEW id \in Id, NEW n \in Num
    PROVE  SemOf(id, n) \in Sem
<1>1. id[1] \in Slot
  BY DEF Id
<1>2. QED
  BY <1>1 DEF SemOf, Sem, BasesOK

LEMMA OrderGoes ==
    ASSUME NEW w, NEW id, NEW ops, NEW i \in Nat, Order(w, id, ops, i), w[i].at = "go",
           NEW d \in Works, w[i + 1] = d, Goes(w[i], d, id, ops[i + 1]),
           w[i].has => d.has, UndoOK(d.undo, d.has)
    PROVE  Order(w, id, ops, i + 1)
<1>1. w[i].done = i /\ d.done = i + 1 /\ d.at = "go"
  BY DEF Order, Goes
<1>2. ASSUME NEW j \in 0..(i + 1)
      PROVE  /\ w[j] \in Works /\ w[j].at = "go" /\ w[j].done = j
             /\ w[j].has => d.has
             /\ UndoOK(w[j].undo, w[j].has)
  <2>1. CASE j = i + 1
    BY <1>1, <2>1
  <2>2. CASE j # i + 1
    <3>1. j \in 0..i
      BY <2>2
    <3>2. QED
      BY <1>1, <3>1 DEF Order
  <2>3. QED
    BY <2>1, <2>2
<1>3. ASSUME NEW j \in 1..(i + 1) PROVE Goes(w[j - 1], w[j], id, ops[j])
  <2>1. CASE j = i + 1
    <3>1. j - 1 = i
      BY <2>1
    <3>2. QED
      BY <2>1, <3>1
  <2>2. CASE j # i + 1
    <3>1. j \in 1..i
      BY <2>2
    <3>2. QED
      BY <1>1, <3>1 DEF Order
  <2>3. QED
    BY <2>1, <2>2
<1>4. QED
  BY <1>1, <1>2, <1>3 DEF Order

LEMMA OrderStops ==
    ASSUME NEW w, NEW id, NEW ops, NEW i \in Nat, Order(w, id, ops, i),
           NEW d \in Works, w[i + 1] = d, d.done = w[i].done, d.val = w[i].val, d.undo = w[i].undo,
           w[i].has => d.has, d.at # "go"
    PROVE  Order(w, id, ops, i + 1)
<1>1. w[i].done \in Nat /\ w[i].done <= i
  BY WorkFacts DEF Order
<1>2. QED
  BY <1>1 DEF Order

LEMMA LimitsStep ==
    ASSUME NEW w0, NEW t \in Works, Limits(w0, t), NEW d \in Works, NEW id \in Id, NEW o \in Operation,
           SemOf(id, o.num) \in Sem, Goes(t, d, id, o) \/ Stops(t, d, id, o),
           t.has => d.has, d.has => t.has \/ Cardinality(Holders) < SemMnu
    PROVE  Limits(w0, d)
<1> DEFINE s == SemOf(id, o.num)
<1>1. t.val \in [Sem -> 0..SemVmx] /\ o.op \in Int /\ SemVmx \in Nat /\ <<id, o.num>> \in Place
  BY SemAssumption DEF Limits, Operation, Place
<1>2. CASE Goes(t, d, id, o)
  <2>1. t.val[s] + o.op \in 0..SemVmx
    BY <1>1, <1>2 DEF Goes
  <2>2. d.val \in [Sem -> 0..SemVmx]
    BY <1>1, <1>2, <2>1 DEF Goes
  <2>3. UndoOK(d.undo, d.has)
    <3>1. CASE d.undo = t.undo /\ d.has = t.has
      BY <3>1 DEF Limits
    <3>2. CASE Adjusted(t, d, <<id, o.num>>, o.op)
      BY <1>1, <3>2, AdjustedOK DEF Limits
    <3>3. QED
      BY <1>2, <3>1, <3>2 DEF Goes
  <2>4. QED
    BY <2>2, <2>3 DEF Limits
<1>3. CASE Stops(t, d, id, o)
  BY <1>3 DEF Stops, Limits, UndoOK
<1>4. QED
  BY <1>2, <1>3

LEMMA UnwokenStep ==
    ASSUME NEW w0 \in Works, NEW t \in Works, Unwoken(w0, t), NEW d \in Works, NEW id \in Id, NEW o \in Operation,
           SemOf(id, o.num) \in Sem, Goes(t, d, id, o) \/ Stops(t, d, id, o),
           Wakes(t, d, SemOf(id, o.num))
    PROVE  Unwoken(w0, d)
<1> DEFINE s == SemOf(id, o.num)
<1>1. w0.val \in [Sem -> Int] /\ t.val \in [Sem -> Int] /\ d.val \in [Sem -> Int] /\ w0.cnt \in [Chan -> Nat]
  BY WorkFacts
<1>2. \A x \in Sem : <<x, "n">> \in Chan /\ <<x, "z">> \in Chan
  BY DEF Chan, Kind
<1>3. \A x \in Sem : x # s => d.val[x] = t.val[x]
  BY <1>1 DEF Goes, Stops
<1>4. \A c \in Chan : /\ c \in d.woken => w0.cnt[c] > 0
                      /\ c \in t.woken => c \in d.woken
                      /\ d.cnt[c] = IF c \in d.woken THEN 0 ELSE w0.cnt[c]
  BY <1>1 DEF Unwoken, Wakes
<1>5. ASSUME NEW x \in Sem, w0.cnt[<<x, "n">>] > 0, <<x, "n">> \notin d.woken
      PROVE  d.val[x] <= w0.val[x]
  <2>1. <<x, "n">> \notin t.woken /\ t.cnt[<<x, "n">>] > 0 /\ t.val[x] <= w0.val[x]
    BY <1>2, <1>4, <1>5 DEF Unwoken
  <2>2. d.val[x] <= t.val[x]
    <3>1. CASE x = s
      BY <1>5, <2>1, <3>1 DEF Wakes
    <3>2. CASE x # s
      BY <1>1, <1>3, <3>2
    <3>3. QED
      BY <3>1, <3>2
  <2>3. QED
    BY <1>1, <2>1, <2>2
<1>6. ASSUME NEW x \in Sem, w0.cnt[<<x, "z">>] > 0, <<x, "z">> \notin d.woken, w0.val[x] # 0
      PROVE  d.val[x] # 0
  <2>1. <<x, "z">> \notin t.woken /\ t.cnt[<<x, "z">>] > 0 /\ t.val[x] # 0
    BY <1>2, <1>4, <1>6 DEF Unwoken
  <2>2. CASE x = s
    BY <1>6, <2>1, <2>2 DEF Wakes
  <2>3. CASE x # s
    BY <1>3, <2>1, <2>3
  <2>4. QED
    BY <2>2, <2>3
<1>7. QED
  BY <1>4, <1>5, <1>6 DEF Unwoken

LEMMA NamedStep ==
    ASSUME NEW w0, NEW t \in Works, NEW id \in Id, NEW ops, NEW i \in Nat, Named(w0, t, id, ops, i),
           t.at = "go", t.done = i, NEW d \in Works, SemOf(id, ops[i + 1].num) \in Sem,
           Goes(t, d, id, ops[i + 1]) \/ Stops(t, d, id, ops[i + 1])
    PROVE  Named(w0, d, id, ops, i + 1)
<1>1. t.val \in [Sem -> Int]
  BY WorkFacts
<1>2. CASE Goes(t, d, id, ops[i + 1])
  <2>1. d.done = i + 1 /\ d.at = "go" /\ \A s \in Sem : s # SemOf(id, ops[i + 1].num) => d.val[s] = t.val[s]
    BY <1>1, <1>2 DEF Goes
  <2>2. ASSUME NEW s \in Sem, \A j \in 1..(i + 1) : SemOf(id, ops[j].num) # s PROVE d.val[s] = w0.val[s]
    <3>1. i + 1 \in 1..(i + 1) /\ \A j \in 1..i : j \in 1..(i + 1)
      OBVIOUS
    <3>2. d.val[s] = t.val[s]
      BY <2>1, <2>2, <3>1
    <3>3. \A j \in 1..t.done : SemOf(id, ops[j].num) # s
      BY <2>2, <3>1
    <3>4. QED
      BY <3>2, <3>3 DEF Named
  <2>3. QED
    BY <2>1, <2>2 DEF Named
<1>3. CASE Stops(t, d, id, ops[i + 1])
  BY <1>3 DEF Stops, Named
<1>4. QED
  BY <1>2, <1>3

LEMMA RanStep ==
    ASSUME BasesOK, NEW w0 \in Works, NEW w, NEW id \in Id, NEW ops \in Seq(Operation), NEW i \in Nat,
           i < Len(ops), Ran(w0, w, id, ops, i), w[i + 1] = Do(w[i], id, ops[i + 1])
    PROVE  Ran(w0, w, id, ops, i + 1)
<1> DEFINE t == w[i]
           d == w[i + 1]
           o == ops[i + 1]
<1>1. o \in Operation /\ SemOf(id, o.num) \in Sem
  <2>1. i + 1 \in 1..Len(ops)
    OBVIOUS
  <2>2. o \in Operation
    BY <2>1
  <2>3. o.num \in Num
    BY <2>2 DEF Operation
  <2>4. QED
    BY <2>2, <2>3, SemOfFacts
<1>2. t \in Works /\ d = Do(t, id, o)
  BY DEF Ran, Order
<1>3. CASE t.at # "go"
  <2>1. d = t
    BY <1>2, <1>3 DEF Do
  <2>2. Order(w, id, ops, i + 1)
    BY <1>2, <1>3, <2>1, OrderStops DEF Ran
  <2>3. Named(w0, t, id, ops, i + 1)
    <3>1. t.done \in Nat
      BY <1>2, WorkFacts
    <3> HIDE DEF t
    <3>2. QED
      BY <1>3, <3>1 DEF Ran, Named, t
  <2>4. QED
    BY <2>1, <2>2, <2>3 DEF Ran
<1>4. CASE t.at = "go"
  <2>1. Unwoken(w0, t) /\ Limits(w0, t) /\ Named(w0, t, id, ops, i) /\ Order(w, id, ops, i)
    BY DEF Ran
  <2>2. (\A c \in t.woken : t.cnt[c] = 0) /\ \A s \in Sem : t.val[s] >= 0
    <3>1. t.woken \subseteq Chan
      BY <1>2, WorkFacts
    <3>2. t.val \in [Sem -> 0..SemVmx] /\ SemVmx \in Nat
      BY <2>1, SemAssumption DEF Limits
    <3> HIDE DEF t
    <3>3. QED
      BY <2>1, <3>1, <3>2 DEF Unwoken
  <2>3. t.done = i
    BY <1>4, <2>1 DEF Order
  <2> HIDE DEF t, o
  <2>4. /\ d \in Works
        /\ Goes(t, d, id, o) \/ Stops(t, d, id, o)
        /\ t.has => d.has
        /\ d.has => t.has \/ Cardinality(Holders) < SemMnu
        /\ Wakes(t, d, SemOf(id, o.num))
    <3> DEFINE e == Do(t, id, o)
    <3>1. /\ e \in Works
          /\ Goes(t, e, id, o) \/ Stops(t, e, id, o)
          /\ t.has => e.has
          /\ e.has => t.has \/ Cardinality(Holders) < SemMnu
          /\ Wakes(t, e, SemOf(id, o.num))
      BY <1>1, <1>2, <1>4, <2>2, DoFacts
    <3>2. d = e
      BY <1>2
    <3> HIDE DEF d, e
    <3>3. QED
      BY ONLY <3>1, <3>2
  <2>5. Limits(w0, d)
    BY <1>1, <1>2, <2>1, <2>4, LimitsStep
  <2>6. Unwoken(w0, d)
    BY <1>1, <1>2, <2>1, <2>4, UnwokenStep
  <2>7. Named(w0, d, id, ops, i + 1)
    BY <1>1, <1>2, <1>4, <2>1, <2>3, <2>4, NamedStep DEF o
  <2>8. Order(w, id, ops, i + 1)
    <3>1. CASE Goes(t, d, id, o)
      BY <1>4, <2>1, <2>4, <2>5, <3>1, OrderGoes DEF t, o, Limits
    <3>2. CASE Stops(t, d, id, o)
      BY <2>1, <2>4, <3>2, OrderStops DEF t, Stops
    <3>3. QED
      BY <2>4, <3>1, <3>2
  <2>9. QED
    BY <2>5, <2>6, <2>7, <2>8 DEF Ran
<1>5. QED
  BY <1>3, <1>4

LEMMA DoType ==
    ASSUME NEW w \in Works, NEW id \in Id, NEW o \in Operation, SemOf(id, o.num) \in Sem
    PROVE  Do(w, id, o) \in Works
<1> DEFINE s == SemOf(id, o.num)
           u == Semaoe(w, id, o, o.op)
           v == [u EXCEPT !.val[s] = @ + o.op, !.done = @ + 1]
           d == Do(w, id, o)
<1>1. u \in Works /\ o.op \in Int
  BY SemaoeFacts DEF Operation
<1>2. v \in Works
  <2>1. u.val \in [Sem -> Int] /\ u.done \in Nat
    BY <1>1, WorkFacts
  <2> HIDE DEF u
  <2>2. [u.val EXCEPT ![s] = @ + o.op] \in [Sem -> Int] /\ u.done + 1 \in Nat
    BY <1>1, <2>1
  <2> HIDE DEF s
  <2>3. QED
    BY <1>1, <2>2 DEF Works
<1>3. \A k \in Kind : Wake(v, <<s, k>>) \in Works
  <2>1. \A k \in Kind : <<s, k>> \in Chan
    BY DEF Chan
  <2>2. QED
    BY <1>2, <2>1, WakeFacts
<1>4. \A a \in Ats : [w EXCEPT !.at = a] \in Works
  BY DEF Works
<1>5. [w EXCEPT !.done = @ + 1] \in Works
  <2>1. w.done + 1 \in Nat
    BY WorkFacts
  <2>2. QED
    BY <2>1 DEF Works
<1>6. CASE w.at # "go"
  BY <1>6 DEF Do
<1>7. CASE w.at = "go" /\ o.op > 0
  <2>0. ~(o.op < 0) /\ ~(o.op = 0)
    BY <1>1, <1>7
  <2>1. d = IF w.val[s] + o.op > SemVmx THEN [w EXCEPT !.at = "ERANGE"]
            ELSE IF u.at # "go" THEN u ELSE Wake(v, <<s, "n">>)
    BY <1>7, <2>0 DEF Do
  <2> HIDE DEF u, v, s, d
  <2>2. d \in Works
    BY <1>1, <1>3, <1>4, <2>1 DEF Ats, Kind
  <2>3. QED
    BY <2>2 DEF d
<1>8. CASE w.at = "go" /\ o.op < 0
  <2>1. ~(o.op > 0) /\ ~(o.op = 0)
    BY <1>1, <1>8
  <2>2. d = IF w.val[s] + o.op < 0 THEN [w EXCEPT !.at = IF o.nowait THEN "EAGAIN" ELSE "n"]
            ELSE IF u.at # "go" THEN u
            ELSE IF v.val[s] = 0 THEN Wake(v, <<s, "z">>) ELSE v
    BY <1>8, <2>1 DEF Do
  <2> HIDE DEF u, v, s, d
  <2>3. d \in Works
    BY <1>1, <1>2, <1>3, <1>4, <2>2 DEF Ats, Kind
  <2>4. QED
    BY <2>3 DEF d
<1>9. CASE w.at = "go" /\ o.op = 0
  <2>1. ~(o.op > 0) /\ ~(o.op < 0)
    BY <1>1, <1>9
  <2>2. d = IF w.val[s] # 0 THEN [w EXCEPT !.at = IF o.nowait THEN "EAGAIN" ELSE "z"]
            ELSE [w EXCEPT !.done = @ + 1]
    BY <1>9, <2>1 DEF Do
  <2> HIDE DEF s, d
  <2>3. d \in Works
    BY <1>4, <1>5, <2>2 DEF Ats
  <2>4. QED
    BY <2>3 DEF d
<1>10. QED
  BY <1>1, <1>6, <1>7, <1>8, <1>9

Iterates(T, x, m, G) == x \in T /\ m \in Nat /\ G \in [1..m -> [T -> T]]

LEMMA Iteration ==
    ASSUME NEW T, NEW x, NEW m, NEW G, Iterates(T, x, m, G)
    PROVE  \E f \in [0..m -> T] : f[0] = x /\ \A i \in 1..m : f[i] = G[i][f[i - 1]]
BY IterationExists DEF Iterates

LEMMA TrialFacts ==
    ASSUME BasesOK, NEW p, NEW id \in Id, Work(p, id) \in Works, NEW ops \in Seq(Operation)
    PROVE  LET w == Trial(p, id, ops) IN
           /\ w[0] = Work(p, id)
           /\ \A i \in 1..Len(ops) : w[i] = Do(w[i - 1], id, ops[i])
<1> DEFINE N == Len(ops)
           w0 == Work(p, id)
           T == Works
           G == [i \in 1..N |-> [t \in T |-> Do(t, id, ops[i])]]
           Step(b) == [i \in 0..N |-> IF i = 0 THEN w0 ELSE Do(b[i - 1], id, ops[i])]
           c == CHOOSE b : b = Step(b)
<1>1. N \in Nat /\ \A i \in 1..N : ops[i] \in Operation
  OBVIOUS
<1>2. G \in [1..N -> [T -> T]]
  <2>1. ASSUME NEW i \in 1..N, NEW t \in Works PROVE Do(t, id, ops[i]) \in Works
    <3>1. ops[i].num \in Num
      BY <1>1 DEF Operation
    <3>2. SemOf(id, ops[i].num) \in Sem
      BY <3>1, SemOfFacts
    <3>3. QED
      BY <1>1, <3>2, DoType
  <2> HIDE DEF N
  <2>2. QED
    BY <2>1
<1>3. PICK f \in [0..N -> T] : f[0] = w0 /\ \A i \in 1..N : f[i] = G[i][f[i - 1]]
  <2> HIDE DEF T, G, N, w0, Step, c
  <2>1. \E f \in [0..N -> T] : f[0] = w0 /\ \A i \in 1..N : f[i] = G[i][f[i - 1]]
    <3>1. N \in Nat
      BY <1>1
    <3>2. w0 \in T
      BY DEF w0, T
    <3>3. G \in [1..N -> [T -> T]]
      BY <1>2
    <3>4. Iterates(T, w0, N, G)
      BY ONLY <3>1, <3>2, <3>3 DEF Iterates
    <3>5. QED
      BY ONLY <3>4, Iteration
  <2>2. QED
    BY <2>1
<1>4. \A i \in 1..N : f[i] = Do(f[i - 1], id, ops[i])
  <2> SUFFICES ASSUME NEW i \in 1..N PROVE f[i] = Do(f[i - 1], id, ops[i])
    OBVIOUS
  <2>1. i - 1 \in 0..N
    BY <1>1
  <2> HIDE DEF N, w0
  <2>2. f[i - 1] \in Works
    BY <1>3, <2>1
  <2>3. QED
    BY <1>3, <2>2
<1>5. f = Step(f)
  <2> HIDE DEF N, w0, G
  <2>1. ASSUME NEW i \in 0..N PROVE f[i] = IF i = 0 THEN w0 ELSE Do(f[i - 1], id, ops[i])
    <3>1. CASE i = 0
      BY <1>3, <3>1
    <3>2. CASE i # 0
      <4>1. i \in 1..N
        BY <1>1, <3>2
      <4>2. QED
        BY <1>4, <3>2, <4>1
    <3>3. QED
      BY <3>1, <3>2
  <2>2. QED
    BY <1>3, <2>1
<1>6. c = Step(c)
  BY <1>5
<1>7. Trial(p, id, ops) = c
  BY DEF Trial
<1> HIDE DEF c
<1>8. c[0] = w0 /\ \A i \in 1..N : c[i] = Do(c[i - 1], id, ops[i])
  <2> HIDE DEF N, w0
  <2> USE <1>1
  <2>1. \A i \in 0..N : c[i] = IF i = 0 THEN w0 ELSE Do(c[i - 1], id, ops[i])
    BY <1>6
  <2>2. c[0] = w0
    BY <2>1
  <2>3. ASSUME NEW i \in 1..N PROVE c[i] = Do(c[i - 1], id, ops[i])
    <3>1. i \in 0..N /\ i # 0
      OBVIOUS
    <3>2. QED
      BY <2>1, <3>1
  <2>4. QED
    BY <2>2, <2>3
<1>9. QED
  BY <1>7, <1>8

(* The state when an operation starts: what a call begins with. *)
Begins(p) ==
    /\ BasesOK
    /\ p \in Procs
    /\ semval \in [Sem -> 0..SemVmx] /\ cnt \in [Chan -> Nat]
    /\ hasUndo[p] \in BOOLEAN /\ UndoOK(sem_undo[p], hasUndo[p])

LEMMA WorkBegins ==
    ASSUME NEW p, Begins(p), NEW id
    PROVE  Work(p, id) \in Works /\ Limits(Work(p, id), Work(p, id)) /\ Unwoken(Work(p, id), Work(p, id))
<1> DEFINE w0 == Work(p, id)
<1>1. /\ w0.val = semval /\ w0.cnt = cnt /\ w0.undo = sem_undo[p] /\ w0.has = hasUndo[p]
      /\ w0.woken = {} /\ w0.at = "go" /\ w0.done = 0
  BY DEF Work
<1>2. SemVmx \in Nat /\ SemAem \in Nat
  BY SemAssumption
<1>3. semval \in [Sem -> Int] /\ sem_undo[p] \in [Place -> Int]
  BY <1>2 DEF Begins, UndoOK
<1>4. w0 \in Works
  BY <1>3 DEF Begins, Work, Works, Ats
<1> HIDE DEF w0
<1>5. Limits(w0, w0)
  BY <1>1 DEF Limits, Begins
<1>6. Unwoken(w0, w0)
  BY <1>1, <1>2, <1>3 DEF Unwoken, Begins
<1>7. QED
  BY <1>4, <1>5, <1>6 DEF w0

LEMMA TrialRuns ==
    ASSUME NEW p, Begins(p), NEW id \in Id, NEW ops \in Seq(Operation)
    PROVE  \A i \in 0..Len(ops) : Ran(Work(p, id), Trial(p, id, ops), id, ops, i)
<1> DEFINE w0 == Work(p, id)
           w == Trial(p, id, ops)
           N == Len(ops)
           S == {i \in Nat : Ran(w0, w, id, ops, i)}
<1>1. w0 \in Works /\ Limits(w0, w0) /\ Unwoken(w0, w0)
  BY WorkBegins
<1>2. w[0] = w0 /\ \A i \in 1..N : w[i] = Do(w[i - 1], id, ops[i])
  BY <1>1, TrialFacts DEF Begins
<1>3. w0.at = "go" /\ w0.done = 0
  BY DEF Work
<1>4. BasesOK /\ N \in Nat
  BY DEF Begins
<1> HIDE DEF w, w0
<1>5. 0 \in S
  <2>1. Order(w, id, ops, 0)
    BY <1>1, <1>2, <1>3 DEF Order, Limits
  <2>2. Named(w0, w0, id, ops, 0)
    BY <1>3 DEF Named
  <2>3. QED
    BY <1>1, <1>2, <2>1, <2>2 DEF Ran
<1>6. ASSUME NEW n \in Nat, n < N, n \in S PROVE n + 1 \in S
  <2>1. n + 1 \in 1..N /\ n + 1 - 1 = n
    BY <1>4, <1>6
  <2>2. w[n + 1] = Do(w[n], id, ops[n + 1])
    BY <1>2, <2>1
  <2>3. Ran(w0, w, id, ops, n + 1)
    BY <1>1, <1>4, <1>6, <2>2, RanStep
  <2>4. QED
    BY <2>3
<1> HIDE DEF S
<1>7. \A n \in 0..N : n \in S
  BY <1>4, <1>5, <1>6, UpTo
<1>8. QED
  BY <1>7 DEF S, w, w0

(* What semaoe has added it can take back: there is room for that.         *)
Added(a, g, y, id, o, val) ==
    /\ a \in Works /\ y \in Works /\ id \in Id /\ o \in Operation
    /\ Adjusted(a, g, <<id, o.num>>, o.op) /\ o.op # 0 /\ o.undo /\ val = -o.op
    /\ UndoOK(a.undo, a.has) /\ UndoOK(g.undo, g.has)
    /\ y.undo = g.undo /\ (g.has => y.has)

LEMMA SemaoeBack ==
    ASSUME NEW a, NEW g, NEW y, NEW id, NEW o, NEW val, Added(a, g, y, id, o, val)
    PROVE  LET x == Semaoe(y, id, o, val) IN
           /\ x \in Works /\ x.val = y.val /\ x.undo = a.undo /\ x.cnt = y.cnt /\ x.woken = y.woken
           /\ x.has = TRUE
<1> USE DEF Added
<1> DEFINE e == <<id, o.num>>
           entries == {q \in DOMAIN y.undo : y.undo[q] # 0}
           full == ~y.has /\ Cardinality({q \in Procs : hasUndo[q]}) >= SemMnu
           x == Semaoe(y, id, o, val)
<1>0. a \in Works /\ y \in Works
  OBVIOUS
<1>1. /\ e \in Place /\ o.op \in Int /\ SemAem \in Nat /\ SemUme \in Nat
      /\ a.undo \in [Place -> -SemAem..SemAem] /\ y.undo \in [Place -> -SemAem..SemAem]
  BY SemAssumption DEF Place, Operation, UndoOK
<1>2. y.has = TRUE /\ ~full
  <2>1. y.has \in BOOLEAN
    BY <1>0, WorkFacts
  <2>2. QED
    BY <2>1 DEF Adjusted
<1>3. y.undo = [a.undo EXCEPT ![e] = @ - o.op] /\ y.undo[e] = a.undo[e] - o.op
  BY <1>1 DEF Adjusted
<1>4. val # 0 /\ val \in Int /\ ~(Abs(val) > SemAem)
  BY <1>1 DEF Adjusted, Abs
<1>5. y.undo[e] - val = a.undo[e] /\ ~(Abs(y.undo[e] - val) > SemAem)
  BY <1>1, <1>3 DEF Abs
<1>6. ~(y.undo[e] = 0 /\ Cardinality(entries) >= SemUme)
  <2> SUFFICES ASSUME y.undo[e] = 0 PROVE ~(Cardinality(entries) >= SemUme)
    OBVIOUS
  <2> DEFINE E == EntriesOf(a.undo)
  <2>1. IsFiniteSet(E) /\ Cardinality(E) \in Nat /\ Cardinality(E) <= SemUme
    BY EntriesFinite DEF UndoOK
  <2>2. entries = E \ {e} /\ e \in E
    <3>1. a.undo[e] # 0
      BY <1>1, <1>3
    <3>2. entries = EntriesOf(y.undo)
      BY <1>1 DEF EntriesOf
    <3>3. \A q \in Place : y.undo[q] # 0 <=> a.undo[q] # 0 /\ q # e
      BY <1>1, <1>3
    <3> HIDE DEF entries, e
    <3>4. QED
      BY <1>1, <3>1, <3>2, <3>3 DEF EntriesOf
  <2> HIDE DEF E, entries
  <2>3. Cardinality(entries) = Cardinality(E) - 1
    BY <2>1, <2>2, FS_RemoveElement
  <2>4. QED
    BY <1>1, <2>1, <2>3
<1>7. x = [y EXCEPT !.has = TRUE, !.undo[e] = @ - val]
  BY <1>2, <1>4, <1>5, <1>6 DEF Semaoe
<1>8. [y.undo EXCEPT ![e] = @ - val] = a.undo
  <2> HIDE DEF e
  <2>1. \A q \in Place : [y.undo EXCEPT ![e] = @ - val][q] = a.undo[q]
    BY <1>1, <1>3, <1>5
  <2>2. QED
    BY <1>1, <2>1
<1> HIDE DEF e, x
<1>9. /\ x \in Works /\ x.val = y.val /\ x.undo = a.undo /\ x.cnt = y.cnt /\ x.woken = y.woken
      /\ x.has = TRUE
  <2>1. a.undo \in [Place -> Int]
    BY <1>0, WorkFacts
  <2>2. QED
    BY <1>7, <1>8, <2>1 DEF Works
<1>10. QED
  BY <1>9 DEF x

LEMMA UndoneFacts ==
    ASSUME NEW a \in Works, NEW g \in Works, NEW b \in Works, NEW id \in Id, NEW o \in Operation,
           SemOf(id, o.num) \in Sem, Goes(a, g, id, o),
           UndoOK(a.undo, a.has), UndoOK(g.undo, g.has),
           b.val = g.val, b.undo = g.undo, g.has => b.has
    PROVE  LET x == Undone(b, id, o) IN
           /\ x \in Works
           /\ x.val = a.val /\ x.undo = a.undo
           /\ x.cnt = b.cnt /\ x.woken = b.woken
           /\ x.has = b.has
<1> DEFINE s == SemOf(id, o.num)
           y == [b EXCEPT !.val[s] = @ - o.op, !.at = "go"]
           x == Undone(b, id, o)
<1>1. o.op \in Int /\ a.val \in [Sem -> Int] /\ b.val \in [Sem -> Int] /\ b.has \in BOOLEAN /\ o.undo \in BOOLEAN
  BY WorkFacts DEF Operation
<1>2. g.val = [a.val EXCEPT ![s] = @ + o.op]
  BY DEF Goes
<1> HIDE DEF s
<1>3. [b.val EXCEPT ![s] = @ - o.op] = a.val
  <2>1. b.val[s] - o.op = a.val[s]
    BY <1>1, <1>2 DEF s
  <2>2. \A q \in Sem : [b.val EXCEPT ![s] = @ - o.op][q] = a.val[q]
    BY <1>1, <1>2, <2>1
  <2>3. QED
    BY <1>1, <2>2
<1>4. /\ y \in Works /\ y.val = a.val /\ y.undo = b.undo /\ y.cnt = b.cnt /\ y.woken = b.woken
      /\ y.has = b.has
  BY <1>1, <1>3 DEF Works, Ats
<1> DEFINE val == -o.op
<1>5. x = Semaoe(y, id, o, val) /\ val = -o.op
  BY DEF Undone, s
<1> HIDE DEF y, x, val
<1>6. CASE a.undo = g.undo /\ (o.op = 0 \/ ~o.undo)
  <2>1. val = 0 \/ ~o.undo
    BY <1>1, <1>5, <1>6
  <2>2. x = y
    BY <1>5, <2>1 DEF Semaoe
  <2>3. QED
    BY <1>4, <1>6, <2>2 DEF x
<1>7. CASE Adjusted(a, g, <<id, o.num>>, o.op) /\ o.op # 0 /\ o.undo
  <2>1. /\ x \in Works /\ x.val = y.val /\ x.undo = a.undo /\ x.cnt = y.cnt /\ x.woken = y.woken
        /\ x.has = TRUE
    <3> DEFINE q == Semaoe(y, id, o, val)
    <3>1. y.undo = g.undo /\ (g.has => y.has) /\ y \in Works
      BY <1>4
    <3>2. Added(a, g, y, id, o, val)
      BY <1>5, <1>7, <3>1 DEF Added
    <3>3. /\ q \in Works /\ q.val = y.val /\ q.undo = a.undo /\ q.cnt = y.cnt /\ q.woken = y.woken
          /\ q.has = TRUE
      BY <3>2, SemaoeBack
    <3>4. x = q
      BY <1>5
    <3> HIDE DEF q
    <3>5. QED
      BY <3>3, <3>4
  <2>2. y.has = TRUE
    BY <1>1, <1>4, <1>7 DEF Adjusted
  <2>3. QED
    BY <1>4, <2>1, <2>2 DEF x
<1>8. QED
  BY <1>6, <1>7 DEF Goes

LEMMA UndoneType ==
    ASSUME NEW b \in Works, NEW id \in Id, NEW o \in Operation, SemOf(id, o.num) \in Sem
    PROVE  Undone(b, id, o) \in Works
<1> DEFINE s == SemOf(id, o.num)
           y == [b EXCEPT !.val[s] = @ - o.op, !.at = "go"]
<1>1. o.op \in Int /\ -o.op \in Int /\ b.val \in [Sem -> Int]
  BY WorkFacts DEF Operation
<1>2. y \in Works
  <2>1. [b.val EXCEPT ![s] = @ - o.op] \in [Sem -> Int]
    BY <1>1
  <2> HIDE DEF s
  <2>2. QED
    BY <2>1 DEF Works, Ats
<1>3. Undone(b, id, o) = Semaoe(y, id, o, -o.op)
  BY DEF Undone
<1> HIDE DEF y
<1>4. Semaoe(y, id, o, -o.op) \in Works
  <2> DEFINE n == -o.op
  <2>1. n \in Int
    BY <1>1
  <2> HIDE DEF n
  <2>2. Semaoe(y, id, o, n) \in Works
    BY <1>2, <2>1, SemaoeFacts
  <2>3. QED
    BY <2>2 DEF n
<1>5. QED
  BY <1>3, <1>4

(* After i of the D operations done are taken back. *)
Backed(w0, t, w, D, x, i) ==
    /\ x \in Works /\ x.cnt = t.cnt /\ x.woken = t.woken
    /\ x.val = w[D - i].val /\ x.undo = w[D - i].undo
    /\ x.has = t.has

LEMMA BackedStep ==
    ASSUME BasesOK, NEW w0, NEW w, NEW id \in Id, NEW ops \in Seq(Operation), NEW n \in 0..Len(ops),
           Order(w, id, ops, n), NEW i \in Nat, NEW D, D = w[n].done, i < D, NEW x,
           Backed(w0, w[n], w, D, x, i)
    PROVE  Backed(w0, w[n], w, D, Undone(x, id, ops[D - i]), i + 1)
<1> DEFINE j == D - i
           a == w[j - 1]
           g == w[j]
           o == ops[j]
           y == Undone(x, id, o)
<1>1. D \in Nat /\ D <= n /\ D <= Len(ops)
  <2>1. D \in Nat /\ D <= n
    BY WorkFacts DEF Order
  <2>2. QED
    BY <2>1
<1>2. j \in 1..D /\ j \in 0..D /\ j - 1 \in 0..D /\ j - 1 = D - (i + 1) /\ j \in 1..Len(ops)
  <2>1. D \in Int /\ i \in Int /\ Len(ops) \in Int /\ 0 <= i /\ i < D /\ D <= Len(ops)
    BY <1>1
  <2>2. QED
    BY ONLY <2>1
<1>3. o \in Operation /\ SemOf(id, o.num) \in Sem
  <2>1. o \in Operation
    BY <1>2
  <2>2. o.num \in Num
    BY <2>1 DEF Operation
  <2>3. QED
    BY <2>1, <2>2, SemOfFacts
<1>4. /\ a \in Works /\ g \in Works /\ Goes(a, g, id, o)
      /\ UndoOK(a.undo, a.has) /\ UndoOK(g.undo, g.has) /\ (g.has => w[n].has)
  <2> HIDE DEF j
  <2>1. \A k \in 0..D : w[k] \in Works /\ (w[k].has => w[n].has) /\ UndoOK(w[k].undo, w[k].has)
    BY DEF Order
  <2>2. \A k \in 1..D : Goes(w[k - 1], w[k], id, ops[k])
    BY DEF Order
  <2>3. QED
    BY <1>2, <2>1, <2>2
<1>5. x \in Works /\ x.val = g.val /\ x.undo = g.undo /\ (g.has => x.has)
  BY <1>4 DEF Backed
<1> HIDE DEF a, g, o
<1>6. y \in Works /\ y.val = a.val /\ y.undo = a.undo /\ y.cnt = x.cnt /\ y.woken = x.woken /\ y.has = x.has
  <2>1. a \in Works /\ g \in Works /\ x \in Works /\ o \in Operation
    BY <1>3, <1>4, <1>5
  <2>2. SemOf(id, o.num) \in Sem /\ Goes(a, g, id, o)
    BY <1>3, <1>4
  <2>3. UndoOK(a.undo, a.has) /\ UndoOK(g.undo, g.has)
    BY <1>4
  <2>4. x.val = g.val /\ x.undo = g.undo /\ (g.has => x.has)
    BY <1>5
  <2> HIDE DEF y
  <2>5. LET z == Undone(x, id, o) IN
        z \in Works /\ z.val = a.val /\ z.undo = a.undo /\ z.cnt = x.cnt /\ z.woken = x.woken /\ z.has = x.has
    BY ONLY <2>1, <2>2, <2>3, <2>4, UndoneFacts
  <2>6. QED
    BY <2>5 DEF y
<1> HIDE DEF y, j
<1>7. Backed(w0, w[n], w, D, y, i + 1)
  BY <1>2, <1>6 DEF Backed, a
<1>8. QED
  BY <1>7 DEF y, o, j

LEMMA SemundoRuns ==
    ASSUME BasesOK, NEW t \in Works, NEW id \in Id, NEW ops \in Seq(Operation)
    PROVE  \E b : /\ b[0] = t /\ Semundo(t, id, ops) = b[Len(ops)]
                  /\ \A i \in 1..Len(ops) : b[i] = Undone(b[i - 1], id, ops[Len(ops) - i + 1])
<1> DEFINE N == Len(ops)
           T == Works
           G == [i \in 1..N |-> [u \in T |-> Undone(u, id, ops[N - i + 1])]]
           Step(b) == [i \in 0..N |-> IF i = 0 THEN t ELSE Undone(b[i - 1], id, ops[N - i + 1])]
           c == CHOOSE b : b = Step(b)
<1>1. N \in Nat /\ \A i \in 1..N : ops[i] \in Operation
  OBVIOUS
<1>2. G \in [1..N -> [T -> T]]
  <2>1. ASSUME NEW i \in 1..N, NEW u \in T PROVE Undone(u, id, ops[N - i + 1]) \in T
    <3> DEFINE o == ops[N - i + 1]
    <3>0. N - i + 1 \in 1..N
      BY <1>1
    <3>1. o \in Operation
      BY <1>1, <3>0
    <3> HIDE DEF o
    <3>2. o.num \in Num
      BY <3>1 DEF Operation
    <3>3. SemOf(id, o.num) \in Sem
      BY <3>2, SemOfFacts
    <3>4. QED
      BY <3>1, <3>3, UndoneType DEF o
  <2> HIDE DEF N, T
  <2>2. QED
    BY <2>1
<1>3. PICK f \in [0..N -> T] : f[0] = t /\ \A i \in 1..N : f[i] = G[i][f[i - 1]]
  <2> HIDE DEF T, G, N, Step, c
  <2>1. \E f \in [0..N -> T] : f[0] = t /\ \A i \in 1..N : f[i] = G[i][f[i - 1]]
    <3>1. N \in Nat
      BY <1>1
    <3>2. t \in T
      BY DEF T
    <3>3. G \in [1..N -> [T -> T]]
      BY <1>2
    <3>4. Iterates(T, t, N, G)
      BY ONLY <3>1, <3>2, <3>3 DEF Iterates
    <3>5. QED
      BY ONLY <3>4, Iteration
  <2>2. QED
    BY <2>1
<1>4. \A i \in 1..N : f[i] = Undone(f[i - 1], id, ops[N - i + 1])
  <2> SUFFICES ASSUME NEW i \in 1..N PROVE f[i] = Undone(f[i - 1], id, ops[N - i + 1])
    OBVIOUS
  <2>1. i - 1 \in 0..N
    BY <1>1
  <2> HIDE DEF N, T
  <2>2. f[i - 1] \in T
    BY <1>3, <2>1
  <2>3. QED
    BY <1>3, <2>2
<1>5. f = Step(f)
  <2> HIDE DEF N, G, T
  <2>1. ASSUME NEW i \in 0..N PROVE f[i] = IF i = 0 THEN t ELSE Undone(f[i - 1], id, ops[N - i + 1])
    <3>1. CASE i = 0
      BY <1>3, <3>1
    <3>2. CASE i # 0
      <4>1. i \in 1..N
        BY <1>1, <3>2
      <4>2. QED
        BY <1>4, <3>2, <4>1
    <3>3. QED
      BY <3>1, <3>2
  <2>2. QED
    BY <1>3, <2>1
<1>6. c = Step(c)
  BY <1>5
<1>7. Semundo(t, id, ops) = c[N]
  BY DEF Semundo
<1> HIDE DEF c
<1>8. c[0] = t /\ \A i \in 1..N : c[i] = Undone(c[i - 1], id, ops[N - i + 1])
  <2> HIDE DEF N
  <2> USE <1>1
  <2>1. \A i \in 0..N : c[i] = IF i = 0 THEN t ELSE Undone(c[i - 1], id, ops[N - i + 1])
    BY <1>6
  <2>2. c[0] = t
    BY <2>1
  <2>3. ASSUME NEW i \in 1..N PROVE c[i] = Undone(c[i - 1], id, ops[N - i + 1])
    <3>1. i \in 0..N /\ i # 0
      OBVIOUS
    <3>2. QED
      BY <2>1, <3>1
  <2>4. QED
    BY <2>2, <2>3
<1>9. QED
  BY <1>7, <1>8

(* An operation for the semaphore s that would have to wait, and for what. *)
Stuck(o, s, k) ==
    \/ k = "n" /\ o.op < 0 /\ semval[s] + o.op < 0
    \/ k = "z" /\ o.op = 0 /\ semval[s] # 0

(* The operations of a call are all done or none. *)
AllDone(p, id, ops, r) ==
    /\ r \in Works
    /\ Limits(Work(p, id), r) /\ Unwoken(Work(p, id), r)
    /\ r.at # "go" => r.val = semval /\ r.undo = sem_undo[p] /\ r.done + 1 \in 1..Len(ops)

Stuckness(id, ops, r) ==
    /\ r.at \in Kind => LET o == ops[r.done + 1] IN Stuck(o, SemOf(id, o.num), r.at)
    /\ r.at = "go" => \A j \in 1..Len(ops), k \in Kind : ~Stuck(ops[j], SemOf(id, ops[j].num), k)

LEMMA SemundoBack ==
    ASSUME BasesOK, NEW w0, NEW w, NEW id \in Id, NEW ops \in Seq(Operation),
           Order(w, id, ops, Len(ops))
    PROVE  LET t == w[Len(ops)]
               x == Semundo(t, id, SubSeq(ops, 1, t.done))
           IN  /\ x \in Works /\ x.cnt = t.cnt /\ x.woken = t.woken /\ x.has = t.has
               /\ x.val = w[0].val /\ x.undo = w[0].undo
<1> DEFINE N == Len(ops)
           t == w[N]
           D == t.done
           some == SubSeq(ops, 1, D)
           x == Semundo(t, id, some)
<1>1. N \in Nat /\ t \in Works /\ D \in Nat /\ D <= N /\ t.val = w[D].val /\ t.undo = w[D].undo
  BY WorkFacts DEF Order
<1>2. some \in Seq(Operation) /\ Len(some) = D /\ \A j \in 1..D : some[j] = ops[j]
  BY <1>1
<1> HIDE DEF some, t, D
<1>3. PICK b : /\ b[0] = t /\ x = b[D]
               /\ \A i \in 1..D : b[i] = Undone(b[i - 1], id, some[D - i + 1])
  <2>1. \E b : /\ b[0] = t /\ Semundo(t, id, some) = b[Len(some)]
               /\ \A i \in 1..Len(some) : b[i] = Undone(b[i - 1], id, some[Len(some) - i + 1])
    BY <1>1, <1>2, SemundoRuns
  <2>2. QED
    BY <1>2, <2>1
<1> DEFINE S == {i \in Nat : Backed(w0, t, w, D, b[i], i)}
<1>4. 0 \in S
  <2>1. D - 0 = D
    BY <1>1
  <2>2. Backed(w0, t, w, D, b[0], 0)
    BY <1>1, <1>3, <2>1 DEF Backed
  <2>3. QED
    BY <2>2
<1>5. ASSUME NEW i \in Nat, i < D, i \in S PROVE i + 1 \in S
  <2>1. i + 1 \in 1..D /\ (i + 1) - 1 = i /\ D - (i + 1) + 1 = D - i /\ D - i \in 1..D
    BY <1>1, <1>5
  <2>2. b[i + 1] = Undone(b[i], id, ops[D - i])
    BY <1>2, <1>3, <2>1
  <2>3. Backed(w0, t, w, D, b[i], i)
    BY <1>5
  <2>4. N \in 0..Len(ops) /\ Order(w, id, ops, N) /\ D = w[N].done /\ t = w[N]
    BY <1>1 DEF D, t
  <2> HIDE DEF N
  <2>5. Backed(w0, t, w, D, Undone(b[i], id, ops[D - i]), i + 1)
    <3>1. Backed(w0, w[N], w, D, b[i], i)
      BY <2>3, <2>4
    <3>2. Backed(w0, w[N], w, D, Undone(b[i], id, ops[D - i]), i + 1)
      BY <1>5, <2>4, <3>1, BackedStep
    <3>3. QED
      BY <2>4, <3>2
  <2>6. QED
    BY <2>2, <2>5
<1> HIDE DEF S
<1>6. \A i \in 0..D : i \in S
  BY <1>1, <1>4, <1>5, UpTo
<1>7. Backed(w0, t, w, D, x, D)
  <2>1. D \in 0..D
    BY <1>1
  <2>2. QED
    BY <1>3, <1>6, <2>1 DEF S
<1>8. D - D = 0
  BY <1>1
<1>9. /\ x \in Works /\ x.cnt = t.cnt /\ x.woken = t.woken /\ x.has = t.has
      /\ x.val = w[0].val /\ x.undo = w[0].undo
  <2> HIDE DEF x
  <2>1. QED
    BY <1>7, <1>8 DEF Backed
<1>10. QED
  BY <1>9 DEF t, some, D

LEMMA DoAllFacts ==
    ASSUME NEW p, Begins(p), NEW id \in Id, NEW ops \in Seq(Operation)
    PROVE  AllDone(p, id, ops, DoAll(p, id, ops))
<1> DEFINE N == Len(ops)
           w0 == Work(p, id)
           w == Trial(p, id, ops)
           t == w[N]
           x == Semundo(t, id, SubSeq(ops, 1, t.done))
           r == DoAll(p, id, ops)
<1>1. /\ w0.val = semval /\ w0.cnt = cnt /\ w0.undo = sem_undo[p] /\ w0.has = hasUndo[p]
      /\ w0 \in Works /\ BasesOK /\ N \in Nat
  <2>1. w0.val = semval /\ w0.cnt = cnt /\ w0.undo = sem_undo[p] /\ w0.has = hasUndo[p]
    BY DEF Work
  <2>2. w0 \in Works /\ BasesOK /\ N \in Nat
    BY WorkBegins DEF Begins
  <2>3. QED
    BY <2>1, <2>2
<1>2. w[0] = w0
  BY <1>1, TrialFacts
<1>3. Order(w, id, ops, N) /\ Limits(w0, t) /\ Unwoken(w0, t) /\ Named(w0, t, id, ops, N)
  BY <1>1, TrialRuns DEF Ran
<1>4. r = IF t.at = "go" THEN t ELSE [x EXCEPT !.at = t.at, !.done = t.done]
  BY DEF DoAll
<1>5. /\ x \in Works /\ x.cnt = t.cnt /\ x.woken = t.woken /\ x.has = t.has
      /\ x.val = w[0].val /\ x.undo = w[0].undo
  BY <1>1, <1>3, SemundoBack
<1>6. t \in Works /\ t.done \in Nat /\ t.at \in Ats
  BY <1>3, WorkFacts DEF Order
<1> HIDE DEF x, t, w, w0, r
<1>7. CASE t.at = "go"
  BY <1>3, <1>4, <1>6, <1>7 DEF AllDone, r, w0
<1>8. CASE t.at # "go"
  <2>1. /\ r \in Works /\ r.cnt = t.cnt /\ r.woken = t.woken /\ r.has = t.has
        /\ r.val = semval /\ r.undo = sem_undo[p] /\ r.at = t.at /\ r.done = t.done
    BY <1>1, <1>2, <1>4, <1>5, <1>6, <1>8 DEF Works
  <2>2. Limits(w0, r)
    <3>1. semval \in [Sem -> 0..SemVmx]
      BY DEF Begins
    <3>2. UndoOK(sem_undo[p], t.has)
      <4>1. UndoOK(sem_undo[p], hasUndo[p]) /\ (hasUndo[p] => t.has)
        BY <1>1, <1>3 DEF Begins, Limits
      <4>2. QED
        BY <4>1 DEF UndoOK
    <3>3. QED
      BY <1>3, <2>1, <3>1, <3>2 DEF Limits
  <2>3. Unwoken(w0, r)
    <3>1. semval \in [Sem -> Int]
      BY SemAssumption DEF Begins
    <3>2. \A c \in Chan : /\ c \in r.woken => w0.cnt[c] > 0
                          /\ r.cnt[c] = IF c \in r.woken THEN 0 ELSE w0.cnt[c]
      BY <1>3, <2>1 DEF Unwoken
    <3>3. \A s \in Sem : r.val[s] <= w0.val[s] /\ (w0.val[s] # 0 => r.val[s] # 0)
      BY <1>1, <2>1, <3>1
    <3>4. QED
      BY <3>2, <3>3 DEF Unwoken
  <2>4. r.done + 1 \in 1..N
    BY <1>1, <1>3, <1>6, <1>8, <2>1 DEF Named
  <2>5. QED
    BY <2>1, <2>2, <2>3, <2>4 DEF AllDone, r, w0
<1>9. QED
  BY <1>7, <1>8

(* Which operations could not be done, when no semaphore is named twice.   *)
LEMMA DoAllStuck ==
    ASSUME NEW p, Begins(p), NEW id \in Id, NEW ops \in Seq(Operation), Distinct(ops)
    PROVE  Stuckness(id, ops, DoAll(p, id, ops))
<1> DEFINE N == Len(ops)
           w0 == Work(p, id)
           w == Trial(p, id, ops)
           t == w[N]
           r == DoAll(p, id, ops)
<1>1. w0.val = semval /\ w0 \in Works /\ BasesOK /\ N \in Nat
  <2>1. w0.val = semval
    BY DEF Work
  <2>2. w0 \in Works /\ BasesOK /\ N \in Nat
    BY WorkBegins DEF Begins
  <2>3. QED
    BY <2>1, <2>2
<1>2. \A i \in 0..N : Order(w, id, ops, i) /\ Named(w0, w[i], id, ops, i)
  BY TrialRuns DEF Ran
<1>3. Order(w, id, ops, N) /\ Named(w0, t, id, ops, N)
  BY <1>1, <1>2
<1>4. r.at = t.at /\ r.done = t.done
  <2> DEFINE x == Semundo(t, id, SubSeq(ops, 1, t.done))
  <2>1. r = IF t.at = "go" THEN t ELSE [x EXCEPT !.at = t.at, !.done = t.done]
    BY DEF DoAll
  <2>2. x \in Works
    BY <1>1, <1>3, SemundoBack
  <2> HIDE DEF x, t, r
  <2>3. QED
    BY <2>1, <2>2 DEF Works
<1>5. t \in Works /\ t.done \in Nat /\ t.done <= N /\ t.at \in Ats
  BY <1>3, WorkFacts DEF Order
<1>6. ASSUME NEW j \in 1..N, NEW k \in 1..N, k < j
      PROVE  SemOf(id, ops[k].num) # SemOf(id, ops[j].num)
  <2>1. ops[k].num # ops[j].num
    <3>1. j \in DOMAIN ops /\ k \in DOMAIN ops /\ k # j
      BY <1>6
    <3>2. QED
      BY <3>1 DEF Distinct
  <2>2. QED
    BY <2>1 DEF SemOf
<1>7. ASSUME NEW j \in 1..N, j - 1 <= t.done
      PROVE  LET s == SemOf(id, ops[j].num) IN s \in Sem /\ w[j - 1].val[s] = semval[s]
  <2> DEFINE s == SemOf(id, ops[j].num)
             a == w[j - 1]
  <2>1. j - 1 \in 0..N /\ j - 1 \in 0..t.done
    BY <1>1, <1>5, <1>7
  <2>2. a.done = j - 1 /\ Named(w0, a, id, ops, j - 1)
    BY <1>2, <1>3, <2>1 DEF Order
  <2>3. s \in Sem
    <3>0. ops[j] \in Operation
      BY <1>1
    <3>1. ops[j].num \in Num
      BY <3>0 DEF Operation
    <3>2. QED
      BY <1>1, <3>1, SemOfFacts
  <2>4. \A k \in 1..a.done : SemOf(id, ops[k].num) # s
    BY <1>1, <1>6, <2>2
  <2> HIDE DEF s, a
  <2>5. a.val[s] = w0.val[s]
    BY <2>2, <2>3, <2>4 DEF Named
  <2>6. QED
    BY <1>1, <2>3, <2>5 DEF s, a
<1>8. ASSUME r.at \in Kind PROVE LET o == ops[r.done + 1] IN Stuck(o, SemOf(id, o.num), r.at)
  <2> DEFINE j == t.done + 1
             o == ops[j]
             s == SemOf(id, o.num)
  <2>1. t.at # "go" /\ t.at \in {"n", "z"}
    BY <1>4, <1>8 DEF Kind
  <2>2. /\ t.done < N
        /\ t.at = "n" => o.op < 0 /\ t.val[s] + o.op < 0
        /\ t.at = "z" => o.op = 0 /\ t.val[s] # 0
    BY <1>3, <2>1 DEF Named
  <2>3. j \in 1..N /\ j - 1 = t.done /\ j - 1 <= t.done
    BY <1>1, <1>5, <2>2
  <2>4. s \in Sem /\ w[t.done].val[s] = semval[s]
    BY <1>7, <2>3
  <2>5. t.val[s] = semval[s]
    <3>1. t.val = w[t.done].val
      BY <1>3 DEF Order
    <3> HIDE DEF s, t, w
    <3>2. QED
      BY <2>4, <3>1
  <2> HIDE DEF s, o, t
  <2>6. Stuck(o, s, t.at)
    BY <2>1, <2>2, <2>5 DEF Stuck
  <2>7. QED
    BY <1>4, <2>6 DEF s, o
<1>9. ASSUME r.at = "go", NEW j \in 1..N, NEW k \in Kind
      PROVE  ~Stuck(ops[j], SemOf(id, ops[j].num), k)
  <2> DEFINE o == ops[j]
             s == SemOf(id, o.num)
             a == w[j - 1]
  <2>1. t.done = N /\ j \in 1..t.done
    BY <1>3, <1>4, <1>9 DEF Order
  <2>2. Goes(a, w[j], id, o)
    BY <1>3, <2>1 DEF Order
  <2>3. a.val[s] + o.op >= 0 /\ (o.op = 0 => a.val[s] = 0)
    BY <2>2 DEF Goes
  <2>4. s \in Sem /\ a.val[s] = semval[s]
    <3>1. j - 1 <= t.done
      BY <1>1, <2>1
    <3> HIDE DEF t
    <3>2. QED
      BY <1>7, <3>1
  <2>5. semval[s] + o.op \in Int /\ s \in Sem
    <3>1. s \in Sem
      BY <2>4
    <3>2. semval \in [Sem -> Int] /\ o \in Operation
      BY SemAssumption DEF Begins
    <3>3. o.op \in Int /\ semval[s] \in Int
      BY <3>1, <3>2 DEF Operation
    <3> HIDE DEF s, o
    <3>4. QED
      BY <3>1, <3>3
  <2> HIDE DEF a, s, o
  <2>6. ~Stuck(o, s, k)
    BY <2>3, <2>4, <2>5 DEF Stuck
  <2>7. QED
    BY <2>6 DEF s, o
<1>10. QED
  BY <1>8, <1>9 DEF Stuckness

-----------------------------------------------------------------------------
CallType == [id : Id, ops : Seq(Operation), from : Nat, tried : Seq(Operation), on : Chan \cup {Nowhere}]

(* Where a process is in its call, and what it has there. *)
InPlace(p) ==
    LET c == call[p] IN
    /\ pc[p] = "asleep" \/ (chan[p] = Nowhere /\ ~intr[p])
    /\ pc[p] = "fault" => c.from \in 1..Len(c.ops) /\ c.from - 1 <= Len(semtmp)
    /\ pc[p] = "asleep" => /\ c.on \in Chan /\ chan[p] \in {c.on, Nowhere} /\ c.from = 1
                           /\ c.ops # << >>
                           /\ intr[p] => chan[p] = Nowhere

(* The identifier a call is for is as it was or has been removed. *)
Current(p) ==
    LET id == call[p].id
        d == sema[id[1]]
    IN  pc[p] # "user" => id[2] <= d.seq /\ (id[2] = d.seq => d.alloc)

(* Who counts as waiting for c: asleep there, or about to count itself out. *)
Waits(c) == {p \in Procs : pc[p] = "asleep" /\ call[p].on = c /\ (chan[p] = c \/ intr[p])}

Counted ==
    /\ \A p \in Procs : chan[p] # Nowhere => cnt[chan[p]] > 0
    /\ \A c \in Chan : cnt[c] <= Cardinality(Waits(c))

(* Why p sleeps. *)
Reason(p) ==
    chan[p] # Nowhere /\ Valid(call[p].id) /\ Distinct(call[p].tried) =>
        \E i \in 1..Len(call[p].tried) :
            LET o == call[p].tried[i] IN
            SemOf(call[p].id, o.num) = chan[p][1] /\ Stuck(o, chan[p][1], chan[p][2])

Undos ==
    /\ hasUndo \in [Procs -> BOOLEAN]
    /\ sem_undo \in [Procs -> [Place -> -SemAem..SemAem]]
    /\ \A p \in Procs : UndoOK(sem_undo[p], hasUndo[p])
    /\ Cardinality(Holders) <= SemMnu

Typing ==
    /\ sema \in [Slot -> [alloc : BOOLEAN, seq : 0..MaxSeq, base : 1..Blocks]]
    /\ semval \in [Sem -> 0..SemVmx]
    /\ cnt \in [Chan -> Nat]
    /\ semtmp \in Seq(Operation)
    /\ pc \in [Procs -> {"user", "fault", "asleep"}]
    /\ call \in [Procs -> CallType]
    /\ chan \in [Procs -> Chan \cup {Nowhere}]
    /\ intr \in [Procs -> BOOLEAN]
    /\ faults \in 0..MaxFaults

Inv ==
    /\ Typing /\ Undos /\ Counted
    /\ \A p \in Procs : InPlace(p) /\ Current(p) /\ Reason(p)

LEMMA InvBegins ==
    ASSUME Inv, NEW p \in Procs
    PROVE  Begins(p)
<1>1. BasesOK
  BY DEF Inv, Typing, BasesOK
<1>2. QED
  BY <1>1 DEF Inv, Typing, Undos, Begins

LEMMA NowhereElse == \A c \in Chan : c # Nowhere
  BY SemAssumption DEF Chan

LEMMA WaitsFinite ==
    ASSUME NEW c
    PROVE  /\ IsFiniteSet(Waits(c)) /\ Cardinality(Waits(c)) \in Nat
           /\ Cardinality(Waits(c)) <= Cardinality(Procs)
<1>1. Waits(c) \subseteq Procs /\ IsFiniteSet(Procs)
  BY SemAssumption DEF Waits
<1>2. QED
  BY <1>1, FS_Subset, FS_CardinalityType

LEMMA InvType ==
    ASSUME Inv, u_error \in Errno \cup {"none"}
    PROVE  TypeOK
<1>1. cnt \in [Sem \X Kind -> 0..Cardinality(Procs)]
  <2>1. \A c \in Chan : cnt[c] \in Nat /\ cnt[c] <= Cardinality(Waits(c))
    BY DEF Inv, Typing, Counted
  <2>2. Cardinality(Procs) \in Nat
    BY SemAssumption, FS_CardinalityType
  <2>3. \A c \in Chan : cnt[c] \in 0..Cardinality(Procs)
    BY <2>1, <2>2, WaitsFinite
  <2>4. cnt \in [Chan -> Nat]
    BY DEF Inv, Typing
  <2>5. QED
    BY <2>3, <2>4 DEF Chan
<1>2. \A p \in Procs : Entries(p) = EntriesOf(sem_undo[p])
  BY DEF Entries, EntriesOf, Place
<1>3. \A p \in Procs : Cardinality(Entries(p)) <= SemUme /\ (~hasUndo[p] => Entries(p) = {})
  BY <1>2 DEF Inv, Undos, UndoOK
<1>4. Cardinality({p \in Procs : hasUndo[p]}) <= SemMnu
  BY DEF Inv, Undos, Holders
<1>5. QED
  BY <1>1, <1>3, <1>4 DEF Inv, Typing, Undos, TypeOK, Chan, Place

(* What happens to the value of s, as the waiters in W are woken.          *)
Keeps(s, W) ==
    /\ cnt[<<s, "n">>] > 0 /\ <<s, "n">> \notin W => semval'[s] <= semval[s]
    /\ cnt[<<s, "z">>] > 0 /\ <<s, "z">> \notin W /\ semval[s] # 0 => semval'[s] # 0

(* The identifier of q's call is the same set as before, if it is valid.   *)
Same(q) ==
    LET id == call[q].id IN
    Valid(id)' => Valid(id) /\ sema'[id[1]].base = sema[id[1]].base

LEMMA ReasonKept ==
    ASSUME Inv, NEW q \in Procs, NEW W, call'[q] = call[q],
           chan'[q] = IF chan[q] \in W THEN Nowhere ELSE chan[q],
           Same(q), semval' \in [Sem -> 0..SemVmx], \A s \in Sem : Keeps(s, W)
    PROVE  Reason(q)'
<1> DEFINE c == call[q]
           id == c.id
           tried == c.tried
           ch == chan[q]
           StuckThen(o, s, k) ==
               \/ k = "n" /\ o.op < 0 /\ semval'[s] + o.op < 0
               \/ k = "z" /\ o.op = 0 /\ semval'[s] # 0
<1> SUFFICES ASSUME chan'[q] # Nowhere, Valid(id)', Distinct(tried)
             PROVE  \E i \in 1..Len(tried) :
                       /\ <<sema'[id[1]].base, tried[i].num>> = ch[1]
                       /\ StuckThen(tried[i], ch[1], ch[2]) /\ chan'[q] = ch
  BY DEF Reason, Stuck, SemOf
<1>1. ch \notin W /\ ch # Nowhere /\ ch \in Chan /\ chan'[q] = ch
  BY DEF Inv, Typing
<1>2. Valid(id) /\ sema'[id[1]].base = sema[id[1]].base
  BY DEF Same
<1>3. PICK i \in 1..Len(tried) : SemOf(id, tried[i].num) = ch[1] /\ Stuck(tried[i], ch[1], ch[2])
  BY <1>1, <1>2 DEF Inv, Reason
<1> DEFINE o == tried[i]
<1>4. o.op \in Int
  <2>1. c \in CallType
    BY DEF Inv, Typing
  <2>2. tried \in Seq(Operation)
    BY <2>1 DEF CallType
  <2> HIDE DEF tried
  <2>3. tried[i] \in Operation
    BY <2>2
  <2>4. QED
    BY <2>3 DEF Operation
<1> DEFINE s == ch[1]
           k == ch[2]
<1>5. s \in Sem /\ k \in {"n", "z"} /\ ch = <<s, k>>
  BY <1>1 DEF Chan, Kind
<1>6. cnt[ch] > 0
  BY <1>1 DEF Inv, Counted
<1>7. <<sema'[id[1]].base, o.num>> = s
  BY <1>2, <1>3 DEF SemOf
<1>8. semval[s] \in Int /\ semval'[s] \in Int
  <2>1. semval \in [Sem -> Int] /\ semval' \in [Sem -> Int]
    BY SemAssumption DEF Inv, Typing
  <2> HIDE DEF s
  <2>2. QED
    BY <1>5, <2>1
<1>9. k = "n" => semval'[s] <= semval[s]
  BY <1>1, <1>5, <1>6 DEF Keeps
<1>10. k = "z" /\ semval[s] # 0 => semval'[s] # 0
  BY <1>1, <1>5, <1>6 DEF Keeps
<1>11. Stuck(o, s, k)
  BY <1>3
<1> HIDE DEF o, s, k
<1>12. StuckThen(o, s, k)
  <2>1. CASE k = "n"
    BY <1>4, <1>8, <1>9, <1>11, <2>1 DEF Stuck
  <2>2. CASE k = "z"
    BY <1>10, <1>11, <2>2 DEF Stuck
  <2>3. QED
    BY <1>5, <2>1, <2>2
<1> HIDE DEF StuckThen
<1>13. QED
  BY <1>1, <1>7, <1>12 DEF o, s, k

(* The identifiers and the bases that a step must leave for who is in a call. *)
IdsKept ==
    /\ sema' \in [Slot -> [alloc : BOOLEAN, seq : 0..MaxSeq, base : 1..Blocks]]
    /\ \A q \in Procs : pc[q] # "user" => Same(q) /\ Current(q)'

LEMMA IdsUnchanged ==
    ASSUME Inv, sema' = sema, pc' = pc, call' = call
    PROVE  IdsKept
<1>1. sema' \in [Slot -> [alloc : BOOLEAN, seq : 0..MaxSeq, base : 1..Blocks]]
  BY DEF Inv, Typing
<1>2. \A q \in Procs : Same(q)
  BY DEF Same, Valid
<1>3. \A q \in Procs : Current(q)'
  BY DEF Current, Inv
<1>4. QED
  BY <1>1, <1>2, <1>3 DEF IdsKept

LEMMA CountedWoken ==
    ASSUME Inv, NEW W, W \subseteq Chan, pc' = pc, call' = call, intr' = intr,
           chan' = [q \in Procs |-> IF chan[q] \in W THEN Nowhere ELSE chan[q]],
           cnt' = [c \in Chan |-> IF c \in W THEN 0 ELSE cnt[c]]
    PROVE  Counted'
<1>1. ASSUME NEW q \in Procs, chan'[q] # Nowhere PROVE cnt'[chan'[q]] > 0
  <2>1. chan'[q] = chan[q] /\ chan[q] \notin W /\ chan[q] \in Chan
    BY <1>1 DEF Inv, Typing
  <2>2. cnt[chan[q]] > 0
    BY <1>1, <2>1 DEF Inv, Counted
  <2>3. QED
    BY <2>1, <2>2
<1>2. ASSUME NEW c \in Chan PROVE cnt'[c] <= Cardinality(Waits(c)')
  <2>1. CASE c \in W
    <3>1. cnt'[c] = 0
      BY <2>1
    <3>2. Waits(c)' \subseteq Procs /\ IsFiniteSet(Procs)
      BY SemAssumption DEF Waits
    <3>3. Cardinality(Waits(c)') \in Nat
      BY <3>2, FS_Subset, FS_CardinalityType
    <3>4. QED
      BY <3>1, <3>3
  <2>2. CASE c \notin W
    <3>1. \A q \in Procs : chan'[q] = c <=> chan[q] = c
      BY <2>2, NowhereElse
    <3>2. Waits(c)' = Waits(c)
      BY <3>1 DEF Waits
    <3>3. QED
      BY <2>2, <3>2 DEF Inv, Counted
  <2>3. QED
    BY <2>1, <2>2
<1>3. QED
  BY <1>1, <1>2 DEF Counted

(* A step of values, counts and adjustments that wakes who waits for W.    *)
LEMMA Woke ==
    ASSUME Inv, NEW W, W \subseteq Chan,
           semtmp' \in Seq(Operation), Len(semtmp') = Len(semtmp),
           UNCHANGED <<pc, call, intr, faults>>,
           chan' = [q \in Procs |-> IF chan[q] \in W THEN Nowhere ELSE chan[q]],
           cnt' = [c \in Chan |-> IF c \in W THEN 0 ELSE cnt[c]],
           semval' \in [Sem -> 0..SemVmx], \A s \in Sem : Keeps(s, W),
           IdsKept, Undos'
    PROVE  Inv'
<1>1. Typing'
  <2>1. cnt' \in [Chan -> Nat]
    BY DEF Inv, Typing
  <2>2. chan' \in [Procs -> Chan \cup {Nowhere}]
    BY DEF Inv, Typing
  <2>3. QED
    BY <2>1, <2>2 DEF Inv, Typing, IdsKept
<1>2. Counted'
  BY CountedWoken
<1>3. ASSUME NEW q \in Procs PROVE InPlace(q)' /\ Current(q)' /\ Reason(q)'
  <2>1. InPlace(q) /\ chan'[q] \in {chan[q], Nowhere}
    BY DEF Inv
  <2>2. InPlace(q)'
    BY <2>1 DEF InPlace
  <2>3. CASE pc[q] = "user"
    <3>1. chan[q] = Nowhere
      BY <2>1, <2>3 DEF InPlace
    <3>2. chan'[q] = Nowhere
      BY <2>1, <3>1
    <3>3. Current(q)' /\ Reason(q)'
      BY <2>3, <3>2 DEF Current, Reason
    <3>4. QED
      BY <2>2, <3>3
  <2>4. CASE pc[q] # "user"
    <3>1. Same(q) /\ Current(q)'
      BY <2>4 DEF IdsKept
    <3>2. chan'[q] = IF chan[q] \in W THEN Nowhere ELSE chan[q]
      OBVIOUS
    <3>3. call'[q] = call[q]
      OBVIOUS
    <3>4. Reason(q)'
      BY <3>1, <3>2, <3>3, ReasonKept
    <3>5. QED
      BY <2>2, <3>1, <3>4
  <2>5. QED
    BY <2>3, <2>4
<1>4. QED
  BY <1>1, <1>2, <1>3 DEF Inv

LEMMA UndosUnchanged ==
    ASSUME Inv, UNCHANGED <<sem_undo, hasUndo>>
    PROVE  Undos'
<1>1. Holders' = Holders
  BY DEF Holders
<1>2. QED
  BY <1>1 DEF Inv, Undos, UndoOK, EntriesOf

LEMMA WithoutUndos ==
    ASSUME Inv, NEW id \in Id, NEW N,
           sem_undo' = [q \in Procs |-> Without(sem_undo[q], id, N)], hasUndo' = hasUndo
    PROVE  Undos'
<1>1. ASSUME NEW q \in Procs
      PROVE  sem_undo'[q] \in [Place -> -SemAem..SemAem] /\ UndoOK(sem_undo'[q], hasUndo'[q])
  <2> DEFINE u == sem_undo[q]
             v == sem_undo'[q]
  <2>1. /\ u \in [Place -> -SemAem..SemAem] /\ Cardinality(EntriesOf(u)) <= SemUme
        /\ ~hasUndo[q] => EntriesOf(u) = {}
        /\ SemAem \in Nat /\ SemUme \in Nat
    BY SemAssumption DEF Inv, Undos, UndoOK
  <2>2. v = [x \in Place |-> IF x[1] = id /\ x[2] \in N THEN 0 ELSE u[x]]
    BY <2>1 DEF Without
  <2> HIDE DEF u, v
  <2>3. v \in [Place -> -SemAem..SemAem]
    BY <2>1, <2>2
  <2>4. EntriesOf(v) \subseteq EntriesOf(u)
    BY <2>2 DEF EntriesOf
  <2>5. Cardinality(EntriesOf(v)) <= SemUme
    <3>1. /\ IsFiniteSet(EntriesOf(u)) /\ Cardinality(EntriesOf(u)) \in Nat
          /\ Cardinality(EntriesOf(v)) \in Nat
      BY EntriesFinite
    <3>2. Cardinality(EntriesOf(v)) <= Cardinality(EntriesOf(u))
      BY <2>4, <3>1, FS_Subset
    <3>3. QED
      BY <2>1, <3>1, <3>2
  <2>6. QED
    BY <2>1, <2>3, <2>4, <2>5 DEF UndoOK, v
<1>2. Holders' = Holders
  BY DEF Holders
<1>3. \A q \in Procs : UndoOK(sem_undo[q], hasUndo[q])'
  <2>1. \A q \in Procs : UndoOK(sem_undo'[q], hasUndo'[q])
    BY <1>1
  <2>2. QED
    BY <2>1 DEF UndoOK, EntriesOf
<1>4. sem_undo' \in [Procs -> [Place -> -SemAem..SemAem]]
  <2> DEFINE T == [Place -> -SemAem..SemAem]
             V(q) == Without(sem_undo[q], id, N)
  <2>1. sem_undo' = [q \in Procs |-> V(q)]
    OBVIOUS
  <2>2. \A q \in Procs : sem_undo'[q] \in T
    BY <1>1
  <2> HIDE DEF T, V
  <2>3. sem_undo' \in [Procs -> T]
    BY <2>1, <2>2
  <2>4. QED
    BY <2>3 DEF T
<1>5. QED
  BY <1>2, <1>3, <1>4 DEF Inv, Undos

LEMMA CallIds ==
    ASSUME Inv, NEW q \in Procs
    PROVE  call[q] \in CallType /\ call[q].id \in Id /\ call[q].id[1] \in Slot /\ call[q].id[2] \in 0..MaxSeq
BY DEF Inv, Typing, CallType, Id

LEMMA SemgetStep ==
    ASSUME Inv, NEW p \in Procs, Semget(p)
    PROVE  Inv'
<1> DEFINE unused == {i \in Slot : ~sema[i].alloc}
           room == (1..Blocks) \ {sema[i].base : i \in Slot \ unused}
           m == Min(unused)
           r == Min(room)
<1>1. unused # {} /\ room # {} /\ sema' = [sema EXCEPT ![m].alloc = TRUE, ![m].base = r]
  BY DEF Semget
<1>2. m \in Slot /\ ~sema[m].alloc
  <2>1. unused \in SUBSET Nat
    BY SemAssumption DEF Slot
  <2> HIDE DEF unused
  <2>2. m \in unused
    BY <1>1, <2>1, LeastFacts
  <2>3. QED
    BY <2>2 DEF unused
<1>3. r \in 1..Blocks
  <2>1. room \in SUBSET Nat
    BY SemAssumption
  <2> HIDE DEF room
  <2>2. r \in room
    BY <1>1, <2>1, LeastFacts
  <2>3. QED
    BY <2>2 DEF room
<1> HIDE DEF unused, room, m, r
<1>4. UNCHANGED <<semval, cnt, sem_undo, hasUndo, semtmp, pc, call, chan, intr, faults>>
  BY DEF Semget
<1>5. sema \in [Slot -> [alloc : BOOLEAN, seq : 0..MaxSeq, base : 1..Blocks]]
  BY DEF Inv, Typing
<1>6. /\ sema' \in [Slot -> [alloc : BOOLEAN, seq : 0..MaxSeq, base : 1..Blocks]]
      /\ \A i \in Slot : sema'[i].seq = sema[i].seq /\ (i # m => sema'[i] = sema[i])
      /\ sema'[m].alloc = TRUE
  BY <1>1, <1>2, <1>3, <1>5
<1>7. ASSUME NEW q \in Procs, pc[q] # "user" PROVE Same(q) /\ Current(q)'
  <2> DEFINE id == call[q].id
             i == id[1]
  <2>1. i \in Slot
    BY CallIds
  <2>2. id[2] <= sema[i].seq /\ (id[2] = sema[i].seq => sema[i].alloc)
    BY <1>7 DEF Inv, Current
  <2>3. call'[q] = call[q]
    BY <1>4
  <2> HIDE DEF i
  <2>4. CASE i = m
    <3>1. id[2] # sema'[i].seq /\ id[2] <= sema'[i].seq
      BY <1>2, <1>6, <2>1, <2>2, <2>4
    <3>2. ~(sema'[i].alloc /\ sema'[i].seq = id[2])
      BY <3>1
    <3>3. Same(q)
      BY <2>3, <3>2 DEF Same, Valid, i
    <3>4. Current(q)'
      BY <2>3, <3>1 DEF Current, i
    <3>5. QED
      BY <3>3, <3>4
  <2>5. CASE i # m
    <3>1. sema'[i] = sema[i]
      BY <1>6, <2>1, <2>5
    <3>2. Same(q)
      BY <2>3, <3>1 DEF Same, Valid, i
    <3>3. Current(q)'
      BY <2>2, <2>3, <3>1 DEF Current, i
    <3>4. QED
      BY <3>2, <3>3
  <2>6. QED
    BY <2>4, <2>5
<1>8. IdsKept
  BY <1>6, <1>7 DEF IdsKept
<1>9. /\ chan' = [q \in Procs |-> IF chan[q] \in {} THEN Nowhere ELSE chan[q]]
      /\ cnt' = [c \in Chan |-> IF c \in {} THEN 0 ELSE cnt[c]]
  BY <1>4 DEF Inv, Typing
<1>10. semval' \in [Sem -> 0..SemVmx] /\ \A s \in Sem : Keeps(s, {})
  <2>1. semval \in [Sem -> Int]
    BY SemAssumption DEF Inv, Typing
  <2>2. QED
    BY <1>4, <2>1 DEF Inv, Typing, Keeps
<1>11. Undos'
  BY <1>4, UndosUnchanged
<1>12. {} \subseteq Chan
  OBVIOUS
<1>13. /\ semtmp' \in Seq(Operation) /\ Len(semtmp') = Len(semtmp)
      /\ UNCHANGED <<pc, call, intr, faults>>
  BY <1>4 DEF Inv, Typing
<1>14. QED
  BY ONLY Inv, <1>8, <1>9, <1>10, <1>11, <1>12, <1>13, Woke

(* The values of semaphores change, and of their waiters those that could  *)
(* go on are woken.                                                        *)
LEMMA ValuesStep ==
    ASSUME Inv, NEW S \in SUBSET Sem, NEW v \in [Num -> 0..SemVmx], NEW W, W \subseteq Chan,
           semval' = [s \in Sem |-> IF s \in S THEN v[s[2]] ELSE semval[s]],
           cnt' = [c \in Sem \X Kind |-> IF c \in W THEN 0 ELSE cnt[c]],
           Wakeup(W), semtmp' \in Seq(Operation), Len(semtmp') = Len(semtmp),
           UNCHANGED <<pc, call, intr, faults>>,
           \A s \in S : /\ v[s[2]] # 0 /\ cnt[<<s, "n">>] > 0 => <<s, "n">> \in W
                        /\ v[s[2]] = 0 /\ cnt[<<s, "z">>] > 0 => <<s, "z">> \in W,
           IdsKept, Undos'
    PROVE  Inv'
<1>1. semval \in [Sem -> 0..SemVmx] /\ SemVmx \in Nat /\ \A s \in Sem : s[2] \in Num
  BY SemAssumption DEF Inv, Typing, Sem
<1>2. semval' \in [Sem -> 0..SemVmx]
  BY <1>1
<1>3. ASSUME NEW s \in Sem PROVE Keeps(s, W)
  <2>1. semval[s] \in Nat /\ semval'[s] = IF s \in S THEN v[s[2]] ELSE semval[s]
    BY <1>1
  <2>2. QED
    BY <2>1 DEF Keeps
<1>4. /\ chan' = [q \in Procs |-> IF chan[q] \in W THEN Nowhere ELSE chan[q]]
      /\ cnt' = [c \in Chan |-> IF c \in W THEN 0 ELSE cnt[c]]
  BY DEF Wakeup, Chan
<1>5. /\ semtmp' \in Seq(Operation) /\ Len(semtmp') = Len(semtmp)
      /\ UNCHANGED <<pc, call, intr, faults>>
  OBVIOUS
<1>6. QED
  BY <1>2, <1>3, <1>4, <1>5, Woke

LEMMA IdHere ==
    ASSUME Inv, NEW i \in Slot
    PROVE  /\ <<i, sema[i].seq>> \in Id
           /\ \A n \in Num : SemOf(<<i, sema[i].seq>>, n) \in Sem /\ SemOf(<<i, sema[i].seq>>, n)[2] = n
<1>1. <<i, sema[i].seq>> \in Id /\ BasesOK
  BY DEF Inv, Typing, Id, BasesOK
<1>2. QED
  BY <1>1, SemOfFacts DEF SemOf

LEMMA RmidStep ==
    ASSUME Inv, NEW p \in Procs, NEW i \in Slot, Rmid(p, i)
    PROVE  Inv'
<1> DEFINE id == <<i, sema[i].seq>>
           S == {SemOf(id, n) : n \in Num}
           v == [n \in Num |-> 0]
           W == {c \in S \X Kind : cnt[c] > 0}
<1>1. id \in Id /\ S \subseteq Sem
  BY IdHere
<1>2. W \subseteq Chan
  BY <1>1 DEF Chan
<1>3. v \in [Num -> 0..SemVmx]
  BY SemAssumption
<1>4. /\ semval' = [s \in Sem |-> IF s \in S THEN v[s[2]] ELSE semval[s]]
      /\ cnt' = [c \in Sem \X Kind |-> IF c \in W THEN 0 ELSE cnt[c]]
      /\ Wakeup(W)
  BY DEF Rmid, Assign
<1>5. /\ UNCHANGED <<semtmp, pc, call, intr, faults>>
      /\ sema[i].alloc /\ sema[i].seq < MaxSeq
      /\ sema' = [sema EXCEPT ![i].alloc = FALSE, ![i].seq = @ + 1]
      /\ sem_undo' = [q \in Procs |-> Without(sem_undo[q], id, Num)] /\ hasUndo' = hasUndo
  BY DEF Rmid
<1>6. \A s \in S : \A k \in Kind : cnt[<<s, k>>] > 0 => <<s, k>> \in W
  OBVIOUS
<1> HIDE DEF id, S, v, W
<1>7. \A s \in S : /\ v[s[2]] # 0 /\ cnt[<<s, "n">>] > 0 => <<s, "n">> \in W
                   /\ v[s[2]] = 0 /\ cnt[<<s, "z">>] > 0 => <<s, "z">> \in W
  BY <1>6 DEF Kind
<1>8. Undos'
  BY <1>1, <1>5, WithoutUndos
<1>9. sema \in [Slot -> [alloc : BOOLEAN, seq : 0..MaxSeq, base : 1..Blocks]] /\ MaxSeq \in Nat
  BY SemAssumption DEF Inv, Typing
<1>10. /\ sema' \in [Slot -> [alloc : BOOLEAN, seq : 0..MaxSeq, base : 1..Blocks]]
       /\ sema'[i].seq = sema[i].seq + 1 /\ \A j \in Slot : j # i => sema'[j] = sema[j]
  <2>1. sema[i].seq + 1 \in 0..MaxSeq
    BY <1>5, <1>9
  <2>2. QED
    BY <1>5, <1>9, <2>1
<1>11. ASSUME NEW q \in Procs, pc[q] # "user" PROVE Same(q) /\ Current(q)'
  <2> DEFINE d == call[q].id
             j == d[1]
  <2>1. j \in Slot /\ d[2] \in Int /\ sema[j].seq \in Int
    <3>1. j \in Slot /\ d[2] \in 0..MaxSeq
      BY CallIds
    <3> HIDE DEF j
    <3>2. QED
      BY <1>9, <3>1
  <2>2. d[2] <= sema[j].seq /\ (d[2] = sema[j].seq => sema[j].alloc)
    BY <1>11 DEF Inv, Current
  <2>3. call'[q] = call[q]
    BY <1>5
  <2> HIDE DEF j
  <2>4. CASE j = i
    <3>1. d[2] # sema'[j].seq /\ d[2] <= sema'[j].seq
      BY <1>10, <2>1, <2>2, <2>4
    <3>2. Same(q)
      BY <2>3, <3>1 DEF Same, Valid, j
    <3>3. Current(q)'
      BY <2>3, <3>1 DEF Current, j
    <3>4. QED
      BY <3>2, <3>3
  <2>5. CASE j # i
    <3>1. sema'[j] = sema[j]
      BY <1>10, <2>1, <2>5
    <3>2. Same(q)
      BY <2>3, <3>1 DEF Same, Valid, j
    <3>3. Current(q)'
      BY <2>2, <2>3, <3>1 DEF Current, j
    <3>4. QED
      BY <3>2, <3>3
  <2>6. QED
    BY <2>4, <2>5
<1>12. IdsKept
  BY <1>10, <1>11 DEF IdsKept
<1>13. /\ semtmp' \in Seq(Operation) /\ Len(semtmp') = Len(semtmp)
      /\ UNCHANGED <<pc, call, intr, faults>>
  BY <1>5 DEF Inv, Typing
<1>14. QED
  BY ONLY Inv, <1>1, <1>2, <1>3, <1>4, <1>7, <1>8, <1>12, <1>13, ValuesStep

LEMMA SetvalStep ==
    ASSUME Inv, NEW p \in Procs, NEW i \in Slot, NEW n \in Num, NEW x \in 0..SemVmx, Setval(p, i, n, x)
    PROVE  Inv'
<1> DEFINE id == <<i, sema[i].seq>>
           S == {SemOf(id, n)}
           v == [m \in Num |-> x]
           wakes == IF x = 0 THEN {"z"} ELSE {"n"}
           W == {c \in S \X wakes : cnt[c] > 0}
<1>1. id \in Id /\ S \subseteq Sem
  BY IdHere
<1>2. W \subseteq Chan
  BY <1>1 DEF Chan, Kind
<1>3. v \in [Num -> 0..SemVmx]
  OBVIOUS
<1>4. /\ semval' = [s \in Sem |-> IF s \in S THEN v[s[2]] ELSE semval[s]]
      /\ cnt' = [c \in Sem \X Kind |-> IF c \in W THEN 0 ELSE cnt[c]]
      /\ Wakeup(W)
  BY DEF Setval, Assign
<1>5. /\ UNCHANGED <<semtmp, pc, call, intr, faults>>
      /\ sema' = sema
      /\ sem_undo' = [q \in Procs |-> Without(sem_undo[q], id, {n})] /\ hasUndo' = hasUndo
  BY DEF Setval
<1>6. \A s \in S : \A k \in wakes : cnt[<<s, k>>] > 0 => <<s, k>> \in W
  OBVIOUS
<1>7. \A s \in S : v[s[2]] = x
  BY <1>1 DEF Sem
<1> HIDE DEF id, S, v, W
<1>8. \A s \in S : /\ v[s[2]] # 0 /\ cnt[<<s, "n">>] > 0 => <<s, "n">> \in W
                   /\ v[s[2]] = 0 /\ cnt[<<s, "z">>] > 0 => <<s, "z">> \in W
  BY <1>6, <1>7
<1>9. Undos'
  BY <1>1, <1>5, WithoutUndos
<1>10. IdsKept
  BY <1>5, IdsUnchanged
<1>11. /\ semtmp' \in Seq(Operation) /\ Len(semtmp') = Len(semtmp)
      /\ UNCHANGED <<pc, call, intr, faults>>
  BY <1>5 DEF Inv, Typing
<1>12. QED
  BY ONLY Inv, <1>1, <1>2, <1>3, <1>4, <1>8, <1>9, <1>10, <1>11, ValuesStep

(* What values copied into semtmp make of the operations there.           *)
LEMMA OverlaidFacts ==
    ASSUME Inv, NEW v \in [Num -> 0..SemVmx],
           \A j \in 1..Len(semtmp) : Overlaid(v)[j].num \in Num
    PROVE  Overlaid(v) \in Seq(Operation) /\ Len(Overlaid(v)) = Len(semtmp)
<1>1. semtmp \in Seq(Operation) /\ Len(semtmp) \in Nat /\ SemVmx \in Nat
  BY SemAssumption DEF Inv, Typing
<1>2. ASSUME NEW j \in 1..Len(semtmp) PROVE Overlaid(v)[j] \in Operation
  <2> DEFINE k == 3 * (j - 1)
             op == IF k + 1 \in Num THEN v[k + 1] ELSE semtmp[j].op
             undo == IF k + 2 \in Num THEN Bit(v[k + 2], 4096) ELSE semtmp[j].undo
             nowait == IF k + 2 \in Num THEN Bit(v[k + 2], 2048) ELSE semtmp[j].nowait
             num == IF k \in Num THEN v[k] ELSE semtmp[j].num
  <2>1. Overlaid(v)[j] = [num |-> num, op |-> op, undo |-> undo, nowait |-> nowait]
    BY DEF Overlaid
  <2>2. semtmp[j] \in Operation
    BY <1>1
  <2>3. num \in Num
    BY <2>1
  <2>4. op \in Int
    BY <1>1, <2>2 DEF Operation
  <2> HIDE DEF k
  <2>5. undo \in BOOLEAN /\ nowait \in BOOLEAN
    <3>1. \A x, n : Bit(x, n) \in BOOLEAN
      BY DEF Bit
    <3>2. semtmp[j].undo \in BOOLEAN /\ semtmp[j].nowait \in BOOLEAN
      BY <2>2 DEF Operation
    <3>3. QED
      BY <3>1, <3>2
  <2> HIDE DEF op, undo, nowait, num
  <2>6. QED
    BY <2>1, <2>3, <2>4, <2>5 DEF Operation
<1> DEFINE t == Overlaid(v)
<1>3. t = [j \in 1..Len(semtmp) |-> t[j]]
  BY DEF Overlaid
<1> HIDE DEF t
<1>4. QED
  BY <1>1, <1>2, <1>3 DEF t

LEMMA SetallStep ==
    ASSUME Inv, NEW p \in Procs, NEW i \in Slot, NEW v \in [Num -> 0..SemVmx], Setall(p, i, v)
    PROVE  Inv'
<1> DEFINE id == <<i, sema[i].seq>>
           S == {SemOf(id, n) : n \in Num}
           W == {c \in S \X Kind : cnt[c] > 0 /\ (v[c[1][2]] = 0 <=> c[2] = "z")}
<1>1. id \in Id /\ S \subseteq Sem
  BY IdHere
<1>2. W \subseteq Chan
  BY <1>1 DEF Chan
<1>4. /\ semval' = [s \in Sem |-> IF s \in S THEN v[s[2]] ELSE semval[s]]
      /\ cnt' = [c \in Sem \X Kind |-> IF c \in W THEN 0 ELSE cnt[c]]
      /\ Wakeup(W)
  BY DEF Setall
<1>5. /\ UNCHANGED <<pc, call, intr, faults>>
      /\ semtmp' = Overlaid(v)
      /\ \A j \in 1..Len(semtmp) : Overlaid(v)[j].num \in Num
      /\ sema' = sema
      /\ sem_undo' = [q \in Procs |-> Without(sem_undo[q], id, Num)] /\ hasUndo' = hasUndo
  BY DEF Setall
<1>6. \A s \in S : \A k \in Kind : cnt[<<s, k>>] > 0 /\ (v[s[2]] = 0 <=> k = "z") => <<s, k>> \in W
  OBVIOUS
<1> HIDE DEF id, S, W
<1>8. \A s \in S : /\ v[s[2]] # 0 /\ cnt[<<s, "n">>] > 0 => <<s, "n">> \in W
                   /\ v[s[2]] = 0 /\ cnt[<<s, "z">>] > 0 => <<s, "z">> \in W
  BY <1>6 DEF Kind
<1>9. Undos'
  BY <1>1, <1>5, WithoutUndos
<1>10. IdsKept
  BY <1>5, IdsUnchanged
<1>11. /\ semtmp' \in Seq(Operation) /\ Len(semtmp') = Len(semtmp)
      /\ UNCHANGED <<pc, call, intr, faults>>
  BY <1>5, OverlaidFacts
<1>12. QED
  BY ONLY Inv, <1>1, <1>2, <1>4, <1>8, <1>9, <1>10, <1>11, ValuesStep

(* The adjustments of one process become u, with (h) or without a structure. *)
LEMMA UndoSet ==
    ASSUME Inv, NEW p \in Procs, NEW u, NEW h \in BOOLEAN, UndoOK(u, h),
           h => hasUndo[p] \/ Cardinality(Holders) < SemMnu,
           sem_undo' = [sem_undo EXCEPT ![p] = u], hasUndo' = [hasUndo EXCEPT ![p] = h]
    PROVE  Undos'
<1>1. /\ hasUndo \in [Procs -> BOOLEAN] /\ sem_undo \in [Procs -> [Place -> -SemAem..SemAem]]
      /\ \A q \in Procs : UndoOK(sem_undo[q], hasUndo[q])
      /\ Cardinality(Holders) <= SemMnu
  BY DEF Inv, Undos
<1>2. hasUndo' \in [Procs -> BOOLEAN] /\ sem_undo' \in [Procs -> [Place -> -SemAem..SemAem]]
  <2>1. u \in [Place -> -SemAem..SemAem]
    BY DEF UndoOK
  <2> DEFINE T == [Place -> -SemAem..SemAem]
  <2>2. u \in T /\ sem_undo \in [Procs -> T]
    BY <1>1, <2>1
  <2> HIDE DEF T
  <2>3. sem_undo' \in [Procs -> T]
    BY <2>2
  <2>4. QED
    BY <1>1, <2>3 DEF T
<1>3. \A q \in Procs : UndoOK(sem_undo'[q], hasUndo'[q])
  <2> SUFFICES ASSUME NEW q \in Procs PROVE UndoOK(sem_undo'[q], hasUndo'[q])
    OBVIOUS
  <2>1. CASE q = p
    <3>1. sem_undo'[q] = u /\ hasUndo'[q] = h
      BY <1>1, <2>1
    <3>2. QED
      BY <3>1
  <2>2. CASE q # p
    <3>1. sem_undo'[q] = sem_undo[q] /\ hasUndo'[q] = hasUndo[q]
      BY <1>1, <2>2
    <3>2. QED
      BY <1>1, <3>1
  <2>3. QED
    BY <2>1, <2>2
<1>4. Cardinality(Holders') <= SemMnu
  <2> DEFINE H == Holders
             K == Holders'
  <2>1. IsFiniteSet(H) /\ Cardinality(H) \in Nat /\ IsFiniteSet(K) /\ Cardinality(K) \in Nat
    <3>1. H \subseteq Procs /\ K \subseteq Procs
      BY DEF Holders
    <3>2. QED
      BY <3>1, SemAssumption, FS_Subset, FS_CardinalityType
  <2>2. K \subseteq H \cup {p} /\ (~h => K \subseteq H) /\ (hasUndo[p] <=> p \in H)
    BY <1>1 DEF Holders
  <2>3. Cardinality(H) <= SemMnu /\ SemMnu \in Nat /\ (h => p \in H \/ Cardinality(H) < SemMnu)
    BY <1>1, <2>2, SemAssumption
  <2> HIDE DEF H, K
  <2>4. CASE K \subseteq H
    <3>1. Cardinality(K) <= Cardinality(H)
      BY <2>1, <2>4, FS_Subset
    <3>2. Cardinality(K) <= SemMnu
      BY <2>1, <2>3, <3>1
    <3>3. QED
      BY <3>2 DEF K
  <2>5. CASE ~(K \subseteq H)
    <3>1. p \notin H /\ h
      BY <2>2, <2>5
    <3>2. IsFiniteSet(H \cup {p}) /\ Cardinality(H \cup {p}) = Cardinality(H) + 1
      BY <2>1, <3>1, FS_AddElement
    <3>3. Cardinality(K) <= Cardinality(H \cup {p})
      BY <2>2, <3>2, FS_Subset
    <3>4. Cardinality(K) <= SemMnu
      BY <2>1, <2>3, <3>1, <3>2, <3>3
    <3>5. QED
      BY <3>4 DEF K
  <2>6. QED
    BY <2>4, <2>5
<1>5. \A q \in Procs : UndoOK(sem_undo[q], hasUndo[q])'
  BY <1>3 DEF UndoOK, EntriesOf
<1>6. QED
  BY <1>2, <1>4, <1>5 DEF Undos

LEMMA AppliedFacts ==
    ASSUME Inv, NEW p \in Procs, NEW x \in Applied(p)
    PROVE  /\ x \in Place /\ SemOf(x[1], x[2]) \in Sem
           /\ sem_undo[p][x] \in Int /\ NewValue(p, x) \in 0..SemVmx
<1>1. x \in Place /\ NewValue(p, x) \in 0..SemVmx
  BY DEF Applied, Applies, Place
<1>2. x[1] \in Id /\ x[2] \in Num
  BY <1>1 DEF Place
<1>3. sem_undo[p] \in [Place -> -SemAem..SemAem] /\ SemAem \in Nat
  BY SemAssumption DEF Inv, Undos
<1>4. BasesOK
  BY InvBegins DEF Begins
<1>5. QED
  BY <1>1, <1>2, <1>3, <1>4, SemOfFacts

LEMMA SemexitStep ==
    ASSUME Inv, NEW p \in Procs, Semexit(p)
    PROVE  Inv'
<1> DEFINE S == {SemOf(x[1], x[2]) : x \in Applied(p)}
           v == [s \in S |-> NewValue(p, AppliedTo(p, s))]
           aoe(s) == sem_undo[p][AppliedTo(p, s)]
           W == {c \in S \X Kind : cnt[c] > 0 /\ c[2] \in ExitWakes(v[c[1]], aoe(c[1]))}
           none == [x \in Id \X Num |-> 0]
<1>1. /\ semval' = [s \in Sem |-> IF s \in S THEN v[s] ELSE semval[s]]
      /\ cnt' = [c \in Sem \X Kind |-> IF c \in W THEN 0 ELSE cnt[c]]
      /\ Wakeup(W)
      /\ sem_undo' = [sem_undo EXCEPT ![p] = none]
      /\ hasUndo' = [hasUndo EXCEPT ![p] = FALSE]
      /\ UNCHANGED <<sema, semtmp, pc, call, intr, faults>>
  BY DEF Semexit
<1>2. semval \in [Sem -> 0..SemVmx] /\ SemVmx \in Nat
  BY SemAssumption DEF Inv, Typing
<1>3. ASSUME NEW s \in S PROVE AppliedTo(p, s) \in Applied(p) /\ SemOf(AppliedTo(p, s)[1], AppliedTo(p, s)[2]) = s
  <2>1. \E x \in Applied(p) : SemOf(x[1], x[2]) = s
    OBVIOUS
  <2>2. QED
    BY <2>1 DEF AppliedTo
<1>4. S \subseteq Sem
  BY AppliedFacts
<1>5. W \subseteq Chan
  BY <1>4 DEF Chan
<1>6. ASSUME NEW s \in S
      PROVE  v[s] = semval[s] + aoe(s) /\ aoe(s) \in Int /\ v[s] \in 0..SemVmx
  <2> DEFINE x == AppliedTo(p, s)
  <2>1. x \in Applied(p) /\ SemOf(x[1], x[2]) = s /\ v[s] = NewValue(p, x) /\ aoe(s) = sem_undo[p][x]
    BY <1>3
  <2> HIDE DEF x, v, aoe
  <2>2. QED
    BY <2>1, AppliedFacts DEF NewValue
<1>7. \A s \in S, k \in Kind : cnt[<<s, k>>] > 0 /\ k \in ExitWakes(v[s], aoe(s)) => <<s, k>> \in W
  <2> HIDE DEF S, v, aoe
  <2>1. QED
    OBVIOUS
<1> HIDE DEF S, v, aoe, W
<1>8. semval' \in [Sem -> 0..SemVmx]
  <2>1. \A s \in Sem : (IF s \in S THEN v[s] ELSE semval[s]) \in 0..SemVmx
    BY <1>2, <1>6
  <2>2. QED
    BY <1>1, <2>1
<1>9. ASSUME NEW s \in Sem PROVE Keeps(s, W)
  <2>1. semval[s] \in Int /\ semval'[s] = IF s \in S THEN v[s] ELSE semval[s]
    BY <1>1, <1>2
  <2>2. CASE s \notin S
    BY <2>1, <2>2 DEF Keeps
  <2>3. CASE s \in S
    <3> DEFINE x == v[s]
               a == aoe(s)
    <3>1. /\ x = semval[s] + a /\ a \in Int /\ x \in 0..SemVmx /\ semval'[s] = x
          /\ \A k \in Kind : cnt[<<s, k>>] > 0 /\ k \in ExitWakes(x, a) => <<s, k>> \in W
      BY <1>6, <1>7, <2>1, <2>3
    <3> HIDE DEF x, a
    <3>2. "n" \in Kind /\ "z" \in Kind
      BY DEF Kind
    <3>3. (a > 0 => "n" \in ExitWakes(x, a)) /\ (x = 0 => "z" \in ExitWakes(x, a))
      BY DEF ExitWakes
    <3>4. cnt[<<s, "n">>] > 0 /\ <<s, "n">> \notin W => ~(a > 0)
      BY <3>1, <3>2, <3>3
    <3>5. cnt[<<s, "z">>] > 0 /\ <<s, "z">> \notin W => x # 0
      BY <3>1, <3>2, <3>3
    <3>6. ~(a > 0) => x <= semval[s]
      BY <2>1, <3>1
    <3>7. QED
      BY <3>1, <3>4, <3>5, <3>6 DEF Keeps
  <2>4. QED
    BY <2>2, <2>3
<1>10. /\ chan' = [q \in Procs |-> IF chan[q] \in W THEN Nowhere ELSE chan[q]]
       /\ cnt' = [c \in Chan |-> IF c \in W THEN 0 ELSE cnt[c]]
  BY <1>1 DEF Wakeup, Chan
<1>11. /\ semtmp' \in Seq(Operation) /\ Len(semtmp') = Len(semtmp)
      /\ UNCHANGED <<pc, call, intr, faults>>
  BY <1>1 DEF Inv, Typing
<1>12. IdsKept
  BY <1>1, IdsUnchanged
<1>13. Undos'
  <2>1. UndoOK(none, FALSE)
    <3>1. SemAem \in Nat /\ SemUme \in Nat
      BY SemAssumption
    <3>2. EntriesOf(none) = {}
      BY DEF EntriesOf, Place
    <3>3. Cardinality(EntriesOf(none)) = 0
      BY <3>2, FS_EmptySet
    <3>4. none \in [Place -> -SemAem..SemAem]
      BY <3>1 DEF Place
    <3> HIDE DEF none
    <3>5. QED
      BY <3>1, <3>2, <3>3, <3>4 DEF UndoOK
  <2> HIDE DEF none
  <2>2. QED
    BY <1>1, <2>1, UndoSet
<1>14. QED
  BY ONLY Inv, <1>5, <1>8, <1>9, <1>10, <1>11, <1>12, <1>13, Woke

LEMMA SignalStep ==
    ASSUME Inv, NEW p \in Procs, Signal(p)
    PROVE  Inv'
<1>1. /\ pc[p] = "asleep" /\ ~intr[p]
      /\ intr' = [intr EXCEPT ![p] = TRUE]
      /\ chan' = [chan EXCEPT ![p] = Nowhere]
      /\ UNCHANGED <<sema, semval, cnt, sem_undo, hasUndo, semtmp, pc, call, faults>>
  BY DEF Signal
<1>2. Typing
  BY DEF Inv
<1>3. Typing'
  BY <1>1, <1>2 DEF Typing
<1>4. Undos'
  BY <1>1, UndosUnchanged
<1>5. /\ intr \in [Procs -> BOOLEAN] /\ chan \in [Procs -> Chan \cup {Nowhere}]
      /\ intr'[p] = TRUE /\ chan'[p] = Nowhere
      /\ \A q \in Procs : q # p => intr'[q] = intr[q] /\ chan'[q] = chan[q]
  BY <1>1, <1>2 DEF Typing
<1>6. Counted'
  <2>1. \A q \in Procs : chan'[q] # Nowhere => cnt'[chan'[q]] > 0
    BY <1>1, <1>5 DEF Inv, Counted
  <2>2. ASSUME NEW c \in Chan PROVE cnt'[c] <= Cardinality(Waits(c)')
    <3>1. Waits(c) \subseteq Waits(c)'
      BY <1>1, <1>5 DEF Waits
    <3>2. Waits(c)' \subseteq Procs /\ IsFiniteSet(Procs)
      BY SemAssumption DEF Waits
    <3>3. IsFiniteSet(Waits(c)') /\ Cardinality(Waits(c)') \in Nat /\ Cardinality(Waits(c)) \in Nat
      BY <3>2, FS_Subset, FS_CardinalityType, WaitsFinite
    <3>4. Cardinality(Waits(c)) <= Cardinality(Waits(c)')
      BY <3>1, <3>3, FS_Subset
    <3>5. cnt'[c] <= Cardinality(Waits(c)) /\ cnt'[c] \in Nat
      BY <1>1, <1>2 DEF Inv, Counted, Typing
    <3>6. QED
      BY <3>3, <3>4, <3>5
  <2>3. QED
    BY <2>1, <2>2 DEF Counted
<1>7. ASSUME NEW q \in Procs PROVE InPlace(q)' /\ Current(q)' /\ Reason(q)'
  <2>1. InPlace(q) /\ Current(q) /\ Reason(q)
    BY DEF Inv
  <2>2. Current(q)'
    BY <1>1, <2>1 DEF Current
  <2>3. CASE q = p
    <3>1. InPlace(q)'
      BY <1>1, <1>5, <2>1, <2>3 DEF InPlace
    <3>2. Reason(q)'
      BY <1>5, <2>3 DEF Reason
    <3>3. QED
      BY <2>2, <3>1, <3>2
  <2>4. CASE q # p
    <3>1. InPlace(q)'
      BY <1>1, <1>5, <2>1, <2>4 DEF InPlace
    <3>2. Reason(q)'
      BY <1>1, <1>5, <2>1, <2>4 DEF Reason, Valid, SemOf, Stuck
    <3>3. QED
      BY <2>2, <3>1, <3>2
  <2>5. QED
    BY <2>3, <2>4
<1>8. QED
  BY <1>3, <1>4, <1>6, <1>7 DEF Inv

-----------------------------------------------------------------------------
LEMMA NoCallType == NoCall \in CallType
<1>1. <<0, 0>> \in Id
  BY SemAssumption DEF Id, Slot
<1>2. << >> \in Seq(Operation)
  OBVIOUS
<1>3. QED
  BY <1>1, <1>2 DEF NoCall, CallType

(* A process that takes no part in a step but may be woken by it. *)
LEMMA OtherKept ==
    ASSUME Inv, NEW q \in Procs, NEW W, sema' = sema,
           pc'[q] = pc[q], call'[q] = call[q], intr'[q] = intr[q],
           chan'[q] = IF chan[q] \in W THEN Nowhere ELSE chan[q],
           semval' \in [Sem -> 0..SemVmx], \A s \in Sem : Keeps(s, W),
           pc[q] = "fault" => call[q].from - 1 <= Len(semtmp')
    PROVE  InPlace(q)' /\ Current(q)' /\ Reason(q)'
<1>1. InPlace(q) /\ Current(q)
  BY DEF Inv
<1>2. InPlace(q)'
  BY <1>1 DEF InPlace
<1>3. Current(q)'
  BY <1>1 DEF Current
<1>4. Same(q)
  BY DEF Same, Valid
<1>5. Reason(q)'
  BY <1>4, ReasonKept
<1>6. QED
  BY <1>2, <1>3, <1>5

LEMMA ReturnFacts ==
    ASSUME Inv, NEW p \in Procs, NEW e, Return(p, e)
    PROVE  /\ pc' \in [Procs -> {"user", "fault", "asleep"}] /\ call' \in [Procs -> CallType]
           /\ intr' \in [Procs -> BOOLEAN]
           /\ pc'[p] = "user" /\ call'[p] = NoCall /\ intr'[p] = FALSE
           /\ \A q \in Procs : q # p => pc'[q] = pc[q] /\ call'[q] = call[q] /\ intr'[q] = intr[q]
<1>1. /\ pc \in [Procs -> {"user", "fault", "asleep"}] /\ call \in [Procs -> CallType]
      /\ intr \in [Procs -> BOOLEAN]
  BY DEF Inv, Typing
<1>2. QED
  BY <1>1, NoCallType DEF Return

LEMMA WakeupFacts ==
    ASSUME Inv, NEW W, Wakeup(W)
    PROVE  /\ chan' \in [Procs -> Chan \cup {Nowhere}]
           /\ \A q \in Procs : chan'[q] = IF chan[q] \in W THEN Nowhere ELSE chan[q]
BY DEF Inv, Typing, Wakeup

(* A process in user mode after the step is in its place. *)
LEMMA UserPlace ==
    ASSUME NEW p \in Procs, pc'[p] = "user", chan'[p] = Nowhere, intr'[p] = FALSE
    PROVE  InPlace(p)' /\ Current(p)' /\ Reason(p)'
BY DEF InPlace, Current, Reason

LEMMA InterruptedStep ==
    ASSUME Inv, NEW p \in Procs, Interrupted(p)
    PROVE  Inv'
<1> DEFINE c == call[p].on
           W == IF cnt[c] <= 1 THEN {c} ELSE {}
<1>1. /\ pc[p] = "asleep" /\ chan[p] = Nowhere /\ intr[p]
      /\ cnt' = [cnt EXCEPT ![c] = IF @ <= 1 THEN 0 ELSE @ - 1]
      /\ Wakeup(W) /\ Return(p, "EINTR")
      /\ UNCHANGED <<sema, semval, sem_undo, hasUndo, semtmp, faults>>
  BY DEF Interrupted, Woken, Slept, LastLeaves
<1>2. Typing /\ c \in Chan /\ cnt \in [Chan -> Nat] /\ cnt[c] \in Nat
  <2>1. Typing /\ InPlace(p)
    BY DEF Inv
  <2>2. c \in Chan
    BY <1>1, <2>1 DEF InPlace
  <2> HIDE DEF c
  <2>3. QED
    BY <2>1, <2>2 DEF Typing
<1>3. /\ pc' \in [Procs -> {"user", "fault", "asleep"}] /\ call' \in [Procs -> CallType]
      /\ intr' \in [Procs -> BOOLEAN]
      /\ pc'[p] = "user" /\ call'[p] = NoCall /\ intr'[p] = FALSE
      /\ \A q \in Procs : q # p => pc'[q] = pc[q] /\ call'[q] = call[q] /\ intr'[q] = intr[q]
  BY <1>1, ReturnFacts
<1>4. /\ chan' \in [Procs -> Chan \cup {Nowhere}]
      /\ \A q \in Procs : chan'[q] = IF chan[q] \in W THEN Nowhere ELSE chan[q]
  <2> HIDE DEF W
  <2>1. QED
    BY <1>1, WakeupFacts
<1>5. chan'[p] = Nowhere
  BY <1>1, <1>4
<1>6. p \in Waits(c)
  BY <1>1 DEF Waits
<1>7. cnt[c] <= Cardinality(Waits(c))
  BY <1>2 DEF Inv, Counted
<1> HIDE DEF c
<1>8. cnt' \in [Chan -> Nat] /\ cnt'[c] = (IF cnt[c] <= 1 THEN 0 ELSE cnt[c] - 1) /\ \A d \in Chan : d # c => cnt'[d] = cnt[d]
  <2> DEFINE n == IF cnt[c] <= 1 THEN 0 ELSE cnt[c] - 1
  <2>1. n \in Nat
    BY <1>2
  <2>2. cnt' = [cnt EXCEPT ![c] = n]
    BY <1>1, <1>2
  <2> HIDE DEF n
  <2>3. cnt' \in [Chan -> Nat] /\ cnt'[c] = n /\ \A d \in Chan : d # c => cnt'[d] = cnt[d]
    BY <1>2, <2>1, <2>2
  <2>4. QED
    BY <2>3 DEF n
<1>9. Typing'
  BY <1>1, <1>2, <1>3, <1>4, <1>8 DEF Typing
<1>10. Undos'
  BY <1>1, UndosUnchanged
<1>11. ASSUME NEW q \in Procs, chan'[q] # Nowhere PROVE cnt'[chan'[q]] > 0
  <2> DEFINE d == chan[q]
  <2>1. chan'[q] = d /\ d \notin W /\ d # Nowhere
    BY <1>4, <1>11
  <2>2. d \in Chan /\ cnt[d] > 0
    BY <1>2, <2>1 DEF Inv, Typing, Counted
  <2> HIDE DEF d
  <2>3. CASE d = c
    BY <1>2, <1>8, <2>1, <2>2, <2>3
  <2>4. CASE d # c
    BY <1>8, <2>1, <2>2, <2>4
  <2>5. QED
    BY <2>3, <2>4
<1>12. ASSUME NEW d \in Chan PROVE cnt'[d] <= Cardinality(Waits(d)')
  <2>1. Waits(d)' \subseteq Procs /\ IsFiniteSet(Procs)
    BY SemAssumption DEF Waits
  <2>2. Cardinality(Waits(d)') \in Nat
    BY <2>1, FS_Subset, FS_CardinalityType
  <2>3. CASE d \in W
    <3>1. cnt'[d] = 0
      BY <1>8, <2>3
    <3>2. QED
      BY <2>2, <3>1
  <2>4. CASE d \notin W
    <3>1. \A q \in Procs : chan'[q] = d <=> chan[q] = d
      BY <1>4, <2>4, NowhereElse
    <3>2. Waits(d)' = Waits(d) \ {p}
      BY <1>3, <3>1 DEF Waits
    <3>3. CASE d = c
      <4>1. IsFiniteSet(Waits(d)) /\ Cardinality(Waits(d)) \in Nat
        BY WaitsFinite
      <4>2. Cardinality(Waits(d)') = Cardinality(Waits(d)) - 1
        BY <1>6, <3>2, <3>3, <4>1, FS_RemoveElement
      <4>3. ~(cnt[c] <= 1)
        BY <2>4, <3>3
      <4>4. QED
        BY <1>2, <1>7, <1>8, <3>3, <4>1, <4>2, <4>3
    <3>4. CASE d # c
      <4>1. p \notin Waits(d)
        BY <3>4 DEF Waits, c
      <4>2. Waits(d)' = Waits(d)
        BY <3>2, <4>1
      <4>3. QED
        BY <1>8, <3>4, <4>2 DEF Inv, Counted
    <3>5. QED
      BY <3>3, <3>4
  <2>5. QED
    BY <2>3, <2>4
<1> HIDE DEF W
<1>13. ASSUME NEW q \in Procs PROVE InPlace(q)' /\ Current(q)' /\ Reason(q)'
  <2>1. CASE q = p
    BY <1>3, <1>5, <2>1, UserPlace
  <2>2. CASE q # p
    <3>1. pc'[q] = pc[q] /\ call'[q] = call[q] /\ intr'[q] = intr[q]
      BY <1>3, <2>2
    <3>2. semval' \in [Sem -> 0..SemVmx] /\ \A s \in Sem : Keeps(s, W)
      <4>1. semval' = semval /\ semval \in [Sem -> 0..SemVmx] /\ semval \in [Sem -> Int]
        BY <1>1, SemAssumption DEF Inv, Typing
      <4>2. QED
        BY <4>1 DEF Keeps
    <3>3. pc[q] = "fault" => call[q].from - 1 <= Len(semtmp')
      BY <1>1 DEF Inv, InPlace
    <3>4. chan'[q] = IF chan[q] \in W THEN Nowhere ELSE chan[q]
      BY <1>4
    <3>5. sema' = sema
      BY <1>1
    <3>6. QED
      BY ONLY Inv, <3>1, <3>2, <3>3, <3>4, <3>5, OtherKept
  <2>3. QED
    BY <2>1, <2>2
<1>14. Counted'
  BY <1>11, <1>12 DEF Counted
<1>15. QED
  BY <1>9, <1>10, <1>13, <1>14 DEF Inv

-----------------------------------------------------------------------------
(* p may go on copying in the operations of the call c. *)
Ready(p, c) ==
    /\ c \in CallType /\ c.from \in 1..Len(c.ops) /\ c.from - 1 <= Len(semtmp)
    /\ chan[p] = Nowhere /\ ~intr[p]
    /\ c.id[2] <= sema[c.id[1]].seq
    /\ c.id[2] = sema[c.id[1]].seq => sema[c.id[1]].alloc

LEMMA MaxOfTwo ==
    ASSUME NEW a \in Nat, NEW b \in Nat
    PROVE  Max({a, b}) \in {a, b} /\ a <= Max({a, b}) /\ b <= Max({a, b})
<1>1. \E x \in {a, b} : \A y \in {a, b} : x >= y
  <2>1. CASE a >= b
    BY <2>1
  <2>2. CASE ~(a >= b)
    <3>1. b >= a
      BY <2>2
    <3>2. QED
      BY <3>1
  <2>3. QED
    BY <2>1, <2>2
<1>2. Max({a, b}) \in {a, b} /\ \A y \in {a, b} : Max({a, b}) >= y
  BY <1>1 DEF Max
<1>3. QED
  BY <1>2

LEMMA ReadyFacts ==
    ASSUME Inv, NEW p \in Procs, NEW c, Ready(p, c)
    PROVE  /\ c.id \in Id /\ c.id[1] \in Slot /\ c.ops \in Seq(Operation) /\ c.from \in Nat
           /\ c.tried \in Seq(Operation) /\ c.on \in Chan \cup {Nowhere}
           /\ semtmp \in Seq(Operation) /\ Len(c.ops) \in Nat /\ Len(semtmp) \in Nat /\ c.ops # << >>
BY DEF Inv, Typing, Ready, CallType, Id

LEMMA CopiedFacts ==
    ASSUME Inv, NEW p \in Procs, NEW c, Ready(p, c), NEW n \in (c.from - 1)..Len(c.ops)
    PROVE  /\ Copied(c, n) \in Seq(Operation) /\ Len(Copied(c, n)) \in Nat
           /\ n <= Len(Copied(c, n)) /\ Len(semtmp) <= Len(Copied(c, n))
<1> DEFINE M == Max({n, Len(semtmp)})
           ops == c.ops
           tmp == semtmp
           from == c.from
           t == [i \in 1..M |-> IF i \in from..n THEN ops[i] ELSE tmp[i]]
<1>1. /\ ops \in Seq(Operation) /\ tmp \in Seq(Operation) /\ from \in 1..Len(ops) /\ from - 1 <= Len(tmp)
      /\ Len(ops) \in Nat /\ Len(tmp) \in Nat /\ from \in Nat /\ n \in Nat /\ from - 1 <= n /\ n <= Len(ops)
  BY ReadyFacts DEF Ready
<1>2. M \in Nat /\ n <= M /\ Len(tmp) <= M /\ M \in {n, Len(tmp)}
  <2>1. M \in {n, Len(tmp)} /\ n <= M /\ Len(tmp) <= M
    BY <1>1, MaxOfTwo
  <2> HIDE DEF M
  <2>2. QED
    BY <1>1, <2>1
<1>3. Copied(c, n) = t
  BY DEF Copied
<1> HIDE DEF M, ops, tmp, from
<1>4. ASSUME NEW i \in 1..M PROVE (IF i \in from..n THEN ops[i] ELSE tmp[i]) \in Operation
  <2>1. CASE i \in from..n
    <3>1. i \in 1..Len(ops)
      BY <1>1, <2>1
    <3>2. QED
      BY <1>1, <2>1, <3>1
  <2>2. CASE i \notin from..n
    <3>1. i \in 1..Len(tmp)
      <4>1. i \in Int /\ 1 <= i /\ i <= M
        BY <1>2
      <4>2. CASE i < from
        BY <1>1, <4>1, <4>2
      <4>3. CASE ~(i < from)
        <5>1. i > n
          BY <1>1, <2>2, <4>1, <4>3
        <5>2. M = Len(tmp)
          BY <1>1, <1>2, <4>1, <5>1
        <5>3. QED
          BY <4>1, <5>2
      <4>4. QED
        BY <4>2, <4>3
    <3>2. QED
      BY <1>1, <2>2, <3>1
  <2>3. QED
    BY <2>1, <2>2
<1>5. t \in Seq(Operation) /\ Len(t) = M
  BY <1>2, <1>4
<1> HIDE DEF t
<1>6. QED
  BY <1>2, <1>3, <1>5 DEF ops, tmp

LEMMA FaultStep ==
    ASSUME Inv, NEW p \in Procs, NEW c, Ready(p, c), NEW i \in c.from..Len(c.ops), Fault(p, c, i)
    PROVE  Inv'
<1> DEFINE t == Copied(c, i - 1)
           d == [c EXCEPT !.from = i]
<1>1. /\ semtmp' = t
      /\ pc' = [pc EXCEPT ![p] = "fault"]
      /\ call' = [call EXCEPT ![p] = d]
      /\ faults < MaxFaults /\ faults' = faults + 1
      /\ UNCHANGED <<sema, semval, cnt, sem_undo, hasUndo, chan, intr>>
  BY DEF Fault
<1>2. /\ c.id \in Id /\ c.ops \in Seq(Operation) /\ c.from \in Nat /\ c.tried \in Seq(Operation)
      /\ c.on \in Chan \cup {Nowhere} /\ semtmp \in Seq(Operation) /\ Len(c.ops) \in Nat
      /\ Len(semtmp) \in Nat
  BY ReadyFacts
<1>3. c.from \in 1..Len(c.ops) /\ i \in Nat /\ i - 1 \in Nat /\ i \in 1..Len(c.ops) /\ c.from - 1 <= Len(semtmp)
  BY <1>2 DEF Ready
<1>4. Typing /\ chan[p] = Nowhere /\ ~intr[p] /\ c \in CallType
  BY DEF Inv, Ready
<1>5. i - 1 \in (c.from - 1)..Len(c.ops)
  BY <1>2, <1>3
<1>6. t \in Seq(Operation) /\ Len(t) \in Nat /\ i - 1 <= Len(t) /\ Len(semtmp) <= Len(t)
  BY <1>5, CopiedFacts
<1> HIDE DEF t
<1>7. d \in CallType /\ d.from = i /\ d.ops = c.ops /\ d.id = c.id
  BY <1>3, <1>4 DEF CallType
<1> HIDE DEF d
<1>8. /\ pc' \in [Procs -> {"user", "fault", "asleep"}] /\ call' \in [Procs -> CallType]
      /\ pc'[p] = "fault" /\ call'[p] = d
      /\ \A q \in Procs : q # p => pc'[q] = pc[q] /\ call'[q] = call[q]
  BY <1>1, <1>4, <1>7 DEF Typing
<1>9. Typing'
  <2>1. faults' \in 0..MaxFaults
    BY <1>1, <1>4, SemAssumption DEF Typing
  <2>2. QED
    BY <1>1, <1>4, <1>6, <1>8, <2>1 DEF Typing
<1>10. Undos'
  BY <1>1, UndosUnchanged
<1>11. Counted'
  <2>1. \A e \in Chan : p \notin Waits(e)
    BY <1>4, NowhereElse DEF Waits
  <2>2. \A e \in Chan : Waits(e)' = Waits(e)
    <3>1. \A e \in Chan : p \notin Waits(e)'
      BY <1>8 DEF Waits
    <3>2. \A e \in Chan, q \in Procs : q # p => (q \in Waits(e)' <=> q \in Waits(e))
      BY <1>1, <1>8 DEF Waits
    <3>3. \A e \in Chan : Waits(e) \subseteq Procs /\ Waits(e)' \subseteq Procs
      BY DEF Waits
    <3>4. ASSUME NEW e \in Chan PROVE Waits(e)' = Waits(e)
      <4>1. \A q \in Procs : q \in Waits(e)' <=> q \in Waits(e)
        BY <2>1, <3>1, <3>2
      <4>2. QED
        BY <3>3, <4>1
    <3>5. QED
      BY <3>4
  <2>3. QED
    BY <1>1, <2>2 DEF Inv, Counted
<1>12. ASSUME NEW q \in Procs PROVE InPlace(q)' /\ Current(q)' /\ Reason(q)'
  <2>1. CASE q = p
    <3>1. InPlace(p)'
      <4>1. d.from \in 1..Len(d.ops) /\ d.from - 1 <= Len(semtmp')
        BY <1>1, <1>3, <1>6, <1>7
      <4>2. QED
        BY <1>1, <1>4, <1>8, <4>1 DEF InPlace
    <3>2. Current(p)'
      BY <1>1, <1>7, <1>8 DEF Current, Ready
    <3>3. Reason(p)'
      BY <1>1, <1>4 DEF Reason
    <3>4. QED
      BY <2>1, <3>1, <3>2, <3>3
  <2>2. CASE q # p
    <3>1. pc'[q] = pc[q] /\ call'[q] = call[q] /\ intr'[q] = intr[q]
      BY <1>1, <1>8, <2>2
    <3>2. semval' \in [Sem -> 0..SemVmx] /\ \A s \in Sem : Keeps(s, {})
      <4>1. semval' = semval /\ semval \in [Sem -> 0..SemVmx] /\ semval \in [Sem -> Int]
        BY <1>1, SemAssumption DEF Inv, Typing
      <4>2. QED
        BY <4>1 DEF Keeps
    <3>3. pc[q] = "fault" => call[q].from - 1 <= Len(semtmp')
      <4>1. pc[q] = "fault" => call[q].from \in 1..Len(call[q].ops) /\ call[q].from - 1 <= Len(semtmp)
        BY DEF Inv, InPlace
      <4>2. Len(semtmp) <= Len(semtmp') /\ Len(semtmp') \in Nat
        BY <1>1, <1>6
      <4>3. QED
        BY <1>2, <4>1, <4>2
    <3>4. chan'[q] = IF chan[q] \in {} THEN Nowhere ELSE chan[q]
      BY <1>1
    <3>5. sema' = sema
      BY <1>1
    <3>6. QED
      BY ONLY Inv, <3>1, <3>2, <3>3, <3>4, <3>5, OtherKept
  <2>3. QED
    BY <2>1, <2>2
<1>13. QED
  BY <1>9, <1>10, <1>11, <1>12 DEF Inv

(* Everyone but p, when p performs its operations and wakes who waits for W. *)
LEMMA PerformOthers ==
    ASSUME Inv, NEW p \in Procs, NEW c, Ready(p, c), NEW tmp, Len(semtmp) <= Len(tmp), Len(tmp) \in Nat,
           Perform(p, c, tmp), NEW W, semval' \in [Sem -> 0..SemVmx], \A s \in Sem : Keeps(s, W),
           NEW q \in Procs, q # p, pc'[q] = pc[q], call'[q] = call[q], intr'[q] = intr[q],
           chan'[q] = IF chan[q] \in W THEN Nowhere ELSE chan[q]
    PROVE  InPlace(q)' /\ Current(q)' /\ Reason(q)'
<1>1. sema' = sema /\ semtmp' = IF \E r \in Procs \ {p} : pc[r] = "fault" THEN tmp ELSE << >>
  BY DEF Perform, Left
<1>2. pc[q] = "fault" => call[q].from - 1 <= Len(semtmp')
  <2> SUFFICES ASSUME pc[q] = "fault" PROVE call[q].from - 1 <= Len(semtmp')
    OBVIOUS
  <2>1. semtmp' = tmp
    BY <1>1
  <2>2. call[q].from - 1 <= Len(semtmp)
    BY DEF Inv, InPlace
  <2>3. call[q].from \in Nat /\ Len(semtmp) \in Nat
    <3>1. call[q] \in CallType /\ semtmp \in Seq(Operation)
      BY DEF Inv, Typing
    <3>2. QED
      BY <3>1 DEF CallType
  <2>4. QED
    BY <2>1, <2>2, <2>3
<1>3. QED
  BY <1>1, <1>2, OtherKept

(* What semop leaves of the counts before it counts itself in. *)
LEMMA PerformCounts ==
    ASSUME Inv, NEW p \in Procs, NEW id, NEW w, Unwoken(Work(p, id), w), w \in Works,
           chan[p] = Nowhere, ~intr[p],
           \A q \in Procs : q # p =>
              /\ pc'[q] = pc[q] /\ call'[q] = call[q] /\ intr'[q] = intr[q]
              /\ chan'[q] = IF chan[q] \in w.woken THEN Nowhere ELSE chan[q],
           NEW d \in Chan
    PROVE  /\ w.cnt[d] \in Nat /\ w.cnt[d] <= Cardinality(Waits(d)' \ {p})
           /\ IsFiniteSet(Waits(d)' \ {p}) /\ Cardinality(Waits(d)' \ {p}) \in Nat
<1> DEFINE T == Waits(d)' \ {p}
<1>1. IsFiniteSet(T) /\ Cardinality(T) \in Nat
  <2>1. T \subseteq Procs /\ IsFiniteSet(Procs)
    BY SemAssumption DEF Waits
  <2>2. QED
    BY <2>1, FS_Subset, FS_CardinalityType
<1>2. w.cnt[d] \in Nat
  BY WorkFacts
<1>3. w.cnt[d] = IF d \in w.woken THEN 0 ELSE cnt[d]
  BY DEF Unwoken, Work
<1>4. CASE d \in w.woken
  BY <1>1, <1>2, <1>3, <1>4
<1>5. CASE d \notin w.woken
  <2>1. p \notin Waits(d)
    BY NowhereElse DEF Waits
  <2>2. \A q \in Procs : q # p => (q \in Waits(d)' <=> q \in Waits(d))
    <3> SUFFICES ASSUME NEW q \in Procs, q # p PROVE q \in Waits(d)' <=> q \in Waits(d)
      OBVIOUS
    <3>1. chan'[q] = d <=> chan[q] = d
      BY <1>5, NowhereElse
    <3>2. QED
      BY <3>1 DEF Waits
  <2>3. Waits(d) \subseteq Procs /\ Waits(d)' \subseteq Procs
    BY DEF Waits
  <2>4. T = Waits(d)
    <3>1. \A q : q \in T <=> q \in Waits(d)
      BY <2>1, <2>2, <2>3
    <3> HIDE DEF T
    <3>2. QED
      BY <3>1
  <2>5. cnt[d] <= Cardinality(Waits(d))
    BY DEF Inv, Counted
  <2>6. QED
    BY <1>1, <1>2, <1>3, <1>5, <2>4, <2>5
<1>6. QED
  BY <1>4, <1>5

(* What AllOrNothing asks of a step, and what it makes of u_error. *)
AllOrNothingNow ==
    /\ u_error' \in Errno \cup {"none", u_error}
    /\ (u_error' # "none" \/ \E q \in Procs : chan[q] = Nowhere /\ chan'[q] # Nowhere)
         => UNCHANGED <<semval, sem_undo>>

(* A step without an error in which no process falls asleep. *)
LEMMA SuccessOutcome ==
    ASSUME u_error' = "none", NEW W, Wakeup(W)
    PROVE  AllOrNothingNow
<1>1. \A q \in Procs : chan'[q] # Nowhere => chan[q] # Nowhere
  BY DEF Wakeup
<1>2. QED
  BY <1>1 DEF AllOrNothingNow

(* A step that leaves values and adjustments alone. *)
LEMMA UntouchedOutcome ==
    ASSUME u_error' \in Errno \cup {"none"}, UNCHANGED <<semval, sem_undo>>
    PROVE  AllOrNothingNow
BY DEF AllOrNothingNow

LEMMA PerformStep ==
    ASSUME Inv, NEW p \in Procs, NEW c, Ready(p, c), NEW tmp \in Seq(Operation),
           Len(c.ops) <= Len(tmp), Len(semtmp) <= Len(tmp), Perform(p, c, tmp)
    PROVE  Inv' /\ AllOrNothingNow
<1> DEFINE ops == SubSeq(tmp, 1, Len(c.ops))
           id == c.id
           w == DoAll(p, id, ops)
           o == ops[w.done + 1]
           ch == <<SemOf(id, o.num), w.at>>
           W == w.woken
           d == [c EXCEPT !.from = 1, !.tried = ops, !.on = ch]
<1>1. /\ id \in Id /\ id[1] \in Slot /\ c.ops \in Seq(Operation) /\ Len(c.ops) \in Nat /\ Len(tmp) \in Nat
      /\ chan[p] = Nowhere /\ ~intr[p] /\ c \in CallType /\ Typing /\ c.ops # << >>
  BY ReadyFacts DEF Inv, Ready
<1>2. ops \in Seq(Operation) /\ Len(ops) = Len(c.ops)
  BY <1>1
<1>3. /\ semtmp' = (IF \E q \in Procs \ {p} : pc[q] = "fault" THEN tmp ELSE << >>)
      /\ semval' = w.val
      /\ sem_undo' = [sem_undo EXCEPT ![p] = w.undo]
      /\ hasUndo' = [hasUndo EXCEPT ![p] = w.has]
      /\ UNCHANGED <<sema, faults>>
  BY DEF Perform, Left
<1>4. Outcome(p, c, ops, w)
  BY DEF Perform
<1> HIDE DEF ops
<1>5. Begins(p)
  BY InvBegins
<1>6. AllDone(p, id, ops, w)
  <2> HIDE DEF id
  <2>1. QED
    BY <1>1, <1>2, <1>5, DoAllFacts
<1>7. Distinct(ops) => Stuckness(id, ops, w)
  <2> HIDE DEF id
  <2>1. QED
    BY <1>1, <1>2, <1>5, DoAllStuck
<1> HIDE DEF w
<1>8. /\ w \in Works /\ Unwoken(Work(p, id), w) /\ w.val \in [Sem -> 0..SemVmx]
      /\ UndoOK(w.undo, w.has) /\ w.has \in BOOLEAN /\ w.cnt \in [Chan -> Nat] /\ W \subseteq Chan
      /\ w.has => hasUndo[p] \/ Cardinality(Holders) < SemMnu
      /\ w.at # "go" => w.val = semval /\ w.undo = sem_undo[p] /\ w.done + 1 \in 1..Len(ops)
  <2>1. w \in Works /\ Unwoken(Work(p, id), w) /\ Limits(Work(p, id), w)
    BY <1>6 DEF AllDone
  <2>2. w.has \in BOOLEAN /\ w.cnt \in [Chan -> Nat] /\ W \subseteq Chan
    BY <2>1, WorkFacts
  <2>3. Work(p, id).has = hasUndo[p]
    BY DEF Work
  <2>4. QED
    BY <1>6, <2>1, <2>2, <2>3 DEF Limits, AllDone
<1>9. Undos'
  BY <1>3, <1>8, UndoSet
<1>10. \A s \in Sem : Keeps(s, W)
  <2>1. Work(p, id).cnt = cnt /\ Work(p, id).val = semval
    BY DEF Work
  <2>2. \A s \in Sem : <<s, "n">> \in Chan /\ <<s, "z">> \in Chan
    BY DEF Chan, Kind
  <2>3. QED
    BY <1>3, <1>8, <2>1 DEF Unwoken, Keeps
<1>11. semtmp' \in Seq(Operation) /\ semval' \in [Sem -> 0..SemVmx]
  BY <1>3, <1>8
<1>12. \/ /\ w.at \in Kind
          /\ cnt' = [w.cnt EXCEPT ![ch] = @ + 1]
          /\ chan' = [q \in Procs |-> IF q = p THEN ch
                                      ELSE IF chan[q] \in W THEN Nowhere ELSE chan[q]]
          /\ pc' = [pc EXCEPT ![p] = "asleep"]
          /\ call' = [call EXCEPT ![p] = d]
          /\ u_error' = "none"
          /\ intr' = intr
       \/ /\ w.at \notin Kind
          /\ cnt' = w.cnt
          /\ Wakeup(W)
          /\ Return(p, IF w.at = "go" THEN "none" ELSE w.at)
  BY <1>4 DEF Outcome
<1>13. CASE w.at \in Kind
  <2>1. /\ cnt' = [w.cnt EXCEPT ![ch] = @ + 1]
        /\ chan' = [q \in Procs |-> IF q = p THEN ch
                                    ELSE IF chan[q] \in W THEN Nowhere ELSE chan[q]]
        /\ pc' = [pc EXCEPT ![p] = "asleep"]
        /\ call' = [call EXCEPT ![p] = d]
        /\ u_error' = "none"
        /\ intr' = intr
    BY <1>13, <1>12
  <2>2. w.at # "go" /\ w.val = semval /\ w.undo = sem_undo[p] /\ w.done + 1 \in 1..Len(ops)
    BY <1>8, <1>13 DEF Kind
  <2>3. o \in Operation
    BY <1>2, <2>2
  <2> HIDE DEF o
  <2>4. ch \in Chan
    <3>1. o.num \in Num /\ BasesOK
      BY <1>5, <2>3 DEF Operation, Begins
    <3>2. SemOf(id, o.num) \in Sem
      BY <1>1, <3>1, SemOfFacts
    <3>3. QED
      BY <1>13, <3>2 DEF Chan
  <2> HIDE DEF ch
  <2>5. d \in CallType /\ d.from = 1 /\ d.tried = ops /\ d.on = ch /\ d.ops = c.ops /\ d.id = id
    BY <1>1, <1>2, <2>4 DEF CallType
  <2> HIDE DEF d, id, W
  <2>6. /\ pc' \in [Procs -> {"user", "fault", "asleep"}] /\ call' \in [Procs -> CallType]
        /\ chan' \in [Procs -> Chan \cup {Nowhere}]
        /\ pc'[p] = "asleep" /\ call'[p] = d /\ chan'[p] = ch /\ intr'[p] = intr[p]
        /\ \A q \in Procs : q # p => /\ pc'[q] = pc[q] /\ call'[q] = call[q] /\ intr'[q] = intr[q]
                                     /\ chan'[q] = IF chan[q] \in W THEN Nowhere ELSE chan[q]
    BY <1>1, <2>1, <2>4, <2>5 DEF Typing
  <2>7. cnt' \in [Chan -> Nat] /\ cnt'[ch] = w.cnt[ch] + 1 /\ \A e \in Chan : e # ch => cnt'[e] = w.cnt[e]
    BY <1>8, <2>1, <2>4
  <2>8. Typing'
    BY <1>1, <1>3, <1>11, <2>1, <2>6, <2>7 DEF Typing
  <2>9. \A e \in Chan : /\ w.cnt[e] \in Nat /\ w.cnt[e] <= Cardinality(Waits(e)' \ {p})
                        /\ IsFiniteSet(Waits(e)' \ {p}) /\ Cardinality(Waits(e)' \ {p}) \in Nat
    BY <1>1, <1>8, <2>6, PerformCounts DEF W
  <2>10. ASSUME NEW e \in Chan PROVE cnt'[e] <= Cardinality(Waits(e)')
    <3> DEFINE T == Waits(e)' \ {p}
    <3>1. IsFiniteSet(T) /\ Cardinality(T) \in Nat /\ w.cnt[e] \in Nat /\ w.cnt[e] <= Cardinality(T)
      BY <2>9
    <3>2. CASE e = ch
      <4>1. p \in Waits(e)'
        BY <2>5, <2>6, <3>2 DEF Waits
      <4>2. Waits(e)' = T \cup {p} /\ p \notin T
        BY <4>1
      <4> HIDE DEF T
      <4>3. Cardinality(Waits(e)') = Cardinality(T) + 1
        BY <3>1, <4>2, FS_AddElement
      <4>4. QED
        BY <2>7, <3>1, <3>2, <4>3
    <3>3. CASE e # ch
      <4>1. p \notin Waits(e)'
        BY <2>5, <2>6, <3>3 DEF Waits
      <4>2. Waits(e)' = T
        BY <4>1
      <4>3. QED
        BY <2>7, <3>1, <3>3, <4>2
    <3>4. QED
      BY <3>2, <3>3
  <2>11. ASSUME NEW q \in Procs, chan'[q] # Nowhere PROVE cnt'[chan'[q]] > 0
    <3> DEFINE e == chan'[q]
    <3>1. e \in Chan /\ w.cnt[e] \in Nat
      <4>1. e \in Chan
        BY <2>6, <2>11
      <4> HIDE DEF e
      <4>2. QED
        BY <1>8, <4>1
    <3>2. CASE e = ch
      BY <2>7, <3>1, <3>2
    <3>3. CASE e # ch
      <4>1. q # p /\ chan[q] = e /\ e \notin W
        BY <2>6, <2>11, <3>3
      <4> HIDE DEF e
      <4>2. cnt[e] > 0
        BY <1>1, <3>1, <4>1, NowhereElse DEF Inv, Counted
      <4>3. w.cnt[e] = cnt[e]
        BY <1>8, <3>1, <4>1 DEF Unwoken, Work, W
      <4>4. cnt'[e] > 0
        BY <2>7, <3>1, <3>3, <4>2, <4>3
      <4>5. QED
        BY <4>4 DEF e
    <3>4. QED
      BY <3>2, <3>3
  <2>12. Counted'
    BY <2>10, <2>11 DEF Counted
  <2>13. InPlace(p)' /\ Current(p)'
    <3>1. InPlace(p)'
      BY <1>1, <2>4, <2>5, <2>6 DEF InPlace
    <3>2. Current(p)'
      BY <1>3, <2>5, <2>6 DEF Current, Ready, id
    <3>3. QED
      BY <3>1, <3>2
  <2>14. Reason(p)'
    <3> SUFFICES ASSUME Distinct(ops)
                 PROVE  \E i \in 1..Len(ops) :
                           SemOf(id, ops[i].num) = ch[1] /\ Stuck(ops[i], ch[1], ch[2])
      BY <1>3, <2>2, <2>5, <2>6 DEF Reason, Distinct, SemOf, Stuck, Valid
    <3>1. Stuck(o, SemOf(id, o.num), w.at)
      BY <1>7, <1>13 DEF Stuckness, o
    <3>2. ch[1] = SemOf(id, o.num) /\ ch[2] = w.at
      BY DEF ch
    <3>3. QED
      BY <2>2, <3>1, <3>2 DEF o
  <2>15. ASSUME NEW q \in Procs PROVE InPlace(q)' /\ Current(q)' /\ Reason(q)'
    <3>1. CASE q = p
      BY <2>13, <2>14, <3>1
    <3>2. CASE q # p
      <4>1. /\ pc'[q] = pc[q] /\ call'[q] = call[q] /\ intr'[q] = intr[q]
            /\ chan'[q] = IF chan[q] \in W THEN Nowhere ELSE chan[q]
        BY <2>6, <3>2
      <4>2. QED
        BY <1>1, <1>10, <1>11, <3>2, <4>1, PerformOthers
    <3>3. QED
      BY <3>1, <3>2
  <2>16. UNCHANGED <<semval, sem_undo>>
    <3>1. sem_undo' = sem_undo
      BY <1>3, <2>2 DEF Inv, Undos
    <3>2. QED
      BY <1>3, <2>2, <3>1
  <2>17. AllOrNothingNow
    BY <2>1, <2>16 DEF AllOrNothingNow
  <2>18. QED
    BY <1>9, <2>8, <2>12, <2>15, <2>17 DEF Inv
<1>14. CASE w.at \notin Kind
  <2> HIDE DEF o, ch, d, id, W
  <2> DEFINE err == IF w.at = "go" THEN "none" ELSE w.at
  <2>1. cnt' = w.cnt /\ Wakeup(W) /\ Return(p, err)
    BY <1>14, <1>12
  <2>2. /\ pc' \in [Procs -> {"user", "fault", "asleep"}] /\ call' \in [Procs -> CallType]
        /\ intr' \in [Procs -> BOOLEAN]
        /\ pc'[p] = "user" /\ call'[p] = NoCall /\ intr'[p] = FALSE
        /\ \A q \in Procs : q # p => pc'[q] = pc[q] /\ call'[q] = call[q] /\ intr'[q] = intr[q]
    BY <2>1, ReturnFacts
  <2>3. /\ chan' \in [Procs -> Chan \cup {Nowhere}]
        /\ \A q \in Procs : chan'[q] = IF chan[q] \in W THEN Nowhere ELSE chan[q]
    BY <2>1, WakeupFacts
  <2>4. chan'[p] = Nowhere
    BY <1>1, <2>3
  <2>5. Typing'
    BY <1>1, <1>3, <1>8, <1>11, <2>1, <2>2, <2>3 DEF Typing
  <2>6. \A e \in Chan : /\ w.cnt[e] \in Nat /\ w.cnt[e] <= Cardinality(Waits(e)' \ {p})
                        /\ IsFiniteSet(Waits(e)' \ {p}) /\ Cardinality(Waits(e)' \ {p}) \in Nat
    <3>1. \A q \in Procs : q # p => /\ pc'[q] = pc[q] /\ call'[q] = call[q] /\ intr'[q] = intr[q]
                                     /\ chan'[q] = IF chan[q] \in w.woken THEN Nowhere ELSE chan[q]
      BY <2>2, <2>3 DEF W
    <3>2. QED
      BY <1>1, <1>8, <3>1, PerformCounts
  <2>7. ASSUME NEW e \in Chan PROVE cnt'[e] <= Cardinality(Waits(e)')
    <3>1. p \notin Waits(e)'
      BY <2>2 DEF Waits
    <3>2. Waits(e)' = Waits(e)' \ {p}
      BY <3>1
    <3>3. QED
      BY <2>1, <2>6, <3>2
  <2>8. ASSUME NEW q \in Procs, chan'[q] # Nowhere PROVE cnt'[chan'[q]] > 0
    <3> DEFINE e == chan'[q]
    <3>1. e \in Chan /\ chan[q] = e /\ e \notin W
      BY <2>3, <2>8
    <3> HIDE DEF e
    <3>2. cnt[e] > 0
      BY <3>1, NowhereElse DEF Inv, Counted
    <3>3. w.cnt[e] = cnt[e]
      BY <1>8, <3>1 DEF Unwoken, Work, W
    <3>4. cnt'[e] > 0
      BY <2>1, <3>2, <3>3
    <3>5. QED
      BY <3>4 DEF e
  <2>9. Counted'
    BY <2>7, <2>8 DEF Counted
  <2>10. ASSUME NEW q \in Procs PROVE InPlace(q)' /\ Current(q)' /\ Reason(q)'
    <3>1. CASE q = p
      BY <2>2, <2>4, <3>1, UserPlace
    <3>2. CASE q # p
      <4>1. /\ pc'[q] = pc[q] /\ call'[q] = call[q] /\ intr'[q] = intr[q]
            /\ chan'[q] = IF chan[q] \in W THEN Nowhere ELSE chan[q]
        BY <2>2, <2>3, <3>2
      <4>2. QED
        BY <1>1, <1>10, <1>11, <3>2, <4>1, PerformOthers
    <3>3. QED
      BY <3>1, <3>2
  <2>11. AllOrNothingNow
    <3>1. CASE w.at = "go"
      BY <2>1, <3>1, SuccessOutcome DEF Return
    <3>2. CASE w.at # "go"
      <4>1. w.at \in Errno /\ w.at # "none" /\ u_error' = w.at
        BY <1>8, <1>14, <2>1, <3>2, WorkFacts DEF Return, Ats, Errno, Kind
      <4>2. sem_undo' = sem_undo /\ semval' = semval
        BY <1>3, <1>8, <3>2 DEF Inv, Undos
      <4>3. QED
        BY <4>1, <4>2 DEF AllOrNothingNow
    <3>3. QED
      BY <3>1, <3>2
  <2>12. QED
    BY <1>9, <2>2, <2>5, <2>9, <2>10, <2>11 DEF Inv
<1>15. QED
  BY <1>13, <1>14

(* p's call is over, and it has changed nothing but semtmp. *)
LEMMA FailedStep ==
    ASSUME Inv, NEW p \in Procs, chan[p] = Nowhere, NEW e, Return(p, e),
           \A d \in Chan : p \notin Waits(d),
           semtmp' \in Seq(Operation),
           \A q \in Procs : q # p /\ pc[q] = "fault" => call[q].from - 1 <= Len(semtmp'),
           UNCHANGED <<sema, semval, cnt, sem_undo, hasUndo, chan, faults>>
    PROVE  Inv'
<1>1. /\ pc' \in [Procs -> {"user", "fault", "asleep"}] /\ call' \in [Procs -> CallType]
      /\ intr' \in [Procs -> BOOLEAN]
      /\ pc'[p] = "user" /\ call'[p] = NoCall /\ intr'[p] = FALSE
      /\ \A q \in Procs : q # p => pc'[q] = pc[q] /\ call'[q] = call[q] /\ intr'[q] = intr[q]
  BY ReturnFacts
<1>2. Typing'
  BY <1>1 DEF Inv, Typing
<1>3. Undos'
  BY UndosUnchanged
<1>4. ASSUME NEW d \in Chan PROVE Waits(d)' = Waits(d)
  <2>1. p \notin Waits(d)'
    BY <1>1 DEF Waits
  <2>2. \A q \in Procs : q # p => (q \in Waits(d)' <=> q \in Waits(d))
    BY <1>1 DEF Waits
  <2>3. Waits(d) \subseteq Procs /\ Waits(d)' \subseteq Procs
    BY DEF Waits
  <2>4. \A q : q \in Waits(d)' <=> q \in Waits(d)
    BY <2>1, <2>2, <2>3
  <2>5. QED
    BY <2>4
<1>5. Counted'
  BY <1>4 DEF Inv, Counted
<1>6. semval' \in [Sem -> 0..SemVmx] /\ \A s \in Sem : Keeps(s, {})
  <2>1. semval' = semval /\ semval \in [Sem -> 0..SemVmx] /\ semval \in [Sem -> Int]
    BY SemAssumption DEF Inv, Typing
  <2>2. QED
    BY <2>1 DEF Keeps
<1>7. ASSUME NEW q \in Procs PROVE InPlace(q)' /\ Current(q)' /\ Reason(q)'
  <2>1. CASE q = p
    BY <1>1, <2>1, UserPlace
  <2>2. CASE q # p
    <3>1. pc'[q] = pc[q] /\ call'[q] = call[q] /\ intr'[q] = intr[q]
      BY <1>1, <2>2
    <3>2. pc[q] = "fault" => call[q].from - 1 <= Len(semtmp')
      BY <2>2
    <3>3. sema' = sema /\ chan'[q] = IF chan[q] \in {} THEN Nowhere ELSE chan[q]
      OBVIOUS
    <3>4. QED
      BY ONLY Inv, <1>6, <3>1, <3>2, <3>3, OtherKept
  <2>3. QED
    BY <2>1, <2>2
<1>8. QED
  BY <1>2, <1>3, <1>5, <1>7 DEF Inv

LEMMA BadAddressStep ==
    ASSUME Inv, NEW p \in Procs, NEW c, Ready(p, c), NEW i \in c.from..Len(c.ops), BadAddress(p, c, i)
    PROVE  Inv' /\ AllOrNothingNow
<1> DEFINE t == Copied(c, i - 1)
<1>1. /\ semtmp' = (IF \E q \in Procs \ {p} : pc[q] = "fault" THEN t ELSE << >>)
      /\ Return(p, "EFAULT")
      /\ UNCHANGED <<sema, semval, cnt, sem_undo, hasUndo, chan, faults>>
  BY DEF BadAddress, Left
<1>2. Len(c.ops) \in Nat /\ c.from \in Nat /\ Len(semtmp) \in Nat
  BY ReadyFacts
<1>3. i - 1 \in (c.from - 1)..Len(c.ops)
  BY <1>2
<1>4. t \in Seq(Operation) /\ Len(t) \in Nat /\ Len(semtmp) <= Len(t)
  BY <1>3, CopiedFacts
<1> HIDE DEF t
<1>5. semtmp' \in Seq(Operation)
  BY <1>1, <1>4
<1>6. ASSUME NEW q \in Procs, q # p, pc[q] = "fault" PROVE call[q].from - 1 <= Len(semtmp')
  <2>1. semtmp' = t
    BY <1>1, <1>6
  <2>2. call[q].from - 1 <= Len(semtmp) /\ call[q].from \in Nat
    BY <1>6 DEF Inv, InPlace, Typing, CallType
  <2>3. QED
    BY <1>2, <1>4, <2>1, <2>2
<1>7. chan[p] = Nowhere /\ \A d \in Chan : p \notin Waits(d)
  BY NowhereElse DEF Ready, Waits
<1>8. Inv'
  BY ONLY Inv, <1>1, <1>5, <1>6, <1>7, FailedStep
<1>9. AllOrNothingNow
  BY <1>1, UntouchedOutcome DEF Return, Errno
<1>10. QED
  BY <1>8, <1>9

LEMMA CopyInStep ==
    ASSUME Inv, NEW p \in Procs, NEW c, Ready(p, c), CopyIn(p, c)
    PROVE  Inv' /\ AllOrNothingNow
<1> DEFINE t == Copied(c, Len(c.ops))
<1>1. CASE Perform(p, c, t)
  <2>1. c.from \in 1..Len(c.ops) /\ Len(c.ops) \in Nat
    BY ReadyFacts DEF Ready
  <2>2. Len(c.ops) \in (c.from - 1)..Len(c.ops)
    BY <2>1
  <2>3. t \in Seq(Operation) /\ Len(c.ops) <= Len(t) /\ Len(semtmp) <= Len(t)
    BY <2>2, CopiedFacts
  <2> HIDE DEF t
  <2>4. QED
    BY <1>1, <2>3, PerformStep
<1>2. ASSUME NEW i \in c.from..Len(c.ops), Fault(p, c, i) PROVE Inv' /\ AllOrNothingNow
  <2>1. Inv'
    BY <1>2, FaultStep
  <2>2. AllOrNothingNow
    BY <1>2, UntouchedOutcome DEF Fault
  <2>3. QED
    BY <2>1, <2>2
<1>3. ASSUME NEW i \in c.from..Len(c.ops), BadAddress(p, c, i) PROVE Inv' /\ AllOrNothingNow
  BY <1>3, BadAddressStep
<1>4. QED
  BY <1>1, <1>2, <1>3 DEF CopyIn

LEMMA SemopStep ==
    ASSUME Inv, NEW p \in Procs, NEW i \in Slot, NEW ops \in OpLists, Semop(p, i, ops)
    PROVE  Inv' /\ AllOrNothingNow
<1> DEFINE c == [NoCall EXCEPT !.id = <<i, sema[i].seq>>, !.ops = ops]
<1>1. InUser(p) /\ sema[i].alloc /\ CopyIn(p, c)
  BY DEF Semop
<1>2. <<i, sema[i].seq>> \in Id
  BY IdHere
<1>3. ops \in Seq(Operation) /\ ops # << >>
  BY SemAssumption
<1>4. /\ c \in CallType
      /\ c.id = <<i, sema[i].seq>> /\ c.ops = ops /\ c.from = 1
  <2> DEFINE id == <<i, sema[i].seq>>
  <2>1. NoCall \in CallType /\ NoCall.from = 1
    BY NoCallType DEF NoCall
  <2>2. id \in Id /\ c = [NoCall EXCEPT !.id = id, !.ops = ops]
    BY <1>2
  <2> HIDE DEF id, c
  <2>3. QED
    BY ONLY <1>3, <2>1, <2>2 DEF CallType, id
<1> HIDE DEF c
<1>6. chan[p] = Nowhere /\ ~intr[p] /\ semtmp \in Seq(Operation)
  BY <1>1 DEF Inv, InPlace, InUser, Typing
<1>7. c.from \in 1..Len(c.ops) /\ c.from - 1 <= Len(semtmp)
  <2>1. Len(ops) \in Nat /\ Len(ops) # 0
    BY <1>3
  <2>2. QED
    BY <1>4, <1>6, <2>1
<1>8. c.id[1] = i /\ c.id[2] = sema[i].seq /\ sema[i].seq \in Int
  BY <1>4 DEF Inv, Typing
<1>9. Ready(p, c)
  BY <1>1, <1>4, <1>6, <1>7, <1>8 DEF Ready
<1>10. QED
  BY <1>1, <1>9, CopyInStep

LEMMA CallReady ==
    ASSUME Inv, NEW p \in Procs, pc[p] # "user", chan[p] = Nowhere, ~intr[p]
    PROVE  Ready(p, call[p])
<1>1. call[p] \in CallType /\ semtmp \in Seq(Operation) /\ pc[p] \in {"fault", "asleep"}
  BY DEF Inv, Typing
<1>2. InPlace(p) /\ Current(p)
  BY DEF Inv
<1>3. call[p].from \in 1..Len(call[p].ops) /\ call[p].from - 1 <= Len(semtmp)
  <2>1. CASE pc[p] = "fault"
    BY <1>2, <2>1 DEF InPlace
  <2>2. CASE pc[p] = "asleep"
    <3>1. call[p].from = 1 /\ call[p].ops # << >> /\ call[p].ops \in Seq(Operation)
      BY <1>1, <1>2, <2>2 DEF InPlace, CallType
    <3>2. Len(call[p].ops) \in Nat /\ Len(call[p].ops) # 0 /\ Len(semtmp) \in Nat
      BY <1>1, <3>1
    <3>3. QED
      BY <3>1, <3>2
  <2>3. QED
    BY <1>1, <2>1, <2>2
<1>4. QED
  BY <1>1, <1>2, <1>3 DEF Ready, Current

LEMMA FaultDoneStep ==
    ASSUME Inv, NEW p \in Procs, FaultDone(p)
    PROVE  Inv' /\ AllOrNothingNow
<1>1. pc[p] = "fault" /\ CopyIn(p, call[p])
  BY DEF FaultDone
<1>2. chan[p] = Nowhere /\ ~intr[p]
  BY <1>1 DEF Inv, InPlace
<1>3. QED
  BY <1>1, <1>2, CallReady, CopyInStep

LEMMA AgainStep ==
    ASSUME Inv, NEW p \in Procs, Again(p)
    PROVE  Inv' /\ AllOrNothingNow
<1>1. pc[p] = "asleep" /\ chan[p] = Nowhere /\ ~intr[p]
  BY DEF Again, Woken
<1>2. CASE Valid(call[p].id)
  <2>1. CopyIn(p, call[p])
    BY <1>2 DEF Again
  <2>2. QED
    BY <1>1, <2>1, CallReady, CopyInStep
<1>3. CASE ~Valid(call[p].id)
  <2>1. Return(p, "EIDRM") /\ UNCHANGED <<sema, semval, cnt, sem_undo, hasUndo, semtmp, chan, faults>>
    BY <1>3 DEF Again
  <2>2. \A d \in Chan : p \notin Waits(d)
    BY <1>1, NowhereElse DEF Waits
  <2>3. semtmp' \in Seq(Operation) /\ \A q \in Procs : pc[q] = "fault" => call[q].from - 1 <= Len(semtmp')
    BY <2>1 DEF Inv, Typing, InPlace
  <2>4. Inv'
    BY ONLY Inv, <1>1, <2>1, <2>2, <2>3, FailedStep
  <2>5. AllOrNothingNow
    BY <2>1, UntouchedOutcome DEF Return, Errno
  <2>6. QED
    BY <2>4, <2>5
<1>4. QED
  BY <1>2, <1>3

-----------------------------------------------------------------------------
LEMMA InitInv ==
    ASSUME Init
    PROVE  Inv
<1>1. SemAem \in Nat /\ SemUme \in Nat /\ SemMnu \in Nat /\ SemVmx \in Nat /\ MaxSeq \in Nat /\ MaxFaults \in Nat
      /\ 1 \in 1..Blocks
  BY SemAssumption
<1>2. Typing
  <2>1. /\ sema \in [Slot -> [alloc : BOOLEAN, seq : 0..MaxSeq, base : 1..Blocks]]
        /\ semval \in [Sem -> 0..SemVmx] /\ cnt \in [Chan -> Nat] /\ semtmp \in Seq(Operation)
    BY <1>1 DEF Init, Chan
  <2>2. call \in [Procs -> CallType]
    BY NoCallType DEF Init
  <2>3. /\ pc \in [Procs -> {"user", "fault", "asleep"}] /\ chan \in [Procs -> Chan \cup {Nowhere}]
        /\ intr \in [Procs -> BOOLEAN] /\ faults \in 0..MaxFaults
    BY <1>1 DEF Init
  <2>4. QED
    BY <2>1, <2>2, <2>3 DEF Typing
<1>3. Undos
  <2>1. ASSUME NEW p \in Procs
        PROVE  sem_undo[p] \in [Place -> -SemAem..SemAem] /\ UndoOK(sem_undo[p], hasUndo[p])
    <3>1. sem_undo[p] = [x \in Place |-> 0]
      BY DEF Init, Place
    <3>2. EntriesOf(sem_undo[p]) = {}
      BY <3>1 DEF EntriesOf
    <3>3. Cardinality(EntriesOf(sem_undo[p])) = 0
      BY <3>2, FS_EmptySet
    <3>4. sem_undo[p] \in [Place -> -SemAem..SemAem]
      BY <1>1, <3>1
    <3>5. QED
      BY <1>1, <3>2, <3>3, <3>4 DEF UndoOK
  <2>2. Holders = {} /\ hasUndo \in [Procs -> BOOLEAN]
    BY DEF Holders, Init
  <2>3. Cardinality(Holders) = 0
    BY <2>2, FS_EmptySet
  <2>4. sem_undo \in [Procs -> [Place -> -SemAem..SemAem]]
    <3> DEFINE T == [Place -> -SemAem..SemAem]
               z == [x \in Id \X Num |-> 0]
    <3>1. sem_undo = [p \in Procs |-> z]
      BY DEF Init
    <3>2. z \in T
      BY <1>1 DEF Place
    <3> HIDE DEF T, z
    <3>3. sem_undo \in [Procs -> T]
      BY <3>1, <3>2
    <3>4. QED
      BY <3>3 DEF T
  <2>5. QED
    BY <1>1, <2>1, <2>2, <2>3, <2>4 DEF Undos
<1>4. \A p \in Procs : pc[p] = "user" /\ chan[p] = Nowhere /\ ~intr[p]
  BY DEF Init
<1>5. Counted
  <2>1. ASSUME NEW c \in Chan PROVE cnt[c] <= Cardinality(Waits(c))
    <3>1. cnt[c] = 0
      BY DEF Init, Chan
    <3>2. QED
      BY <3>1, WaitsFinite
  <2>2. QED
    BY <1>4, <2>1 DEF Counted
<1>6. \A p \in Procs : InPlace(p) /\ Current(p) /\ Reason(p)
  BY <1>4 DEF InPlace, Current, Reason
<1>7. QED
  BY <1>2, <1>3, <1>5, <1>6 DEF Inv

LEMMA StepKeeps ==
    ASSUME Inv, [Next]_vars
    PROVE  Inv' /\ AllOrNothingNow
<1>1. CASE UNCHANGED vars
  <2>1. UNCHANGED <<sema, semval, cnt, sem_undo, hasUndo, semtmp, pc, call, chan, intr, u_error, faults>>
    BY <1>1 DEF vars
  <2>2. Typing' /\ Undos'
    BY <2>1, UndosUnchanged DEF Inv, Typing
  <2>3. Counted'
    BY <2>1 DEF Inv, Counted, Waits
  <2>4. \A p \in Procs : InPlace(p)' /\ Current(p)' /\ Reason(p)'
    BY <2>1 DEF Inv, InPlace, Current, Reason, Valid, SemOf, Stuck
  <2>5. QED
    BY <2>1, <2>2, <2>3, <2>4 DEF Inv, AllOrNothingNow
<1>2. ASSUME NEW p \in Procs, Semget(p) PROVE Inv' /\ AllOrNothingNow
  <2>1. AllOrNothingNow
    BY <1>2, UntouchedOutcome DEF Semget
  <2>2. QED
    BY <1>2, <2>1, SemgetStep
<1>3. ASSUME NEW p \in Procs, NEW i \in Slot, Rmid(p, i) PROVE Inv' /\ AllOrNothingNow
  <2>1. u_error' = "none" /\ \E W : Wakeup(W)
    BY <1>3, Zenon DEF Rmid, Assign
  <2>2. QED
    BY <1>3, <2>1, RmidStep, SuccessOutcome
<1>4. ASSUME NEW p \in Procs, NEW i \in Slot, NEW n \in Num, NEW v \in 0..SemVmx, Setval(p, i, n, v)
      PROVE  Inv' /\ AllOrNothingNow
  <2>1. u_error' = "none" /\ \E W : Wakeup(W)
    BY <1>4, Zenon DEF Setval, Assign
  <2>2. QED
    BY <1>4, <2>1, SetvalStep, SuccessOutcome
<1>5. ASSUME NEW p \in Procs, NEW i \in Slot, NEW v \in [Num -> 0..SemVmx], Setall(p, i, v)
      PROVE  Inv' /\ AllOrNothingNow
  <2>1. u_error' = "none" /\ \E W : Wakeup(W)
    BY <1>5, Zenon DEF Setall
  <2>2. QED
    BY <1>5, <2>1, SetallStep, SuccessOutcome
<1>6. ASSUME NEW p \in Procs, NEW i \in Slot, NEW ops \in OpLists, Semop(p, i, ops)
      PROVE  Inv' /\ AllOrNothingNow
  BY <1>6, SemopStep
<1>7. ASSUME NEW p \in Procs, FaultDone(p) PROVE Inv' /\ AllOrNothingNow
  BY <1>7, FaultDoneStep
<1>8. ASSUME NEW p \in Procs, Signal(p) PROVE Inv' /\ AllOrNothingNow
  <2>1. AllOrNothingNow
    BY <1>8, UntouchedOutcome DEF Signal
  <2>2. QED
    BY <1>8, <2>1, SignalStep
<1>9. ASSUME NEW p \in Procs, Again(p) PROVE Inv' /\ AllOrNothingNow
  BY <1>9, AgainStep
<1>10. ASSUME NEW p \in Procs, Interrupted(p) PROVE Inv' /\ AllOrNothingNow
  <2>1. AllOrNothingNow
    BY <1>10, UntouchedOutcome DEF Interrupted, Return, Errno
  <2>2. QED
    BY <1>10, <2>1, InterruptedStep
<1>11. ASSUME NEW p \in Procs, Semexit(p) PROVE Inv' /\ AllOrNothingNow
  <2>1. u_error' = "none" /\ \E W : Wakeup(W)
    BY <1>11, Zenon DEF Semexit
  <2>2. QED
    BY <1>11, <2>1, SemexitStep, SuccessOutcome
<1>12. QED
  BY <1>1, <1>2, <1>3, <1>4, <1>5, <1>6, <1>7, <1>8, <1>9, <1>10, <1>11 DEF Next

(* The inductive invariant.                                                *)
THEOREM Invariance == Spec => []Inv
<1>1. Init => Inv
  BY InitInv
<1>2. Inv /\ [Next]_vars => Inv'
  BY StepKeeps
<1>3. QED
  BY <1>1, <1>2, PTL DEF Spec

(* Values and adjustments keep to their limits, and there is room for every *)
(* undo entry and structure (TypeOK).                                      *)
THEOREM TypeCorrect == Spec => []TypeOK
<1> DEFINE Error == u_error \in Errno \cup {"none"}
<1>1. Init => Error
  BY DEF Init
<1>2. Inv /\ Error /\ [Next]_vars => Error'
  BY StepKeeps DEF AllOrNothingNow
<1>3. Inv /\ Error => TypeOK
  BY InvType
<1> HIDE DEF Error
<1>4. QED
  BY <1>1, <1>2, <1>3, Invariance, PTL DEF Spec

(* Who sleeps is counted (SleepersCounted): no wakeup that looks at semncnt *)
(* or semzcnt first passes it by.                                          *)
THEOREM WaitersCounted == Spec => []SleepersCounted
<1>1. Inv => SleepersCounted
  BY DEF Inv, Counted, SleepersCounted
<1>2. QED
  BY <1>1, Invariance, PTL

(* No process sleeps whose operations could be done, if they name no       *)
(* semaphore twice (SleepersBlocked).                                      *)
THEOREM NoWakeupLost == Spec => []SleepersBlocked
<1>1. ASSUME Inv PROVE SleepersBlocked
  <2> SUFFICES ASSUME NEW p \in Procs, chan[p] # Nowhere, Valid(call[p].id), Distinct(call[p].tried)
               PROVE  ~Able(p)
    BY DEF SleepersBlocked
  <2> DEFINE id == call[p].id
             ops == call[p].tried
             r == DoAll(p, id, ops)
  <2>1. id \in Id /\ ops \in Seq(Operation)
    BY <1>1, CallIds DEF CallType
  <2>2. PICK i \in 1..Len(ops) : SemOf(id, ops[i].num) = chan[p][1] /\ Stuck(ops[i], chan[p][1], chan[p][2])
    BY <1>1 DEF Inv, Reason
  <2>3. chan[p][2] \in Kind
    BY <1>1 DEF Inv, Typing, Chan
  <2> HIDE DEF id, ops
  <2>4. Stuckness(id, ops, r)
    BY <1>1, <2>1, InvBegins, DoAllStuck DEF ops
  <2> HIDE DEF r
  <2>5. r.at # "go"
    BY <2>2, <2>3, <2>4 DEF Stuckness
  <2>6. QED
    BY <2>5 DEF Able, r, id, ops
<1>2. QED
  BY <1>1, Invariance, PTL

(* A call that fails, with whatever error, and one that falls asleep, for   *)
(* the first time or again, have changed no value and no adjustment of     *)
(* anybody (AllOrNothing).                                                 *)
THEOREM DoneOrUndone == Spec => AllOrNothing
<1>1. Inv /\ [Next]_vars
        => [(\/ u_error' # "none"
             \/ \E p \in Procs : chan[p] = Nowhere /\ chan'[p] # Nowhere)
               => UNCHANGED <<semval, sem_undo>>]_vars
  BY StepKeeps DEF AllOrNothingNow
<1>2. QED
  BY <1>1, Invariance, PTL DEF Spec, AllOrNothing

================================================================================
