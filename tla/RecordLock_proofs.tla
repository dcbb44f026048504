-------------------------- MODULE RecordLock_proofs --------------------------
(***************************************************************************)
(* Record locking keeps its lists in order and loses no lock record,       *)
(* whoever sleeps will be told, nobody sleeps in a circle, and the lists   *)
(* are to their owners what a lock on each byte would be.                  *)
(***************************************************************************)
EXTENDS RecordLock, SeqLemmas

-----------------------------------------------------------------------------
(* Sequences. *)

(* The greatest of a bounded set of numbers. *)
LEMMA GreatestFacts ==
    ASSUME NEW m \in Nat, NEW S \in SUBSET (0..m), S # {}
    PROVE  Max(S) \in S /\ \A y \in S : y <= Max(S)
<1> DEFINE D == {m - y : y \in S}
<1>1. D \in SUBSET Nat /\ D # {}
  <2>1. ASSUME NEW y \in S PROVE m - y \in Nat
    <3>1. y \in 0..m
      OBVIOUS
    <3>2. QED
      BY <3>1
  <2>2. PICK y \in S : TRUE
    OBVIOUS
  <2>3. QED
    BY <2>1, <2>2
<1> HIDE DEF D
<1>2. Min(D) \in D /\ \A y \in D : Min(D) <= y
  BY <1>1, LeastFacts
<1>3. PICK x \in S : Min(D) = m - x
  BY <1>2 DEF D
<1>4. ASSUME NEW y \in S PROVE y <= x
  <2>1. m - y \in D
    BY DEF D
  <2>2. m - x <= m - y /\ x \in 0..m /\ y \in 0..m
    BY <1>2, <1>3, <2>1
  <2>3. QED
    BY <2>2
<1>5. QED
  BY <1>4 DEF Max

(* Of two numbers. *)
LEMMA TwoFacts ==
    ASSUME NEW a \in Nat, NEW b \in Nat
    PROVE  /\ Min({a, b}) = IF a <= b THEN a ELSE b
           /\ Max({a, b}) = IF a <= b THEN b ELSE a
<1>1. Min({a, b}) \in {a, b} /\ \A y \in {a, b} : Min({a, b}) <= y
  BY LeastFacts
<1>2. Max({a, b}) \in {a, b} /\ \A y \in {a, b} : y <= Max({a, b})
  <2>1. {a, b} \in SUBSET (0..(a + b)) /\ {a, b} # {} /\ a + b \in Nat
    OBVIOUS
  <2>2. QED
    BY <2>1, GreatestFacts
<1>3. QED
  BY <1>1, <1>2

(* What a sequence is after an insertion. *)
LEMMA InsertAtPlaces ==
    ASSUME NEW S, NEW s \in Seq(S), NEW e \in S, NEW i \in 1..(Len(s) + 1)
    PROVE  /\ InsertAt(s, i, e) \in Seq(S) /\ Len(InsertAt(s, i, e)) = Len(s) + 1
           /\ \A j \in 1..(Len(s) + 1) :
                InsertAt(s, i, e)[j] = IF j < i THEN s[j] ELSE IF j = i THEN e ELSE s[j - 1]
<1> DEFINE x == SubSeq(s, 1, i - 1)
           y == SubSeq(s, i, Len(s))
           z == x \o <<e>>
           r == z \o y
<1>1. Len(s) \in Nat
  OBVIOUS
<1>2. /\ x \in Seq(S) /\ Len(x) = i - 1
      /\ \A j \in 1..(i - 1) : x[j] = s[j]
  BY <1>1, SubSeqProperties
<1>3. /\ y \in Seq(S) /\ Len(y) = Len(s) - i + 1
      /\ \A j \in 1..(Len(s) - i + 1) : y[j] = s[i + j - 1]
  BY <1>1, SubSeqProperties
<1>r. InsertAt(s, i, e) = r
  BY DEF InsertAt
<1> HIDE DEF x, y
<1>4. /\ z \in Seq(S) /\ Len(z) = i
      /\ \A j \in 1..i : z[j] = IF j < i THEN s[j] ELSE e
  <2>1. <<e>> \in Seq(S) /\ Len(<<e>>) = 1 /\ <<e>>[1] = e
    OBVIOUS
  <2>2. /\ z \in Seq(S) /\ Len(z) = Len(x) + 1
        /\ \A j \in 1..(Len(x) + 1) : z[j] = IF j <= Len(x) THEN x[j] ELSE <<e>>[j - Len(x)]
    BY <1>2, <2>1, ConcatProperties
  <2>3. QED
    BY <1>2, <2>1, <2>2
<1> HIDE DEF z
<1>5. /\ r \in Seq(S) /\ Len(r) = Len(z) + Len(y)
      /\ \A j \in 1..(Len(z) + Len(y)) : r[j] = IF j <= Len(z) THEN z[j] ELSE y[j - Len(z)]
  BY <1>3, <1>4, ConcatProperties
<1> HIDE DEF r
<1>6. Len(r) = Len(s) + 1
  BY <1>1, <1>3, <1>4, <1>5
<1>7. ASSUME NEW j \in 1..(Len(s) + 1)
      PROVE  r[j] = IF j < i THEN s[j] ELSE IF j = i THEN e ELSE s[j - 1]
  <2>1. CASE j <= i
    BY <1>1, <1>4, <1>5, <1>6, <2>1
  <2>2. CASE ~(j <= i)
    <3>1. j - i \in 1..(Len(s) - i + 1) /\ i + (j - i) - 1 = j - 1 /\ ~(j < i) /\ j # i
      BY <1>1, <2>2
    <3>2. r[j] = y[j - i]
      BY <1>4, <1>5, <1>6, <2>2
    <3>3. QED
      BY <1>3, <3>1, <3>2
  <2>3. QED
    BY <2>1, <2>2
<1>8. QED
  BY <1>5, <1>6, <1>7, <1>r

(* The same for a sequence without repetition and a new element. *)
LEMMA InsertAtFacts ==
    ASSUME NEW S, NEW s \in Seq(S), IsInjective(s), NEW e \in S, e \notin ToSet(s),
           NEW i \in 1..(Len(s) + 1)
    PROVE  /\ InsertAt(s, i, e) \in Seq(S)
           /\ IsInjective(InsertAt(s, i, e))
           /\ ToSet(InsertAt(s, i, e)) = ToSet(s) \cup {e}
<1> DEFINE r == InsertAt(s, i, e)
           Old(j) == IF j < i THEN j ELSE j - 1
<1>1. /\ r \in Seq(S) /\ Len(r) = Len(s) + 1 /\ Len(s) \in Nat
      /\ \A j \in 1..(Len(s) + 1) : r[j] = IF j < i THEN s[j] ELSE IF j = i THEN e ELSE s[j - 1]
  BY InsertAtPlaces
<1>d. DOMAIN r = 1..(Len(s) + 1) /\ DOMAIN s = 1..Len(s)
  BY <1>1
<1> HIDE DEF r
<1>2. \A j \in 1..(Len(s) + 1) : j # i => Old(j) \in DOMAIN s /\ r[j] = s[Old(j)]
  BY <1>1, <1>d
<1>3. \A j \in DOMAIN s : s[j] # e
  BY DEF ToSet
<1>4. IsInjective(r)
  <2>1. ASSUME NEW j \in DOMAIN r, NEW k \in DOMAIN r, r[j] = r[k] PROVE j = k
    <3>1. CASE j = i \/ k = i
      <4>1. i \in 1..(Len(s) + 1) /\ r[i] = e
        BY <1>1
      <4>2. \A n \in DOMAIN r : n # i => r[n] # e
        <5> HIDE DEF Old
        <5> QED
          BY <1>2, <1>3, <1>d
      <4>3. QED
        BY <2>1, <3>1, <4>1, <4>2
    <3>2. CASE j # i /\ k # i
      <4>1. Old(j) = Old(k)
        <5> HIDE DEF Old
        <5> QED
          BY <1>2, <1>d, <2>1, <3>2 DEF IsInjective
      <4>2. QED
        BY <1>1, <1>d, <3>2, <4>1
    <3>3. QED
      BY <3>1, <3>2
  <2>2. QED
    BY <2>1 DEF IsInjective
<1>5. ToSet(r) = ToSet(s) \cup {e}
  <2>1. ASSUME NEW j \in DOMAIN r PROVE r[j] \in ToSet(s) \cup {e}
    <3>1. CASE j = i
      BY <1>1, <3>1
    <3>2. CASE j # i
      <4> HIDE DEF Old
      <4> QED
        BY <1>2, <1>d, <3>2 DEF ToSet
    <3>3. QED
      BY <3>1, <3>2
  <2>2. ASSUME NEW j \in DOMAIN s PROVE s[j] \in ToSet(r)
    <3>1. CASE j < i
      <4>1. j \in DOMAIN r /\ r[j] = s[j]
        BY <1>1, <1>d, <3>1
      <4>2. QED
        BY <4>1 DEF ToSet
    <3>2. CASE ~(j < i)
      <4>1. j + 1 \in DOMAIN r /\ r[j + 1] = s[j]
        BY <1>1, <1>d, <3>2
      <4>2. QED
        BY <4>1 DEF ToSet
    <3>3. QED
      BY <3>1, <3>2
  <2>3. i \in DOMAIN r /\ r[i] = e
    BY <1>1, <1>d
  <2>4. QED
    BY <2>1, <2>2, <2>3 DEF ToSet
<1>6. QED
  BY <1>1, <1>4, <1>5 DEF r

-----------------------------------------------------------------------------
(* The state of the lists while they are worked on. *)

(* A record that describes a lock or a sleeper. *)
InUse(m) == m \in Record /\ m.start <= m.end

Sorted(q, r) == \A i, j \in DOMAIN q : i < j => r[q[i]].start <= r[q[j]].start

(* What flckadj works on. *)
Work ==
    [recs : [Recs -> Record \cup {Blank}], free : SUBSET Recs, list : Seq(Recs), ld : Request,
     woken : SUBSET Recs, scan : {"go", "last", "over", "ENOLCK"}, insrt : Recs \cup {NoRec}]

(* Its list is one: ordered, without repetition and without free records.  *)
ListOK(s) ==
    /\ s \in Work
    /\ IsInjective(s.list) /\ ToSet(s.list) \cap s.free = {}
    /\ \A x \in ToSet(s.list) : InUse(s.recs[x])
    /\ Sorted(s.list, s.recs)

LEMMA WorkFields ==
    ASSUME NEW s \in Work
    PROVE  /\ s.recs \in [Recs -> Record \cup {Blank}] /\ s.free \subseteq Recs
           /\ s.list \in Seq(Recs) /\ s.ld \in Request /\ s.woken \subseteq Recs
           /\ s.scan \in {"go", "last", "over", "ENOLCK"} /\ s.insrt \in Recs \cup {NoRec}
           /\ ToSet(s.list) \subseteq Recs
<1>1. /\ s.recs \in [Recs -> Record \cup {Blank}] /\ s.free \subseteq Recs
      /\ s.list \in Seq(Recs) /\ s.ld \in Request /\ s.woken \subseteq Recs
      /\ s.scan \in {"go", "last", "over", "ENOLCK"} /\ s.insrt \in Recs \cup {NoRec}
  BY DEF Work
<1>2. ToSet(s.list) \subseteq Recs
  BY <1>1 DEF ToSet
<1>3. QED
  BY <1>1, <1>2

(* A lock record with another field changed is one still. *)
LEMMA RecordFields ==
    ASSUME NEW m \in Record
    PROVE  /\ m.type \in LockType /\ m.start \in Byte /\ m.end \in Byte /\ m.pid \in Procs
           /\ m.start \in Nat /\ m.end \in Nat
           /\ m.stat \in Procs \cup {NoProc, Wanted}
           /\ m = [type |-> m.type, start |-> m.start, end |-> m.end, pid |-> m.pid, stat |-> m.stat]
           /\ \A b \in Byte : /\ [m EXCEPT !.end = b] \in Record
                              /\ [m EXCEPT !.start = b] \in Record
                              /\ [m EXCEPT !.end = b].end = b
                              /\ [m EXCEPT !.start = b].start = b
           /\ [m EXCEPT !.stat = NoProc] \in Record
           /\ m # Blank
<1>1. /\ m.type \in LockType /\ m.start \in Byte /\ m.end \in Byte /\ m.pid \in Procs
      /\ m.stat \in Procs \cup {NoProc, Wanted}
  BY DEF Record
<1>2. m = [type |-> m.type, start |-> m.start, end |-> m.end, pid |-> m.pid, stat |-> m.stat]
  BY DEF Record
<1>3. \A b \in Byte : /\ [m EXCEPT !.end = b] \in Record
                      /\ [m EXCEPT !.start = b] \in Record
                      /\ [m EXCEPT !.end = b].end = b
                      /\ [m EXCEPT !.start = b].start = b
  BY DEF Record
<1>4. [m EXCEPT !.stat = NoProc] \in Record
  BY DEF Record
<1>5. m # Blank
  BY <1>1 DEF Blank, LockType
<1>6. m.start \in Nat /\ m.end \in Nat
  BY <1>1, LockAssumption DEF Byte
<1>7. QED
  BY <1>1, <1>2, <1>3, <1>4, <1>5, <1>6

(* WAKEUP(fl): the record is as it was, but not waited for. *)
LEMMA WakeRecFacts ==
    ASSUME NEW s \in Work, NEW x \in Recs
    PROVE  LET t == WakeRec(s, x) IN
           /\ t \in Work
           /\ t.free = s.free /\ t.list = s.list /\ t.ld = s.ld /\ t.scan = s.scan
           /\ t.insrt = s.insrt
           /\ t.recs = [s.recs EXCEPT ![x] = [@ EXCEPT !.stat = NoProc]]
           /\ t.woken = s.woken \cup (IF s.recs[x].stat = NoProc THEN {} ELSE {x})
<1> DEFINE t == WakeRec(s, x)
           m == s.recs[x]
           n == [m EXCEPT !.stat = NoProc]
<1>1. m \in Record \cup {Blank} /\ s.recs \in [Recs -> Record \cup {Blank}]
  BY WorkFields
<1>2. n \in Record \cup {Blank}
  BY <1>1, RecordFields DEF Blank
<1>3. CASE m.stat = NoProc
  <2>1. n = m
    BY <1>1, <1>3 DEF Record, Blank
  <2>2. t = s
    BY <1>3 DEF WakeRec
  <2>3. s.recs = [s.recs EXCEPT ![x] = n]
    BY <1>1, <2>1
  <2>4. QED
    BY <1>3, <2>2, <2>3
<1>4. CASE m.stat # NoProc
  <2>1. t = [s EXCEPT !.woken = @ \cup {x}, !.recs[x] = [@ EXCEPT !.stat = NoProc]]
    BY <1>4 DEF WakeRec
  <2> DEFINE w == s.woken \cup {x}
             c == [s.recs EXCEPT ![x] = n]
  <2>2. t = [s EXCEPT !.woken = w, !.recs = c]
    BY <2>1
  <2>3. w \subseteq Recs /\ c \in [Recs -> Record \cup {Blank}]
    <3>1. s.woken \subseteq Recs
      BY WorkFields
    <3>2. QED
      BY <1>1, <1>2, <3>1
  <2> HIDE DEF w, c, t, n
  <2>4. /\ t \in Work
        /\ t.free = s.free /\ t.list = s.list /\ t.ld = s.ld /\ t.scan = s.scan
        /\ t.insrt = s.insrt /\ t.recs = c /\ t.woken = w
    BY <2>2, <2>3 DEF Work
  <2>5. QED
    BY <1>4, <2>4 DEF w, c, t, n
<1>5. QED
  BY <1>3, <1>4

LEMMA IndexFacts ==
    ASSUME NEW s \in Work, NEW x \in ToSet(s.list)
    PROVE  IndexIn(s, x) \in DOMAIN s.list /\ s.list[IndexIn(s, x)] = x
<1>1. \E i \in DOMAIN s.list : s.list[i] = x
  BY DEF ToSet
<1>2. x # NoRec
  BY WorkFields, LockAssumption
<1>3. QED
  BY <1>1, <1>2 DEF IndexIn

(* delflck(): the record is free, whoever sleeps on it is told. *)
LEMMA DelflckFacts ==
    ASSUME NEW s, ListOK(s), NEW x \in ToSet(s.list)
    PROVE  LET t == Delflck(s, x) IN
           /\ ListOK(t)
           /\ t.ld = s.ld /\ t.scan = s.scan /\ t.insrt = s.insrt
           /\ t.free = s.free \cup {x}
           /\ ToSet(t.list) = ToSet(s.list) \ {x}
           /\ \A y \in Recs : y # x => t.recs[y] = s.recs[y]
           /\ t.woken = s.woken \cup (IF s.recs[x].stat = NoProc THEN {} ELSE {x})
<1> DEFINE t == Delflck(s, x)
           w == WakeRec(s, x)
           i == IndexIn(s, x)
           q == RemoveAt(s.list, i)
           c == [w.recs EXCEPT ![x] = Blank]
           fr == s.free \cup {x}
<1>1. s \in Work /\ x \in Recs /\ s.list \in Seq(Recs) /\ IsInjective(s.list)
  BY WorkFields DEF ListOK
<1>2. i \in DOMAIN s.list /\ s.list[i] = x
  BY <1>1, IndexFacts
<1>3. /\ w \in Work
      /\ w.free = s.free /\ w.list = s.list /\ w.ld = s.ld /\ w.scan = s.scan
      /\ w.insrt = s.insrt
      /\ w.recs = [s.recs EXCEPT ![x] = [@ EXCEPT !.stat = NoProc]]
      /\ w.woken = s.woken \cup (IF s.recs[x].stat = NoProc THEN {} ELSE {x})
  BY <1>1, WakeRecFacts
<1>4. t = [w EXCEPT !.list = RemoveAt(@, i), !.recs = [@ EXCEPT ![x] = Blank], !.free = @ \cup {x}]
  BY DEF Delflck
<1>5. t = [w EXCEPT !.list = q, !.recs = c, !.free = fr]
  BY <1>3, <1>4
<1>6. q \in Seq(Recs) /\ IsInjective(q) /\ ToSet(q) = ToSet(s.list) \ {x}
  BY <1>1, <1>2, RemoveAtFacts
<1>7. c \in [Recs -> Record \cup {Blank}] /\ fr \subseteq Recs
  <2>1. w.recs \in [Recs -> Record \cup {Blank}] /\ s.free \subseteq Recs
    BY <1>1, <1>3, WorkFields
  <2>2. QED
    BY <1>1, <2>1
<1>p. Len(q) = Len(s.list) - 1 /\ Len(s.list) \in Nat
      /\ \A j \in 1..Len(q) : q[j] = IF j < i THEN s.list[j] ELSE s.list[j + 1]
  BY <1>1, <1>2, RemoveAtPlaces
<1> HIDE DEF t, w, q, c, fr, i
<1>8. /\ t \in Work /\ t.list = q /\ t.recs = c /\ t.free = fr
      /\ t.ld = w.ld /\ t.scan = w.scan /\ t.insrt = w.insrt /\ t.woken = w.woken
  BY <1>3, <1>5, <1>6, <1>7 DEF Work
<1>9. \A y \in Recs : y # x => t.recs[y] = s.recs[y]
  BY <1>1, <1>3, <1>8, WorkFields DEF c
<1>10. ToSet(t.list) \cap t.free = {}
  BY <1>6, <1>8 DEF ListOK, fr
<1>11. \A y \in ToSet(t.list) : InUse(t.recs[y])
  <2>1. ToSet(s.list) \subseteq Recs
    BY <1>1, WorkFields
  <2>2. QED
    BY <1>6, <1>8, <1>9, <2>1 DEF ListOK
<1>12. Sorted(t.list, t.recs)
  <2> SUFFICES ASSUME NEW j \in DOMAIN q, NEW k \in DOMAIN q, j < k
               PROVE  t.recs[q[j]].start <= t.recs[q[k]].start
    BY <1>8 DEF Sorted
  <2>1. DOMAIN q = 1..Len(q) /\ DOMAIN s.list = 1..Len(s.list)
    BY <1>1, <1>6
  <2>2. /\ t.recs[q[j]] = s.recs[q[j]] /\ t.recs[q[k]] = s.recs[q[k]]
    <3>1. \A n \in DOMAIN q : q[n] \in ToSet(q)
      BY DEF ToSet
    <3>2. q[j] \in Recs \ {x} /\ q[k] \in Recs \ {x}
      BY <1>1, <1>6, <3>1, WorkFields
    <3>3. QED
      BY <1>9, <3>2
  <2>3. PICK a \in DOMAIN s.list, b \in DOMAIN s.list :
               a < b /\ q[j] = s.list[a] /\ q[k] = s.list[b]
    <3> DEFINE a == IF j < i THEN j ELSE j + 1
               b == IF k < i THEN k ELSE k + 1
    <3>1. a \in DOMAIN s.list /\ b \in DOMAIN s.list /\ a < b
      BY <1>2, <1>p, <2>1
    <3>2. q[j] = s.list[a] /\ q[k] = s.list[b]
      BY <1>p, <2>1
    <3>3. QED
      BY <3>1, <3>2
  <2>4. QED
    BY <2>2, <2>3 DEF ListOK, Sorted
<1>13. QED
  BY <1>3, <1>6, <1>8, <1>9, <1>10, <1>11, <1>12 DEF ListOK, t, fr

(* A lock that starts at a goes after the j-th. *)
Fits(s, j, a) ==
    /\ j \in 0..Len(s.list)
    /\ \A k \in 1..j : s.recs[s.list[k]].start <= a
    /\ \A k \in (j + 1)..Len(s.list) : a <= s.recs[s.list[k]].start

(* The search for the place from the i-th lock on finds one where it fits. *)
LEMMA AfterFacts ==
    ASSUME NEW s, ListOK(s), NEW a \in Nat, NEW i \in 0..Len(s.list),
           i = 0 => \A x \in ToSet(s.list) : a <= s.recs[x].start,
           i # 0 => s.recs[s.list[i]].start <= a
    PROVE  Fits(s, After(s, i, a), a)
<1> DEFINE n == Len(s.list)
           v(k) == s.recs[s.list[k]].start
           X == {i} \cup {j \in i..n : \A k \in i..j : v(k) < a}
           j == Max(X)
<1>1. s.list \in Seq(Recs) /\ n \in Nat /\ DOMAIN s.list = 1..n
  BY WorkFields DEF ListOK
<1>2. \A k \in 1..n : s.list[k] \in ToSet(s.list) /\ v(k) \in Nat
  <2>1. \A k \in 1..n : s.list[k] \in ToSet(s.list)
    BY <1>1 DEF ToSet
  <2>2. QED
    BY <2>1, RecordFields DEF ListOK, InUse
<1>3. \A k, m \in 1..n : k <= m => v(k) <= v(m)
  <2>1. \A k, m \in 1..n : k < m => v(k) <= v(m)
    BY <1>1 DEF ListOK, Sorted
  <2> HIDE DEF v
  <2>2. QED
    BY <1>1, <1>2, <2>1 DEF v
<1>4. CASE i = 0
  <2>1. After(s, i, a) = 0
    BY <1>4 DEF After
  <2>2. \A k \in 1..n : a <= v(k)
    BY <1>2, <1>4
  <2>3. QED
    BY <1>1, <2>1, <2>2 DEF Fits
<1>5. CASE i # 0
  <2>1. After(s, i, a) = j
    BY <1>5 DEF After
  <2>2. X \in SUBSET (0..n) /\ X # {}
    BY <1>1
  <2> HIDE DEF v
  <2>3. j \in X /\ \A y \in X : y <= j
    <3> HIDE DEF X
    <3> QED
      BY <1>1, <2>2, GreatestFacts
  <2>4. j \in i..n /\ i \in 1..n
    BY <1>1, <1>5, <2>3
  <2>5. ASSUME NEW k \in 1..j PROVE v(k) <= a
    <3>1. v(i) <= a
      BY <1>5 DEF v
    <3>2. CASE k <= i
      <4>1. k \in 1..n /\ v(k) <= v(i) /\ v(k) \in Nat /\ v(i) \in Nat
        BY <1>2, <1>3, <2>4, <3>2 DEF v
      <4>2. QED
        BY <3>1, <4>1
    <3>3. CASE k > i
      <4>1. k \in i..j /\ j # i /\ k \in 1..n
        BY <2>4, <3>3
      <4>2. v(k) < a
        BY <2>3, <4>1
      <4>3. v(k) \in Nat
        BY <1>2, <4>1 DEF v
      <4>4. QED
        BY <4>2, <4>3
    <3>4. QED
      BY <2>4, <3>2, <3>3
  <2>6. ASSUME j < n PROVE a <= v(j + 1)
    <3>1. j + 1 \in i..n /\ j + 1 \in 1..n
      BY <2>4, <2>6
    <3>2. j + 1 \notin X
      <4>1. ~(j + 1 <= j)
        BY <2>4
      <4>2. QED
        BY <2>3, <4>1
    <3>3. PICK k \in i..(j + 1) : ~(v(k) < a)
      BY <3>1, <3>2
    <3>4. k \in 1..n /\ k <= j + 1
      BY <2>4, <3>1
    <3>5. v(k) <= v(j + 1) /\ v(k) \in Nat /\ v(j + 1) \in Nat
      BY <1>2, <1>3, <3>1, <3>4 DEF v
    <3>6. QED
      BY <3>3, <3>5
  <2>7. ASSUME NEW k \in (j + 1)..n PROVE a <= v(k)
    <3>1. j < n /\ j + 1 \in 1..n /\ k \in 1..n /\ j + 1 <= k
      BY <1>1, <2>4
    <3>2. v(j + 1) <= v(k) /\ v(k) \in Nat /\ v(j + 1) \in Nat
      BY <1>2, <1>3, <3>1 DEF v
    <3>3. QED
      BY <2>6, <3>1, <3>2
  <2> HIDE DEF j, X
  <2>8. j \in 0..n
    BY <1>1, <2>4
  <2>9. QED
    BY <2>1, <2>5, <2>7, <2>8 DEF Fits, v
<1>6. QED
  BY <1>4, <1>5

(* What a new lock record says. *)
LockOf(l, p) == [type |-> l.type, start |-> l.start, end |-> l.end, pid |-> p, stat |-> NoProc]

Lockable(l) == l.type \in LockType /\ l.start \in Byte /\ l.end \in Byte /\ l.start <= l.end

(* insflck() fails and changes nothing ... *)
LEMMA InsflckFails ==
    ASSUME NEW s, ListOK(s), s.free = {}, NEW l, NEW p, NEW j
    PROVE  LET t == Insflck(s, l, p, j) IN
           /\ ListOK(t)
           /\ t.recs = s.recs /\ t.free = s.free /\ t.list = s.list /\ t.ld = s.ld
           /\ t.woken = s.woken /\ t.insrt = s.insrt /\ t.scan = "ENOLCK"
<1> DEFINE t == Insflck(s, l, p, j)
<1>1. t = [s EXCEPT !.scan = "ENOLCK"]
  BY DEF Insflck
<1> HIDE DEF t
<1>2. /\ t \in Work /\ t.recs = s.recs /\ t.free = s.free /\ t.list = s.list /\ t.ld = s.ld
      /\ t.woken = s.woken /\ t.insrt = s.insrt /\ t.scan = "ENOLCK"
  BY <1>1 DEF ListOK, Work
<1>3. QED
  BY <1>2 DEF ListOK, t

(* ... or takes a free record. *)
Inserted(s, t, l, p) ==
    /\ ListOK(t)
    /\ t.ld = s.ld /\ t.scan = s.scan /\ t.insrt = s.insrt /\ t.woken = s.woken
    /\ \E x \in s.free :
         /\ t.free = s.free \ {x}
         /\ ToSet(t.list) = ToSet(s.list) \cup {x}
         /\ t.recs = [s.recs EXCEPT ![x] = LockOf(l, p)]

Insertable(s, l, p, j) ==
    ListOK(s) /\ s.free # {} /\ Lockable(l) /\ p \in Procs /\ Fits(s, j, l.start)

LEMMA InsflckFacts ==
    ASSUME NEW s, NEW l, NEW p, NEW j, Insertable(s, l, p, j)
    PROVE  Inserted(s, Insflck(s, l, p, j), l, p)
<1> DEFINE t == Insflck(s, l, p, j)
           x == AnyOf(s.free)
           q == InsertAt(s.list, j + 1, x)
           c == [s.recs EXCEPT ![x] = LockOf(l, p)]
           fr == s.free \ {x}
<1>h. ListOK(s) /\ s.free # {} /\ Lockable(l) /\ p \in Procs /\ Fits(s, j, l.start)
  BY DEF Insertable
<1> USE <1>h
<1>1. /\ s \in Work /\ s.list \in Seq(Recs) /\ IsInjective(s.list) /\ s.free \subseteq Recs
      /\ s.recs \in [Recs -> Record \cup {Blank}]
  BY WorkFields DEF ListOK
<1>2. x \in s.free /\ x \in Recs
  BY <1>1 DEF AnyOf
<1>3. x \notin ToSet(s.list)
  BY <1>2 DEF ListOK
<1>4. LockOf(l, p) \in Record /\ InUse(LockOf(l, p)) /\ LockOf(l, p).start = l.start
  BY DEF Lockable, LockOf, Record, InUse
<1>5. t = [s EXCEPT !.free = fr, !.list = q, !.recs = c]
  BY DEF Insflck, LockOf
<1>6. j + 1 \in 1..(Len(s.list) + 1)
  BY <1>1 DEF Fits
<1>7. q \in Seq(Recs) /\ IsInjective(q) /\ ToSet(q) = ToSet(s.list) \cup {x}
  BY <1>1, <1>2, <1>3, <1>6, InsertAtFacts
<1>p. /\ Len(q) = Len(s.list) + 1 /\ Len(s.list) \in Nat
      /\ \A k \in 1..(Len(s.list) + 1) :
           q[k] = IF k < j + 1 THEN s.list[k] ELSE IF k = j + 1 THEN x ELSE s.list[k - 1]
  <2>1. Len(s.list) \in Nat
    BY <1>1
  <2> DEFINE i == j + 1
             z == s.list
  <2>2. i \in 1..(Len(z) + 1) /\ z \in Seq(Recs) /\ x \in Recs /\ q = InsertAt(z, i, x)
    BY <1>1, <1>2, <1>6
  <2> HIDE DEF x, i, z, q
  <2>3. /\ InsertAt(z, i, x) \in Seq(Recs) /\ Len(InsertAt(z, i, x)) = Len(z) + 1
        /\ \A k \in 1..(Len(z) + 1) :
             InsertAt(z, i, x)[k] = IF k < i THEN z[k] ELSE IF k = i THEN x ELSE z[k - 1]
    BY <2>2, InsertAtPlaces
  <2>4. QED
    BY <2>1, <2>2, <2>3 DEF i, z
<1>8. c \in [Recs -> Record \cup {Blank}] /\ fr \subseteq Recs
  BY <1>1, <1>4
<1>c. c[x] = LockOf(l, p) /\ \A y \in Recs : y # x => c[y] = s.recs[y]
  BY <1>1, <1>2
<1> HIDE DEF t, q, c, fr, x
<1>9. /\ t \in Work /\ t.list = q /\ t.recs = c /\ t.free = fr
      /\ t.ld = s.ld /\ t.scan = s.scan /\ t.insrt = s.insrt /\ t.woken = s.woken
  BY <1>1, <1>5, <1>7, <1>8 DEF Work
<1>10. ToSet(t.list) \cap t.free = {}
  BY <1>7, <1>9 DEF ListOK, fr
<1>11. \A y \in ToSet(t.list) : InUse(t.recs[y])
  <2>1. ToSet(s.list) \subseteq Recs
    BY <1>1, WorkFields
  <2>2. QED
    BY <1>4, <1>7, <1>9, <1>c, <2>1 DEF ListOK
<1>12. Sorted(t.list, t.recs)
  <2> DEFINE n == Len(s.list)
             v(k) == s.recs[s.list[k]].start
             u(k) == c[q[k]].start
  <2>1. \A k \in 1..n : s.list[k] \in ToSet(s.list) /\ s.list[k] \in Recs /\ s.list[k] # x
    BY <1>1, <1>3 DEF ToSet
  <2>2. \A k \in 1..n : v(k) \in Nat
    BY <2>1, RecordFields DEF ListOK, InUse
  <2>3. l.start \in Nat
    BY LockAssumption DEF Lockable, Byte
  <2>4. \A k \in 1..(n + 1) : u(k) = IF k < j + 1 THEN v(k) ELSE IF k = j + 1 THEN l.start ELSE v(k - 1)
    <3> SUFFICES ASSUME NEW k \in 1..(n + 1)
                 PROVE  u(k) = IF k < j + 1 THEN v(k) ELSE IF k = j + 1 THEN l.start ELSE v(k - 1)
      OBVIOUS
    <3>1. CASE k < j + 1
      <4>1. k \in 1..n /\ q[k] = s.list[k]
        BY <1>6, <1>p, <3>1
      <4>2. QED
        BY <1>c, <2>1, <3>1, <4>1
    <3>2. CASE k = j + 1
      BY <1>4, <1>c, <1>p, <3>2
    <3>3. CASE k > j + 1
      <4>1. k - 1 \in 1..n /\ q[k] = s.list[k - 1] /\ ~(k < j + 1) /\ k # j + 1
        BY <1>6, <1>p, <3>3
      <4>2. QED
        BY <1>c, <2>1, <4>1
    <3>4. QED
      BY <1>6, <3>1, <3>2, <3>3
  <2>5. \A k, m \in 1..n : k < m => v(k) <= v(m)
    BY <1>1 DEF ListOK, Sorted
  <2>6. /\ j \in 0..n
        /\ \A k \in 1..j : v(k) <= l.start
        /\ \A k \in (j + 1)..n : l.start <= v(k)
    BY DEF Fits
  <2>7. ASSUME NEW k \in 1..(n + 1), NEW m \in 1..(n + 1), k < m PROVE u(k) <= u(m)
    <3> HIDE DEF u, v, n
    <3> USE <1>p DEF n
    <3>1. CASE m < j + 1
      <4>1. k \in 1..n /\ m \in 1..n /\ u(k) = v(k) /\ u(m) = v(m)
        BY <2>4, <2>6, <2>7, <3>1
      <4>2. QED
        BY <2>5, <2>7, <4>1
    <3>2. CASE m = j + 1
      <4>1. k \in 1..j /\ u(k) = v(k) /\ u(m) = l.start
        BY <2>4, <2>6, <2>7, <3>2
      <4>2. QED
        BY <2>6, <4>1
    <3>3. CASE m > j + 1 /\ k < j + 1
      <4>1. k \in 1..n /\ m - 1 \in 1..n /\ u(k) = v(k) /\ u(m) = v(m - 1) /\ k < m - 1
        BY <2>4, <2>6, <2>7, <3>3
      <4>2. QED
        BY <2>5, <4>1
    <3>4. CASE m > j + 1 /\ k = j + 1
      <4>1. m - 1 \in (j + 1)..n /\ u(k) = l.start /\ u(m) = v(m - 1)
        BY <2>4, <2>6, <2>7, <3>4
      <4>2. QED
        BY <2>6, <4>1
    <3>5. CASE k > j + 1
      <4>1. k - 1 \in 1..n /\ m - 1 \in 1..n /\ u(k) = v(k - 1) /\ u(m) = v(m - 1) /\ k - 1 < m - 1
        BY <2>4, <2>6, <2>7, <3>5
      <4>2. QED
        BY <2>5, <4>1
    <3>6. QED
      BY <2>6, <2>7, <3>1, <3>2, <3>3, <3>4, <3>5
  <2>8. DOMAIN t.list = 1..(n + 1)
    BY <1>7, <1>9, <1>p
  <2> HIDE DEF n
  <2>9. QED
    BY <1>9, <2>7, <2>8 DEF Sorted
<1>13. /\ x \in s.free /\ t.free = s.free \ {x} /\ ToSet(t.list) = ToSet(s.list) \cup {x}
       /\ t.recs = [s.recs EXCEPT ![x] = LockOf(l, p)]
  BY <1>2, <1>7, <1>9 DEF c, fr
<1>14. ListOK(t)
  BY <1>7, <1>9, <1>10, <1>11, <1>12 DEF ListOK
<1>15. QED
  BY <1>9, <1>13, <1>14 DEF t, Inserted

(* The end of an own lock is given up: it is shorter. *)
Trimmed(s, t, x) ==
    /\ ListOK(t)
    /\ t.ld = s.ld /\ t.scan = s.scan /\ t.insrt = x /\ t.free = s.free /\ t.list = s.list
    /\ \A y \in Recs : y # x => t.recs[y] = s.recs[y]
    /\ t.recs[x] = [s.recs[x] EXCEPT !.end = s.ld.start - 1, !.stat = NoProc]
    /\ t.woken = s.woken \cup (IF s.recs[x].stat = NoProc THEN {} ELSE {x})

LEMMA TrimFacts ==
    ASSUME NEW s, ListOK(s), NEW x \in ToSet(s.list), s.recs[x].start < s.ld.start
    PROVE  Trimmed(s, Trim(s, x), x)
<1> DEFINE t == Trim(s, x)
           w == WakeRec(s, x)
           m == s.recs[x]
           e == s.ld.start - 1
           n == [w.recs[x] EXCEPT !.end = e]
           c == [w.recs EXCEPT ![x] = n]
<1>1. s \in Work /\ x \in Recs /\ s.list \in Seq(Recs) /\ InUse(m) /\ m \in Record
  BY WorkFields DEF ListOK, InUse
<1>2. m.start \in Nat /\ e \in Byte /\ m.start <= e
  <2>1. m.start \in Nat
    BY <1>1, RecordFields
  <2>2. s.ld.start \in 0..MaxByte /\ MaxByte \in Nat
    BY <1>1, WorkFields, LockAssumption DEF Request, Byte
  <2>3. QED
    BY <2>1, <2>2 DEF Byte
<1>3. /\ w \in Work
      /\ w.free = s.free /\ w.list = s.list /\ w.ld = s.ld /\ w.scan = s.scan
      /\ w.insrt = s.insrt
      /\ w.recs = [s.recs EXCEPT ![x] = [@ EXCEPT !.stat = NoProc]]
      /\ w.woken = s.woken \cup (IF s.recs[x].stat = NoProc THEN {} ELSE {x})
  BY <1>1, WakeRecFacts
<1>4. t = [w EXCEPT !.recs = c, !.insrt = x]
  BY DEF Trim
<1>5. w.recs[x] = [m EXCEPT !.stat = NoProc] /\ w.recs \in [Recs -> Record \cup {Blank}]
  BY <1>1, <1>3, WorkFields
<1>6. n = [m EXCEPT !.end = e, !.stat = NoProc]
  BY <1>1, <1>5 DEF Record
<1>7. n \in Record /\ InUse(n) /\ n.start = m.start
  BY <1>1, <1>2, <1>6 DEF Record, InUse
<1>8. c \in [Recs -> Record \cup {Blank}]
  BY <1>5, <1>7
<1>9. c[x] = n /\ \A y \in Recs : y # x => c[y] = s.recs[y]
  BY <1>1, <1>3, <1>5, WorkFields
<1> HIDE DEF t, w, n, c, e
<1>10. /\ t \in Work /\ t.recs = c /\ t.insrt = x /\ t.list = s.list /\ t.free = s.free
       /\ t.ld = s.ld /\ t.scan = s.scan /\ t.woken = w.woken
  BY <1>1, <1>3, <1>4, <1>8 DEF Work
<1>11. \A y \in ToSet(s.list) : InUse(t.recs[y]) /\ t.recs[y].start = s.recs[y].start
  <2>1. ToSet(s.list) \subseteq Recs
    BY <1>1, WorkFields
  <2>2. QED
    BY <1>7, <1>9, <1>10, <2>1 DEF ListOK
<1>12. Sorted(t.list, t.recs)
  <2>1. \A k \in DOMAIN s.list : s.list[k] \in ToSet(s.list)
    BY DEF ToSet
  <2>2. QED
    BY <1>10, <1>11, <2>1 DEF ListOK, Sorted
<1>13. ListOK(t)
  BY <1>10, <1>11, <1>12 DEF ListOK
<1>14. QED
  BY <1>3, <1>6, <1>9, <1>10, <1>13 DEF t, e, Trimmed

-----------------------------------------------------------------------------
(* What flckadj does about one lock. *)

(* Where the request is to go, as far as it has grown: not after a lock    *)
(* that starts later.                                                      *)
InsrtOK(s) ==
    IF s.insrt = NoRec THEN \A x \in ToSet(s.list) : s.ld.start <= s.recs[x].start
    ELSE s.insrt \in ToSet(s.list) /\ s.recs[s.insrt].start <= s.ld.start

LEMMA RequestFacts ==
    ASSUME NEW l \in Request
    PROVE  /\ l.start \in Byte /\ l.end \in Byte /\ l.start <= l.end
           /\ l.start \in Nat /\ l.end \in Nat
           /\ l.type \in LockType \cup {"F_UNLCK"} /\ l.file \in Files
           /\ l.op \in {"set", "wait", "check"}
<1>1. /\ l.start \in Byte /\ l.end \in Byte /\ l.start <= l.end
      /\ l.type \in LockType \cup {"F_UNLCK"} /\ l.file \in Files
      /\ l.op \in {"set", "wait", "check"}
  BY DEF Request
<1>2. l.start \in Nat /\ l.end \in Nat
  BY <1>1, LockAssumption DEF Byte
<1>3. QED
  BY <1>1, <1>2

(* A request for other bytes. *)
Ranged(l, a, b) == [l EXCEPT !.start = a, !.end = b]

LEMMA RangedFacts ==
    ASSUME NEW l \in Request, NEW a \in Byte, NEW b \in Byte, a <= b
    PROVE  /\ Ranged(l, a, b) \in Request
           /\ Ranged(l, a, b).start = a /\ Ranged(l, a, b).end = b
           /\ Ranged(l, a, b).type = l.type /\ Ranged(l, a, b).file = l.file
           /\ Ranged(l, a, b).op = l.op
<1> DEFINE k == Ranged(l, a, b)
<1>1. l \in [op : {"set", "wait", "check"}, file : Files, type : LockType \cup {"F_UNLCK"},
             start : Byte, end : Byte] /\ (l.type = "F_UNLCK" => l.op = "set")
  BY DEF Request
<1>2. k \in [op : {"set", "wait", "check"}, file : Files, type : LockType \cup {"F_UNLCK"},
             start : Byte, end : Byte]
      /\ k.start = a /\ k.end = b /\ k.type = l.type /\ k.file = l.file /\ k.op = l.op
  BY <1>1 DEF Ranged
<1> HIDE DEF k
<1>3. k \in Request
  BY <1>1, <1>2 DEF Request
<1>4. QED
  BY <1>2, <1>3 DEF k

(* The request grown by a lock. *)
Hull(l, m) ==
    Ranged(l, IF l.start <= m.start THEN l.start ELSE m.start,
              IF l.end <= m.end THEN m.end ELSE l.end)

LEMMA HullFacts ==
    ASSUME NEW l \in Request, NEW m, InUse(m)
    PROVE  LET k == Hull(l, m) IN
           /\ k \in Request /\ k.type = l.type
           /\ k.start = IF l.start <= m.start THEN l.start ELSE m.start
           /\ k.end = IF l.end <= m.end THEN m.end ELSE l.end
<1> DEFINE a == IF l.start <= m.start THEN l.start ELSE m.start
           b == IF l.end <= m.end THEN m.end ELSE l.end
<1>1. /\ m.start \in Byte /\ m.end \in Byte /\ m.start \in Nat /\ m.end \in Nat
      /\ m.start <= m.end
  BY RecordFields DEF InUse
<1>2. a \in Byte /\ b \in Byte /\ a <= b
  BY <1>1, RequestFacts
<1>3. Hull(l, m) = Ranged(l, a, b)
  BY DEF Hull
<1>4. /\ Ranged(l, a, b) \in Request /\ Ranged(l, a, b).type = l.type
      /\ Ranged(l, a, b).start = a /\ Ranged(l, a, b).end = b
  <2> HIDE DEF a, b
  <2> QED
    BY <1>2, RangedFacts
<1>5. QED
  BY <1>3, <1>4

(* The lock before another. *)
LEMMA PrevFacts ==
    ASSUME NEW s, ListOK(s), NEW x \in ToSet(s.list)
    PROVE  IF Prev(s, x) = NoRec THEN \A y \in ToSet(s.list) : s.recs[x].start <= s.recs[y].start
           ELSE /\ Prev(s, x) \in ToSet(s.list) \ {x}
                /\ s.recs[Prev(s, x)].start <= s.recs[x].start
<1> DEFINE i == IndexIn(s, x)
<1>1. s \in Work /\ s.list \in Seq(Recs)
  BY WorkFields DEF ListOK
<1>2. i \in DOMAIN s.list /\ s.list[i] = x /\ DOMAIN s.list = 1..Len(s.list) /\ Len(s.list) \in Nat
  BY <1>1, IndexFacts
<1>3. Prev(s, x) = IF i = 1 THEN NoRec ELSE s.list[i - 1]
  BY DEF Prev
<1> HIDE DEF i
<1>4. \A j \in DOMAIN s.list : s.list[j] \in ToSet(s.list) /\ s.list[j] # NoRec
  <2>1. \A j \in DOMAIN s.list : s.list[j] \in ToSet(s.list)
    BY DEF ToSet
  <2>2. QED
    BY <1>1, <2>1, WorkFields, LockAssumption
<1>5. CASE i = 1
  <2>1. ASSUME NEW y \in ToSet(s.list) PROVE s.recs[x].start <= s.recs[y].start
    <3>1. PICK j \in DOMAIN s.list : s.list[j] = y
      BY DEF ToSet
    <3>2. s.recs[x].start \in Nat
      BY RecordFields DEF ListOK, InUse
    <3>3. CASE j = 1
      BY <1>2, <1>5, <3>1, <3>2, <3>3
    <3>4. CASE j # 1
      <4>1. i < j
        BY <1>2, <1>5, <3>4
      <4>2. QED
        BY <1>2, <3>1, <4>1 DEF ListOK, Sorted
    <3>5. QED
      BY <3>3, <3>4
  <2>2. QED
    BY <1>3, <1>5, <2>1
<1>6. CASE i # 1
  <2>1. i - 1 \in DOMAIN s.list /\ i - 1 < i
    BY <1>2, <1>6
  <2>2. s.list[i - 1] # x
    BY <1>2, <2>1 DEF ListOK, IsInjective
  <2>3. s.recs[s.list[i - 1]].start <= s.recs[x].start
    BY <1>2, <2>1 DEF ListOK, Sorted
  <2>4. Prev(s, x) = s.list[i - 1] /\ s.list[i - 1] \in ToSet(s.list) \ {x} /\ s.list[i - 1] # NoRec
    BY <1>3, <1>4, <1>6, <2>1, <2>2
  <2>5. QED
    BY <2>3, <2>4
<1>7. QED
  BY <1>5, <1>6

(* Whoever sleeps on the lock is told. *)
ToldOf(s, x) == IF s.recs[x].stat = NoProc THEN {} ELSE {x}

(* The request has swallowed the lock x. *)
Swallowed(s, t, x) ==
    LET m == s.recs[x] IN
    /\ ListOK(t)
    /\ t.free = s.free \cup {x} /\ ToSet(t.list) = ToSet(s.list) \ {x}
    /\ \A y \in Recs : y # x => t.recs[y] = s.recs[y]
    /\ t.woken = s.woken \cup ToldOf(s, x)
    /\ t.ld = Hull(s.ld, m)
    /\ t.scan = IF s.ld.end <= m.end THEN "last" ELSE s.scan
    /\ InsrtOK(s) => InsrtOK(t)

LEMMA SwallowFacts ==
    ASSUME NEW s, ListOK(s), NEW x \in ToSet(s.list)
    PROVE  Swallowed(s, Swallow(s, x), x)
<1> DEFINE m == s.recs[x]
           t == Swallow(s, x)
           a == IF s.ld.start <= m.start THEN s.ld.start ELSE m.start
           b == IF s.ld.end <= m.end THEN m.end ELSE s.ld.end
           l == [s.ld EXCEPT !.start = a, !.end = b]
           i == IF m.start <= s.ld.start THEN Prev(s, x) ELSE s.insrt
           c == IF s.ld.end <= m.end THEN "last" ELSE s.scan
           g == [s EXCEPT !.ld = l, !.insrt = i, !.scan = c]
<1>1. /\ s \in Work /\ x \in Recs /\ s.ld \in Request
      /\ s.scan \in {"go", "last", "over", "ENOLCK"} /\ s.insrt \in Recs \cup {NoRec}
      /\ ToSet(s.list) \subseteq Recs
  BY WorkFields DEF ListOK
<1>2. /\ m.start \in Nat /\ m.end \in Nat /\ m.start <= m.end /\ m.start \in Byte /\ m.end \in Byte
      /\ s.ld.start \in Nat /\ s.ld.end \in Nat /\ s.ld.start <= s.ld.end
      /\ s.ld.start \in Byte /\ s.ld.end \in Byte
  BY <1>1, RecordFields, RequestFacts DEF ListOK, InUse
<1>3. t = Delflck(g, x)
  <2>1. /\ Min({s.ld.start, m.start}) = a /\ Max({s.ld.end, m.end}) = b
    BY <1>2, TwoFacts
  <2>2. t = Delflck([s EXCEPT !.ld.start = Min({s.ld.start, m.start}),
                              !.ld.end = Max({s.ld.end, m.end}), !.insrt = i, !.scan = c], x)
    BY DEF Swallow
  <2> HIDE DEF a, b, i, c, t
  <2>3. t = Delflck([s EXCEPT !.ld.start = a, !.ld.end = b, !.insrt = i, !.scan = c], x)
    BY <2>1, <2>2
  <2>4. [s EXCEPT !.ld.start = a, !.ld.end = b, !.insrt = i, !.scan = c] = g
    BY <1>1 DEF Work
  <2>5. QED
    BY <2>3, <2>4
<1>4. a <= b /\ a \in Byte /\ b \in Byte
  BY <1>2
<1>5. l \in Request /\ l.start = a
  <2>1. l = Ranged(s.ld, a, b)
    BY DEF Ranged
  <2> HIDE DEF a, b, l
  <2>2. QED
    BY <1>1, <1>4, <2>1, RangedFacts
<1>6. i \in Recs \cup {NoRec} /\ c \in {"go", "last", "over", "ENOLCK"}
  BY <1>1, PrevFacts
<1>7. /\ g \in Work /\ g.recs = s.recs /\ g.free = s.free /\ g.list = s.list /\ g.woken = s.woken
      /\ g.ld = l /\ g.insrt = i /\ g.scan = c
  <2> HIDE DEF l, i, c
  <2> QED
    BY <1>1, <1>5, <1>6 DEF Work
<1>8. ListOK(g)
  BY <1>7 DEF ListOK
<1> HIDE DEF g, t
<1>9. /\ ListOK(t)
      /\ t.ld = g.ld /\ t.scan = g.scan /\ t.insrt = g.insrt
      /\ t.free = g.free \cup {x}
      /\ ToSet(t.list) = ToSet(g.list) \ {x}
      /\ \A y \in Recs : y # x => t.recs[y] = g.recs[y]
      /\ t.woken = g.woken \cup (IF g.recs[x].stat = NoProc THEN {} ELSE {x})
  BY <1>3, <1>7, <1>8, DelflckFacts
<1>10. ASSUME InsrtOK(s) PROVE InsrtOK(t)
  <2>1. t.ld.start = a /\ t.insrt = i
    BY <1>5, <1>7, <1>9
  <2>2. \A y \in ToSet(t.list) : t.recs[y] = s.recs[y] /\ y \in ToSet(s.list) /\ s.recs[y].start \in Nat
    BY <1>1, <1>7, <1>9, RecordFields DEF ListOK, InUse
  <2>3. CASE m.start <= s.ld.start
    <3>1. a = m.start /\ i = Prev(s, x)
      BY <1>2, <2>3
    <3> HIDE DEF a, i
    <3>2. CASE i = NoRec
      BY <2>1, <2>2, <3>1, <3>2, PrevFacts DEF InsrtOK
    <3>3. CASE i # NoRec
      <4>1. i \in ToSet(s.list) \ {x} /\ s.recs[i].start <= m.start
        BY <3>1, <3>3, PrevFacts
      <4>2. i \in ToSet(t.list) /\ t.recs[i] = s.recs[i]
        BY <1>7, <1>9, <2>2, <4>1
      <4>3. QED
        BY <2>1, <3>1, <3>3, <4>1, <4>2 DEF InsrtOK
    <3>4. QED
      BY <3>2, <3>3
  <2>4. CASE ~(m.start <= s.ld.start)
    <3>1. a = s.ld.start /\ i = s.insrt
      BY <1>2, <2>4
    <3> HIDE DEF a, i
    <3>2. CASE i = NoRec
      BY <1>10, <2>1, <2>2, <3>1, <3>2 DEF InsrtOK
    <3>3. CASE i # NoRec
      <4>1. i \in ToSet(s.list) /\ s.recs[i].start <= s.ld.start
        BY <1>10, <3>1, <3>3 DEF InsrtOK
      <4>2. i # x
        BY <2>4, <4>1
      <4>3. i \in ToSet(t.list) /\ t.recs[i] = s.recs[i]
        BY <1>7, <1>9, <2>2, <4>1, <4>2
      <4>4. QED
        BY <2>1, <3>1, <3>3, <4>1, <4>3 DEF InsrtOK
    <3>4. QED
      BY <3>2, <3>3
  <2>5. QED
    BY <2>3, <2>4
<1>11. t.ld = Hull(s.ld, m)
  BY <1>7, <1>9 DEF Hull, Ranged
<1>12. QED
  BY <1>7, <1>9, <1>10, <1>11 DEF Swallowed, ToldOf, t

(* The part x after the request has got a record of its own. *)
Tailed(s, t, x, p) ==
    LET m == s.recs[x] IN
    /\ ListOK(t)
    /\ t.ld = s.ld /\ t.scan = "last" /\ t.insrt = s.insrt /\ t.woken = s.woken
    /\ \E y \in s.free :
         /\ t.free = s.free \ {y} /\ ToSet(t.list) = ToSet(s.list) \cup {y}
         /\ t.recs = [s.recs EXCEPT ![y] = LockOf([m EXCEPT !.start = s.ld.end + 1], p)]

LEMMA TailedFacts ==
    ASSUME NEW s, ListOK(s), NEW x \in ToSet(s.list), NEW p \in Procs, s.free # {},
           s.recs[x].start <= s.ld.end, s.ld.end < s.recs[x].end
    PROVE  Tailed(s, [Insflck(s, [s.recs[x] EXCEPT !.start = s.ld.end + 1], p,
                              After(s, IndexIn(s, x), s.ld.end + 1)) EXCEPT !.scan = "last"], x, p)
<1> DEFINE m == s.recs[x]
           a == s.ld.end + 1
           l == [m EXCEPT !.start = a]
           j == After(s, IndexIn(s, x), a)
           u == Insflck(s, l, p, j)
           t == [u EXCEPT !.scan = "last"]
<1>1. /\ s \in Work /\ s.list \in Seq(Recs) /\ m \in Record /\ m.end \in Byte
      /\ m.start \in Nat /\ m.end \in Nat /\ s.ld.end \in Nat
  BY WorkFields, RecordFields, RequestFacts DEF ListOK, InUse
<1>2. a \in Byte /\ a \in Nat /\ a <= m.end /\ m.start <= a
  BY <1>1, LockAssumption DEF Byte
<1>3. Lockable(l) /\ l.start = a
  <2>1. l \in Record /\ l.start = a /\ l.end = m.end
    BY <1>1, <1>2 DEF Record
  <2> HIDE DEF l
  <2>2. QED
    BY <1>2, <2>1, RecordFields DEF Lockable
<1>4. Fits(s, j, l.start)
  <2> DEFINE i == IndexIn(s, x)
  <2>1. i \in DOMAIN s.list /\ s.list[i] = x /\ DOMAIN s.list = 1..Len(s.list)
    BY <1>1, IndexFacts
  <2> HIDE DEF i
  <2>2. i \in 0..Len(s.list) /\ i # 0 /\ s.recs[s.list[i]].start <= a
    BY <1>1, <1>2, <2>1
  <2> HIDE DEF a
  <2>3. Fits(s, After(s, i, a), a)
    BY <1>2, <2>2, AfterFacts
  <2>4. QED
    BY <1>3, <2>3 DEF i
<1> HIDE DEF l, j, a
<1>5. /\ ListOK(u)
      /\ u.ld = s.ld /\ u.scan = s.scan /\ u.insrt = s.insrt /\ u.woken = s.woken
      /\ \E y \in s.free :
           /\ u.free = s.free \ {y}
           /\ ToSet(u.list) = ToSet(s.list) \cup {y}
           /\ u.recs = [s.recs EXCEPT ![y] = LockOf(l, p)]
  <2>1. Insertable(s, l, p, j)
    BY <1>3, <1>4 DEF Insertable
  <2>2. Inserted(s, u, l, p)
    BY <2>1, InsflckFacts
  <2> HIDE DEF u
  <2>3. QED
    BY <2>2 DEF Inserted
<1> HIDE DEF u
<1>6. /\ t \in Work /\ t.scan = "last" /\ t.ld = u.ld /\ t.insrt = u.insrt /\ t.woken = u.woken
      /\ t.free = u.free /\ t.list = u.list /\ t.recs = u.recs
  BY <1>5 DEF ListOK, Work
<1> HIDE DEF t
<1>7. ListOK(t)
  BY <1>5, <1>6 DEF ListOK
<1>8. PICK y \in s.free :
           /\ u.free = s.free \ {y}
           /\ ToSet(u.list) = ToSet(s.list) \cup {y}
           /\ u.recs = [s.recs EXCEPT ![y] = LockOf(l, p)]
  BY <1>5
<1>9. Tailed(s, t, x, p)
  BY <1>5, <1>6, <1>7, <1>8 DEF Tailed, l, a
<1>10. QED
  BY <1>9 DEF t, u, j, l, a

(* What is left of the lock x is the part before the request, or nothing. *)
Cut(s, t, x) ==
    LET m == s.recs[x]
        gone == IF Leads(s.ld, m) THEN {} ELSE {x}
    IN
    /\ ListOK(t)
    /\ t.ld = s.ld /\ t.scan = s.scan /\ t.woken = s.woken \cup ToldOf(s, x)
    /\ t.free = s.free \cup gone /\ ToSet(t.list) = ToSet(s.list) \ gone
    /\ \A y \in Recs : y # x => t.recs[y] = s.recs[y]
    /\ Leads(s.ld, m) => t.recs[x] = [m EXCEPT !.end = s.ld.start - 1, !.stat = NoProc]

(* i is the lock before x, or the head of the list. *)
Precedes(s, i, x) ==
    IF i = NoRec THEN \A y \in ToSet(s.list) : s.recs[x].start <= s.recs[y].start
    ELSE i \in ToSet(s.list) \ {x} /\ s.recs[i].start <= s.recs[x].start

LEMMA CutFacts ==
    ASSUME NEW s, ListOK(s), NEW x \in ToSet(s.list), NEW i \in Recs \cup {NoRec},
           Precedes(s, i, x)
    PROVE  LET m == s.recs[x]
               t == IF Leads(s.ld, m) THEN Trim(s, x)
                    ELSE Delflck([s EXCEPT !.insrt = IF m.start = s.ld.start THEN i ELSE @], x)
           IN  Cut(s, t, x) /\ (InsrtOK(s) => InsrtOK(t))
<1> DEFINE m == s.recs[x]
           t == IF Leads(s.ld, m) THEN Trim(s, x)
                ELSE Delflck([s EXCEPT !.insrt = IF m.start = s.ld.start THEN i ELSE @], x)
<1>1. /\ s \in Work /\ x \in Recs /\ ToSet(s.list) \subseteq Recs /\ x # NoRec
      /\ m.start \in Nat /\ s.ld.start \in Nat
  BY WorkFields, RecordFields, RequestFacts, LockAssumption DEF ListOK, InUse
<1>2. CASE Leads(s.ld, m)
  <2> DEFINE w == Trim(s, x)
  <2>1. m.start < s.ld.start
    BY <1>2 DEF Leads
  <2>2. /\ ListOK(w)
        /\ w.ld = s.ld /\ w.scan = s.scan /\ w.insrt = x /\ w.free = s.free /\ w.list = s.list
        /\ \A y \in Recs : y # x => w.recs[y] = s.recs[y]
        /\ w.recs[x] = [m EXCEPT !.end = s.ld.start - 1, !.stat = NoProc]
        /\ w.woken = s.woken \cup (IF s.recs[x].stat = NoProc THEN {} ELSE {x})
    <3>1. Trimmed(s, w, x)
      BY <2>1, TrimFacts
    <3> HIDE DEF w
    <3>2. QED
      BY <3>1 DEF Trimmed
  <2> HIDE DEF w
  <2>3. Cut(s, w, x)
    BY <1>2, <2>2 DEF Cut, ToldOf
  <2>4. w.recs[x].start = m.start
    <3>1. m \in Record
      BY DEF ListOK, InUse
    <3>2. QED
      BY <2>2, <3>1 DEF Record
  <2>5. InsrtOK(w)
    BY <1>1, <2>1, <2>2, <2>4 DEF InsrtOK
  <2>6. t = w
    BY <1>2 DEF w
  <2> HIDE DEF t
  <2>7. QED
    BY <2>3, <2>5, <2>6 DEF t
<1>3. CASE ~Leads(s.ld, m)
  <2> DEFINE k == IF m.start = s.ld.start THEN i ELSE s.insrt
             g == [s EXCEPT !.insrt = k]
             w == Delflck(g, x)
  <2>1. t = w
    BY <1>3
  <2>2. s.insrt \in Recs \cup {NoRec}
    BY <1>1, WorkFields
  <2>3. k \in Recs \cup {NoRec}
    BY <2>2
  <2> HIDE DEF k
  <2>4. /\ g \in Work /\ g.recs = s.recs /\ g.free = s.free /\ g.list = s.list /\ g.woken = s.woken
        /\ g.ld = s.ld /\ g.insrt = k /\ g.scan = s.scan
    BY <1>1, <2>3 DEF Work
  <2> HIDE DEF g, t
  <2>5. ListOK(g)
    BY <2>4 DEF ListOK
  <2>6. /\ ListOK(w)
        /\ w.ld = g.ld /\ w.scan = g.scan /\ w.insrt = g.insrt
        /\ w.free = g.free \cup {x}
        /\ ToSet(w.list) = ToSet(g.list) \ {x}
        /\ \A y \in Recs : y # x => w.recs[y] = g.recs[y]
        /\ w.woken = g.woken \cup (IF g.recs[x].stat = NoProc THEN {} ELSE {x})
    BY <2>4, <2>5, DelflckFacts
  <2> HIDE DEF w
  <2>7. Cut(s, w, x)
    BY <1>3, <2>4, <2>6 DEF Cut, ToldOf
  <2>8. ASSUME InsrtOK(s) PROVE InsrtOK(w)
    <3>1. ASSUME NEW y \in ToSet(s.list), y # x
          PROVE  y \in ToSet(w.list) /\ w.recs[y] = s.recs[y]
      BY <1>1, <2>4, <2>6, <3>1
    <3>2. \A y \in ToSet(w.list) : y \in ToSet(s.list) /\ y # x
      BY <2>4, <2>6
    <3>3. CASE m.start = s.ld.start
      <4>1. k = i
        BY <3>3 DEF k
      <4>2. CASE i = NoRec
        BY <2>4, <2>6, <3>1, <3>2, <3>3, <4>1, <4>2 DEF Precedes, InsrtOK
      <4>3. CASE i # NoRec
        BY <2>4, <2>6, <3>1, <3>3, <4>1, <4>3 DEF Precedes, InsrtOK
      <4>4. QED
        BY <4>2, <4>3
    <3>4. CASE m.start # s.ld.start
      <4>1. k = s.insrt /\ s.ld.start < m.start
        BY <1>1, <1>3, <3>4 DEF k, Leads
      <4>2. CASE k = NoRec
        BY <2>4, <2>6, <2>8, <3>1, <3>2, <4>1, <4>2 DEF InsrtOK
      <4>3. CASE k # NoRec
        <5>1. k \in ToSet(s.list) /\ s.recs[k].start <= s.ld.start
          BY <2>8, <4>1, <4>3 DEF InsrtOK
        <5>2. k # x
          BY <1>1, <4>1, <5>1
        <5>3. QED
          BY <2>4, <2>6, <3>1, <4>3, <5>1, <5>2 DEF InsrtOK
      <4>4. QED
        BY <4>2, <4>3
    <3>5. QED
      BY <3>3, <3>4
  <2>9. QED
    BY <2>1, <2>7, <2>8 DEF t
<1>4. QED
  BY <1>2, <1>3

(* The ways in which flckadj deals with an own lock x.  Nothing is done    *)
(* because the lock is past the request ...                                *)
Untouched(s, t) ==
    /\ ListOK(t)
    /\ t.recs = s.recs /\ t.free = s.free /\ t.list = s.list /\ t.ld = s.ld /\ t.woken = s.woken

IsPast(s, t, x) ==
    /\ Untouched(s, t) /\ t.scan = "last" /\ t.insrt = s.insrt
    /\ s.ld.end < s.recs[x].start
    /\ s.recs[x].type = s.ld.type => s.ld.end + 1 < s.recs[x].start

(* ... or before it, or covers it; or records have run out.                *)
IsBefore(s, t, x) ==
    /\ Untouched(s, t) /\ t.scan = "go" /\ t.insrt \in {x, s.insrt}
    /\ s.recs[x].end < s.ld.start
    /\ s.recs[x].type = s.ld.type => s.recs[x].end + 1 < s.ld.start

IsOver(s, t, x) ==
    /\ Untouched(s, t) /\ t.scan = "over" /\ t.insrt = s.insrt
    /\ s.recs[x].type = s.ld.type
    /\ s.recs[x].start <= s.ld.start /\ s.ld.end <= s.recs[x].end

RunsOut(s, t, x) ==
    /\ Untouched(s, t) /\ t.scan = "ENOLCK" /\ t.insrt = s.insrt
    /\ s.free = {} /\ s.recs[x].type # s.ld.type /\ Overlap(s.ld, s.recs[x])
    /\ s.ld.end < s.recs[x].end

(* The lock is swallowed, or loses what the request is about. *)
IsSwallow(s, t, x) ==
    /\ Swallowed(s, t, x) /\ s.recs[x].type = s.ld.type
    /\ s.recs[x].start <= s.ld.end + 1 /\ s.ld.start <= s.recs[x].end + 1

IsSplit(s, t, x, p) ==
    /\ s.recs[x].type # s.ld.type /\ Overlap(s.ld, s.recs[x])
    /\ \E u : /\ IF s.ld.end < s.recs[x].end THEN Tailed(s, u, x, p) ELSE u = s
              /\ Cut(u, t, x)
              /\ InsrtOK(u) => InsrtOK(t)

Adjusted(s, t, x, p) ==
    \/ IsPast(s, t, x) \/ IsBefore(s, t, x) \/ IsOver(s, t, x) \/ RunsOut(s, t, x)
    \/ IsSwallow(s, t, x) \/ IsSplit(s, t, x, p)

(* Only these fields are changed. *)
LEMMA UntouchedFacts ==
    ASSUME NEW s, ListOK(s), NEW c \in {"go", "last", "over", "ENOLCK"}, NEW i \in Recs \cup {NoRec}
    PROVE  LET t == [s EXCEPT !.scan = c, !.insrt = i] IN
           Untouched(s, t) /\ t.scan = c /\ t.insrt = i
<1> DEFINE t == [s EXCEPT !.scan = c, !.insrt = i]
<1>1. /\ t \in Work /\ t.recs = s.recs /\ t.free = s.free /\ t.list = s.list /\ t.ld = s.ld
      /\ t.woken = s.woken /\ t.scan = c /\ t.insrt = i
  BY DEF ListOK, Work
<1> HIDE DEF t
<1>2. ListOK(t)
  BY <1>1 DEF ListOK
<1>3. QED
  BY <1>1, <1>2 DEF Untouched, t

(* The part before, the same way in the state with the record of the part  *)
(* after as without.                                                       *)
LEMMA TailedPrecedes ==
    ASSUME NEW s, ListOK(s), NEW x \in ToSet(s.list), NEW u, NEW p, Tailed(s, u, x, p),
           NEW i, Precedes(s, i, x), s.recs[x].start <= s.ld.end
    PROVE  /\ Precedes(u, i, x) /\ x \in ToSet(u.list) /\ u.recs[x] = s.recs[x]
           /\ InsrtOK(s) => InsrtOK(u)
<1> DEFINE m == s.recs[x]
           tail == LockOf([m EXCEPT !.start = s.ld.end + 1], p)
<1>1. /\ ListOK(u)
      /\ u.ld = s.ld /\ u.scan = "last" /\ u.insrt = s.insrt /\ u.woken = s.woken
  BY DEF Tailed
<1>2. PICK y \in s.free :
         /\ u.free = s.free \ {y} /\ ToSet(u.list) = ToSet(s.list) \cup {y}
         /\ u.recs = [s.recs EXCEPT ![y] = tail]
  BY DEF Tailed
<1>3. /\ m \in Record /\ m.start \in Nat /\ s.ld.start \in Nat /\ s.ld.end \in Nat
      /\ s.ld.start <= s.ld.end
      /\ s.free \subseteq Recs /\ ToSet(s.list) \subseteq Recs
      /\ s.recs \in [Recs -> Record \cup {Blank}]
  BY WorkFields, RecordFields, RequestFacts DEF ListOK, InUse
<1>4. tail.start = s.ld.end + 1
  BY <1>3 DEF LockOf, Record
<1> HIDE DEF tail
<1>5. y \notin ToSet(s.list)
  BY DEF ListOK
<1>6. u.recs[y] = tail /\ \A z \in ToSet(s.list) : z \in ToSet(u.list) /\ u.recs[z] = s.recs[z]
  BY <1>2, <1>3, <1>5
<1>7. m.start <= tail.start /\ s.ld.start <= tail.start
  BY <1>3, <1>4
<1>8. Precedes(u, i, x)
  BY <1>2, <1>6, <1>7 DEF Precedes
<1>9. InsrtOK(s) => InsrtOK(u)
  BY <1>1, <1>2, <1>6, <1>7 DEF InsrtOK
<1>10. QED
  BY <1>6, <1>8, <1>9

LEMMA SplitFacts ==
    ASSUME NEW s, ListOK(s), s.scan = "go", NEW x \in ToSet(s.list), NEW p \in Procs,
           s.recs[x].type # s.ld.type, Overlap(s.ld, s.recs[x])
    PROVE  RunsOut(s, Split(s, x, p), x) \/ IsSplit(s, Split(s, x, p), x, p)
<1> DEFINE m == s.recs[x]
           tail == [m EXCEPT !.start = s.ld.end + 1]
           t == Split(s, x, p)
           ins == Insflck(s, tail, p, After(s, IndexIn(s, x), s.ld.end + 1))
           i == Prev(s, x)
           Part(u) == IF Leads(s.ld, m) THEN Trim(u, x)
                      ELSE Delflck([u EXCEPT !.insrt = IF m.start = s.ld.start THEN i ELSE @], x)
<1>1. /\ m \in Record /\ m.start \in Nat /\ m.end \in Nat /\ s.ld.start \in Nat /\ s.ld.end \in Nat
      /\ m.start <= s.ld.end
  BY WorkFields, RecordFields, RequestFacts DEF ListOK, InUse, Overlap
<1>2. tail.start = s.ld.end + 1
  BY <1>1 DEF Record
<1>3. Precedes(s, i, x) /\ i \in Recs \cup {NoRec}
  <2>1. ToSet(s.list) \subseteq Recs
    BY WorkFields DEF ListOK
  <2>2. QED
    BY <2>1, PrevFacts DEF Precedes
<1>4. t = LET u == IF s.ld.end >= m.end THEN s
                   ELSE [ins EXCEPT !.scan = IF s.free = {} THEN "ENOLCK" ELSE "last"]
          IN  IF u.scan = "ENOLCK" THEN u ELSE Part(u)
  BY <1>2 DEF Split
<1> HIDE DEF t, i
<1>5. CASE s.ld.end >= m.end
  <2>1. t = Part(s)
    BY <1>4, <1>5
  <2>2. Cut(s, Part(s), x) /\ (InsrtOK(s) => InsrtOK(Part(s)))
    BY <1>3, CutFacts
  <2>3. ~(s.ld.end < m.end)
    BY <1>1, <1>5
  <2> HIDE DEF Part
  <2>4. QED
    BY <2>1, <2>2, <2>3 DEF IsSplit, t
<1>6. CASE ~(s.ld.end >= m.end) /\ s.free = {}
  <2> DEFINE u == [ins EXCEPT !.scan = "ENOLCK"]
  <2>1. /\ ListOK(ins)
        /\ ins.recs = s.recs /\ ins.free = s.free /\ ins.list = s.list /\ ins.ld = s.ld
        /\ ins.woken = s.woken /\ ins.insrt = s.insrt /\ ins.scan = "ENOLCK"
    BY <1>6, InsflckFails
  <2> HIDE DEF ins, Part, tail
  <2>2. u = ins
    BY <2>1 DEF ListOK, Work
  <2>3. t = ins
    <3>1. u.scan = "ENOLCK"
      BY <2>1, <2>2
    <3>2. QED
      BY <1>4, <1>6, <2>2, <3>1
  <2>4. s.ld.end < m.end
    BY <1>1, <1>6
  <2>5. RunsOut(s, t, x)
    BY <1>6, <2>1, <2>3, <2>4 DEF RunsOut, Untouched
  <2>6. QED
    BY <2>5 DEF t
<1>7. CASE ~(s.ld.end >= m.end) /\ s.free # {}
  <2> DEFINE u == [ins EXCEPT !.scan = "last"]
  <2>1. s.ld.end < m.end
    BY <1>1, <1>7
  <2>2. Tailed(s, u, x, p)
    BY <1>1, <1>7, <2>1, TailedFacts
  <2> HIDE DEF ins, tail, Part
  <2>3. t = IF u.scan = "ENOLCK" THEN u ELSE Part(u)
    BY <1>4, <1>7
  <2> HIDE DEF u
  <2>4. ListOK(u) /\ u.scan = "last" /\ u.ld = s.ld
    BY <2>2 DEF Tailed
  <2>5. Precedes(u, i, x) /\ x \in ToSet(u.list) /\ u.recs[x] = m
    BY <1>1, <1>3, <2>2, TailedPrecedes
  <2>6. Cut(u, Part(u), x) /\ (InsrtOK(u) => InsrtOK(Part(u)))
    <3> DEFINE w == IF Leads(u.ld, u.recs[x]) THEN Trim(u, x)
                    ELSE Delflck([u EXCEPT !.insrt =
                                    IF u.recs[x].start = u.ld.start THEN i ELSE @], x)
    <3>1. Cut(u, w, x) /\ (InsrtOK(u) => InsrtOK(w))
      BY <1>3, <2>4, <2>5, CutFacts
    <3>2. w = Part(u)
      BY <2>4, <2>5 DEF Part
    <3> HIDE DEF w, Part
    <3>3. QED
      BY <3>1, <3>2
  <2>7. t = Part(u)
    BY <2>3, <2>4
  <2> HIDE DEF Part
  <2>8. IsSplit(s, t, x, p)
    BY <2>1, <2>2, <2>6, <2>7 DEF IsSplit
  <2>9. QED
    BY <2>8 DEF t
<1>8. QED
  BY <1>5, <1>6, <1>7

(* What flckadj does about an own lock is one of these. *)
LEMMA AdjustFacts ==
    ASSUME NEW s, ListOK(s), s.scan = "go", NEW x \in ToSet(s.list), NEW p \in Procs,
           s.recs[x].pid = p
    PROVE  Adjusted(s, Adjust(s, x, p), x, p)
<1> DEFINE m == s.recs[x]
           l == s.ld
           same == m.type = l.type
           t == Adjust(s, x, p)
<1>1. /\ m.start \in Nat /\ m.end \in Nat /\ m.start <= m.end
      /\ l.start \in Nat /\ l.end \in Nat /\ l.start <= l.end
      /\ x \in Recs /\ s \in Work /\ s.insrt \in Recs \cup {NoRec}
  BY WorkFields, RecordFields, RequestFacts DEF ListOK, InUse
<1>2. t = IF Apart(l, m) THEN [s EXCEPT !.scan = "last"]
          ELSE IF Apart(m, l) THEN [s EXCEPT !.insrt = x]
          ELSE IF same /\ m.start <= l.start /\ l.end <= m.end THEN [s EXCEPT !.scan = "over"]
          ELSE IF same THEN Swallow(s, x)
          ELSE IF Overlap(l, m) THEN Split(s, x, p)
          ELSE IF l.end < m.start THEN [s EXCEPT !.scan = "last"] ELSE s
  BY DEF Adjust
<1> DEFINE Mark(c, i) == [s EXCEPT !.scan = c, !.insrt = i]
<1>3. \A c \in {"go", "last", "over", "ENOLCK"} : \A i \in Recs \cup {NoRec} :
         Untouched(s, Mark(c, i)) /\ Mark(c, i).scan = c /\ Mark(c, i).insrt = i
  BY UntouchedFacts
<1>4. /\ [s EXCEPT !.scan = "last"] = Mark("last", s.insrt)
      /\ [s EXCEPT !.insrt = x] = Mark("go", x)
      /\ [s EXCEPT !.scan = "over"] = Mark("over", s.insrt)
      /\ s = Mark("go", s.insrt)
  BY <1>1 DEF Work
<1>5. t = IF Apart(l, m) THEN Mark("last", s.insrt)
          ELSE IF Apart(m, l) THEN Mark("go", x)
          ELSE IF same /\ m.start <= l.start /\ l.end <= m.end THEN Mark("over", s.insrt)
          ELSE IF same THEN Swallow(s, x)
          ELSE IF Overlap(l, m) THEN Split(s, x, p)
          ELSE IF l.end < m.start THEN Mark("last", s.insrt) ELSE Mark("go", s.insrt)
  BY <1>2, <1>4
<1> HIDE DEF t, Mark
<1>6. CASE Apart(l, m) \/ (~same /\ ~Overlap(l, m) /\ ~Apart(m, l) /\ l.end < m.start)
  <2>1. t = Mark("last", s.insrt)
    BY <1>5, <1>6
  <2>2. l.end < m.start /\ (same => l.end + 1 < m.start)
    BY <1>1, <1>6 DEF Apart
  <2>3. IsPast(s, t, x)
    BY <1>1, <1>3, <2>1, <2>2 DEF IsPast
  <2>4. QED
    BY <2>3 DEF Adjusted, t
<1>7. CASE ~Apart(l, m) /\ (Apart(m, l) \/ (~same /\ ~Overlap(l, m) /\ ~(l.end < m.start)))
  <2>1. t \in {Mark("go", x), Mark("go", s.insrt)}
    BY <1>5, <1>7
  <2>2. m.end < l.start /\ (same => m.end + 1 < l.start)
    BY <1>1, <1>7 DEF Apart, Overlap
  <2>3. IsBefore(s, t, x)
    BY <1>1, <1>3, <2>1, <2>2 DEF IsBefore
  <2>4. QED
    BY <2>3 DEF Adjusted, t
<1>8. CASE ~Apart(l, m) /\ ~Apart(m, l) /\ same /\ m.start <= l.start /\ l.end <= m.end
  <2>1. t = Mark("over", s.insrt)
    BY <1>5, <1>8
  <2>2. IsOver(s, t, x)
    BY <1>1, <1>3, <1>8, <2>1 DEF IsOver
  <2>3. QED
    BY <2>2 DEF Adjusted, t
<1>9. CASE ~Apart(l, m) /\ ~Apart(m, l) /\ same /\ ~(m.start <= l.start /\ l.end <= m.end)
  <2>1. t = Swallow(s, x)
    BY <1>5, <1>9
  <2>2. m.start <= l.end + 1 /\ l.start <= m.end + 1
    BY <1>1, <1>9 DEF Apart
  <2>3. Swallowed(s, t, x)
    BY <2>1, SwallowFacts
  <2>4. IsSwallow(s, t, x)
    BY <1>9, <2>2, <2>3 DEF IsSwallow
  <2>5. QED
    BY <2>4 DEF Adjusted, t
<1>10. CASE ~Apart(l, m) /\ ~Apart(m, l) /\ ~same /\ Overlap(l, m)
  <2>1. t = Split(s, x, p)
    BY <1>5, <1>10
  <2>2. RunsOut(s, t, x) \/ IsSplit(s, t, x, p)
    BY <1>10, <2>1, SplitFacts
  <2>3. QED
    BY <2>2 DEF Adjusted, t
<1>11. QED
  BY <1>6, <1>7, <1>8, <1>9, <1>10

(* What each of the ways has in common: no other lock in use is touched,   *)
(* no record is lost, what is there instead of x is the owner's, whoever   *)
(* sleeps on x is told or x is as it was.                                  *)
Stepped(s, t, x, p) ==
    /\ ListOK(t) /\ t.ld.type = s.ld.type
    /\ t.free \cup ToSet(t.list) = s.free \cup ToSet(s.list)
    /\ \A y \in Recs : y # x /\ y \notin s.free => t.recs[y] = s.recs[y]
    /\ ToSet(s.list) \ {x} \subseteq ToSet(t.list)
    /\ \A y \in ToSet(t.list) : y \notin ToSet(s.list) \ {x} => t.recs[y].pid = p
    /\ s.woken \subseteq t.woken
    /\ \/ s.recs[x].stat = NoProc \/ x \in t.woken
       \/ x \in ToSet(t.list) /\ t.recs[x] = s.recs[x]
    /\ InsrtOK(s) => InsrtOK(t)

(* The parts of a lock before and after a request. *)
IsLeft(n, m, l) == n.type = m.type /\ n.start = m.start /\ n.end = l.start - 1 /\ m.start < l.start
IsRight(n, m, l) == n.type = m.type /\ n.start = l.end + 1 /\ n.end = m.end /\ l.end < m.end

(* A lock is split into them. *)
Parts(s, t, x) ==
    LET m == s.recs[x] IN
    /\ t.ld = s.ld /\ t.scan = IF s.ld.end < m.end THEN "last" ELSE s.scan
    /\ x \in ToSet(t.list) => IsLeft(t.recs[x], m, s.ld)
    /\ m.start < s.ld.start => x \in ToSet(t.list)
    /\ \A y \in ToSet(t.list) : y \notin ToSet(s.list) => IsRight(t.recs[y], m, s.ld)
    /\ \A y, z \in ToSet(t.list) \ ToSet(s.list) : y = z
    /\ s.ld.end < m.end => \E y \in ToSet(t.list) : y \notin ToSet(s.list)
    /\ t.free = {} => m.start < s.ld.start

LEMMA SplitStep ==
    ASSUME NEW s, ListOK(s), NEW x \in ToSet(s.list), NEW p \in Procs, s.recs[x].pid = p, NEW t,
           IsSplit(s, t, x, p)
    PROVE  Stepped(s, t, x, p) /\ Parts(s, t, x)
<1> DEFINE m == s.recs[x]
           gone == IF Leads(s.ld, m) THEN {} ELSE {x}
           left == [m EXCEPT !.end = s.ld.start - 1, !.stat = NoProc]
           tail == LockOf([m EXCEPT !.start = s.ld.end + 1], p)
<1>1. PICK u : /\ IF s.ld.end < m.end THEN Tailed(s, u, x, p) ELSE u = s
               /\ Cut(u, t, x)
               /\ InsrtOK(u) => InsrtOK(t)
  BY DEF IsSplit
<1>2. /\ m \in Record /\ m.start \in Nat /\ m.end \in Nat /\ m.start <= s.ld.end
      /\ s.ld.start \in Nat /\ s.ld.end \in Nat
      /\ s.free \subseteq Recs /\ ToSet(s.list) \subseteq Recs /\ x \in Recs
      /\ s.recs \in [Recs -> Record \cup {Blank}] /\ s.free \cap ToSet(s.list) = {}
  BY WorkFields, RecordFields, RequestFacts DEF ListOK, InUse, IsSplit, Overlap
<1>4. /\ tail.pid = p /\ tail.type = m.type /\ tail.start = s.ld.end + 1 /\ tail.end = m.end
  BY <1>2 DEF Record, LockOf
<1>5. left.pid = p /\ left.type = m.type /\ left.start = m.start /\ left.end = s.ld.start - 1
  BY <1>2 DEF Record
<1> HIDE DEF left, tail
<1>6. PICK N : /\ N \subseteq s.free /\ u.free = s.free \ N /\ ToSet(u.list) = ToSet(s.list) \cup N
               /\ \A y \in Recs \ N : u.recs[y] = s.recs[y]
               /\ \A y \in N : u.recs[y] = tail
               /\ \A y, z \in N : y = z
               /\ N # {} <=> s.ld.end < m.end
               /\ u.ld = s.ld /\ u.woken = s.woken
               /\ u.scan = IF s.ld.end < m.end THEN "last" ELSE s.scan
               /\ InsrtOK(s) => InsrtOK(u)
  <2>1. CASE s.ld.end < m.end
    <3>1. Tailed(s, u, x, p)
      BY <1>1, <2>1
    <3>2. PICK y \in s.free :
            /\ u.free = s.free \ {y} /\ ToSet(u.list) = ToSet(s.list) \cup {y}
            /\ u.recs = [s.recs EXCEPT ![y] = tail]
      BY <3>1 DEF Tailed, tail
    <3>3. InsrtOK(s) => InsrtOK(u)
      <4>1. Prev(s, x) \in Recs \cup {NoRec} /\ Precedes(s, Prev(s, x), x)
        BY <1>2, PrevFacts DEF Precedes
      <4>2. QED
        BY <1>2, <3>1, <4>1, TailedPrecedes
    <3>4. /\ {y} \subseteq s.free /\ u.free = s.free \ {y} /\ ToSet(u.list) = ToSet(s.list) \cup {y}
          /\ \A z \in Recs \ {y} : u.recs[z] = s.recs[z]
          /\ \A z \in {y} : u.recs[z] = tail
      BY <1>2, <3>2
    <3>5. u.ld = s.ld /\ u.woken = s.woken /\ u.scan = "last"
      BY <3>1 DEF Tailed
    <3>6. QED
      BY <2>1, <3>3, <3>4, <3>5
  <2>2. CASE ~(s.ld.end < m.end)
    <3>1. u = s
      BY <1>1, <2>2
    <3> DEFINE K == {}
    <3>2. /\ K \subseteq s.free /\ u.free = s.free \ K /\ ToSet(u.list) = ToSet(s.list) \cup K
          /\ \A z \in Recs \ K : u.recs[z] = s.recs[z]
          /\ \A z \in K : u.recs[z] = tail
          /\ \A y, z \in K : y = z
          /\ K # {} <=> s.ld.end < m.end
      BY <2>2, <3>1
    <3>3. u.ld = s.ld /\ u.woken = s.woken /\ u.scan = s.scan /\ (InsrtOK(s) => InsrtOK(u))
      BY <3>1
    <3> HIDE DEF K
    <3>4. QED
      BY <2>2, <3>2, <3>3
  <2>3. QED
    BY <2>1, <2>2
<1>7. u.recs[x] = m /\ x \notin N
  BY <1>2, <1>6
<1>8. /\ ListOK(t)
      /\ t.ld = u.ld /\ t.scan = u.scan /\ t.woken = u.woken \cup ToldOf(u, x)
      /\ t.free = u.free \cup gone /\ ToSet(t.list) = ToSet(u.list) \ gone
      /\ \A y \in Recs : y # x => t.recs[y] = u.recs[y]
      /\ Leads(s.ld, m) => t.recs[x] = left
  BY <1>1, <1>6, <1>7 DEF Cut, left
<1>9. Stepped(s, t, x, p)
  <2>1. t.free \cup ToSet(t.list) = s.free \cup ToSet(s.list)
    BY <1>6, <1>7, <1>8
  <2>2. \A y \in Recs : y # x /\ y \notin s.free => t.recs[y] = s.recs[y]
    BY <1>6, <1>8
  <2>3. ToSet(s.list) \ {x} \subseteq ToSet(t.list)
    BY <1>6, <1>8
  <2>4. ASSUME NEW y \in ToSet(t.list), y \notin ToSet(s.list) \ {x} PROVE t.recs[y].pid = p
    <3>1. CASE y = x
      BY <1>5, <1>8, <3>1
    <3>2. CASE y # x
      <4>1. y \in N
        BY <1>6, <1>8, <2>4, <3>2
      <4>2. t.recs[y] = tail
        BY <1>2, <1>6, <1>8, <3>2, <4>1
      <4>3. QED
        BY <1>4, <4>2
    <3>3. QED
      BY <3>1, <3>2
  <2>5. s.woken \subseteq t.woken /\ (m.stat = NoProc \/ x \in t.woken)
    BY <1>6, <1>7, <1>8 DEF ToldOf
  <2>6. QED
    BY <1>1, <1>6, <1>8, <2>1, <2>2, <2>3, <2>4, <2>5 DEF Stepped
<1>10. Parts(s, t, x)
  <2>1. t.ld = s.ld /\ t.scan = IF s.ld.end < m.end THEN "last" ELSE s.scan
    BY <1>6, <1>8
  <2>2. /\ x \in ToSet(t.list) => IsLeft(t.recs[x], m, s.ld)
        /\ m.start < s.ld.start => x \in ToSet(t.list)
    BY <1>5, <1>6, <1>8 DEF Leads, IsLeft
  <2>3. \A y \in ToSet(t.list) : y \notin ToSet(s.list) => y \in N
    BY <1>6, <1>8
  <2>4. \A y \in N : y \in ToSet(t.list) /\ y \notin ToSet(s.list) /\ t.recs[y] = tail
    BY <1>2, <1>6, <1>7, <1>8
  <2>5. \A y \in ToSet(t.list) : y \notin ToSet(s.list) => IsRight(t.recs[y], m, s.ld)
    BY <1>4, <1>6, <2>3, <2>4 DEF IsRight
  <2>6. \A y, z \in ToSet(t.list) \ ToSet(s.list) : y = z
    BY <1>6, <2>3
  <2>7. s.ld.end < m.end => \E y \in ToSet(t.list) : y \notin ToSet(s.list)
    BY <1>6, <2>4
  <2>8. t.free = {} => m.start < s.ld.start
    BY <1>8 DEF Leads
  <2>9. QED
    BY <2>1, <2>2, <2>5, <2>6, <2>7, <2>8 DEF Parts
<1>11. QED
  BY <1>9, <1>10

LEMMA SwallowStep ==
    ASSUME NEW s, ListOK(s), NEW x \in ToSet(s.list), NEW t, IsSwallow(s, t, x), NEW p
    PROVE  Stepped(s, t, x, p)
<1>1. /\ ListOK(t)
      /\ t.free = s.free \cup {x} /\ ToSet(t.list) = ToSet(s.list) \ {x}
      /\ \A y \in Recs : y # x => t.recs[y] = s.recs[y]
      /\ t.woken = s.woken \cup ToldOf(s, x)
      /\ t.ld = Hull(s.ld, s.recs[x])
      /\ InsrtOK(s) => InsrtOK(t)
  BY DEF IsSwallow, Swallowed
<1>2. s.ld \in Request /\ InUse(s.recs[x])
  BY WorkFields DEF ListOK
<1>3. t.ld.type = s.ld.type
  BY <1>1, <1>2, HullFacts
<1>4. s.woken \subseteq t.woken /\ (s.recs[x].stat = NoProc \/ x \in t.woken)
  BY <1>1 DEF ToldOf
<1>5. QED
  BY <1>1, <1>3, <1>4 DEF Stepped

LEMMA UntouchedStep ==
    ASSUME NEW s, ListOK(s), NEW x \in ToSet(s.list), NEW t, Untouched(s, t), NEW p,
           s.recs[x].pid = p, InsrtOK(s) => InsrtOK(t)
    PROVE  Stepped(s, t, x, p)
  BY DEF Stepped, Untouched

LEMMA AdjustedStep ==
    ASSUME NEW s, ListOK(s), NEW x \in ToSet(s.list), NEW p \in Procs, s.recs[x].pid = p, NEW t,
           Adjusted(s, t, x, p)
    PROVE  Stepped(s, t, x, p)
<1> DEFINE m == s.recs[x]
<1>1. /\ m.start \in Nat /\ m.end \in Nat /\ m.start <= m.end
      /\ s.ld.start \in Nat /\ x # NoRec
  BY WorkFields, RecordFields, RequestFacts, LockAssumption DEF ListOK, InUse
<1>2. ASSUME Untouched(s, t), t.insrt = s.insrt PROVE Stepped(s, t, x, p)
  <2>1. InsrtOK(s) => InsrtOK(t)
    BY <1>2 DEF InsrtOK, Untouched
  <2>2. QED
    BY <1>2, <2>1, UntouchedStep
<1>3. CASE IsBefore(s, t, x)
  <2>1. Untouched(s, t) /\ t.insrt \in {x, s.insrt} /\ m.end < s.ld.start
    BY <1>3 DEF IsBefore
  <2>2. CASE t.insrt = x
    <3>1. m.start <= s.ld.start
      BY <1>1, <2>1
    <3>2. InsrtOK(t)
      BY <1>1, <2>1, <2>2, <3>1 DEF InsrtOK, Untouched
    <3>3. QED
      BY <2>1, <3>2, UntouchedStep
  <2>3. QED
    BY <1>2, <2>1, <2>2
<1>4. QED
  BY <1>2, <1>3, SwallowStep, SplitStep DEF Adjusted, IsPast, IsOver, RunsOut

-----------------------------------------------------------------------------
(* The scan of flckadj.  What a file's list has become, s, in terms of     *)
(* what it was, s0: no record is lost, those of others are untouched,      *)
(* whoever sleeps on a lock that is not as it was is told.                 *)
Lists(s0, s, p) ==
    /\ ListOK(s) /\ s.ld.type = s0.ld.type
    /\ s.free \cup ToSet(s.list) = s0.free \cup ToSet(s0.list)
    /\ \A y \in Recs : y \notin s0.free \cup ToSet(s0.list) => s.recs[y] = s0.recs[y]
    /\ \A y \in ToSet(s0.list) :
         s0.recs[y].pid # p => y \in ToSet(s.list) /\ s.recs[y] = s0.recs[y]
    /\ \A y \in ToSet(s.list) :
         s.recs[y].pid # p => y \in ToSet(s0.list) /\ s.recs[y] = s0.recs[y]
    /\ \A y \in ToSet(s0.list) :
         \/ s0.recs[y].stat = NoProc \/ y \in s.woken
         \/ y \in ToSet(s.list) /\ s.recs[y] = s0.recs[y]

LEMMA ListsStep ==
    ASSUME NEW s0, NEW s, NEW p, Lists(s0, s, p), NEW x \in ToSet(s.list), s.recs[x].pid = p,
           NEW t, Stepped(s, t, x, p)
    PROVE  Lists(s0, t, p)
<1>1. /\ ListOK(s) /\ ToSet(s.list) \subseteq Recs /\ s.free \cap ToSet(s.list) = {} /\ x \in Recs
  BY WorkFields DEF Lists, ListOK
<1>2. /\ ListOK(t) /\ t.ld.type = s.ld.type
      /\ t.free \cup ToSet(t.list) = s.free \cup ToSet(s.list)
      /\ \A y \in Recs : y # x /\ y \notin s.free => t.recs[y] = s.recs[y]
      /\ ToSet(s.list) \ {x} \subseteq ToSet(t.list)
      /\ \A y \in ToSet(t.list) : y \notin ToSet(s.list) \ {x} => t.recs[y].pid = p
      /\ s.woken \subseteq t.woken
      /\ \/ s.recs[x].stat = NoProc \/ x \in t.woken
         \/ x \in ToSet(t.list) /\ t.recs[x] = s.recs[x]
  BY DEF Stepped
<1>3. /\ s.ld.type = s0.ld.type
      /\ s.free \cup ToSet(s.list) = s0.free \cup ToSet(s0.list)
      /\ \A y \in Recs : y \notin s0.free \cup ToSet(s0.list) => s.recs[y] = s0.recs[y]
      /\ \A y \in ToSet(s0.list) :
           s0.recs[y].pid # p => y \in ToSet(s.list) /\ s.recs[y] = s0.recs[y]
      /\ \A y \in ToSet(s.list) :
           s.recs[y].pid # p => y \in ToSet(s0.list) /\ s.recs[y] = s0.recs[y]
      /\ \A y \in ToSet(s0.list) :
           \/ s0.recs[y].stat = NoProc \/ y \in s.woken
           \/ y \in ToSet(s.list) /\ s.recs[y] = s0.recs[y]
  BY DEF Lists
<1>4. \A y \in ToSet(s.list) : y # x => y \in ToSet(t.list) /\ t.recs[y] = s.recs[y]
  BY <1>1, <1>2
<1>5. \A y \in Recs : y \notin s0.free \cup ToSet(s0.list) => t.recs[y] = s0.recs[y]
  BY <1>1, <1>2, <1>3
<1>6. \A y \in ToSet(s0.list) :
         s0.recs[y].pid # p => y \in ToSet(t.list) /\ t.recs[y] = s0.recs[y]
  BY <1>3, <1>4
<1>7. \A y \in ToSet(t.list) :
         t.recs[y].pid # p => y \in ToSet(s0.list) /\ t.recs[y] = s0.recs[y]
  BY <1>2, <1>3, <1>4
<1>8. ASSUME NEW y \in ToSet(s0.list)
      PROVE  \/ s0.recs[y].stat = NoProc \/ y \in t.woken
             \/ y \in ToSet(t.list) /\ t.recs[y] = s0.recs[y]
  BY <1>2, <1>3, <1>4
<1>9. QED
  BY <1>2, <1>3, <1>5, <1>6, <1>7, <1>8 DEF Lists

(* The locks the scan has not come to are as they were. *)
Unscanned(s0, n) == {s0.list[k] : k \in (n + 1)..Len(s0.list)}

Ahead(s0, s, n) ==
    s.scan = "go" => \A y \in Unscanned(s0, n) : y \in ToSet(s.list) /\ s.recs[y] = s0.recs[y]

LEMMA UnscannedFacts ==
    ASSUME NEW s0, ListOK(s0), NEW n \in 1..Len(s0.list)
    PROVE  /\ Unscanned(s0, n - 1) = Unscanned(s0, n) \cup {s0.list[n]}
           /\ s0.list[n] \notin Unscanned(s0, n)
           /\ s0.list[n] \in ToSet(s0.list) /\ Unscanned(s0, n) \subseteq ToSet(s0.list)
           /\ \A y \in Unscanned(s0, n) : s0.recs[s0.list[n]].start <= s0.recs[y].start
<1>1. Len(s0.list) \in Nat /\ DOMAIN s0.list = 1..Len(s0.list) /\ n \in Nat
  BY WorkFields DEF ListOK
<1>2. n..Len(s0.list) = {n} \cup ((n + 1)..Len(s0.list)) /\ (n - 1) + 1 = n
  BY <1>1
<1>3. Unscanned(s0, n - 1) = Unscanned(s0, n) \cup {s0.list[n]}
  BY <1>2 DEF Unscanned
<1>4. \A k \in (n + 1)..Len(s0.list) : k \in DOMAIN s0.list /\ n < k /\ n # k
  BY <1>1
<1>5. s0.list[n] \notin Unscanned(s0, n)
  BY <1>1, <1>4 DEF Unscanned, ListOK, IsInjective
<1>6. s0.list[n] \in ToSet(s0.list) /\ Unscanned(s0, n) \subseteq ToSet(s0.list)
  BY <1>1, <1>4 DEF Unscanned, ToSet
<1>7. \A y \in Unscanned(s0, n) : s0.recs[s0.list[n]].start <= s0.recs[y].start
  BY <1>1, <1>4 DEF Unscanned, ListOK, Sorted
<1>8. QED
  BY <1>3, <1>5, <1>6, <1>7

LEMMA AheadStep ==
    ASSUME NEW s0, ListOK(s0), NEW n \in 1..Len(s0.list), NEW s, ListOK(s), s.scan = "go",
           Ahead(s0, s, n - 1), NEW t, NEW p, Stepped(s, t, s0.list[n], p)
    PROVE  Ahead(s0, t, n)
<1>1. ToSet(s.list) \subseteq Recs /\ s.free \cap ToSet(s.list) = {}
  BY WorkFields DEF ListOK
<1>2. \A y \in Unscanned(s0, n) :
         y # s0.list[n] /\ y \in ToSet(s.list) /\ s.recs[y] = s0.recs[y]
  BY UnscannedFacts DEF Ahead
<1>3. QED
  BY <1>1, <1>2 DEF Ahead, Stepped
-----------------------------------------------------------------------------
(* An owner's locks are as few as they can be.  m is before n, and not     *)
(* next to it if they are of one type.                                     *)
Below(m, n) == m.end < n.start /\ (m.type = n.type => m.end + 1 < n.start)
Separate(m, n) == Below(m, n) \/ Below(n, m)

Alone(s) ==
    \A x, y \in ToSet(s.list) :
        x # y /\ s.recs[x].pid = s.recs[y].pid => Separate(s.recs[x], s.recs[y])

(* The request as far as it has grown is separate from the owner's locks   *)
(* that have been scanned, and in the end from all.                        *)
Passed(s0, s, p, n) ==
    /\ Alone(s)
    /\ s.scan = "go" =>
         \A z \in ToSet(s.list) \ Unscanned(s0, n) : s.recs[z].pid = p => Below(s.recs[z], s.ld)
    /\ s.scan = "last" =>
         \A z \in ToSet(s.list) : s.recs[z].pid = p => Separate(s.recs[z], s.ld)

LEMMA InUseFacts ==
    ASSUME NEW m, InUse(m)
    PROVE  /\ m.start \in Nat /\ m.end \in Nat /\ m.start <= m.end
           /\ m.start \in Byte /\ m.end \in Byte /\ m.type \in LockType /\ m.pid \in Procs
  BY RecordFields DEF InUse

(* What starts later and is separate is after. *)
LEMMA LaterBelow ==
    ASSUME NEW m, InUse(m), NEW n, InUse(n), Separate(m, n), m.start <= n.start
    PROVE  Below(m, n)
<1>1. m.start \in Nat /\ m.end \in Nat /\ m.start <= m.end
  BY InUseFacts
<1>2. n.start \in Nat /\ n.end \in Nat /\ n.start <= n.end
  BY InUseFacts
<1>3. QED
  BY <1>1, <1>2 DEF Separate, Below

(* The situation in which the scan deals with an own lock, the n-th. *)
AtOwn(s0, s, p, n) ==
    /\ ListOK(s0) /\ n \in 1..Len(s0.list) /\ p \in Procs
    /\ ListOK(s) /\ s.scan = "go" /\ Ahead(s0, s, n - 1)
    /\ s.recs[s0.list[n]].pid = p

LEMMA AtOwnFacts ==
    ASSUME NEW s0, NEW s, NEW p, NEW n, AtOwn(s0, s, p, n)
    PROVE  LET x == s0.list[n] IN
           /\ x \in ToSet(s.list) /\ s.recs[x] = s0.recs[x] /\ InUse(s.recs[x])
           /\ s.ld \in Request
           /\ \A y \in ToSet(s.list) : InUse(s.recs[y]) /\ y \in Recs /\ y \notin s.free
           /\ \A y \in Unscanned(s0, n) :
                /\ y \in ToSet(s.list) /\ y # x /\ s.recs[x].start <= s.recs[y].start
                /\ s.recs[y] = s0.recs[y]
           /\ Unscanned(s0, n - 1) = Unscanned(s0, n) \cup {x}
<1> DEFINE x == s0.list[n]
<1>1. /\ Unscanned(s0, n - 1) = Unscanned(s0, n) \cup {x}
      /\ x \notin Unscanned(s0, n)
      /\ \A y \in Unscanned(s0, n) : s0.recs[x].start <= s0.recs[y].start
  BY UnscannedFacts DEF AtOwn
<1>2. \A y \in Unscanned(s0, n - 1) : y \in ToSet(s.list) /\ s.recs[y] = s0.recs[y]
  BY DEF AtOwn, Ahead
<1>3. /\ s.ld \in Request /\ ToSet(s.list) \subseteq Recs
      /\ \A y \in ToSet(s.list) : InUse(s.recs[y]) /\ y \notin s.free
  BY WorkFields DEF AtOwn, ListOK
<1> HIDE DEF x
<1>4. QED
  BY <1>1, <1>2, <1>3 DEF x

(* The request is passed on, not grown: what was below it is.              *)
LEMMA PassedSame ==
    ASSUME NEW s0, NEW s, NEW p, NEW n, AtOwn(s0, s, p, n), Passed(s0, s, p, n - 1), NEW t,
           Untouched(s, t)
    PROVE  LET x == s0.list[n] IN
           /\ Alone(t)
           /\ \A z \in ToSet(t.list) :
                \/ z = x \/ z \in Unscanned(s0, n)
                \/ t.recs[z].pid = p => Below(t.recs[z], t.ld)
           /\ t.recs = s.recs /\ t.ld = s.ld /\ ToSet(t.list) = ToSet(s.list)
<1>1. t.recs = s.recs /\ t.list = s.list /\ t.ld = s.ld
  BY DEF Untouched
<1>2. Alone(s) /\ s.scan = "go"
  BY DEF Passed, AtOwn
<1>3. Unscanned(s0, n - 1) = Unscanned(s0, n) \cup {s0.list[n]}
  BY AtOwnFacts
<1>4. \A z \in ToSet(s.list) \ Unscanned(s0, n - 1) :
         s.recs[z].pid = p => Below(s.recs[z], s.ld)
  BY <1>2 DEF Passed
<1>5. QED
  BY <1>1, <1>2, <1>3, <1>4 DEF Alone

LEMMA PassedPast ==
    ASSUME NEW s0, NEW s, NEW p, NEW n, AtOwn(s0, s, p, n), Passed(s0, s, p, n - 1), NEW t,
           IsPast(s, t, s0.list[n])
    PROVE  Passed(s0, t, p, n)
<1> DEFINE x == s0.list[n]
           m == s.recs[x]
<1>1. /\ Untouched(s, t) /\ t.scan = "last"
      /\ s.ld.end < m.start /\ (m.type = s.ld.type => s.ld.end + 1 < m.start)
  BY DEF IsPast
<1>2. /\ Alone(t)
      /\ \A z \in ToSet(t.list) :
           \/ z = x \/ z \in Unscanned(s0, n)
           \/ t.recs[z].pid = p => Below(t.recs[z], t.ld)
      /\ t.recs = s.recs /\ t.ld = s.ld /\ ToSet(t.list) = ToSet(s.list)
  BY <1>1, PassedSame
<1>3. /\ x \in ToSet(s.list) /\ m.pid = p
      /\ \A y \in ToSet(s.list) : InUse(s.recs[y])
      /\ \A y \in Unscanned(s0, n) : y \in ToSet(s.list) /\ y # x /\ m.start <= s.recs[y].start
  BY AtOwnFacts DEF AtOwn
<1> HIDE DEF x
<1>4. m.start \in Nat /\ m.end \in Nat /\ s.ld.end \in Nat /\ m.start <= m.end
  <2>1. s.ld \in Request
    BY AtOwnFacts
  <2>2. QED
    BY <1>3, <2>1, InUseFacts, RequestFacts
<1>5. Below(s.ld, m)
  BY <1>1 DEF Below
<1>6. ASSUME NEW z \in Unscanned(s0, n), s.recs[z].pid = p PROVE Below(s.ld, s.recs[z])
  <2>1. z \in ToSet(s.list) /\ z # x /\ m.start <= s.recs[z].start
    BY <1>3
  <2>2. Separate(m, s.recs[z])
    BY <1>2, <1>3, <1>6, <2>1 DEF Alone
  <2>3. Below(m, s.recs[z])
    BY <1>3, <2>1, <2>2, LaterBelow
  <2>4. s.recs[z].start \in Nat
    BY <1>3, <2>1, InUseFacts
  <2>5. QED
    BY <1>1, <1>4, <2>1, <2>3, <2>4 DEF Below
<1>7. ASSUME NEW z \in ToSet(t.list), t.recs[z].pid = p PROVE Separate(t.recs[z], t.ld)
  BY <1>2, <1>5, <1>6, <1>7 DEF Separate
<1>8. QED
  BY <1>1, <1>2, <1>7 DEF Passed

LEMMA PassedBefore ==
    ASSUME NEW s0, NEW s, NEW p, NEW n, AtOwn(s0, s, p, n), Passed(s0, s, p, n - 1), NEW t,
           IsBefore(s, t, s0.list[n])
    PROVE  Passed(s0, t, p, n)
<1> DEFINE x == s0.list[n]
           m == s.recs[x]
<1>1. /\ Untouched(s, t) /\ t.scan = "go" /\ Below(m, s.ld)
  BY DEF IsBefore, Below
<1>2. /\ Alone(t)
      /\ \A z \in ToSet(t.list) :
           \/ z = x \/ z \in Unscanned(s0, n)
           \/ t.recs[z].pid = p => Below(t.recs[z], t.ld)
      /\ t.recs = s.recs /\ t.ld = s.ld /\ ToSet(t.list) = ToSet(s.list)
  BY <1>1, PassedSame
<1> HIDE DEF x
<1>3. QED
  BY <1>1, <1>2 DEF Passed

LEMMA PassedStop ==
    ASSUME NEW s0, NEW s, NEW p, NEW n, AtOwn(s0, s, p, n), Passed(s0, s, p, n - 1), NEW t,
           Untouched(s, t), t.scan \in {"over", "ENOLCK"}
    PROVE  Passed(s0, t, p, n)
<1>1. Alone(t)
  BY PassedSame
<1>2. QED
  BY <1>1 DEF Passed

(* What was below the request is below it when it has swallowed the lock.  *)
LEMMA BelowHull ==
    ASSUME NEW l \in Request, NEW m, InUse(m), NEW n, InUse(n), Below(n, l), Separate(m, n),
           m.type = l.type, l.start <= m.end + 1
    PROVE  Below(n, Hull(l, m))
<1>1. /\ Hull(l, m).start = IF l.start <= m.start THEN l.start ELSE m.start
      /\ Hull(l, m).type = l.type
  BY HullFacts
<1>2. m.start \in Nat /\ m.end \in Nat /\ m.start <= m.end
  BY InUseFacts
<1>3. n.start \in Nat /\ n.end \in Nat /\ n.start <= n.end
  BY InUseFacts
<1>4. l.start \in Nat
  BY RequestFacts
<1> DEFINE h == Hull(l, m)
<1> HIDE DEF h
<1>5. CASE l.start <= m.start
  BY <1>1, <1>5 DEF Below, h
<1>6. CASE ~(l.start <= m.start)
  <2>1. h.start = m.start /\ h.type = l.type
    BY <1>1, <1>6 DEF h
  <2>2. n.end < l.start
    BY DEF Below
  <2>3. ~Below(m, n)
    BY <1>2, <1>3, <1>4, <2>2 DEF Below
  <2>4. Below(n, m)
    BY <2>3 DEF Separate
  <2>5. Below(n, h)
    BY <2>1, <2>4 DEF Below
  <2>6. QED
    BY <2>5 DEF h
<1>7. QED
  BY <1>5, <1>6

LEMMA PassedSwallow ==
    ASSUME NEW s0, NEW s, NEW p, NEW n, AtOwn(s0, s, p, n), Passed(s0, s, p, n - 1), NEW t,
           IsSwallow(s, t, s0.list[n])
    PROVE  Passed(s0, t, p, n)
<1> DEFINE x == s0.list[n]
           m == s.recs[x]
           h == Hull(s.ld, m)
<1>1. /\ ToSet(t.list) = ToSet(s.list) \ {x}
      /\ \A y \in Recs : y # x => t.recs[y] = s.recs[y]
      /\ t.ld = h /\ t.scan = IF s.ld.end <= m.end THEN "last" ELSE s.scan
      /\ m.type = s.ld.type /\ m.start <= s.ld.end + 1 /\ s.ld.start <= m.end + 1
  BY DEF IsSwallow, Swallowed
<1>2. /\ x \in ToSet(s.list) /\ m.pid = p /\ InUse(m) /\ s.ld \in Request
      /\ \A y \in ToSet(s.list) : InUse(s.recs[y]) /\ y \in Recs
      /\ \A y \in Unscanned(s0, n) : y \in ToSet(s.list) /\ y # x /\ m.start <= s.recs[y].start
      /\ Unscanned(s0, n - 1) = Unscanned(s0, n) \cup {x}
  <2>1. m.pid = p
    BY DEF AtOwn
  <2>2. QED
    BY <2>1, AtOwnFacts
<1>3. /\ Alone(s)
      /\ \A z \in ToSet(s.list) \ Unscanned(s0, n - 1) :
           s.recs[z].pid = p => Below(s.recs[z], s.ld)
  BY DEF Passed, AtOwn
<1> HIDE DEF x, h
<1>4. \A z \in ToSet(t.list) : z \in ToSet(s.list) /\ z # x /\ t.recs[z] = s.recs[z]
  BY <1>1, <1>2
<1>5. Alone(t)
  BY <1>3, <1>4 DEF Alone
<1>6. ASSUME NEW z \in ToSet(t.list), z \notin Unscanned(s0, n), t.recs[z].pid = p
      PROVE  Below(t.recs[z], h)
  <2>1. Below(s.recs[z], s.ld) /\ Separate(m, s.recs[z]) /\ InUse(s.recs[z])
    BY <1>2, <1>3, <1>4, <1>6 DEF Alone
  <2>2. Below(s.recs[z], h)
    BY <1>1, <1>2, <2>1, BelowHull DEF h
  <2>3. QED
    BY <1>4, <2>2
<1>7. ASSUME s.ld.end <= m.end, NEW z \in Unscanned(s0, n), s.recs[z].pid = p
      PROVE  Below(h, s.recs[z])
  <2>1. z \in ToSet(s.list) /\ z # x /\ m.start <= s.recs[z].start /\ InUse(s.recs[z])
    BY <1>2
  <2>2. Separate(m, s.recs[z])
    BY <1>2, <1>3, <1>7, <2>1 DEF Alone
  <2>3. Below(m, s.recs[z])
    BY <1>2, <2>1, <2>2, LaterBelow
  <2>4. h.end = m.end /\ h.type = m.type
    BY <1>1, <1>2, <1>7, HullFacts DEF h
  <2>5. QED
    BY <2>3, <2>4 DEF Below
<1>8. CASE s.ld.end <= m.end
  <2>1. t.scan = "last"
    BY <1>1, <1>8
  <2>2. ASSUME NEW z \in ToSet(t.list), t.recs[z].pid = p PROVE Separate(t.recs[z], t.ld)
    BY <1>1, <1>4, <1>6, <1>7, <1>8, <2>2 DEF Separate
  <2>3. QED
    BY <1>5, <2>1, <2>2 DEF Passed
<1>9. CASE ~(s.ld.end <= m.end)
  <2>1. t.scan = "go"
    BY <1>1, <1>9 DEF AtOwn
  <2>2. QED
    BY <1>1, <1>5, <1>6, <2>1 DEF Passed
<1>10. QED
  BY <1>8, <1>9

(* A part of a lock is as separate from others as the lock.                *)
LEMMA PartSeparate ==
    ASSUME NEW m, InUse(m), NEW n, InUse(n), Separate(m, n), NEW k, InUse(k),
           k.type = m.type, m.start <= k.start, k.end <= m.end
    PROVE  Separate(k, n)
<1>1. m.start \in Nat /\ m.end \in Nat /\ m.start <= m.end
  BY InUseFacts
<1>2. n.start \in Nat /\ n.end \in Nat /\ n.start <= n.end
  BY InUseFacts
<1>3. k.start \in Nat /\ k.end \in Nat /\ k.start <= k.end
  BY InUseFacts
<1>4. QED
  BY <1>1, <1>2, <1>3 DEF Separate, Below

LEMMA SeparateSymmetric ==
    ASSUME NEW m, NEW n, Separate(m, n)
    PROVE  Separate(n, m)
  BY DEF Separate

(* The locks of a list in which one has been split.                        *)
LEMMA PartsFacts ==
    ASSUME NEW s0, NEW s, NEW p, NEW n, AtOwn(s0, s, p, n), NEW t,
           Stepped(s, t, s0.list[n], p), Parts(s, t, s0.list[n]),
           s.recs[s0.list[n]].type # s.ld.type, Overlap(s.ld, s.recs[s0.list[n]]),
           NEW y \in ToSet(t.list)
    PROVE  LET x == s0.list[n]
               m == s.recs[x]
           IN  \/ y \in ToSet(s.list) /\ y # x /\ t.recs[y] = s.recs[y]
               \/ y = x /\ IsLeft(t.recs[y], m, s.ld) /\ t.recs[y].pid = p /\ InUse(t.recs[y])
                    /\ m.start <= t.recs[y].start /\ t.recs[y].end <= m.end
               \/ y \notin ToSet(s.list) /\ IsRight(t.recs[y], m, s.ld) /\ t.recs[y].pid = p
                    /\ InUse(t.recs[y]) /\ m.start <= t.recs[y].start /\ t.recs[y].end <= m.end
<1> DEFINE x == s0.list[n]
           m == s.recs[x]
<1>1. /\ x \in ToSet(s.list) /\ InUse(m) /\ s.ld \in Request
      /\ \A z \in ToSet(s.list) : z \in Recs /\ z \notin s.free
  BY AtOwnFacts
<1>2. /\ m.start \in Nat /\ m.end \in Nat /\ m.start <= m.end
      /\ s.ld.start \in Nat /\ s.ld.end \in Nat /\ s.ld.start <= m.end /\ m.start <= s.ld.end
  BY <1>1, InUseFacts, RequestFacts DEF Overlap
<1>3. InUse(t.recs[y])
  BY DEF Stepped, ListOK
<1> HIDE DEF x
<1>4. CASE y \in ToSet(s.list) /\ y # x
  BY <1>1, <1>4 DEF Stepped, x
<1>5. CASE y = x
  <2>1. IsLeft(t.recs[y], m, s.ld)
    BY <1>5 DEF Parts, x
  <2>2. t.recs[y].pid = p
    BY <1>5 DEF Stepped, x
  <2>3. m.start <= t.recs[y].start /\ t.recs[y].end <= m.end
    BY <1>2, <2>1 DEF IsLeft
  <2>4. QED
    BY <1>3, <1>5, <2>1, <2>2, <2>3 DEF x
<1>6. CASE y \notin ToSet(s.list)
  <2>1. IsRight(t.recs[y], m, s.ld)
    BY <1>6 DEF Parts, x
  <2>2. t.recs[y].pid = p
    BY <1>6 DEF Stepped, x
  <2>3. m.start <= t.recs[y].start /\ t.recs[y].end <= m.end
    BY <1>2, <2>1 DEF IsRight
  <2>4. QED
    BY <1>3, <1>6, <2>1, <2>2, <2>3 DEF x
<1>7. QED
  BY <1>4, <1>5, <1>6

LEMMA PassedSplit ==
    ASSUME NEW s0, NEW s, NEW p, NEW n, AtOwn(s0, s, p, n), Passed(s0, s, p, n - 1), NEW t,
           IsSplit(s, t, s0.list[n], p)
    PROVE  Passed(s0, t, p, n)
<1> DEFINE x == s0.list[n]
           m == s.recs[x]
           l == s.ld
           Old(y) == y \in ToSet(s.list) /\ y # x /\ t.recs[y] = s.recs[y]
           Part(k) == /\ k.pid = p /\ InUse(k) /\ k.type = m.type
                      /\ m.start <= k.start /\ k.end <= m.end
           Left(y) == y = x /\ IsLeft(t.recs[y], m, l) /\ Part(t.recs[y])
           Right(y) == y \notin ToSet(s.list) /\ IsRight(t.recs[y], m, l) /\ Part(t.recs[y])
<1>1. /\ x \in ToSet(s.list) /\ InUse(m) /\ l \in Request /\ m.pid = p
      /\ \A y \in ToSet(s.list) : InUse(s.recs[y])
      /\ \A y \in Unscanned(s0, n) : y \in ToSet(s.list) /\ y # x /\ m.start <= s.recs[y].start
      /\ Unscanned(s0, n - 1) = Unscanned(s0, n) \cup {x}
  <2>1. m.pid = p
    BY DEF AtOwn
  <2>2. QED
    BY <2>1, AtOwnFacts
<1>2. m.type # l.type /\ Overlap(l, m)
  BY DEF IsSplit
<1>3. Stepped(s, t, x, p) /\ Parts(s, t, x)
  BY <1>1, SplitStep DEF AtOwn
<1>4. \A y \in ToSet(t.list) : Old(y) \/ Left(y) \/ Right(y)
  BY <1>2, <1>3, PartsFacts DEF IsLeft, IsRight
<1>5. /\ Alone(s)
      /\ \A z \in ToSet(s.list) \ Unscanned(s0, n - 1) : s.recs[z].pid = p => Below(s.recs[z], l)
  BY DEF Passed, AtOwn
<1>6. /\ m.start \in Nat /\ m.end \in Nat /\ l.start \in Nat /\ l.end \in Nat /\ l.start <= l.end
  BY <1>1, InUseFacts, RequestFacts
<1>7. /\ t.ld = l /\ t.scan = IF l.end < m.end THEN "last" ELSE "go"
      /\ \A y, z \in ToSet(t.list) \ ToSet(s.list) : y = z
  BY <1>3 DEF Parts, AtOwn
<1> HIDE DEF x, m, l
<1>8. ASSUME NEW y \in ToSet(t.list), NEW z \in ToSet(t.list), y # z,
             t.recs[y].pid = t.recs[z].pid
      PROVE  Separate(t.recs[y], t.recs[z])
  <2>1. CASE Old(y) /\ Old(z)
    BY <1>5, <1>8, <2>1 DEF Alone
  <2>2. ASSUME NEW a \in ToSet(t.list), NEW b \in ToSet(t.list), Part(t.recs[a]), Old(b),
               t.recs[b].pid = p
        PROVE  Separate(t.recs[a], t.recs[b])
    <3>1. Separate(m, s.recs[b]) /\ InUse(s.recs[b]) /\ t.recs[b] = s.recs[b]
      BY <1>1, <1>5, <2>2 DEF Alone, m
    <3>2. QED
      BY <1>1, <2>2, <3>1, PartSeparate
  <2>3. CASE Old(z) /\ (Left(y) \/ Right(y))
    BY <1>8, <2>2, <2>3
  <2>4. CASE Old(y) /\ (Left(z) \/ Right(z))
    BY <1>8, <2>2, <2>4, SeparateSymmetric
  <2>5. ASSUME NEW a \in ToSet(t.list), NEW b \in ToSet(t.list), Left(a), Right(b)
        PROVE  Separate(t.recs[a], t.recs[b])
    <3>1. t.recs[a].end = l.start - 1 /\ t.recs[b].start = l.end + 1
      BY <2>5 DEF IsLeft, IsRight
    <3>2. QED
      BY <1>6, <3>1 DEF Separate, Below
  <2>6. CASE (Left(y) /\ Right(z)) \/ (Right(y) /\ Left(z))
    BY <2>5, <2>6, SeparateSymmetric
  <2>7. ~(Left(y) /\ Left(z)) /\ ~(Right(y) /\ Right(z))
    BY <1>7, <1>8
  <2>8. QED
    BY <1>4, <2>1, <2>3, <2>4, <2>6, <2>7
<1>9. Alone(t)
  BY <1>8 DEF Alone
<1>10. ASSUME NEW z \in ToSet(t.list), z \notin Unscanned(s0, n), t.recs[z].pid = p, Old(z)
       PROVE  Below(t.recs[z], l)
  BY <1>1, <1>5, <1>10
<1>11. ASSUME NEW z \in ToSet(t.list), Left(z) PROVE Below(t.recs[z], l)
  <2>1. t.recs[z].end = l.start - 1 /\ t.recs[z].type # l.type
    BY <1>2, <1>11 DEF IsLeft
  <2>2. QED
    BY <1>6, <2>1 DEF Below
<1>12. CASE l.end < m.end
  <2>1. t.scan = "last"
    BY <1>7, <1>12
  <2>2. ASSUME NEW z \in ToSet(t.list), t.recs[z].pid = p PROVE Separate(t.recs[z], l)
    <3>1. CASE Right(z)
      <4>1. t.recs[z].start = l.end + 1 /\ t.recs[z].type # l.type
        BY <1>2, <3>1 DEF IsRight
      <4>2. Below(l, t.recs[z])
        BY <1>6, <4>1 DEF Below
      <4>3. QED
        BY <4>2 DEF Separate
    <3>2. CASE Old(z) /\ z \in Unscanned(s0, n)
      <4>1. Separate(m, s.recs[z]) /\ InUse(s.recs[z]) /\ m.start <= s.recs[z].start
        BY <1>1, <1>5, <2>2, <3>2 DEF Alone, m
      <4>2. Below(m, s.recs[z])
        BY <1>1, <4>1, LaterBelow
      <4>3. s.recs[z].start \in Nat
        BY <4>1, InUseFacts
      <4>4. Below(l, s.recs[z])
        BY <1>6, <1>12, <4>2, <4>3 DEF Below
      <4>5. QED
        BY <3>2, <4>4 DEF Separate
    <3>3. QED
      BY <1>4, <1>10, <1>11, <2>2, <3>1, <3>2 DEF Separate
  <2>3. QED
    BY <1>7, <1>9, <2>1, <2>2 DEF Passed
<1>13. CASE ~(l.end < m.end)
  <2>1. t.scan = "go"
    BY <1>7, <1>13
  <2>2. ASSUME NEW z \in ToSet(t.list), z \notin Unscanned(s0, n), t.recs[z].pid = p
        PROVE  Below(t.recs[z], l)
    <3>1. ~Right(z)
      BY <1>13 DEF IsRight
    <3>2. QED
      BY <1>4, <1>10, <1>11, <2>2, <3>1
  <2>3. QED
    BY <1>7, <1>9, <2>1, <2>2 DEF Passed
<1>14. QED
  BY <1>12, <1>13

LEMMA PassedStep ==
    ASSUME NEW s0, NEW s, NEW p, NEW n, AtOwn(s0, s, p, n), Passed(s0, s, p, n - 1), NEW t,
           Adjusted(s, t, s0.list[n], p)
    PROVE  Passed(s0, t, p, n)
  BY PassedPast, PassedBefore, PassedStop, PassedSwallow, PassedSplit
     DEF Adjusted, IsOver, RunsOut
-----------------------------------------------------------------------------
(* The lists say the same as a lock on each byte would.                    *)
On(m, b) == m.start <= b /\ b <= m.end

(* The owner p has byte b locked in the manner ty. *)
Has(s, p, b, ty) ==
    \E z \in ToSet(s.list) : s.recs[z].pid = p /\ s.recs[z].type = ty /\ On(s.recs[z], b)

(* Outside of the request it has the locks it had, where those the request *)
(* has swallowed are the request's; inside, none it had not.  Records are  *)
(* only used up if nothing was swallowed.                                  *)
ByteWise(s0, s, p, n) ==
    /\ s.ld.start <= s0.ld.start /\ s0.ld.end <= s.ld.end
    /\ \A b \in Nat, ty \in LockType :
         ~On(s0.ld, b) =>
            (Has(s0, p, b, ty) <=> Has(s, p, b, ty) \/ (ty = s.ld.type /\ On(s.ld, b)))
    /\ \A b \in Nat, ty \in LockType : On(s0.ld, b) /\ Has(s, p, b, ty) => Has(s0, p, b, ty)
    /\ s.free = {} \/ s.ld.type = "F_UNLCK" => s.ld = s0.ld
    /\ s.ld # s0.ld /\ s.scan = "go" =>
         \A y \in Unscanned(s0, n) : s.ld.start <= s.recs[y].start
    /\ s.scan = "over" =>
         \E z \in ToSet(s.list) : /\ s.recs[z].pid = p /\ s.recs[z].type = s.ld.type
                                  /\ s.recs[z].start <= s.ld.start /\ s.ld.end <= s.recs[z].end
    /\ s.scan = "ENOLCK" => s.ld = s0.ld

LEMMA ByteUntouched ==
    ASSUME NEW s0, NEW s, NEW p, NEW n, AtOwn(s0, s, p, n), ByteWise(s0, s, p, n - 1), NEW t,
           Untouched(s, t),
           t.scan = "over" => IsOver(s, t, s0.list[n]),
           t.scan = "ENOLCK" => s.free = {}
    PROVE  ByteWise(s0, t, p, n)
<1> DEFINE x == s0.list[n]
<1>1. /\ t.recs = s.recs /\ t.list = s.list /\ t.ld = s.ld /\ t.free = s.free
  BY DEF Untouched
<1>2. /\ x \in ToSet(s.list) /\ s.recs[x].pid = p
      /\ Unscanned(s0, n - 1) = Unscanned(s0, n) \cup {x} /\ s.scan = "go"
  <2>1. s.recs[x].pid = p /\ s.scan = "go"
    BY DEF AtOwn
  <2>2. QED
    BY <2>1, AtOwnFacts
<1> HIDE DEF x
<1>3. \A b, ty : Has(t, p, b, ty) <=> Has(s, p, b, ty)
  BY <1>1 DEF Has
<1>4. /\ t.ld.start <= s0.ld.start /\ s0.ld.end <= t.ld.end
      /\ \A b \in Nat, ty \in LockType :
           ~On(s0.ld, b) =>
              (Has(s0, p, b, ty) <=> Has(t, p, b, ty) \/ (ty = t.ld.type /\ On(t.ld, b)))
      /\ \A b \in Nat, ty \in LockType : On(s0.ld, b) /\ Has(t, p, b, ty) => Has(s0, p, b, ty)
  BY <1>1, <1>3 DEF ByteWise
<1>5. /\ t.free = {} \/ t.ld.type = "F_UNLCK" => t.ld = s0.ld
      /\ t.scan = "ENOLCK" => t.ld = s0.ld
      /\ t.ld # s0.ld /\ t.scan = "go" =>
           \A y \in Unscanned(s0, n) : t.ld.start <= t.recs[y].start
  BY <1>1, <1>2 DEF ByteWise
<1>6. ASSUME t.scan = "over"
      PROVE  \E z \in ToSet(t.list) : /\ t.recs[z].pid = p /\ t.recs[z].type = t.ld.type
                                      /\ t.recs[z].start <= t.ld.start /\ t.ld.end <= t.recs[z].end
  <2>1. IsOver(s, t, x)
    BY <1>6 DEF x
  <2>2. QED
    BY <1>1, <1>2, <2>1 DEF IsOver
<1>7. QED
  BY <1>4, <1>5, <1>6 DEF ByteWise

LEMMA ByteSwallow ==
    ASSUME NEW s0, NEW s, NEW p, NEW n, AtOwn(s0, s, p, n), ByteWise(s0, s, p, n - 1), NEW t,
           IsSwallow(s, t, s0.list[n]), s0.ld \in Request
    PROVE  ByteWise(s0, t, p, n)
<1> DEFINE x == s0.list[n]
           m == s.recs[x]
           l == s.ld
           h == t.ld
<1>1. /\ ToSet(t.list) = ToSet(s.list) \ {x} /\ t.free = s.free \cup {x}
      /\ \A y \in Recs : y # x => t.recs[y] = s.recs[y]
      /\ t.ld = Hull(l, m) /\ t.scan = IF l.end <= m.end THEN "last" ELSE "go"
      /\ m.type = l.type /\ m.start <= l.end + 1 /\ l.start <= m.end + 1
      /\ m.pid = p
  BY DEF IsSwallow, Swallowed, AtOwn
<1>2. /\ x \in ToSet(s.list) /\ InUse(m) /\ l \in Request
      /\ \A y \in ToSet(s.list) : y \in Recs
      /\ \A y \in Unscanned(s0, n) : y \in ToSet(s.list) /\ y # x /\ m.start <= s.recs[y].start
  BY AtOwnFacts
<1>3. /\ m.start \in Nat /\ m.end \in Nat /\ m.start <= m.end /\ m.type \in LockType
      /\ l.start \in Nat /\ l.end \in Nat /\ l.start <= l.end
  BY <1>2, InUseFacts, RequestFacts
<1>4. /\ h.type = l.type
      /\ h.start = IF l.start <= m.start THEN l.start ELSE m.start
      /\ h.end = IF l.end <= m.end THEN m.end ELSE l.end
  BY <1>1, <1>2, HullFacts
<1>5. /\ l.start <= s0.ld.start /\ s0.ld.end <= l.end
      /\ \A b \in Nat, ty \in LockType :
           ~On(s0.ld, b) =>
              (Has(s0, p, b, ty) <=> Has(s, p, b, ty) \/ (ty = l.type /\ On(l, b)))
      /\ \A b \in Nat, ty \in LockType : On(s0.ld, b) /\ Has(s, p, b, ty) => Has(s0, p, b, ty)
  BY DEF ByteWise
<1> HIDE DEF x, m, l, h
<1>6. \A b \in Nat : On(h, b) <=> On(l, b) \/ On(m, b)
  BY <1>1, <1>3, <1>4 DEF On
<1>7. ASSUME NEW b \in Nat, NEW ty \in LockType
      PROVE  Has(s, p, b, ty) <=> Has(t, p, b, ty) \/ (ty = m.type /\ On(m, b))
  <2>1. \A z \in ToSet(t.list) : z \in ToSet(s.list) /\ t.recs[z] = s.recs[z]
    BY <1>1, <1>2
  <2>2. \A z \in ToSet(s.list) : z # x => z \in ToSet(t.list) /\ t.recs[z] = s.recs[z]
    BY <1>1, <1>2
  <2>3. ASSUME Has(t, p, b, ty) PROVE Has(s, p, b, ty)
    BY <2>1, <2>3 DEF Has
  <2>4. ASSUME ty = m.type, On(m, b) PROVE Has(s, p, b, ty)
    BY <1>1, <1>2, <2>4 DEF Has, m
  <2>5. ASSUME Has(s, p, b, ty), ~(ty = m.type /\ On(m, b)) PROVE Has(t, p, b, ty)
    <3>1. PICK z \in ToSet(s.list) :
            s.recs[z].pid = p /\ s.recs[z].type = ty /\ On(s.recs[z], b)
      BY <2>5 DEF Has
    <3>2. z # x
      BY <2>5, <3>1 DEF m
    <3>3. QED
      BY <2>2, <3>1, <3>2 DEF Has
  <2>6. QED
    BY <2>3, <2>4, <2>5
<1>8. h.start <= s0.ld.start /\ s0.ld.end <= h.end
  <2>1. s0.ld.start \in Nat /\ s0.ld.end \in Nat
    BY RequestFacts
  <2>2. QED
    BY <1>3, <1>4, <1>5, <2>1
<1>9. ASSUME NEW b \in Nat, NEW ty \in LockType, ~On(s0.ld, b)
      PROVE  Has(s0, p, b, ty) <=> Has(t, p, b, ty) \/ (ty = h.type /\ On(h, b))
  <2>1. Has(s0, p, b, ty) <=> Has(s, p, b, ty) \/ (ty = l.type /\ On(l, b))
    BY <1>5, <1>9
  <2>2. Has(s, p, b, ty) <=> Has(t, p, b, ty) \/ (ty = m.type /\ On(m, b))
    BY <1>7
  <2>3. On(h, b) <=> On(l, b) \/ On(m, b)
    BY <1>6
  <2>4. h.type = l.type /\ m.type = l.type
    BY <1>1, <1>4
  <2>5. QED
    BY <2>1, <2>2, <2>3, <2>4
<1>10. \A b \in Nat, ty \in LockType : On(s0.ld, b) /\ Has(t, p, b, ty) => Has(s0, p, b, ty)
  BY <1>5, <1>7
<1>11. t.free # {} /\ h.type # "F_UNLCK" /\ t.scan \in {"go", "last"}
  BY <1>1, <1>3, <1>4 DEF LockType
<1>12. \A y \in Unscanned(s0, n) : h.start <= t.recs[y].start
  <2> SUFFICES ASSUME NEW y \in Unscanned(s0, n) PROVE h.start <= t.recs[y].start
    OBVIOUS
  <2>1. t.recs[y] = s.recs[y] /\ m.start <= s.recs[y].start
    BY <1>1, <1>2
  <2>2. InUse(s.recs[y])
    BY <1>2, AtOwnFacts
  <2>3. s.recs[y].start \in Nat
    BY <2>2, InUseFacts
  <2>4. h.start <= m.start
    BY <1>3, <1>4
  <2>5. h.start \in Nat
    BY <1>3, <1>4
  <2>6. QED
    BY <1>3, <2>1, <2>3, <2>4, <2>5
<1>13. QED
  BY <1>8, <1>9, <1>10, <1>11, <1>12 DEF ByteWise, h

(* What is lost of a lock that is split is inside of the request as it was *)
(* made: the owner has no other locks where it has grown.                  *)
LEMMA ByteSplit ==
    ASSUME NEW s0, NEW s, NEW p, NEW n, AtOwn(s0, s, p, n), ByteWise(s0, s, p, n - 1), Alone(s0),
           s0.ld \in Request, s.ld.type = s0.ld.type,
           NEW t, IsSplit(s, t, s0.list[n], p)
    PROVE  ByteWise(s0, t, p, n)
<1> DEFINE x == s0.list[n]
           m == s.recs[x]
           l == s.ld
           Old(y) == y \in ToSet(s.list) /\ y # x /\ t.recs[y] = s.recs[y]
           Part(k) == /\ k.pid = p /\ InUse(k) /\ k.type = m.type
                      /\ m.start <= k.start /\ k.end <= m.end
           Left(y) == y = x /\ IsLeft(t.recs[y], m, l) /\ Part(t.recs[y])
           Right(y) == y \notin ToSet(s.list) /\ IsRight(t.recs[y], m, l) /\ Part(t.recs[y])
<1>1. /\ x \in ToSet(s.list) /\ InUse(m) /\ l \in Request /\ m.pid = p
      /\ \A y \in ToSet(s.list) : InUse(s.recs[y]) /\ y \in Recs /\ y \notin s.free
      /\ \A y \in Unscanned(s0, n) : y \in ToSet(s.list) /\ y # x
      /\ Unscanned(s0, n - 1) = Unscanned(s0, n) \cup {x}
  <2>1. m.pid = p
    BY DEF AtOwn
  <2>2. QED
    BY <2>1, AtOwnFacts
<1>2. m.type # l.type /\ Overlap(l, m)
  BY DEF IsSplit
<1>3. Stepped(s, t, x, p) /\ Parts(s, t, x)
  BY <1>1, SplitStep DEF AtOwn
<1>4. \A y \in ToSet(t.list) : Old(y) \/ Left(y) \/ Right(y)
  BY <1>2, <1>3, PartsFacts DEF IsLeft, IsRight
<1>5. \A y \in ToSet(s.list) : y # x => y \in ToSet(t.list) /\ t.recs[y] = s.recs[y]
  BY <1>1, <1>3 DEF Stepped
<1>6. /\ m.start \in Nat /\ m.end \in Nat /\ m.type \in LockType
      /\ l.start \in Nat /\ l.end \in Nat /\ l.start <= l.end
  BY <1>1, InUseFacts, RequestFacts
<1>7. /\ t.ld = l /\ t.scan \in {"last", "go"}
      /\ m.start < l.start => x \in ToSet(t.list)
      /\ l.end < m.end => \E y \in ToSet(t.list) : y \notin ToSet(s.list)
      /\ t.free = {} => m.start < l.start
  BY <1>3 DEF Parts, AtOwn
<1>8. /\ l.start <= s0.ld.start /\ s0.ld.end <= l.end
      /\ \A b \in Nat, ty \in LockType :
           ~On(s0.ld, b) =>
              (Has(s0, p, b, ty) <=> Has(s, p, b, ty) \/ (ty = l.type /\ On(l, b)))
      /\ \A b \in Nat, ty \in LockType : On(s0.ld, b) /\ Has(s, p, b, ty) => Has(s0, p, b, ty)
      /\ s.free = {} \/ l.type = "F_UNLCK" => l = s0.ld
      /\ l # s0.ld => \A y \in Unscanned(s0, n - 1) : l.start <= s.recs[y].start
  BY DEF ByteWise, AtOwn
<1> HIDE DEF x, m, l
<1>9. ASSUME NEW b \in Nat, NEW ty, Has(t, p, b, ty) PROVE Has(s, p, b, ty)
  <2>1. PICK z \in ToSet(t.list) : t.recs[z].pid = p /\ t.recs[z].type = ty /\ On(t.recs[z], b)
    BY <1>9 DEF Has
  <2>2. CASE Old(z)
    BY <2>1, <2>2 DEF Has
  <2>3. CASE Left(z) \/ Right(z)
    <3>1. ty = m.type /\ On(m, b)
      <4>1. /\ m.start <= t.recs[z].start /\ t.recs[z].end <= m.end /\ t.recs[z].type = m.type
            /\ InUse(t.recs[z])
        BY <2>3
      <4>2. t.recs[z].start \in Nat /\ t.recs[z].end \in Nat
        BY <4>1, InUseFacts
      <4>3. QED
        BY <1>6, <2>1, <4>1, <4>2 DEF On
    <3>2. QED
      BY <1>1, <3>1 DEF Has, m
  <2>4. QED
    BY <1>4, <2>2, <2>3
<1>10. ASSUME NEW b \in Nat, NEW ty, Has(s, p, b, ty), ~On(l, b) PROVE Has(t, p, b, ty)
  <2>1. PICK z \in ToSet(s.list) : s.recs[z].pid = p /\ s.recs[z].type = ty /\ On(s.recs[z], b)
    BY <1>10 DEF Has
  <2>2. CASE z # x
    BY <1>5, <2>1, <2>2 DEF Has
  <2>3. CASE z = x
    <3>1. On(m, b) /\ m.type = ty
      BY <2>1, <2>3 DEF m
    <3>2. CASE b < l.start
      <4>1. m.start < l.start
        BY <1>6, <3>1, <3>2 DEF On
      <4>2. x \in ToSet(t.list)
        BY <1>7, <4>1
      <4>3. Left(x)
        BY <1>1, <1>4, <4>2
      <4>4. On(t.recs[x], b) /\ t.recs[x].type = ty /\ t.recs[x].pid = p
        BY <1>6, <3>1, <3>2, <4>3 DEF IsLeft, On
      <4>5. QED
        BY <4>2, <4>4 DEF Has
    <3>3. CASE l.end < b
      <4>1. l.end < m.end
        BY <1>6, <3>1, <3>3 DEF On
      <4>2. PICK y \in ToSet(t.list) : y \notin ToSet(s.list)
        BY <1>7, <4>1
      <4>3. Right(y)
        BY <1>1, <1>4, <4>2
      <4>4. On(t.recs[y], b) /\ t.recs[y].type = ty /\ t.recs[y].pid = p
        BY <1>6, <3>1, <3>3, <4>3 DEF IsRight, On
      <4>5. QED
        BY <4>4 DEF Has
    <3>4. QED
      BY <1>6, <1>10, <3>2, <3>3 DEF On
  <2>4. QED
    BY <2>2, <2>3
<1>11. ASSUME NEW b \in Nat, NEW ty \in LockType, Has(s, p, b, ty), ~On(s0.ld, b), On(l, b)
       PROVE  Has(t, p, b, ty)
  <2>1. PICK z \in ToSet(s.list) : s.recs[z].pid = p /\ s.recs[z].type = ty /\ On(s.recs[z], b)
    BY <1>11 DEF Has
  <2>2. z # x
    <3> SUFFICES ASSUME z = x PROVE FALSE
      OBVIOUS
    <3>1. l # s0.ld
      BY <1>11
    <3>2. l.type \in LockType
      BY <1>1, <1>8, <3>1, RequestFacts
    <3>3. ty = m.type
      BY <2>1 DEF m
    <3>4. Has(s0, p, b, l.type)
      BY <1>8, <1>11, <3>2
    <3>5. Has(s0, p, b, ty)
      BY <1>8, <1>11
    <3>6. PICK u \in ToSet(s0.list) :
            s0.recs[u].pid = p /\ s0.recs[u].type = l.type /\ On(s0.recs[u], b)
      BY <3>4 DEF Has
    <3>7. PICK v \in ToSet(s0.list) :
            s0.recs[v].pid = p /\ s0.recs[v].type = ty /\ On(s0.recs[v], b)
      BY <3>5 DEF Has
    <3>8. Separate(s0.recs[u], s0.recs[v])
      BY <1>2, <3>3, <3>6, <3>7 DEF Alone
    <3>9. InUse(s0.recs[u]) /\ InUse(s0.recs[v])
      BY DEF AtOwn, ListOK
    <3>10. /\ s0.recs[u].start \in Nat /\ s0.recs[u].end \in Nat
           /\ s0.recs[v].start \in Nat /\ s0.recs[v].end \in Nat
      BY <3>9, InUseFacts
    <3>11. QED
      BY <3>6, <3>7, <3>8, <3>10 DEF Separate, Below, On
  <2>3. QED
    BY <1>5, <2>1, <2>2 DEF Has
<1>12. ASSUME NEW b \in Nat, NEW ty \in LockType, ~On(s0.ld, b)
       PROVE  Has(s0, p, b, ty) <=> Has(t, p, b, ty) \/ (ty = t.ld.type /\ On(t.ld, b))
  <2>1. Has(s, p, b, ty) <=> Has(t, p, b, ty)
    BY <1>9, <1>10, <1>11, <1>12
  <2>2. QED
    BY <1>7, <1>8, <1>12, <2>1
<1>13. \A b \in Nat, ty \in LockType : On(s0.ld, b) /\ Has(t, p, b, ty) => Has(s0, p, b, ty)
  BY <1>8, <1>9
<1>14. ASSUME t.free = {} PROVE t.ld = s0.ld
  <2>1. m.start < l.start
    BY <1>7, <1>14
  <2>2. ~(l.start <= s.recs[x].start)
    BY <1>6, <2>1 DEF m
  <2>3. QED
    BY <1>1, <1>7, <1>8, <2>2
<1>15. \A y \in Unscanned(s0, n) : l # s0.ld => l.start <= t.recs[y].start
  <2>1. \A y \in Unscanned(s0, n) : t.recs[y] = s.recs[y]
    BY <1>1, <1>5
  <2>2. QED
    BY <1>1, <1>8, <2>1
<1>16. QED
  BY <1>7, <1>8, <1>12, <1>13, <1>14, <1>15 DEF ByteWise

LEMMA ByteStep ==
    ASSUME NEW s0, NEW s, NEW p, NEW n, AtOwn(s0, s, p, n), ByteWise(s0, s, p, n - 1), Alone(s0),
           s0.ld \in Request, s.ld.type = s0.ld.type,
           NEW t, Adjusted(s, t, s0.list[n], p)
    PROVE  ByteWise(s0, t, p, n)
<1>1. ASSUME Untouched(s, t), t.scan \in {"go", "last"} PROVE ByteWise(s0, t, p, n)
  BY <1>1, ByteUntouched
<1>2. CASE IsOver(s, t, s0.list[n])
  <2>1. Untouched(s, t) /\ t.scan = "over"
    BY <1>2 DEF IsOver
  <2>2. QED
    BY <1>2, <2>1, ByteUntouched
<1>3. CASE RunsOut(s, t, s0.list[n])
  <2>1. Untouched(s, t) /\ t.scan = "ENOLCK" /\ s.free = {}
    BY <1>3 DEF RunsOut
  <2>2. QED
    BY <2>1, ByteUntouched
<1>4. QED
  BY <1>1, <1>2, <1>3, ByteSwallow, ByteSplit DEF Adjusted, IsPast, IsBefore

-----------------------------------------------------------------------------
(* The whole scan. *)
Loop(s0, s, p, i, n) ==
    /\ Lists(s0, s, p) /\ Ahead(s0, s, n) /\ Passed(s0, s, p, n) /\ ByteWise(s0, s, p, n)
    /\ s.ld.type # "F_UNLCK" => InsrtOK(s)
    /\ n < i => s = s0

(* What it begins with: the locks before the i-th are before the request.  *)
Begun(s0, p, i) ==
    /\ ListOK(s0) /\ Alone(s0) /\ p \in Procs /\ i \in Nat /\ s0.scan = "go"
    /\ s0.ld.type # "F_UNLCK" => InsrtOK(s0)
    /\ \A k \in 1..Len(s0.list) :
         k < i /\ s0.recs[s0.list[k]].pid = p => Below(s0.recs[s0.list[k]], s0.ld)

ScanOne(s, list, p, i, n) == IF n < i THEN s ELSE Adjust(s, list[n], p)

LEMMA LoopBegins ==
    ASSUME NEW s0, NEW p, NEW i, Begun(s0, p, i)
    PROVE  Loop(s0, s0, p, i, 0)
<1>1. ListOK(s0) /\ s0.ld \in Request /\ s0.list \in Seq(Recs) /\ s0.scan = "go" /\ Alone(s0)
  BY WorkFields DEF Begun, ListOK
<1>2. Unscanned(s0, 0) = ToSet(s0.list)
  BY <1>1 DEF Unscanned, ToSet
<1>3. Lists(s0, s0, p)
  BY <1>1 DEF Lists
<1>4. Ahead(s0, s0, 0) /\ Passed(s0, s0, p, 0)
  BY <1>1, <1>2 DEF Ahead, Passed
<1>5. ByteWise(s0, s0, p, 0)
  <2>1. s0.ld.start <= s0.ld.start /\ s0.ld.end <= s0.ld.end
    BY <1>1, RequestFacts
  <2>2. QED
    BY <1>1, <2>1 DEF ByteWise
<1>6. QED
  BY <1>3, <1>4, <1>5 DEF Loop, Begun

(* Nothing is done about the n-th lock. *)
LEMMA LoopIdle ==
    ASSUME NEW s0, ListOK(s0), NEW s, NEW p, NEW i, NEW n \in 1..Len(s0.list),
           Loop(s0, s, p, i, n - 1),
           s.scan = "go" /\ s.recs[s0.list[n]].pid = p => Below(s.recs[s0.list[n]], s.ld),
           n < i => s = s0
    PROVE  Loop(s0, s, p, i, n)
<1>1. Unscanned(s0, n - 1) = Unscanned(s0, n) \cup {s0.list[n]}
  BY UnscannedFacts
<1>2. Ahead(s0, s, n)
  BY <1>1 DEF Loop, Ahead
<1>3. Passed(s0, s, p, n)
  BY <1>1 DEF Loop, Passed
<1>4. ByteWise(s0, s, p, n)
  BY <1>1 DEF Loop, ByteWise
<1>5. QED
  BY <1>2, <1>3, <1>4 DEF Loop

LEMMA LoopOwn ==
    ASSUME NEW s0, NEW s, NEW p, NEW i, NEW n, AtOwn(s0, s, p, n), Alone(s0), i \in Nat,
           Loop(s0, s, p, i, n - 1), ~(n < i)
    PROVE  Loop(s0, Adjust(s, s0.list[n], p), p, i, n)
<1> DEFINE x == s0.list[n]
           t == Adjust(s, x, p)
<1>1. /\ ListOK(s) /\ s.scan = "go" /\ x \in ToSet(s.list) /\ p \in Procs /\ s.recs[x].pid = p
  <2>1. ListOK(s) /\ s.scan = "go" /\ p \in Procs /\ s.recs[x].pid = p
    BY DEF AtOwn
  <2>2. QED
    BY <2>1, AtOwnFacts
<1>2. Adjusted(s, t, x, p)
  BY <1>1, AdjustFacts
<1>3. s0.ld \in Request /\ ListOK(s0) /\ n \in 1..Len(s0.list)
  BY WorkFields DEF AtOwn, ListOK
<1>4. Lists(s0, s, p) /\ Ahead(s0, s, n - 1) /\ Passed(s0, s, p, n - 1) /\ ByteWise(s0, s, p, n - 1)
  BY DEF Loop
<1> HIDE DEF t
<1>5. Stepped(s, t, x, p)
  BY <1>1, <1>2, AdjustedStep
<1>6. Lists(s0, t, p)
  BY <1>1, <1>4, <1>5, ListsStep
<1>7. Ahead(s0, t, n)
  BY <1>1, <1>3, <1>4, <1>5, AheadStep
<1>8. Passed(s0, t, p, n)
  BY <1>2, <1>4, PassedStep
<1>9. ByteWise(s0, t, p, n)
  BY <1>2, <1>3, <1>4, ByteStep DEF Lists
<1>10. t.ld.type # "F_UNLCK" => InsrtOK(t)
  BY <1>5 DEF Stepped, Loop
<1>11. QED
  BY <1>6, <1>7, <1>8, <1>9, <1>10 DEF Loop, t

LEMMA LoopStep ==
    ASSUME NEW s0, NEW p, NEW i, Begun(s0, p, i), NEW n \in 1..Len(s0.list), NEW s,
           Loop(s0, s, p, i, n - 1)
    PROVE  Loop(s0, ScanOne(s, s0.list, p, i, n), p, i, n)
<1>1. ListOK(s0) /\ n \in Nat /\ i \in Nat /\ Alone(s0) /\ p \in Procs /\ n - 1 \in Nat
  BY DEF Begun
<1>2. CASE n < i
  <2>1. s = s0
    BY <1>1, <1>2 DEF Loop
  <2>2. ScanOne(s, s0.list, p, i, n) = s
    BY <1>2 DEF ScanOne
  <2>3. s.scan = "go" /\ s.recs[s0.list[n]].pid = p => Below(s.recs[s0.list[n]], s.ld)
    BY <1>2, <2>1 DEF Begun
  <2>4. QED
    BY <1>1, <2>1, <2>2, <2>3, LoopIdle
<1>3. CASE ~(n < i) /\ ~(s.scan = "go" /\ s.recs[s0.list[n]].pid = p)
  <2>1. ScanOne(s, s0.list, p, i, n) = s
    BY <1>3 DEF ScanOne, Adjust
  <2>2. QED
    BY <1>1, <1>3, <2>1, LoopIdle
<1>4. CASE ~(n < i) /\ s.scan = "go" /\ s.recs[s0.list[n]].pid = p
  <2>1. ScanOne(s, s0.list, p, i, n) = Adjust(s, s0.list[n], p)
    BY <1>4 DEF ScanOne
  <2>2. AtOwn(s0, s, p, n)
    BY <1>1, <1>4 DEF AtOwn, Loop, Lists
  <2>3. QED
    BY <1>1, <1>4, <2>1, <2>2, LoopOwn
<1>5. QED
  BY <1>2, <1>3, <1>4

Iterates(T, x, m, G) == x \in T /\ m \in Nat /\ G \in [1..m -> [T -> T]]

LEMMA Iteration ==
    ASSUME NEW T, NEW x, NEW m, NEW G, Iterates(T, x, m, G)
    PROVE  \E f \in [0..m -> T] : f[0] = x /\ \A i \in 1..m : f[i] = G[i][f[i - 1]]
  BY IterationExists DEF Iterates

(* A recursive function exists if it stays within a set. *)
LEMMA ScanExists ==
    ASSUME NEW s0, NEW p, NEW i, Begun(s0, p, i)
    PROVE  LET N == Len(s0.list) IN
           \E f : f = [n \in 0..N |-> IF n = 0 THEN s0 ELSE ScanOne(f[n - 1], s0.list, p, i, n)]
<1> DEFINE N == Len(s0.list)
           T == Work
           E(n, t) == ScanOne(t, s0.list, p, i, n)
           G == [n \in 1..N |-> [t \in T |-> IF E(n, t) \in T THEN E(n, t) ELSE t]]
<1>1. N \in Nat /\ s0 \in T /\ ListOK(s0)
  BY WorkFields DEF Begun, ListOK
<1>2. PICK f \in [0..N -> T] : f[0] = s0 /\ \A n \in 1..N : f[n] = G[n][f[n - 1]]
  <2>1. G \in [1..N -> [T -> T]]
    <3> HIDE DEF E, N, T
    <3> QED
      OBVIOUS
  <2> HIDE DEF T, G, N, E
  <2>2. Iterates(T, s0, N, G)
    BY <1>1, <2>1 DEF Iterates
  <2>3. QED
    BY <2>2, Iteration
<1> HIDE DEF E, N, T
<1>3. \A n \in 1..N : f[n] = IF E(n, f[n - 1]) \in T THEN E(n, f[n - 1]) ELSE f[n - 1]
  <2> SUFFICES ASSUME NEW n \in 1..N
               PROVE  f[n] = IF E(n, f[n - 1]) \in T THEN E(n, f[n - 1]) ELSE f[n - 1]
    OBVIOUS
  <2>1. n - 1 \in 0..N
    BY <1>1
  <2>2. f[n - 1] \in T
    BY <1>2, <2>1
  <2>3. QED
    BY <1>2, <2>2
<1> DEFINE S == {n \in Nat : n <= N => Loop(s0, f[n], p, i, n)}
<1>4. \A n \in 0..N : n \in S
  <2>1. 0 \in S
    BY <1>2, LoopBegins
  <2>2. ASSUME NEW n \in Nat, n < N, n \in S PROVE n + 1 \in S
    <3> DEFINE k == n + 1
    <3>1. k \in 1..N /\ k - 1 = n
      BY <1>1, <2>2
    <3>2. Loop(s0, f[k - 1], p, i, k - 1)
      BY <1>1, <2>2, <3>1
    <3> HIDE DEF k
    <3>3. Loop(s0, E(k, f[k - 1]), p, i, k)
      BY <3>1, <3>2, LoopStep DEF E, N
    <3>4. E(k, f[k - 1]) \in T
      BY <3>3 DEF Loop, Lists, ListOK, T
    <3>5. f[k] = E(k, f[k - 1])
      BY <1>3, <3>1, <3>4
    <3>6. Loop(s0, f[k], p, i, k)
      BY <3>3, <3>5
    <3>7. k \in S
      BY <3>1, <3>6
    <3>8. QED
      BY <3>7 DEF k
  <2> HIDE DEF S
  <2>3. QED
    BY <1>1, <2>1, <2>2, UpTo
<1>5. ASSUME NEW n \in 1..N PROVE f[n] = E(n, f[n - 1])
  <2>1. n - 1 \in 0..N
    BY <1>1
  <2>2. Loop(s0, f[n - 1], p, i, n - 1)
    BY <1>1, <1>4, <2>1
  <2>3. Loop(s0, E(n, f[n - 1]), p, i, n)
    BY <2>2, LoopStep DEF E, N
  <2>4. E(n, f[n - 1]) \in T
    BY <2>3 DEF Loop, Lists, ListOK, T
  <2>5. QED
    BY <1>3, <2>4
<1>6. f = [n \in 0..N |-> IF n = 0 THEN s0 ELSE E(n, f[n - 1])]
  <2>1. ASSUME NEW n \in 0..N PROVE f[n] = IF n = 0 THEN s0 ELSE E(n, f[n - 1])
    <3>1. n = 0 \/ n \in 1..N
      BY <1>1
    <3>2. QED
      BY <1>2, <1>5, <3>1
  <2>2. QED
    BY <1>2, <2>1
<1>7. QED
  BY <1>6 DEF E, N

(* The scan as flckadj makes it. *)
LEMMA ScanFacts ==
    ASSUME NEW s0, NEW p, NEW i, Begun(s0, p, i), NEW list, list = s0.list
    PROVE  LET at[n \in 0..Len(list)] ==
                 IF n = 0 THEN s0 ELSE IF n < i THEN at[n - 1] ELSE Adjust(at[n - 1], list[n], p)
           IN  Loop(s0, at[Len(list)], p, i, Len(list))
<1> DEFINE N == Len(list)
           Step(f) == [n \in 0..N |-> IF n = 0 THEN s0
                                     ELSE IF n < i THEN f[n - 1] ELSE Adjust(f[n - 1], list[n], p)]
           at == CHOOSE f : f = Step(f)
<1>1. N \in Nat
  BY WorkFields DEF Begun, ListOK
<1>2. at = Step(at)
  <2>1. \E f : f = [n \in 0..N |-> IF n = 0 THEN s0 ELSE ScanOne(f[n - 1], list, p, i, n)]
    BY ScanExists
  <2>2. \E f : f = Step(f)
    BY <2>1 DEF ScanOne
  <2> HIDE DEF Step
  <2>3. QED
    BY <2>2
<1> HIDE DEF at
<1>3. at[0] = s0 /\ \A n \in 1..N : at[n] = ScanOne(at[n - 1], list, p, i, n)
  <2> HIDE DEF N
  <2>1. \A n \in 0..N : at[n] = IF n = 0 THEN s0
                                ELSE IF n < i THEN at[n - 1] ELSE Adjust(at[n - 1], list[n], p)
    BY <1>2
  <2>2. at[0] = s0
    BY <1>1, <2>1
  <2>3. ASSUME NEW n \in 1..N PROVE at[n] = ScanOne(at[n - 1], list, p, i, n)
    <3>1. n \in 0..N /\ n # 0
      BY <1>1
    <3>2. QED
      BY <2>1, <3>1 DEF ScanOne
  <2>4. QED
    BY <2>2, <2>3
<1> DEFINE S == {n \in Nat : n <= N => Loop(s0, at[n], p, i, n)}
<1>4. \A n \in 0..N : n \in S
  <2>1. 0 \in S
    BY <1>3, LoopBegins
  <2>2. ASSUME NEW n \in Nat, n < N, n \in S PROVE n + 1 \in S
    <3> DEFINE k == n + 1
    <3>1. k \in 1..N /\ k - 1 = n
      BY <1>1, <2>2
    <3>2. Loop(s0, at[k - 1], p, i, k - 1)
      BY <1>1, <2>2, <3>1
    <3> HIDE DEF k
    <3>3. Loop(s0, at[k], p, i, k)
      BY <1>3, <3>1, <3>2, LoopStep
    <3>4. k \in S
      BY <3>1, <3>3
    <3>5. QED
      BY <3>4 DEF k
  <2> HIDE DEF S, N
  <2>3. QED
    BY <1>1, <2>1, <2>2, UpTo
<1>5. Loop(s0, at[N], p, i, N)
  <2>1. N \in 0..N /\ N <= N
    BY <1>1
  <2>2. QED
    BY <1>4, <2>1
<1>6. QED
  BY <1>5 DEF at

-----------------------------------------------------------------------------
(* The update of a file's list. *)
Updated(s0, t, p) ==
    /\ Lists(s0, t, p) /\ Alone(t)
    /\ \A b \in Nat, ty \in LockType :
         /\ ~On(s0.ld, b) => (Has(s0, p, b, ty) <=> Has(t, p, b, ty))
         /\ On(s0.ld, b) => IF t.scan = "ENOLCK" THEN Has(t, p, b, ty) => Has(s0, p, b, ty)
                            ELSE Has(t, p, b, ty) <=> ty = s0.ld.type

(* The scan has come to the end of the list. *)
Scanned(s0, s, p, i) == Begun(s0, p, i) /\ Loop(s0, s, p, i, Len(s0.list))

LEMMA ScannedFacts ==
    ASSUME NEW s0, NEW s, NEW p, NEW i, Scanned(s0, s, p, i)
    PROVE  /\ Lists(s0, s, p) /\ Alone(s) /\ ByteWise(s0, s, p, Len(s0.list))
           /\ ListOK(s) /\ s.ld \in Request /\ s0.ld \in Request /\ p \in Procs
           /\ s.ld.type = s0.ld.type
           /\ s.scan \in {"go", "last", "over", "ENOLCK"}
           /\ s.scan \in {"go", "last"} =>
                \A z \in ToSet(s.list) : s.recs[z].pid = p => Separate(s.recs[z], s.ld)
           /\ s.ld.type # "F_UNLCK" => InsrtOK(s)
           /\ \A z \in ToSet(s.list) : InUse(s.recs[z]) /\ z \in Recs /\ z \notin s.free
<1>1. /\ Lists(s0, s, p) /\ Passed(s0, s, p, Len(s0.list)) /\ ByteWise(s0, s, p, Len(s0.list))
      /\ ListOK(s) /\ p \in Procs /\ ListOK(s0) /\ s.ld.type = s0.ld.type
      /\ s.ld.type # "F_UNLCK" => InsrtOK(s)
  BY DEF Scanned, Begun, Loop, Lists
<1>2. s.ld \in Request /\ s.scan \in {"go", "last", "over", "ENOLCK"} /\ ToSet(s.list) \subseteq Recs
  BY <1>1, WorkFields DEF ListOK
<1>3. s0.ld \in Request /\ Len(s0.list) \in Nat
  BY <1>1, WorkFields DEF ListOK
<1>4. Unscanned(s0, Len(s0.list)) = {}
  BY <1>3 DEF Unscanned
<1>5. s.scan \in {"go", "last"} =>
        \A z \in ToSet(s.list) : s.recs[z].pid = p => Separate(s.recs[z], s.ld)
  BY <1>1, <1>4 DEF Passed, Separate
<1>6. \A z \in ToSet(s.list) : InUse(s.recs[z]) /\ z \notin s.free
  BY <1>1 DEF ListOK
<1>7. QED
  BY <1>1, <1>2, <1>3, <1>5, <1>6 DEF Passed

(* What is separate has no byte in common. *)
LEMMA SeparateBytes ==
    ASSUME NEW m, InUse(m), NEW l, l.start \in Nat, l.end \in Nat, l.start <= l.end,
           Separate(m, l), NEW b \in Nat
    PROVE  ~(On(m, b) /\ On(l, b))
  BY InUseFacts DEF Separate, Below, On

(* The request as it was made is a part of what it has grown to. *)
LEMMA GrownBytes ==
    ASSUME NEW s0, NEW s, NEW p, NEW i, Scanned(s0, s, p, i), NEW b \in Nat, On(s0.ld, b)
    PROVE  On(s.ld, b)
<1>1. s.ld \in Request /\ s0.ld \in Request /\ s.ld.start <= s0.ld.start /\ s0.ld.end <= s.ld.end
  BY ScannedFacts DEF ByteWise
<1>2. s.ld.start \in Nat /\ s.ld.end \in Nat /\ s0.ld.start \in Nat /\ s0.ld.end \in Nat
  BY <1>1, RequestFacts
<1>3. QED
  BY <1>1, <1>2 DEF On

(* An own lock covers the request. *)
LEMMA UpdatedOver ==
    ASSUME NEW s0, NEW s, NEW p, NEW i, Scanned(s0, s, p, i), s.scan = "over"
    PROVE  Updated(s0, s, p)
<1>1. /\ Lists(s0, s, p) /\ Alone(s) /\ ByteWise(s0, s, p, Len(s0.list))
      /\ s.ld \in Request /\ s.ld.type = s0.ld.type
      /\ \A z \in ToSet(s.list) : InUse(s.recs[z])
  BY ScannedFacts
<1>2. PICK z \in ToSet(s.list) : /\ s.recs[z].pid = p /\ s.recs[z].type = s.ld.type
                                 /\ s.recs[z].start <= s.ld.start /\ s.ld.end <= s.recs[z].end
  BY <1>1 DEF ByteWise
<1>3. /\ s.recs[z].start \in Nat /\ s.recs[z].end \in Nat
      /\ s.ld.start \in Nat /\ s.ld.end \in Nat
  BY <1>1, InUseFacts, RequestFacts
<1>4. ASSUME NEW b \in Nat, On(s.ld, b) PROVE On(s.recs[z], b)
  BY <1>2, <1>3, <1>4 DEF On
<1>5. ASSUME NEW b \in Nat, NEW ty \in LockType, ~On(s0.ld, b)
      PROVE  Has(s0, p, b, ty) <=> Has(s, p, b, ty)
  <2>1. Has(s0, p, b, ty) <=> Has(s, p, b, ty) \/ (ty = s.ld.type /\ On(s.ld, b))
    BY <1>1, <1>5 DEF ByteWise
  <2>2. ty = s.ld.type /\ On(s.ld, b) => Has(s, p, b, ty)
    BY <1>2, <1>4 DEF Has
  <2>3. QED
    BY <2>1, <2>2
<1>6. ASSUME NEW b \in Nat, NEW ty \in LockType, On(s0.ld, b)
      PROVE  Has(s, p, b, ty) <=> ty = s0.ld.type
  <2>1. On(s.recs[z], b)
    BY <1>4, <1>6, GrownBytes
  <2>2. ASSUME ty = s0.ld.type PROVE Has(s, p, b, ty)
    BY <1>1, <1>2, <2>1, <2>2 DEF Has
  <2>3. ASSUME Has(s, p, b, ty), ty # s0.ld.type PROVE FALSE
    <3>1. PICK y \in ToSet(s.list) : s.recs[y].pid = p /\ s.recs[y].type = ty /\ On(s.recs[y], b)
      BY <2>3 DEF Has
    <3>2. y # z
      BY <1>1, <1>2, <2>3, <3>1
    <3>3. Separate(s.recs[y], s.recs[z])
      BY <1>1, <1>2, <3>1, <3>2 DEF Alone
    <3>4. InUse(s.recs[y]) /\ InUse(s.recs[z])
      BY <1>1
    <3>5. s.recs[z].start <= s.recs[z].end
      BY <3>4, InUseFacts
    <3>6. QED
      BY <1>3, <2>1, <3>1, <3>3, <3>4, <3>5, SeparateBytes
  <2>4. QED
    BY <2>2, <2>3
<1>7. s.scan # "ENOLCK"
  OBVIOUS
<1>8. QED
  BY <1>1, <1>5, <1>6, <1>7 DEF Updated

(* There was no record for the part of a lock after the request. *)
LEMMA UpdatedNot ==
    ASSUME NEW s0, NEW s, NEW p, NEW i, Scanned(s0, s, p, i), s.scan = "ENOLCK"
    PROVE  Updated(s0, s, p)
<1>1. Lists(s0, s, p) /\ Alone(s) /\ ByteWise(s0, s, p, Len(s0.list))
  BY ScannedFacts
<1>2. s.ld = s0.ld
  BY <1>1 DEF ByteWise
<1>3. QED
  BY <1>1, <1>2 DEF ByteWise, Updated

(* The owner's locks on what is unlocked are gone. *)
LEMMA UpdatedUnlock ==
    ASSUME NEW s0, NEW s, NEW p, NEW i, Scanned(s0, s, p, i),
           s0.ld.type = "F_UNLCK", s.scan \in {"go", "last"}
    PROVE  Updated(s0, s, p)
<1>1. /\ Lists(s0, s, p) /\ Alone(s) /\ ByteWise(s0, s, p, Len(s0.list))
      /\ s.ld \in Request /\ s.ld.type = s0.ld.type
      /\ \A z \in ToSet(s.list) : InUse(s.recs[z])
      /\ \A z \in ToSet(s.list) : s.recs[z].pid = p => Separate(s.recs[z], s.ld)
  BY ScannedFacts
<1>2. s.ld = s0.ld
  BY <1>1 DEF ByteWise
<1>3. s.ld.start \in Nat /\ s.ld.end \in Nat /\ s.ld.start <= s.ld.end
  BY <1>1, RequestFacts
<1>4. \A ty \in LockType : ty # "F_UNLCK"
  BY DEF LockType
<1>5. ASSUME NEW b \in Nat, NEW ty \in LockType, On(s0.ld, b)
      PROVE  ~Has(s, p, b, ty)
  <2> SUFFICES ASSUME Has(s, p, b, ty) PROVE FALSE
    OBVIOUS
  <2>1. PICK z \in ToSet(s.list) : s.recs[z].pid = p /\ On(s.recs[z], b)
    BY DEF Has
  <2>2. QED
    BY <1>1, <1>2, <1>3, <1>5, <2>1, SeparateBytes
<1>6. ASSUME NEW b \in Nat, NEW ty \in LockType, ~On(s0.ld, b)
      PROVE  Has(s0, p, b, ty) <=> Has(s, p, b, ty)
  BY <1>1, <1>2, <1>6 DEF ByteWise
<1>7. QED
  BY <1>1, <1>4, <1>5, <1>6 DEF Updated

(* There was no record for the request itself. *)
LEMMA UpdatedNeither ==
    ASSUME NEW s0, NEW s, NEW p, NEW i, Scanned(s0, s, p, i), s.free = {}, NEW t, ListOK(t),
           t.recs = s.recs, t.free = s.free, t.list = s.list, t.ld = s.ld, t.woken = s.woken,
           t.scan = "ENOLCK"
    PROVE  Updated(s0, t, p)
<1>1. Lists(s0, s, p) /\ Alone(s) /\ ByteWise(s0, s, p, Len(s0.list))
  BY ScannedFacts
<1>2. s.ld = s0.ld
  BY <1>1 DEF ByteWise
<1>3. Lists(s0, t, p) /\ Alone(t)
  BY <1>1 DEF Lists, Alone
<1>4. \A b, ty : Has(t, p, b, ty) <=> Has(s, p, b, ty)
  BY DEF Has
<1>5. QED
  BY <1>1, <1>2, <1>3, <1>4 DEF ByteWise, Updated

(* The request has become a lock. *)
LEMMA UpdatedLock ==
    ASSUME NEW s0, NEW s, NEW p, NEW i, Scanned(s0, s, p, i), s.scan \in {"go", "last"},
           s0.ld.type # "F_UNLCK", NEW t, Inserted(s, t, s.ld, p)
    PROVE  Updated(s0, t, p)
<1>1. /\ Lists(s0, s, p) /\ Alone(s) /\ ByteWise(s0, s, p, Len(s0.list))
      /\ s.ld \in Request /\ s.ld.type = s0.ld.type /\ ListOK(s)
      /\ \A z \in ToSet(s.list) : InUse(s.recs[z]) /\ z \in Recs /\ z \notin s.free
      /\ \A z \in ToSet(s.list) : s.recs[z].pid = p => Separate(s.recs[z], s.ld)
  BY ScannedFacts
<1> DEFINE n == LockOf(s.ld, p)
<1>2. PICK x \in s.free : /\ t.free = s.free \ {x}
                          /\ ToSet(t.list) = ToSet(s.list) \cup {x}
                          /\ t.recs = [s.recs EXCEPT ![x] = n]
  BY DEF Inserted
<1>3. /\ ListOK(t) /\ t.ld = s.ld /\ t.scan = s.scan /\ t.woken = s.woken
  BY DEF Inserted
<1>4. s.recs \in [Recs -> Record \cup {Blank}] /\ s.free \subseteq Recs
  BY <1>1, WorkFields DEF ListOK
<1>5. /\ n.pid = p /\ n.type = s.ld.type /\ n.start = s.ld.start /\ n.end = s.ld.end
  BY DEF LockOf
<1> HIDE DEF n
<1>6. t.recs[x] = n /\ \A y \in Recs : y # x => t.recs[y] = s.recs[y]
  BY <1>2, <1>4
<1>7. \A z \in ToSet(s.list) : z # x /\ t.recs[z] = s.recs[z] /\ z \in ToSet(t.list)
  BY <1>1, <1>2, <1>6
<1>8. s.ld.start \in Nat /\ s.ld.end \in Nat /\ s.ld.start <= s.ld.end
  BY <1>1, RequestFacts
<1>9. Lists(s0, t, p)
  <2>1. t.free \cup ToSet(t.list) = s.free \cup ToSet(s.list)
    BY <1>2
  <2>2. /\ s.free \cup ToSet(s.list) = s0.free \cup ToSet(s0.list)
        /\ \A y \in Recs : y \notin s0.free \cup ToSet(s0.list) => s.recs[y] = s0.recs[y]
        /\ \A y \in ToSet(s0.list) :
             s0.recs[y].pid # p => y \in ToSet(s.list) /\ s.recs[y] = s0.recs[y]
        /\ \A y \in ToSet(s.list) :
             s.recs[y].pid # p => y \in ToSet(s0.list) /\ s.recs[y] = s0.recs[y]
        /\ \A y \in ToSet(s0.list) :
             \/ s0.recs[y].stat = NoProc \/ y \in s.woken
             \/ y \in ToSet(s.list) /\ s.recs[y] = s0.recs[y]
    BY <1>1 DEF Lists
  <2>3. \A y \in Recs : y \notin s0.free \cup ToSet(s0.list) => t.recs[y] = s0.recs[y]
    BY <1>2, <1>6, <2>2
  <2>4. \A y \in ToSet(t.list) : y = x \/ (y \in ToSet(s.list) /\ t.recs[y] = s.recs[y])
    BY <1>2, <1>7
  <2>5. \A y \in ToSet(t.list) :
          t.recs[y].pid # p => y \in ToSet(s0.list) /\ t.recs[y] = s0.recs[y]
    BY <1>5, <1>6, <2>2, <2>4
  <2>6. t.ld.type = s0.ld.type
    BY <1>1, <1>3
  <2>7. \A y \in ToSet(s0.list) :
             s0.recs[y].pid # p => y \in ToSet(t.list) /\ t.recs[y] = s0.recs[y]
    BY <1>7, <2>2
  <2>8. \A y \in ToSet(s0.list) :
             \/ s0.recs[y].stat = NoProc \/ y \in t.woken
             \/ y \in ToSet(t.list) /\ t.recs[y] = s0.recs[y]
    BY <1>3, <1>7, <2>2
  <2>9. QED
    BY <1>3, <2>1, <2>2, <2>3, <2>5, <2>6, <2>7, <2>8 DEF Lists
<1>10. \A z \in ToSet(s.list) : s.recs[z].pid = p => Separate(s.recs[z], n)
  BY <1>1, <1>5 DEF Separate, Below
<1>11. Alone(t)
  <2> SUFFICES ASSUME NEW y \in ToSet(t.list), NEW z \in ToSet(t.list), y # z,
                      t.recs[y].pid = t.recs[z].pid
               PROVE  Separate(t.recs[y], t.recs[z])
    BY DEF Alone
  <2>1. CASE y \in ToSet(s.list) /\ z \in ToSet(s.list)
    BY <1>1, <1>7, <2>1 DEF Alone
  <2>2. CASE y = x
    <3>1. z \in ToSet(s.list) /\ t.recs[z] = s.recs[z] /\ s.recs[z].pid = p
      BY <1>2, <1>5, <1>6, <1>7, <2>2
    <3>2. Separate(t.recs[z], t.recs[y])
      BY <1>6, <1>10, <2>2, <3>1
    <3>3. QED
      BY <3>2 DEF Separate
  <2>3. CASE z = x
    <3>1. y \in ToSet(s.list) /\ t.recs[y] = s.recs[y] /\ s.recs[y].pid = p
      BY <1>2, <1>5, <1>6, <1>7, <2>3
    <3>2. QED
      BY <1>6, <1>10, <2>3, <3>1
  <2>4. QED
    BY <1>2, <2>1, <2>2, <2>3
<1>12. ASSUME NEW b \in Nat, NEW ty \in LockType
       PROVE  Has(t, p, b, ty) <=> Has(s, p, b, ty) \/ (ty = s.ld.type /\ On(s.ld, b))
  <2>1. On(n, b) <=> On(s.ld, b)
    BY <1>5 DEF On
  <2>2. x \in ToSet(t.list) /\ t.recs[x] = n
    BY <1>2, <1>6
  <2>3. ASSUME ty = s.ld.type, On(s.ld, b) PROVE Has(t, p, b, ty)
    BY <1>5, <2>1, <2>2, <2>3 DEF Has
  <2>4. ASSUME Has(s, p, b, ty) PROVE Has(t, p, b, ty)
    BY <1>7, <2>4 DEF Has
  <2>5. ASSUME Has(t, p, b, ty) PROVE Has(s, p, b, ty) \/ (ty = s.ld.type /\ On(s.ld, b))
    <3>1. PICK z \in ToSet(t.list) : t.recs[z].pid = p /\ t.recs[z].type = ty /\ On(t.recs[z], b)
      BY <2>5 DEF Has
    <3>2. CASE z = x
      BY <1>5, <2>1, <2>2, <3>1, <3>2
    <3>3. CASE z \in ToSet(s.list)
      <4>1. t.recs[z] = s.recs[z]
        BY <1>7, <3>3
      <4>2. QED
        BY <3>1, <3>3, <4>1 DEF Has
    <3>4. QED
      BY <1>2, <3>2, <3>3
  <2>6. QED
    BY <2>3, <2>4, <2>5
<1>13. ASSUME NEW b \in Nat, NEW ty \in LockType, ~On(s0.ld, b)
       PROVE  Has(s0, p, b, ty) <=> Has(t, p, b, ty)
  BY <1>1, <1>12, <1>13 DEF ByteWise
<1>14. ASSUME NEW b \in Nat, NEW ty \in LockType, On(s0.ld, b)
       PROVE  Has(t, p, b, ty) <=> ty = s0.ld.type
  <2>1. On(s.ld, b)
    BY <1>14, GrownBytes
  <2>2. ~Has(s, p, b, ty)
    <3> SUFFICES ASSUME Has(s, p, b, ty) PROVE FALSE
      OBVIOUS
    <3>1. PICK z \in ToSet(s.list) : s.recs[z].pid = p /\ On(s.recs[z], b)
      BY DEF Has
    <3>2. QED
      BY <1>1, <1>8, <2>1, <3>1, SeparateBytes
  <2>3. QED
    BY <1>1, <1>12, <2>1, <2>2
<1>15. t.scan # "ENOLCK"
  BY <1>3
<1>16. QED
  BY <1>9, <1>11, <1>13, <1>14, <1>15 DEF Updated

(* flckadj() *)
Start(r, fr, list, l, i) ==
    [recs |-> r, free |-> fr, list |-> list, ld |-> l, woken |-> {}, scan |-> "go",
     insrt |-> IF i = 0 THEN NoRec ELSE list[i]]

LEMMA FlckadjFacts ==
    ASSUME NEW r, NEW fr, NEW list, NEW p, NEW l, NEW i, Begun(Start(r, fr, list, l, i), p, i)
    PROVE  Updated(Start(r, fr, list, l, i), Flckadj(r, fr, list, p, l, i), p)
<1> DEFINE s0 == [recs |-> r, free |-> fr, list |-> list, ld |-> l, woken |-> {}, scan |-> "go",
                  insrt |-> IF i = 0 THEN NoRec ELSE list[i]]
           at[n \in 0..Len(list)] ==
             IF n = 0 THEN s0 ELSE IF n < i THEN at[n - 1] ELSE Adjust(at[n - 1], list[n], p)
           s == at[Len(list)]
           j == After(s, IndexIn(s, s.insrt), s.ld.start)
           t == IF s.scan \in {"over", "ENOLCK"} \/ l.type = "F_UNLCK" THEN s
                ELSE Insflck(s, s.ld, p, j)
<1>1. Flckadj(r, fr, list, p, l, i) = t
  BY DEF Flckadj
<1>2. Start(r, fr, list, l, i) = s0
  BY DEF Start
<1>3. s0.list = list /\ s0.ld = l
  OBVIOUS
<1> HIDE DEF s0
<1>4. Begun(s0, p, i)
  BY <1>2
<1>5. Scanned(s0, s, p, i)
  BY <1>3, <1>4, ScanFacts DEF Scanned
<1> HIDE DEF s
<1>6. /\ ListOK(s) /\ s.ld \in Request /\ p \in Procs /\ s.ld.type = s0.ld.type
      /\ s.scan \in {"go", "last", "over", "ENOLCK"}
      /\ s.ld.type # "F_UNLCK" => InsrtOK(s)
  BY <1>5, ScannedFacts
<1>7. ASSUME s.scan \in {"over", "ENOLCK"} PROVE Updated(s0, t, p)
  BY <1>5, <1>7, UpdatedOver, UpdatedNot
<1>8. ASSUME s.scan \in {"go", "last"}, l.type = "F_UNLCK" PROVE Updated(s0, t, p)
  BY <1>3, <1>5, <1>8, UpdatedUnlock
<1>9. ASSUME s.scan \in {"go", "last"}, l.type # "F_UNLCK" PROVE Updated(s0, t, p)
  <2>1. t = Insflck(s, s.ld, p, j)
    BY <1>9
  <2>2. CASE s.free = {}
    <3>1. /\ ListOK(t)
          /\ t.recs = s.recs /\ t.free = s.free /\ t.list = s.list /\ t.ld = s.ld
          /\ t.woken = s.woken /\ t.scan = "ENOLCK"
      BY <1>6, <2>1, <2>2, InsflckFails
    <3> HIDE DEF t
    <3>2. QED
      BY <1>5, <2>2, <3>1, UpdatedNeither
  <2>3. CASE s.free # {}
    <3>1. InsrtOK(s) /\ s.ld.type # "F_UNLCK"
      BY <1>3, <1>6, <1>9
    <3>2. /\ s.ld.start \in Nat /\ s.ld.start \in Byte /\ s.ld.end \in Byte
          /\ s.ld.start <= s.ld.end /\ s.ld.type \in LockType
      BY <1>6, <3>1, RequestFacts
    <3>3. s \in Work /\ s.list \in Seq(Recs) /\ s.insrt \in Recs \cup {NoRec}
      BY <1>6, WorkFields DEF ListOK
    <3> DEFINE k == IndexIn(s, s.insrt)
    <3>4. /\ k \in 0..Len(s.list)
          /\ k = 0 => \A x \in ToSet(s.list) : s.ld.start <= s.recs[x].start
          /\ k # 0 => s.recs[s.list[k]].start <= s.ld.start
      <4>1. CASE s.insrt = NoRec
        BY <3>1, <3>3, <4>1 DEF IndexIn, InsrtOK
      <4>2. CASE s.insrt # NoRec
        <5>1. s.insrt \in ToSet(s.list) /\ s.recs[s.insrt].start <= s.ld.start
          BY <3>1, <4>2 DEF InsrtOK
        <5>2. k \in DOMAIN s.list /\ s.list[k] = s.insrt
          BY <3>3, <5>1, IndexFacts
        <5>3. DOMAIN s.list = 1..Len(s.list)
          BY <3>3
        <5> HIDE DEF k
        <5>4. QED
          BY <5>1, <5>2, <5>3
      <4>3. QED
        BY <4>1, <4>2
    <3> HIDE DEF k
    <3>5. Fits(s, After(s, k, s.ld.start), s.ld.start)
      BY <1>6, <3>2, <3>4, AfterFacts
    <3>6. Insertable(s, s.ld, p, j)
      BY <1>6, <2>3, <3>2, <3>5 DEF Insertable, Lockable, k
    <3>7. Inserted(s, t, s.ld, p)
      BY <2>1, <3>6, InsflckFacts
    <3> HIDE DEF t
    <3>8. QED
      BY <1>3, <1>5, <1>9, <3>7, UpdatedLock
  <2>4. QED
    BY <2>2, <2>3
<1>10. Updated(s0, t, p)
  BY <1>6, <1>7, <1>8, <1>9
<1>11. QED
  BY <1>1, <1>2, <1>10

-----------------------------------------------------------------------------
(* cleanlocks().  What it works on has no request and no place for one.    *)
CleanWork ==
    [recs : [Recs -> Record \cup {Blank}], free : SUBSET Recs, list : Seq(Recs), woken : SUBSET Recs]

(* What is left of the list s0 without the locks X, and who is told.       *)
Stripped(s0, t, X) ==
    /\ t \in CleanWork
    /\ IsInjective(t.list) /\ ToSet(t.list) = ToSet(s0.list) \ X /\ Sorted(t.list, t.recs)
    /\ t.free = s0.free \cup X
    /\ \A y \in Recs \ X : t.recs[y] = s0.recs[y]
    /\ \A y \in X : s0.recs[y].stat = NoProc \/ y \in t.woken

CleanOK(s) ==
    /\ s \in CleanWork
    /\ IsInjective(s.list) /\ ToSet(s.list) \cap s.free = {}
    /\ \A x \in ToSet(s.list) : InUse(s.recs[x])
    /\ Sorted(s.list, s.recs)

LEMMA CleanFields ==
    ASSUME NEW s \in CleanWork
    PROVE  /\ s.recs \in [Recs -> Record \cup {Blank}] /\ s.free \subseteq Recs
           /\ s.list \in Seq(Recs) /\ s.woken \subseteq Recs
           /\ ToSet(s.list) \subseteq Recs
<1>1. /\ s.recs \in [Recs -> Record \cup {Blank}] /\ s.free \subseteq Recs
      /\ s.list \in Seq(Recs) /\ s.woken \subseteq Recs
  BY DEF CleanWork
<1>2. ToSet(s.list) \subseteq Recs
  BY <1>1 DEF ToSet
<1>3. QED
  BY <1>1, <1>2

LEMMA CleanWakeRec ==
    ASSUME NEW s \in CleanWork, NEW x \in Recs
    PROVE  LET t == WakeRec(s, x) IN
           /\ t \in CleanWork
           /\ t.free = s.free /\ t.list = s.list
           /\ \A y \in Recs : y # x => t.recs[y] = s.recs[y]
           /\ t.woken = s.woken \cup (IF s.recs[x].stat = NoProc THEN {} ELSE {x})
<1> DEFINE t == WakeRec(s, x)
           m == s.recs[x]
           n == [m EXCEPT !.stat = NoProc]
<1>1. m \in Record \cup {Blank} /\ s.recs \in [Recs -> Record \cup {Blank}]
  BY CleanFields
<1>2. n \in Record \cup {Blank}
  BY <1>1, RecordFields DEF Blank
<1>3. CASE m.stat = NoProc
  BY <1>3 DEF WakeRec
<1>4. CASE m.stat # NoProc
  <2> DEFINE w == s.woken \cup {x}
             c == [s.recs EXCEPT ![x] = n]
  <2>1. t = [s EXCEPT !.woken = w, !.recs = c]
    BY <1>4 DEF WakeRec
  <2>2. w \subseteq Recs
    BY CleanFields
  <2>3. c \in [Recs -> Record \cup {Blank}]
    BY <1>1, <1>2
  <2>4. \A y \in Recs : y # x => c[y] = s.recs[y]
    BY <1>1
  <2> HIDE DEF t, w, c, n
  <2>5. t \in CleanWork /\ t.free = s.free /\ t.list = s.list /\ t.recs = c /\ t.woken = w
    BY <2>1, <2>2, <2>3 DEF CleanWork
  <2>6. QED
    BY <1>4, <2>4, <2>5 DEF w, t
<1>5. QED
  BY <1>3, <1>4

(* One of the locks goes. *)
LEMMA CleanOne ==
    ASSUME NEW s0, CleanOK(s0), NEW X, NEW s, Stripped(s0, s, X),
           NEW x \in ToSet(s0.list) \ X
    PROVE  Stripped(s0, Delflck(s, x), X \cup {x})
<1> DEFINE t == Delflck(s, x)
           w == WakeRec(s, x)
           i == IndexIn(s, x)
           q == RemoveAt(s.list, i)
           c == [w.recs EXCEPT ![x] = Blank]
           fr == s.free \cup {x}
<1>1. /\ s \in CleanWork /\ x \in Recs /\ s.list \in Seq(Recs) /\ IsInjective(s.list)
      /\ ToSet(s.list) = ToSet(s0.list) \ X /\ x \in ToSet(s.list)
      /\ Sorted(s.list, s.recs) /\ s.free = s0.free \cup X
      /\ \A y \in Recs \ X : s.recs[y] = s0.recs[y]
      /\ \A y \in X : s0.recs[y].stat = NoProc \/ y \in s.woken
  BY CleanFields DEF CleanOK, Stripped
<1>2. i \in DOMAIN s.list /\ s.list[i] = x
  <2>1. \E k \in DOMAIN s.list : s.list[k] = x
    BY <1>1 DEF ToSet
  <2>2. x # NoRec
    BY <1>1, LockAssumption
  <2>3. QED
    BY <2>1, <2>2 DEF IndexIn
<1>3. /\ w \in CleanWork
      /\ w.free = s.free /\ w.list = s.list
      /\ \A y \in Recs : y # x => w.recs[y] = s.recs[y]
      /\ w.woken = s.woken \cup (IF s.recs[x].stat = NoProc THEN {} ELSE {x})
  BY <1>1, CleanWakeRec
<1>4. t = [w EXCEPT !.list = RemoveAt(@, i), !.recs = [@ EXCEPT ![x] = Blank], !.free = @ \cup {x}]
  BY DEF Delflck
<1>5. t = [w EXCEPT !.list = q, !.recs = c, !.free = fr]
  BY <1>3, <1>4
<1>6. q \in Seq(Recs) /\ IsInjective(q) /\ ToSet(q) = ToSet(s.list) \ {x}
  BY <1>1, <1>2, RemoveAtFacts
<1>7. c \in [Recs -> Record \cup {Blank}] /\ fr \subseteq Recs
  <2>1. s.free \subseteq Recs /\ w.recs \in [Recs -> Record \cup {Blank}]
    BY <1>1, <1>3, CleanFields
  <2>2. QED
    BY <1>1, <2>1
<1>8. \A y \in Recs : y # x => c[y] = s.recs[y]
  <2>1. w.recs \in [Recs -> Record \cup {Blank}]
    BY <1>3, CleanFields
  <2>2. QED
    BY <1>3, <2>1
<1>9. Len(q) = Len(s.list) - 1 /\ Len(s.list) \in Nat
      /\ \A j \in 1..Len(q) : q[j] = IF j < i THEN s.list[j] ELSE s.list[j + 1]
  BY <1>1, <1>2, RemoveAtPlaces
<1> HIDE DEF t, w, q, c, fr, i
<1>10. /\ t \in CleanWork /\ t.list = q /\ t.recs = c /\ t.free = fr /\ t.woken = w.woken
  BY <1>3, <1>5, <1>6, <1>7 DEF CleanWork
<1>11. ToSet(t.list) = ToSet(s0.list) \ (X \cup {x})
  BY <1>1, <1>6, <1>10
<1>12. Sorted(t.list, t.recs)
  <2> SUFFICES ASSUME NEW j \in DOMAIN q, NEW k \in DOMAIN q, j < k
               PROVE  c[q[j]].start <= c[q[k]].start
    BY <1>10 DEF Sorted
  <2>1. j \in 1..Len(q) /\ k \in 1..Len(q)
    BY <1>6
  <2>2. q[j] \in Recs /\ q[k] \in Recs /\ q[j] # x /\ q[k] # x
    <3>1. q[j] \in ToSet(q) /\ q[k] \in ToSet(q)
      BY DEF ToSet
    <3>2. QED
      BY <1>6, <3>1
  <2>3. c[q[j]] = s.recs[q[j]] /\ c[q[k]] = s.recs[q[k]]
    BY <1>8, <2>2
  <2>4. PICK a \in DOMAIN s.list, b \in DOMAIN s.list :
               a < b /\ q[j] = s.list[a] /\ q[k] = s.list[b]
    <3> DEFINE a == IF j < i THEN j ELSE j + 1
               b == IF k < i THEN k ELSE k + 1
    <3>1. a \in DOMAIN s.list /\ b \in DOMAIN s.list /\ a < b
      BY <1>1, <1>2, <1>9, <2>1
    <3>2. q[j] = s.list[a] /\ q[k] = s.list[b]
      BY <1>9, <2>1
    <3>3. QED
      BY <3>1, <3>2
  <2>5. QED
    BY <1>1, <2>3, <2>4 DEF Sorted
<1>13. t.free = s0.free \cup (X \cup {x})
  BY <1>1, <1>10 DEF fr
<1>14. \A y \in Recs \ (X \cup {x}) : t.recs[y] = s0.recs[y]
  BY <1>1, <1>8, <1>10
<1>15. \A y \in X \cup {x} : s0.recs[y].stat = NoProc \/ y \in t.woken
  BY <1>1, <1>3, <1>10
<1>16. IsInjective(t.list)
  BY <1>6, <1>10
<1>17. QED
  BY <1>10, <1>11, <1>12, <1>13, <1>14, <1>15, <1>16 DEF Stripped, t

(* The locks of the owners P among the first n. *)
Gone(s0, P, n) == {x \in {s0.list[k] : k \in 1..n} : s0.recs[x].pid \in P}

CleanStep(s0, s, P, n) == IF s0.recs[s0.list[n]].pid \in P THEN Delflck(s, s0.list[n]) ELSE s

LEMMA CleanOn ==
    ASSUME NEW s0, CleanOK(s0), NEW P, NEW n \in 1..Len(s0.list), NEW s,
           Stripped(s0, s, Gone(s0, P, n - 1))
    PROVE  Stripped(s0, CleanStep(s0, s, P, n), Gone(s0, P, n))
<1> DEFINE x == s0.list[n]
<1>1. s0.list \in Seq(Recs) /\ IsInjective(s0.list) /\ Len(s0.list) \in Nat
  BY CleanFields DEF CleanOK
<1>2. 1..n = (1..(n - 1)) \cup {n} /\ n \in DOMAIN s0.list /\ \A k \in 1..(n - 1) : k \in DOMAIN s0.list /\ k # n
  BY <1>1
<1>3. x \in ToSet(s0.list)
  BY <1>2 DEF ToSet
<1>4. x \notin Gone(s0, P, n - 1)
  BY <1>1, <1>2 DEF Gone, IsInjective
<1>5. CASE s0.recs[x].pid \in P
  <2>1. Gone(s0, P, n) = Gone(s0, P, n - 1) \cup {x}
    BY <1>2, <1>5 DEF Gone
  <2> HIDE DEF x
  <2>2. Stripped(s0, Delflck(s, x), Gone(s0, P, n - 1) \cup {x})
    BY <1>3, <1>4, CleanOne
  <2>3. CleanStep(s0, s, P, n) = Delflck(s, x)
    BY <1>5 DEF CleanStep, x
  <2>4. QED
    BY <2>1, <2>2, <2>3
<1>6. CASE s0.recs[x].pid \notin P
  <2>1. Gone(s0, P, n) = Gone(s0, P, n - 1)
    BY <1>2, <1>6 DEF Gone
  <2>2. CleanStep(s0, s, P, n) = s
    BY <1>6 DEF CleanStep
  <2>3. QED
    BY <2>1, <2>2
<1>7. QED
  BY <1>5, <1>6

LEMMA CleanBegins ==
    ASSUME NEW s0, CleanOK(s0), NEW P
    PROVE  Stripped(s0, s0, Gone(s0, P, 0))
<1>1. Gone(s0, P, 0) = {}
  BY DEF Gone
<1>2. QED
  BY <1>1 DEF CleanOK, Stripped

(* f is the way the list goes. *)
CleanRun(s0, P, f) ==
    f = [n \in 0..Len(s0.list) |-> IF n = 0 THEN s0 ELSE CleanStep(s0, f[n - 1], P, n)]

LEMMA CleanExists ==
    ASSUME NEW s0, CleanOK(s0), NEW P
    PROVE  \E f : CleanRun(s0, P, f)
<1> DEFINE N == Len(s0.list)
           T == CleanWork
           E(n, t) == CleanStep(s0, t, P, n)
           G == [n \in 1..N |-> [t \in T |-> IF E(n, t) \in T THEN E(n, t) ELSE t]]
<1>1. N \in Nat /\ s0 \in T
  BY CleanFields DEF CleanOK
<1>2. PICK f \in [0..N -> T] : f[0] = s0 /\ \A n \in 1..N : f[n] = G[n][f[n - 1]]
  <2>1. G \in [1..N -> [T -> T]]
    <3> HIDE DEF E, N, T
    <3> QED
      OBVIOUS
  <2> HIDE DEF T, G, N, E
  <2>2. Iterates(T, s0, N, G)
    BY <1>1, <2>1 DEF Iterates
  <2>3. QED
    BY <2>2, Iteration
<1> HIDE DEF E, N, T
<1>3. \A n \in 1..N : f[n] = IF E(n, f[n - 1]) \in T THEN E(n, f[n - 1]) ELSE f[n - 1]
  <2> SUFFICES ASSUME NEW n \in 1..N
               PROVE  f[n] = IF E(n, f[n - 1]) \in T THEN E(n, f[n - 1]) ELSE f[n - 1]
    OBVIOUS
  <2>1. n - 1 \in 0..N
    BY <1>1
  <2>2. f[n - 1] \in T
    BY <1>2, <2>1
  <2>3. QED
    BY <1>2, <2>2
<1> DEFINE S == {n \in Nat : n <= N => Stripped(s0, f[n], Gone(s0, P, n))}
<1>4. \A n \in 0..N : n \in S
  <2>1. 0 \in S
    BY <1>2, CleanBegins
  <2>2. ASSUME NEW n \in Nat, n < N, n \in S PROVE n + 1 \in S
    <3> DEFINE k == n + 1
    <3>1. k \in 1..N /\ k - 1 = n
      BY <1>1, <2>2
    <3>2. Stripped(s0, f[k - 1], Gone(s0, P, k - 1))
      BY <1>1, <2>2, <3>1
    <3> HIDE DEF k
    <3>3. Stripped(s0, E(k, f[k - 1]), Gone(s0, P, k))
      BY <3>1, <3>2, CleanOn DEF E, N
    <3>4. E(k, f[k - 1]) \in T
      BY <3>3 DEF Stripped, T
    <3>5. f[k] = E(k, f[k - 1])
      BY <1>3, <3>1, <3>4
    <3>6. Stripped(s0, f[k], Gone(s0, P, k))
      BY <3>3, <3>5
    <3>7. k \in S
      BY <3>1, <3>6
    <3>8. QED
      BY <3>7 DEF k
  <2> HIDE DEF S
  <2>3. QED
    BY <1>1, <2>1, <2>2, UpTo
<1>5. ASSUME NEW n \in 1..N PROVE f[n] = E(n, f[n - 1])
  <2>1. n - 1 \in 0..N
    BY <1>1
  <2>2. Stripped(s0, f[n - 1], Gone(s0, P, n - 1))
    BY <1>1, <1>4, <2>1
  <2>3. Stripped(s0, E(n, f[n - 1]), Gone(s0, P, n))
    BY <2>2, CleanOn DEF E, N
  <2>4. E(n, f[n - 1]) \in T
    BY <2>3 DEF Stripped, T
  <2>5. QED
    BY <1>3, <2>4
<1>6. f = [n \in 0..N |-> IF n = 0 THEN s0 ELSE E(n, f[n - 1])]
  <2>1. ASSUME NEW n \in 0..N PROVE f[n] = IF n = 0 THEN s0 ELSE E(n, f[n - 1])
    <3>1. n = 0 \/ n \in 1..N
      BY <1>1
    <3>2. QED
      BY <1>2, <1>5, <3>1
  <2>2. QED
    BY <1>2, <2>1
<1>7. QED
  BY <1>6 DEF E, N, CleanRun

(* The locks of P are gone from the list. *)
CleanStart(f) == [recs |-> recs, free |-> frlock, list |-> locks[f], woken |-> {}]

LEMMA UnlockedFacts ==
    ASSUME NEW f, NEW P, CleanOK(CleanStart(f))
    PROVE  Stripped(CleanStart(f), Unlocked(f, P), {x \in ToSet(locks[f]) : recs[x].pid \in P})
<1> DEFINE N == Len(locks[f])
           s0 == [recs |-> recs, free |-> frlock, list |-> locks[f], woken |-> {}]
           Step(g) == [n \in 0..N |->
                         IF n = 0 THEN s0
                         ELSE IF recs[locks[f][n]].pid \in P THEN Delflck(g[n - 1], locks[f][n])
                         ELSE g[n - 1]]
           at == CHOOSE g : g = Step(g)
<1>0. Unlocked(f, P) = at[N]
  BY DEF Unlocked
<1>1. s0 = CleanStart(f) /\ s0.list = locks[f] /\ s0.recs = recs
  BY DEF CleanStart
<1> HIDE DEF s0
<1>2. CleanOK(s0) /\ N \in Nat /\ locks[f] \in Seq(Recs)
  <2>1. CleanOK(s0)
    BY <1>1
  <2>2. QED
    BY <1>1, <2>1, CleanFields DEF CleanOK
<1>3. at = Step(at)
  <2> DEFINE M == Len(s0.list)
  <2>1. \E g : g = [n \in 0..N |-> IF n = 0 THEN s0 ELSE CleanStep(s0, g[n - 1], P, n)]
    <3>1. \E g : g = [n \in 0..M |-> IF n = 0 THEN s0 ELSE CleanStep(s0, g[n - 1], P, n)]
      <4>1. \E g : CleanRun(s0, P, g)
        BY <1>2, CleanExists
      <4>2. QED
        BY <4>1 DEF CleanRun
    <3>2. M = N
      BY <1>1
    <3> HIDE DEF M, N
    <3>3. QED
      BY <3>1, <3>2
  <2>2. \E g : g = Step(g)
    BY <1>1, <2>1 DEF CleanStep
  <2> HIDE DEF Step
  <2>3. QED
    BY <2>2
<1> HIDE DEF at
<1>4. at[0] = s0 /\ \A n \in 1..N : at[n] = CleanStep(s0, at[n - 1], P, n)
  <2> HIDE DEF N
  <2>1. \A n \in 0..N : at[n] = IF n = 0 THEN s0
                                ELSE IF recs[locks[f][n]].pid \in P
                                     THEN Delflck(at[n - 1], locks[f][n])
                                ELSE at[n - 1]
    BY <1>3
  <2>2. at[0] = s0
    BY <1>2, <2>1
  <2>3. ASSUME NEW n \in 1..N PROVE at[n] = CleanStep(s0, at[n - 1], P, n)
    <3>1. n \in 0..N /\ n # 0
      BY <1>2
    <3>2. QED
      BY <1>1, <2>1, <3>1 DEF CleanStep
  <2>4. QED
    BY <2>2, <2>3
<1> DEFINE S == {n \in Nat : n <= N => Stripped(s0, at[n], Gone(s0, P, n))}
<1>5. \A n \in 0..N : n \in S
  <2>1. 0 \in S
    BY <1>2, <1>4, CleanBegins
  <2>2. ASSUME NEW n \in Nat, n < N, n \in S PROVE n + 1 \in S
    <3> DEFINE k == n + 1
    <3>1. k \in 1..N /\ k - 1 = n
      BY <1>2, <2>2
    <3>2. Stripped(s0, at[k - 1], Gone(s0, P, k - 1))
      BY <1>2, <2>2, <3>1
    <3> HIDE DEF k
    <3>3. Stripped(s0, at[k], Gone(s0, P, k))
      BY <1>1, <1>2, <1>4, <3>1, <3>2, CleanOn
    <3>4. k \in S
      BY <3>1, <3>3
    <3>5. QED
      BY <3>4 DEF k
  <2> HIDE DEF S, N
  <2>3. QED
    BY <1>2, <2>1, <2>2, UpTo
<1>6. Stripped(s0, at[N], Gone(s0, P, N))
  <2>1. N \in 0..N /\ N <= N
    BY <1>2
  <2>2. QED
    BY <1>5, <2>1
<1>7. Gone(s0, P, N) = {x \in ToSet(locks[f]) : recs[x].pid \in P}
  <2>1. ToSet(locks[f]) = {locks[f][k] : k \in 1..N}
    BY <1>2 DEF ToSet
  <2>2. QED
    BY <1>1, <2>1 DEF Gone
<1>8. QED
  BY <1>0, <1>1, <1>6, <1>7

-----------------------------------------------------------------------------
(* The invariant, in parts.  The list of a file: its records are in use,   *)
(* in order, and an owner's as few as they can be.                         *)
FileOK(q, r) ==
    /\ \A x \in ToSet(q) : InUse(r[x])
    /\ Sorted(q, r)
    /\ \A x, y \in ToSet(q) : x # y /\ r[x].pid = r[y].pid => Separate(r[x], r[y])

(* Every lock record is on one list, and once. *)
Pool(fr, sl, lk) ==
    /\ fr \cup sl \cup UNION {ToSet(lk[f]) : f \in Files} = Recs
    /\ fr \cap sl = {}
    /\ \A f \in Files : IsInjective(lk[f]) /\ ToSet(lk[f]) \cap (fr \cup sl) = {}
    /\ \A f, g \in Files : f # g => ToSet(lk[f]) \cap ToSet(lk[g]) = {}

(* The records of the sleepers A: each has one, which says for whom it     *)
(* waits.                                                                  *)
Recorded(r, sl, A) ==
    /\ \A x \in sl : InUse(r[x]) /\ r[x].pid \in A /\ r[x].stat \in Procs
    /\ \A x, y \in sl : r[x].pid = r[y].pid => x = y
    /\ \A p \in A : \E x \in sl : r[x].pid = p

(* None of them wait for each other in a circle. *)
NoRing(r, sl) == ~\E P \in (SUBSET Procs) \ {{}} : \A p \in P : WaitsFor(r, sl, p) \in P

(* Who has not been woken sleeps on a lock that is in its way and will be  *)
(* told; its record names the owner of that lock.                          *)
Told(r, lk, sl, ch, rq) ==
    \A p \in Procs : ch[p] # NoRec =>
        /\ ch[p] \in ToSet(lk[rq[p].file])
        /\ r[ch[p]].stat = Wanted /\ r[ch[p]].pid # p
        /\ Overlap(rq[p], r[ch[p]]) /\ InTheWay(rq[p], r[ch[p]])
        /\ \A x \in sl : r[x].pid = p => r[x].stat = r[ch[p]].pid

(* Who is in a request, and in which. *)
Stands(p, c, l, x) ==
    /\ c = "user" <=> l = NoRequest
    /\ c \in {"asleep", "plock"} => l.op # "set"
    /\ c = "plock" => l.op = "check"
    /\ x # NoRec => c = "asleep"

Asleep == {p \in Procs : pc[p] = "asleep"}

Inv ==
    /\ TypeOK
    /\ Pool(frlock, sleeplcks, locks)
    /\ \A f \in Files : FileOK(locks[f], recs)
    /\ Recorded(recs, sleeplcks, Asleep)
    /\ NoRing(recs, sleeplcks)
    /\ Told(recs, locks, sleeplcks, chan, req)
    /\ \A p \in Procs : Stands(p, pc[p], req[p], chan[p])

-----------------------------------------------------------------------------
(* What the lists are before an update. *)
Ordered(r, fr, q) ==
    /\ r \in [Recs -> Record \cup {Blank}] /\ fr \subseteq Recs /\ q \in Seq(Recs)
    /\ IsInjective(q) /\ ToSet(q) \cap fr = {}
    /\ FileOK(q, r)

LEMMA StartOK ==
    ASSUME NEW r, NEW fr, NEW q, Ordered(r, fr, q), NEW l \in Request, NEW i \in 0..Len(q)
    PROVE  ListOK(Start(r, fr, q, l, i)) /\ Alone(Start(r, fr, q, l, i))
<1> DEFINE s == Start(r, fr, q, l, i)
           z == IF i = 0 THEN NoRec ELSE q[i]
<1>1. z \in Recs \cup {NoRec}
  <2>1. q \in Seq(Recs) /\ Len(q) \in Nat
    BY DEF Ordered
  <2>2. QED
    BY <2>1
<1>2. s = [recs |-> r, free |-> fr, list |-> q, ld |-> l, woken |-> {}, scan |-> "go", insrt |-> z]
  BY DEF Start
<1> HIDE DEF s, z
<1>3. s \in Work /\ s.recs = r /\ s.free = fr /\ s.list = q
  BY <1>1, <1>2 DEF Work, Ordered
<1>4. QED
  BY <1>3 DEF ListOK, Alone, FileOK, Ordered, s

LEMMA StartFields ==
    ASSUME NEW r, NEW fr, NEW q, NEW l, NEW i
    PROVE  LET s == Start(r, fr, q, l, i) IN
           /\ s.recs = r /\ s.free = fr /\ s.list = q /\ s.ld = l /\ s.woken = {} /\ s.scan = "go"
           /\ s.insrt = IF i = 0 THEN NoRec ELSE q[i]
  BY DEF Start

(* An unlock goes over the whole list ... *)
LEMMA BegunUnlock ==
    ASSUME NEW r, NEW fr, NEW q, Ordered(r, fr, q), NEW l \in Request, l.type = "F_UNLCK",
           NEW p \in Procs, NEW i, i = IF q = << >> THEN 0 ELSE 1
    PROVE  Begun(Start(r, fr, q, l, i), p, i)
<1> DEFINE s == Start(r, fr, q, l, i)
<1>1. q \in Seq(Recs) /\ Len(q) \in Nat /\ (q # << >> => Len(q) # 0)
  BY EmptySeq DEF Ordered
<1>2. i \in 0..Len(q) /\ i \in Nat /\ i <= 1
  BY <1>1
<1>3. s.list = q /\ s.ld = l /\ s.scan = "go"
  BY StartFields
<1>4. ListOK(s) /\ Alone(s)
  BY <1>2, StartOK
<1> HIDE DEF s
<1>5. \A k \in 1..Len(s.list) : ~(k < i)
  BY <1>1, <1>2, <1>3
<1>6. QED
  BY <1>2, <1>3, <1>4, <1>5 DEF Begun, s

(* ... a lock begins where blocked() says. *)
LEMMA InsrtFacts ==
    ASSUME NEW r, NEW fr, NEW q, Ordered(r, fr, q), NEW l \in Request, NEW p
    PROVE  LET i == Insrt(q, r, p, l) IN
           /\ i \in 0..Len(q)
           /\ i # 0 => r[q[i]].start < l.start
           /\ i = 0 => \A x \in ToSet(q) : l.start <= r[x].start
           /\ \A k \in 1..Len(q) : k < i /\ r[q[k]].pid = p => r[q[k]].end + 1 < l.start
<1> DEFINE n == Len(q)
           before == {i \in DOMAIN q : \A j \in 1..i : r[q[j]].start < l.start}
           reach == {i \in before : r[q[i]].pid = p /\ l.start - 1 <= r[q[i]].end}
           i == Insrt(q, r, p, l)
<1>1. q \in Seq(Recs) /\ n \in Nat /\ DOMAIN q = 1..n
  BY DEF Ordered
<1>2. i = IF reach # {} THEN Min(reach) ELSE Max(before \cup {0})
  BY DEF Insrt
<1>3. before \subseteq 1..n /\ \A k \in before : \A j \in 1..k : j \in before
  BY <1>1
<1>4. l.start \in Nat
  BY RequestFacts
<1>5. \A k \in 1..n : r[q[k]].start \in Nat /\ r[q[k]].end \in Nat
  <2>1. \A k \in 1..n : q[k] \in ToSet(q)
    BY <1>1 DEF ToSet
  <2>2. QED
    BY <2>1, InUseFacts DEF Ordered, FileOK
<1>6. \A k \in 1..n : k \in before /\ k \notin reach /\ r[q[k]].pid = p => r[q[k]].end + 1 < l.start
  BY <1>4, <1>5
<1>7. CASE reach # {}
  <2>1. reach \in SUBSET Nat /\ reach \subseteq before
    BY <1>3
  <2>2. i \in reach /\ \A y \in reach : i <= y
    BY <1>2, <1>7, <2>1, LeastFacts
  <2>3. i \in before /\ i \in 1..n
    BY <1>3, <2>1, <2>2
  <2>4. r[q[i]].start < l.start
    BY <2>3
  <2> HIDE DEF i, reach, before
  <2>5. ASSUME NEW k \in 1..n, k < i, r[q[k]].pid = p PROVE r[q[k]].end + 1 < l.start
    <3>1. k \in 1..i
      BY <2>3, <2>5
    <3>2. k \in before
      BY <1>3, <2>3, <3>1
    <3>3. k \notin reach
      BY <2>2, <2>3, <2>5
    <3>4. QED
      BY <1>6, <2>5, <3>2, <3>3
  <2>6. QED
    BY <1>1, <2>3, <2>4, <2>5 DEF i
<1>8. CASE reach = {}
  <2> DEFINE S == before \cup {0}
  <2>1. S \in SUBSET (0..n) /\ S # {}
    BY <1>1, <1>3
  <2>2. i = Max(S)
    BY <1>2, <1>8
  <2> HIDE DEF S
  <2>3. i \in S /\ \A y \in S : y <= i
    BY <1>1, <2>1, <2>2, GreatestFacts
  <2>4. i \in 0..n
    BY <2>1, <2>3
  <2>5. i # 0 => i \in before
    BY <2>3 DEF S
  <2>6. ASSUME i # 0 PROVE r[q[i]].start < l.start
    BY <1>3, <2>5, <2>6
  <2>7. ASSUME i = 0, NEW x \in ToSet(q) PROVE l.start <= r[x].start
    <3>1. PICK k \in 1..n : x = q[k]
      BY <1>1 DEF ToSet
    <3>2. 1 \notin before
      BY <2>3, <2>7 DEF S
    <3>3. 1 \in 1..n
      BY <1>1, <3>1
    <3>4. ~(r[q[1]].start < l.start)
      BY <1>1, <3>2, <3>3
    <3>5. k # 1 => r[q[1]].start <= r[q[k]].start
      BY <1>1, <3>1, <3>3 DEF Ordered, FileOK, Sorted
    <3>6. QED
      BY <1>4, <1>5, <3>1, <3>3, <3>4, <3>5
  <2> HIDE DEF i, before, reach
  <2>8. ASSUME NEW k \in 1..n, k < i, r[q[k]].pid = p PROVE r[q[k]].end + 1 < l.start
    <3>1. k \in 1..i /\ i # 0
      BY <2>4, <2>8
    <3>2. k \in before
      BY <1>3, <2>5, <3>1
    <3>3. QED
      BY <1>6, <1>8, <2>8, <3>2
  <2>9. QED
    BY <2>4, <2>6, <2>7, <2>8 DEF i
<1>9. QED
  BY <1>7, <1>8

LEMMA BegunLock ==
    ASSUME NEW r, NEW fr, NEW q, Ordered(r, fr, q), NEW l \in Request, l.type # "F_UNLCK",
           NEW p \in Procs, NEW i, i = Insrt(q, r, p, l)
    PROVE  Begun(Start(r, fr, q, l, i), p, i)
<1> DEFINE s == Start(r, fr, q, l, i)
<1>1. /\ i \in 0..Len(q)
      /\ i # 0 => r[q[i]].start < l.start
      /\ i = 0 => \A x \in ToSet(q) : l.start <= r[x].start
      /\ \A k \in 1..Len(q) : k < i /\ r[q[k]].pid = p => r[q[k]].end + 1 < l.start
  BY InsrtFacts
<1>2. q \in Seq(Recs) /\ Len(q) \in Nat /\ DOMAIN q = 1..Len(q)
  BY DEF Ordered
<1>3. /\ s.recs = r /\ s.list = q /\ s.ld = l /\ s.scan = "go"
      /\ s.insrt = IF i = 0 THEN NoRec ELSE q[i]
  BY StartFields
<1>4. ListOK(s) /\ Alone(s)
  BY <1>1, StartOK
<1> HIDE DEF s
<1>5. \A k \in 1..Len(q) : q[k] \in ToSet(q) /\ InUse(r[q[k]])
  BY <1>2 DEF ToSet, Ordered, FileOK
<1>6. l.start \in Nat
  BY RequestFacts
<1>7. InsrtOK(s)
  <2>1. CASE i = 0
    BY <1>1, <1>3, <2>1 DEF InsrtOK
  <2>2. CASE i # 0
    <3>1. i \in 1..Len(q)
      BY <1>1, <1>2, <2>2
    <3>2. q[i] \in ToSet(q) /\ InUse(r[q[i]]) /\ q[i] \in Recs
      BY <1>2, <1>5, <3>1
    <3>3. q[i] # NoRec
      BY <3>2, LockAssumption
    <3>4. r[q[i]].start <= l.start
      BY <1>1, <1>6, <2>2, <3>2, InUseFacts
    <3>5. QED
      BY <1>3, <2>2, <3>2, <3>3, <3>4 DEF InsrtOK
  <2>3. QED
    BY <2>1, <2>2
<1>8. ASSUME NEW k \in 1..Len(q), k < i, r[q[k]].pid = p PROVE Below(r[q[k]], l)
  <2>1. r[q[k]].end \in Nat
    BY <1>5, InUseFacts
  <2>2. r[q[k]].end + 1 < l.start
    BY <1>1, <1>8
  <2>3. QED
    BY <1>6, <2>1, <2>2 DEF Below
<1>9. i \in Nat
  BY <1>1, <1>2
<1>10. QED
  BY <1>3, <1>4, <1>7, <1>8, <1>9 DEF Begun, s

-----------------------------------------------------------------------------
(* The invariant and the lists: those of a file become c, fr2, q2; whoever *)
(* sleeps on one of w is told.                                             *)
Reworked(r, fr, q, c, fr2, q2, w) ==
    /\ c \in [Recs -> Record \cup {Blank}] /\ fr2 \subseteq Recs /\ q2 \in Seq(Recs)
    /\ IsInjective(q2) /\ ToSet(q2) \cap fr2 = {} /\ FileOK(q2, c)
    /\ fr2 \cup ToSet(q2) = fr \cup ToSet(q)
    /\ \A y \in Recs : y \notin fr \cup ToSet(q) => c[y] = r[y]
    /\ \A y \in ToSet(q) :
         r[y].stat = NoProc \/ y \in w \/ (y \in ToSet(q2) /\ c[y] = r[y])

LEMMA UpdatedReworked ==
    ASSUME NEW s0, NEW t, NEW p, Updated(s0, t, p)
    PROVE  Reworked(s0.recs, s0.free, s0.list, t.recs, t.free, t.list, t.woken)
<1>1. /\ ListOK(t) /\ Alone(t)
      /\ t.free \cup ToSet(t.list) = s0.free \cup ToSet(s0.list)
      /\ \A y \in Recs : y \notin s0.free \cup ToSet(s0.list) => t.recs[y] = s0.recs[y]
      /\ \A y \in ToSet(s0.list) :
           \/ s0.recs[y].stat = NoProc \/ y \in t.woken
           \/ y \in ToSet(t.list) /\ t.recs[y] = s0.recs[y]
  BY DEF Updated, Lists
<1>2. /\ t.recs \in [Recs -> Record \cup {Blank}] /\ t.free \subseteq Recs /\ t.list \in Seq(Recs)
      /\ IsInjective(t.list) /\ ToSet(t.list) \cap t.free = {}
      /\ \A x \in ToSet(t.list) : InUse(t.recs[x])
      /\ Sorted(t.list, t.recs)
  BY <1>1, WorkFields DEF ListOK
<1>3. FileOK(t.list, t.recs)
  BY <1>1, <1>2 DEF FileOK, Alone
<1>4. QED
  BY <1>1, <1>2, <1>3 DEF Reworked

LEMMA PoolReworked ==
    ASSUME NEW fr, NEW sl, NEW lk, Pool(fr, sl, lk), NEW f \in Files, lk \in [Files -> Seq(Recs)],
           NEW r, NEW c, NEW fr2, NEW q2, NEW w, Reworked(r, fr, lk[f], c, fr2, q2, w)
    PROVE  Pool(fr2, sl, [lk EXCEPT ![f] = q2])
<1> DEFINE lk2 == [lk EXCEPT ![f] = q2]
<1>1. lk2[f] = q2 /\ \A g \in Files : g # f => lk2[g] = lk[g]
  OBVIOUS
<1>2. /\ IsInjective(q2) /\ ToSet(q2) \cap fr2 = {}
      /\ fr2 \cup ToSet(q2) = fr \cup ToSet(lk[f])
  BY DEF Reworked
<1>3. /\ fr \cup sl \cup UNION {ToSet(lk[g]) : g \in Files} = Recs
      /\ fr \cap sl = {}
      /\ \A g \in Files : IsInjective(lk[g]) /\ ToSet(lk[g]) \cap (fr \cup sl) = {}
      /\ \A g, h \in Files : g # h => ToSet(lk[g]) \cap ToSet(lk[h]) = {}
  BY DEF Pool
<1> HIDE DEF lk2
<1>4. fr2 \cup sl \cup UNION {ToSet(lk2[g]) : g \in Files} = Recs
  <2>1. ASSUME NEW x \in Recs PROVE x \in fr2 \cup sl \cup UNION {ToSet(lk2[g]) : g \in Files}
    <3>1. CASE x \in fr \cup ToSet(lk[f])
      BY <1>1, <1>2, <3>1
    <3>2. CASE x \in sl
      BY <3>2
    <3>3. CASE x \notin fr \cup sl /\ x \notin ToSet(lk[f])
      <4>1. PICK g \in Files : x \in ToSet(lk[g])
        BY <1>3, <3>3
      <4>2. x \in ToSet(lk2[g])
        BY <1>1, <3>3, <4>1
      <4>3. QED
        BY <4>2
    <3>4. QED
      BY <3>1, <3>2, <3>3
  <2>2. ASSUME NEW g \in Files PROVE ToSet(lk2[g]) \subseteq Recs
    <3>1. CASE g = f
      BY <1>1, <1>2, <1>3, <3>1
    <3>2. CASE g # f
      BY <1>1, <1>3, <3>2
    <3>3. QED
      BY <3>1, <3>2
  <2>3. fr2 \cup sl \subseteq Recs
    BY <1>2, <1>3
  <2>4. QED
    BY <2>1, <2>2, <2>3
<1>5. fr2 \cap sl = {}
  BY <1>2, <1>3
<1>6. ASSUME NEW g \in Files PROVE IsInjective(lk2[g]) /\ ToSet(lk2[g]) \cap (fr2 \cup sl) = {}
  <2>1. CASE g = f
    BY <1>1, <1>2, <1>3, <2>1
  <2>2. CASE g # f
    BY <1>1, <1>2, <1>3, <2>2
  <2>3. QED
    BY <2>1, <2>2
<1>7. ASSUME NEW g \in Files, NEW h \in Files, g # h
      PROVE  ToSet(lk2[g]) \cap ToSet(lk2[h]) = {}
  <2>1. CASE g = f
    BY <1>1, <1>2, <1>3, <1>7, <2>1
  <2>2. CASE h = f
    BY <1>1, <1>2, <1>3, <1>7, <2>2
  <2>3. CASE g # f /\ h # f
    BY <1>1, <1>3, <1>7, <2>3
  <2>4. QED
    BY <2>1, <2>2, <2>3
<1>8. QED
  BY <1>4, <1>5, <1>6, <1>7 DEF Pool, lk2

(* A list whose records are as they were is as good as it was. *)
LEMMA FileSame ==
    ASSUME NEW q, NEW r, NEW c, FileOK(q, r), \A x \in ToSet(q) : c[x] = r[x]
    PROVE  FileOK(q, c)
<1>1. \A i \in DOMAIN q : q[i] \in ToSet(q)
  BY DEF ToSet
<1>2. Sorted(q, c)
  BY <1>1 DEF FileOK, Sorted
<1>3. QED
  BY <1>2 DEF FileOK

LEMMA FilesReworked ==
    ASSUME NEW fr, NEW sl, NEW lk, Pool(fr, sl, lk), NEW f \in Files, lk \in [Files -> Seq(Recs)],
           NEW r, \A g \in Files : FileOK(lk[g], r),
           NEW c, NEW fr2, NEW q2, NEW w, Reworked(r, fr, lk[f], c, fr2, q2, w)
    PROVE  \A g \in Files : FileOK([lk EXCEPT ![f] = q2][g], c)
<1> SUFFICES ASSUME NEW g \in Files PROVE FileOK([lk EXCEPT ![f] = q2][g], c)
  OBVIOUS
<1>1. CASE g = f
  BY <1>1 DEF Reworked
<1>2. CASE g # f
  <2>1. \A x \in ToSet(lk[g]) : x \in Recs /\ x \notin fr \cup ToSet(lk[f])
    BY <1>2 DEF Pool
  <2>2. FileOK(lk[g], c)
    BY <2>1, FileSame DEF Reworked
  <2>3. QED
    BY <1>2, <2>2
<1>3. QED
  BY <1>1, <1>2

(* The sleepers' records are not on the lists. *)
InPool(fr, sl, lk, f, r, c, fr2, q2, w) ==
    f \in Files /\ Pool(fr, sl, lk) /\ Reworked(r, fr, lk[f], c, fr2, q2, w)

LEMMA SleepersReworked ==
    ASSUME NEW fr, NEW sl, NEW lk, NEW f, NEW r, NEW c, NEW fr2, NEW q2, NEW w,
           InPool(fr, sl, lk, f, r, c, fr2, q2, w)
    PROVE  \A x \in sl : c[x] = r[x]
<1>1. \A x \in sl : x \in Recs /\ x \notin fr \cup ToSet(lk[f])
  BY DEF InPool, Pool
<1>2. QED
  BY <1>1 DEF InPool, Reworked

-----------------------------------------------------------------------------
(* The invariant and the sleepers. *)
LEMMA WaitsForFacts ==
    ASSUME NEW r, NEW sl, NEW A, Recorded(r, sl, A)
    PROVE  /\ \A x \in sl : WaitsFor(r, sl, r[x].pid) = r[x].stat
           /\ \A q : (\A x \in sl : r[x].pid # q) => WaitsFor(r, sl, q) = NoProc
           /\ \A q : q \notin A => WaitsFor(r, sl, q) = NoProc
           /\ \A q : WaitsFor(r, sl, q) \in Procs \cup {NoProc}
<1>1. ASSUME NEW x \in sl PROVE WaitsFor(r, sl, r[x].pid) = r[x].stat
  <2> DEFINE mine == {y \in sl : r[y].pid = r[x].pid}
  <2>1. mine = {x}
    BY DEF Recorded
  <2>2. WaitsFor(r, sl, r[x].pid) = IF mine = {} THEN NoProc ELSE r[CHOOSE y \in mine : TRUE].stat
    BY DEF WaitsFor
  <2> HIDE DEF mine
  <2>3. QED
    BY <2>1, <2>2
<1>2. ASSUME NEW q, \A x \in sl : r[x].pid # q PROVE WaitsFor(r, sl, q) = NoProc
  BY <1>2 DEF WaitsFor
<1>3. ASSUME NEW q, q \notin A PROVE WaitsFor(r, sl, q) = NoProc
  BY <1>2, <1>3 DEF Recorded
<1>4. ASSUME NEW q PROVE WaitsFor(r, sl, q) \in Procs \cup {NoProc}
  <2>1. CASE \A x \in sl : r[x].pid # q
    BY <1>2, <2>1
  <2>2. CASE \E x \in sl : r[x].pid = q
    BY <1>1, <2>2 DEF Recorded
  <2>3. QED
    BY <2>1, <2>2
<1>5. QED
  BY <1>1, <1>2, <1>3, <1>4

LEMMA RecordedSame ==
    ASSUME NEW r, NEW sl, NEW A, Recorded(r, sl, A), NEW c, \A x \in sl : c[x] = r[x]
    PROVE  Recorded(c, sl, A) /\ \A q : WaitsFor(c, sl, q) = WaitsFor(r, sl, q)
<1>1. Recorded(c, sl, A)
  BY DEF Recorded
<1>2. ASSUME NEW q PROVE WaitsFor(c, sl, q) = WaitsFor(r, sl, q)
  <2>1. CASE \A x \in sl : r[x].pid # q
    BY <1>1, <2>1, WaitsForFacts
  <2>2. CASE \E x \in sl : r[x].pid = q
    BY <1>1, <2>2, WaitsForFacts
  <2>3. QED
    BY <2>1, <2>2
<1>3. QED
  BY <1>1, <1>2

(* Who waits for no one closes no circle. *)
LEMMA FewerWait ==
    ASSUME NEW r, NEW sl, NoRing(r, sl), NEW r2, NEW sl2,
           \A q \in Procs : WaitsFor(r2, sl2, q) \in {WaitsFor(r, sl, q), NoProc}
    PROVE  NoRing(r2, sl2)
<1> SUFFICES ASSUME NEW P \in (SUBSET Procs) \ {{}}, \A q \in P : WaitsFor(r2, sl2, q) \in P
             PROVE  FALSE
  BY DEF NoRing
<1>1. \A q \in P : WaitsFor(r, sl, q) \in P
  BY LockAssumption
<1>2. QED
  BY <1>1 DEF NoRing

(* p wakes and takes its record back. *)
LEMMA RecordedLess ==
    ASSUME NEW r, r \in [Recs -> Record \cup {Blank}], NEW sl, sl \subseteq Recs, NEW A, Recorded(r, sl, A),
           NoRing(r, sl), NEW x \in sl
    PROVE  LET c == [r EXCEPT ![x] = Blank] IN
           Recorded(c, sl \ {x}, A \ {r[x].pid}) /\ NoRing(c, sl \ {x})
<1> DEFINE c == [r EXCEPT ![x] = Blank]
           p == r[x].pid
<1>1. \A y \in sl \ {x} : c[y] = r[y] /\ r[y].pid # p
  BY DEF Recorded
<1>2. Recorded(c, sl \ {x}, A \ {p})
  <2> HIDE DEF c
  <2>1. \A y \in sl \ {x} : InUse(c[y]) /\ c[y].pid \in A \ {p} /\ c[y].stat \in Procs
    BY <1>1 DEF Recorded
  <2>2. \A y, z \in sl \ {x} : c[y].pid = c[z].pid => y = z
    BY <1>1 DEF Recorded
  <2>3. ASSUME NEW q \in A \ {p} PROVE \E y \in sl \ {x} : c[y].pid = q
    <3>1. PICK y \in sl : r[y].pid = q
      BY DEF Recorded
    <3>2. QED
      BY <1>1, <3>1
  <2>4. QED
    BY <2>1, <2>2, <2>3 DEF Recorded
<1> HIDE DEF c
<1>3. ASSUME NEW q \in Procs
      PROVE  WaitsFor(c, sl \ {x}, q) \in {WaitsFor(r, sl, q), NoProc}
  <2>1. CASE \A y \in sl \ {x} : c[y].pid # q
    BY <1>2, <2>1, WaitsForFacts
  <2>2. CASE \E y \in sl \ {x} : c[y].pid = q
    <3>1. PICK y \in sl \ {x} : c[y].pid = q
      BY <2>2
    <3>2. WaitsFor(c, sl \ {x}, q) = c[y].stat
      BY <1>2, <3>1, WaitsForFacts
    <3>3. WaitsFor(r, sl, q) = r[y].stat
      BY <1>1, <3>1, WaitsForFacts
    <3>4. QED
      BY <1>1, <3>2, <3>3
  <2>3. QED
    BY <2>1, <2>2
<1>4. NoRing(c, sl \ {x})
  BY <1>3, FewerWait
<1>5. QED
  BY <1>2, <1>4 DEF c

(* Those who have not been woken, as long as it is all the same to them.   *)
LEMMA ToldLess ==
    ASSUME NEW r, NEW lk, NEW sl, NEW ch, NEW rq, Told(r, lk, sl, ch, rq),
           NEW r2, NEW lk2, NEW sl2, NEW ch2, NEW rq2,
           \A q \in Procs : ch2[q] # NoRec =>
              /\ ch2[q] = ch[q] /\ rq2[q] = rq[q]
              /\ ch[q] \in ToSet(lk2[rq[q].file]) /\ r2[ch[q]] = r[ch[q]],
           sl2 \subseteq sl, \A x \in sl2 : r2[x] = r[x]
    PROVE  Told(r2, lk2, sl2, ch2, rq2)
<1> SUFFICES ASSUME NEW q \in Procs, ch2[q] # NoRec
             PROVE  /\ ch2[q] \in ToSet(lk2[rq2[q].file])
                    /\ r2[ch2[q]].stat = Wanted /\ r2[ch2[q]].pid # q
                    /\ Overlap(rq2[q], r2[ch2[q]]) /\ InTheWay(rq2[q], r2[ch2[q]])
                    /\ \A x \in sl2 : r2[x].pid = q => r2[x].stat = r2[ch2[q]].pid
  BY DEF Told
<1>1. /\ ch2[q] = ch[q] /\ rq2[q] = rq[q]
      /\ ch[q] \in ToSet(lk2[rq[q].file]) /\ r2[ch[q]] = r[ch[q]]
  OBVIOUS
<1>2. /\ r[ch[q]].stat = Wanted /\ r[ch[q]].pid # q
      /\ Overlap(rq[q], r[ch[q]]) /\ InTheWay(rq[q], r[ch[q]])
      /\ \A x \in sl : r[x].pid = q => r[x].stat = r[ch[q]].pid
  BY <1>1 DEF Told
<1>3. QED
  BY <1>1, <1>2

-----------------------------------------------------------------------------
(* deadflck() follows the owners as they wait for each other; it goes far  *)
(* enough.                                                                 *)
Follows(r, sl, q, N, f) ==
    /\ f[0] = q
    /\ \A n \in 1..N : f[n] = WaitsFor(r, sl, f[n - 1])

LEMMA DeadflckFacts ==
    ASSUME NEW r, NEW sl, NEW A, Recorded(r, sl, A), NEW p, NEW q \in Procs
    PROVE  LET N == Cardinality(Procs) IN
           /\ N \in Nat
           /\ \E f : Follows(r, sl, q, N, f) /\ (Deadflck(r, sl, p, q) <=> \E n \in 0..N : f[n] = p)
<1> DEFINE N == Cardinality(Procs)
           T == Procs \cup {NoProc}
           Step(f) == [n \in 0..N |-> IF n = 0 THEN q ELSE WaitsFor(r, sl, f[n - 1])]
           at == CHOOSE f : f = Step(f)
<1>0. Deadflck(r, sl, p, q) <=> \E n \in DOMAIN at : at[n] = p
  BY DEF Deadflck
<1>1. N \in Nat
  BY LockAssumption, FS_CardinalityType
<1> HIDE DEF N
<1>2. \E f : f = Step(f)
  <2> DEFINE E(t) == WaitsFor(r, sl, t)
             G == [n \in 1..N |-> [t \in T |-> E(t)]]
  <2>1. \A t : E(t) \in T
    BY WaitsForFacts
  <2> HIDE DEF E
  <2>2. G \in [1..N -> [T -> T]]
    BY <2>1
  <2>3. PICK f \in [0..N -> T] : f[0] = q /\ \A n \in 1..N : f[n] = G[n][f[n - 1]]
    <3> HIDE DEF G, T
    <3>1. q \in T
      BY DEF T
    <3>2. Iterates(T, q, N, G)
      BY <1>1, <2>2, <3>1 DEF Iterates
    <3>3. QED
      BY <3>2, Iteration
  <2>4. ASSUME NEW n \in 0..N PROVE f[n] = IF n = 0 THEN q ELSE E(f[n - 1])
    <3>1. CASE n = 0
      BY <2>3, <3>1
    <3>2. CASE n # 0
      <4>1. n \in 1..N /\ n - 1 \in 0..N
        BY <1>1, <3>2
      <4>2. f[n - 1] \in T
        BY <2>3, <4>1
      <4>3. G[n][f[n - 1]] = E(f[n - 1])
        BY <4>1, <4>2
      <4>4. QED
        BY <2>3, <3>2, <4>1, <4>3
    <3>3. QED
      BY <3>1, <3>2
  <2>5. f = [n \in 0..N |-> IF n = 0 THEN q ELSE E(f[n - 1])]
    BY <2>3, <2>4
  <2>6. QED
    BY <2>5 DEF E
<1>3. at = Step(at)
  <2> HIDE DEF Step
  <2>1. QED
    BY <1>2
<1> HIDE DEF at
<1>4. DOMAIN at = 0..N /\ \A n \in 0..N : at[n] = IF n = 0 THEN q ELSE WaitsFor(r, sl, at[n - 1])
  BY <1>3
<1>5. at[0] = q /\ \A n \in 1..N : at[n] = WaitsFor(r, sl, at[n - 1])
  <2>1. 0 \in 0..N /\ \A n \in 1..N : n \in 0..N /\ n # 0
    BY <1>1
  <2>2. QED
    BY <1>4, <2>1
<1>6. Follows(r, sl, q, N, at)
  BY <1>5 DEF Follows
<1>7. Deadflck(r, sl, p, q) <=> \E n \in 0..N : at[n] = p
  BY <1>0, <1>4
<1>8. QED
  BY <1>1, <1>6, <1>7 DEF N

(* It comes round if it does not end. *)
LEMMA ComesRound ==
    ASSUME NEW N, N = Cardinality(Procs), N \in Nat, NEW f, \A n \in 0..N : f[n] \in Procs
    PROVE  \E m, n \in 0..N : m < n /\ f[m] = f[n]
<1> DEFINE S == 0..N
           g == [n \in S |-> f[n]]
<1>1. IsFiniteSet(S) /\ Cardinality(S) = N + 1
  <2>1. 0 \in Int /\ N \in Int
    OBVIOUS
  <2>2. IsFiniteSet(0..N) /\ Cardinality(0..N) = IF 0 > N THEN 0 ELSE N - 0 + 1
    BY <2>1, FS_Interval
  <2>3. QED
    BY <2>2
<1>2. g \in [S -> Procs]
  OBVIOUS
<1>3. IsFiniteSet(Procs) /\ Cardinality(Procs) < Cardinality(S)
  BY <1>1, LockAssumption
<1> HIDE DEF S, g
<1>4. PICK m \in S, n \in S : m # n /\ g[m] = g[n]
  BY <1>1, <1>2, <1>3, FS_PigeonHole
<1>5. f[m] = f[n] /\ m \in 0..N /\ n \in 0..N
  BY <1>4 DEF g, S
<1>6. m < n \/ n < m
  BY <1>4, <1>5
<1>7. QED
  BY <1>5, <1>6

(* p comes to wait for q. *)
LEMMA NoNewRing ==
    ASSUME NEW r, NEW sl, NEW A, Recorded(r, sl, A), NoRing(r, sl), NEW p \in Procs, NEW q0 \in Procs,
           ~Deadflck(r, sl, p, q0), NEW r2, NEW sl2, WaitsFor(r2, sl2, p) = q0,
           \A q \in Procs : q # p => WaitsFor(r2, sl2, q) = WaitsFor(r, sl, q)
    PROVE  NoRing(r2, sl2)
<1> SUFFICES ASSUME NEW P \in (SUBSET Procs) \ {{}}, \A q \in P : WaitsFor(r2, sl2, q) \in P
             PROVE  FALSE
  BY DEF NoRing
<1> DEFINE N == Cardinality(Procs)
<1>1. N \in Nat
  BY DeadflckFacts
<1>2. PICK f : Follows(r, sl, q0, N, f) /\ (Deadflck(r, sl, p, q0) <=> \E n \in 0..N : f[n] = p)
  BY DeadflckFacts
<1>3. \A n \in 0..N : f[n] # p
  BY <1>2
<1>4. p \in P
  <2> SUFFICES ASSUME p \notin P PROVE FALSE
    OBVIOUS
  <2>1. \A q \in P : WaitsFor(r, sl, q) \in P
    OBVIOUS
  <2>2. QED
    BY <2>1 DEF NoRing
<1>5. q0 \in P
  BY <1>4
<1> HIDE DEF N
<1>6. f[0] = q0 /\ \A n \in 1..N : f[n] = WaitsFor(r, sl, f[n - 1])
  BY <1>2 DEF Follows
<1> DEFINE S == {n \in Nat : n <= N => f[n] \in P}
<1>7. \A n \in 0..N : n \in S
  <2>1. 0 \in S
    BY <1>5, <1>6
  <2>2. ASSUME NEW n \in Nat, n < N, n \in S PROVE n + 1 \in S
    <3>1. f[n] \in P /\ n \in 0..N /\ n + 1 \in 1..N /\ (n + 1) - 1 = n
      BY <1>1, <2>2
    <3>2. f[n + 1] = WaitsFor(r, sl, f[n])
      BY <1>6, <3>1
    <3>3. f[n] # p /\ f[n] \in Procs
      BY <1>3, <3>1
    <3>4. WaitsFor(r2, sl2, f[n]) \in P
      BY <3>1
    <3>5. f[n + 1] \in P
      BY <3>2, <3>3, <3>4
    <3>6. QED
      BY <3>5
  <2> HIDE DEF S
  <2>3. QED
    BY <1>1, <2>1, <2>2, UpTo
<1>8. \A n \in 0..N : f[n] \in Procs
  BY <1>1, <1>7
<1>9. PICK m \in 0..N, n \in 0..N : m < n /\ f[m] = f[n]
  BY <1>1, <1>8, ComesRound DEF N
<1> DEFINE Q == {f[k] : k \in m..(n - 1)}
<1>10. Q \in (SUBSET Procs) \ {{}}
  <2>1. m \in m..(n - 1)
    BY <1>9
  <2>2. ASSUME NEW k \in m..(n - 1) PROVE f[k] \in Procs
    <3>1. k \in 0..N
      BY <1>1, <1>9
    <3>2. QED
      BY <1>8, <3>1
  <2>3. Q \subseteq Procs
    BY <2>2
  <2>4. f[m] \in Q
    BY <2>1
  <2> HIDE DEF Q
  <2>5. QED
    BY <2>3, <2>4
<1>11. ASSUME NEW k \in m..(n - 1) PROVE WaitsFor(r, sl, f[k]) \in Q
  <2>1. k + 1 \in 1..N /\ (k + 1) - 1 = k
    BY <1>1, <1>9
  <2>2. f[k + 1] = WaitsFor(r, sl, f[k])
    BY <1>6, <2>1
  <2>3. k + 1 = n \/ k + 1 \in m..(n - 1)
    BY <1>9
  <2>4. m \in m..(n - 1)
    BY <1>9
  <2>5. f[k + 1] \in Q
    <3>1. CASE k + 1 = n
      BY <1>9, <2>4, <3>1
    <3>2. CASE k + 1 \in m..(n - 1)
      BY <3>2
    <3>3. QED
      BY <2>3, <3>1, <3>2
  <2>6. QED
    BY <2>2, <2>5
<1>12. QED
  BY <1>10, <1>11 DEF NoRing

-----------------------------------------------------------------------------
(* The lists as a process finds them once round the loop of reclock().     *)
Entry(p, r, fr, sl) ==
    /\ p \in Procs /\ chan[p] = NoRec /\ req[p] \in Request
    /\ r \in [Recs -> Record \cup {Blank}] /\ fr \subseteq Recs /\ sl \subseteq Recs
    /\ Pool(fr, sl, locks)
    /\ \A f \in Files : FileOK(locks[f], r)
    /\ Recorded(r, sl, Asleep \ {p})
    /\ NoRing(r, sl)
    /\ Told(r, locks, sl, chan, req)

LEMMA RequestNot ==
    NoRequest \notin Request
<1>1. \A l \in Request : l.op \in {"set", "wait", "check"}
  BY DEF Request
<1>2. NoRequest.op = "none"
  BY DEF NoRequest
<1>3. QED
  BY <1>1, <1>2

LEMMA EntryOrdered ==
    ASSUME TypeOK, NEW p, NEW r, NEW fr, NEW sl, Entry(p, r, fr, sl), NEW f \in Files
    PROVE  Ordered(r, fr, locks[f])
<1>1. locks[f] \in Seq(Recs)
  BY DEF TypeOK
<1>2. IsInjective(locks[f]) /\ ToSet(locks[f]) \cap fr = {}
  BY DEF Entry, Pool
<1>3. QED
  BY <1>1, <1>2 DEF Entry, Ordered

(* The answer to a request. *)
LEMMA ReturnFacts ==
    ASSUME TypeOK, \A q \in Procs : Stands(q, pc[q], req[q], chan[q]),
           NEW p \in Procs, chan[p] = NoRec, NEW result \in Result, Return(p, result),
           chan' \in [Procs -> Recs \cup {NoRec}], \A q \in Procs : chan'[q] \in {chan[q], NoRec}
    PROVE  /\ pc' \in [Procs -> {"user", "call", "asleep", "plock"}]
           /\ req' \in [Procs -> Request \cup {NoRequest}]
           /\ intr' \in [Procs -> BOOLEAN]
           /\ ret' \in Result
           /\ \A q \in Procs : Stands(q, pc'[q], req'[q], chan'[q])
           /\ Asleep' = Asleep \ {p}
           /\ \A q \in Procs : q # p => req'[q] = req[q]
           /\ chan'[p] = NoRec
<1>1. /\ pc \in [Procs -> {"user", "call", "asleep", "plock"}]
      /\ req \in [Procs -> Request \cup {NoRequest}]
      /\ intr \in [Procs -> BOOLEAN]
  BY DEF TypeOK
<1>2. /\ pc' = [pc EXCEPT ![p] = "user"] /\ req' = [req EXCEPT ![p] = NoRequest]
      /\ intr' = [intr EXCEPT ![p] = FALSE] /\ ret' = result
  BY DEF Return
<1>3. /\ pc' \in [Procs -> {"user", "call", "asleep", "plock"}]
      /\ req' \in [Procs -> Request \cup {NoRequest}]
      /\ intr' \in [Procs -> BOOLEAN]
      /\ ret' \in Result
  BY <1>1, <1>2
<1>4. /\ pc'[p] = "user" /\ req'[p] = NoRequest /\ chan'[p] = NoRec
      /\ \A q \in Procs : q # p => pc'[q] = pc[q] /\ req'[q] = req[q]
  BY <1>1, <1>2
<1>5. ASSUME NEW q \in Procs PROVE Stands(q, pc'[q], req'[q], chan'[q])
  <2>1. CASE q = p
    BY <1>4, <2>1 DEF Stands
  <2>2. CASE q # p
    <3>1. pc'[q] = pc[q] /\ req'[q] = req[q] /\ chan'[q] \in {chan[q], NoRec}
      BY <1>4, <2>2
    <3>2. Stands(q, pc[q], req[q], chan[q])
      OBVIOUS
    <3>3. QED
      BY <3>1, <3>2 DEF Stands
  <2>3. QED
    BY <2>1, <2>2
<1>6. Asleep' = Asleep \ {p}
  BY <1>4 DEF Asleep
<1>7. QED
  BY <1>3, <1>4, <1>5, <1>6

LEMMA RefuseInv ==
    ASSUME Inv, NEW p, NEW r, NEW fr, NEW sl, Entry(p, r, fr, sl), NEW result \in Result,
           Refuse(p, result, r, fr, sl)
    PROVE  Inv'
<1>1. /\ TypeOK /\ \A q \in Procs : Stands(q, pc[q], req[q], chan[q])
      /\ p \in Procs /\ chan[p] = NoRec /\ Return(p, result)
      /\ recs' = r /\ frlock' = fr /\ sleeplcks' = sl /\ locks' = locks /\ chan' = chan
  BY DEF Inv, Entry, Refuse
<1>2. chan' \in [Procs -> Recs \cup {NoRec}] /\ \A q \in Procs : chan'[q] \in {chan[q], NoRec}
  BY <1>1 DEF TypeOK
<1>3. /\ pc' \in [Procs -> {"user", "call", "asleep", "plock"}]
      /\ req' \in [Procs -> Request \cup {NoRequest}]
      /\ intr' \in [Procs -> BOOLEAN]
      /\ ret' \in Result
      /\ \A q \in Procs : Stands(q, pc'[q], req'[q], chan'[q])
      /\ Asleep' = Asleep \ {p}
      /\ \A q \in Procs : q # p => req'[q] = req[q]
      /\ chan'[p] = NoRec
  BY <1>1, <1>2, ReturnFacts
<1>4. TypeOK'
  BY <1>1, <1>2, <1>3 DEF TypeOK, Entry
<1>5. /\ Pool(frlock', sleeplcks', locks')
      /\ \A f \in Files : FileOK(locks'[f], recs')
      /\ Recorded(recs', sleeplcks', Asleep')
      /\ NoRing(recs', sleeplcks')
  BY <1>1, <1>3 DEF Entry
<1>6. Told(recs', locks', sleeplcks', chan', req')
  <2>1. Told(r, locks, sl, chan, req)
    BY DEF Entry
  <2>2. \A q \in Procs : chan'[q] # NoRec =>
              /\ chan'[q] = chan[q] /\ req'[q] = req[q]
              /\ chan[q] \in ToSet(locks'[req[q].file]) /\ recs'[chan[q]] = r[chan[q]]
    BY <1>1, <1>3, <2>1 DEF Told
  <2>3. QED
    BY <1>1, <2>1, <2>2, ToldLess
<1>7. QED
  BY <1>3, <1>4, <1>5, <1>6 DEF Inv

(* The lists of one file are worked on. *)
Heard(ch, rq, ch2, rq2, w) ==
    \A q \in Procs : ch2[q] # NoRec =>
       ch2[q] = ch[q] /\ ch[q] \notin w /\ rq2[q] = rq[q] /\ rq[q].file \in Files

LEMMA ToldReworked ==
    ASSUME NEW lk \in [Files -> Seq(Recs)], NEW f, NEW r, NEW fr, NEW sl,
           NEW c, NEW fr2, NEW q2, NEW w, InPool(fr, sl, lk, f, r, c, fr2, q2, w),
           NEW ch, NEW rq, Told(r, lk, sl, ch, rq), NEW ch2, NEW rq2,
           Heard(ch, rq, ch2, rq2, w)
    PROVE  Told(c, [lk EXCEPT ![f] = q2], sl, ch2, rq2)
<1> DEFINE lk2 == [lk EXCEPT ![f] = q2]
<1>0. f \in Files /\ Pool(fr, sl, lk) /\ Reworked(r, fr, lk[f], c, fr2, q2, w)
  BY DEF InPool
<1> USE <1>0
<1>1. lk2[f] = q2 /\ \A g \in Files : g # f => lk2[g] = lk[g]
  OBVIOUS
<1> HIDE DEF lk2
<1>2. ASSUME NEW q \in Procs, ch2[q] # NoRec
      PROVE  /\ ch2[q] = ch[q] /\ rq2[q] = rq[q]
             /\ ch[q] \in ToSet(lk2[rq[q].file]) /\ c[ch[q]] = r[ch[q]]
  <2>1. ch2[q] = ch[q] /\ ch[q] \notin w /\ rq2[q] = rq[q] /\ rq[q].file \in Files
    BY <1>2 DEF Heard
  <2>2. ch[q] \in ToSet(lk[rq[q].file]) /\ r[ch[q]].stat = Wanted
    BY <1>2, <2>1 DEF Told
  <2>3. CASE rq[q].file = f
    <3>1. r[ch[q]].stat # NoProc
      BY <2>2, LockAssumption
    <3>2. ch[q] \in ToSet(q2) /\ c[ch[q]] = r[ch[q]]
      BY <2>1, <2>2, <2>3, <3>1 DEF Reworked
    <3>3. QED
      BY <1>1, <2>1, <2>3, <3>2
  <2>4. CASE rq[q].file # f
    <3>1. ch[q] \in Recs /\ ch[q] \notin fr \cup ToSet(lk[f])
      BY <2>1, <2>2, <2>4 DEF Pool
    <3>2. QED
      BY <1>1, <2>1, <2>2, <2>4, <3>1 DEF Reworked
  <2>5. QED
    BY <2>3, <2>4
<1>3. \A x \in sl : c[x] = r[x]
  BY SleepersReworked
<1>4. Told(c, lk2, sl, ch2, rq2)
  BY <1>2, <1>3, ToldLess
<1>5. QED
  BY <1>4 DEF lk2

LEMMA WakeupFacts ==
    ASSUME TypeOK, NEW X, Wakeup(X)
    PROVE  /\ chan' \in [Procs -> Recs \cup {NoRec}]
           /\ \A q \in Procs : chan'[q] \in {chan[q], NoRec}
           /\ \A q \in Procs : chan'[q] # NoRec => chan'[q] = chan[q] /\ chan[q] \notin X
  BY DEF Wakeup, TypeOK

LEMMA UpdateInv ==
    ASSUME Inv, NEW p, NEW r, NEW fr, NEW sl, Entry(p, r, fr, sl), NEW l, l = req[p], NEW i,
           Begun(Start(r, fr, locks[l.file], l, i), p, i),
           Update(p, l, i, r, fr, sl)
    PROVE  Inv'
<1> DEFINE f == l.file
           s0 == Start(r, fr, locks[f], l, i)
           t == Flckadj(r, fr, locks[f], p, l, i)
           result == IF t.scan = "ENOLCK" THEN "ENOLCK" ELSE "ok"
<1>1. /\ TypeOK /\ \A q \in Procs : Stands(q, pc[q], req[q], chan[q])
      /\ p \in Procs /\ chan[p] = NoRec /\ l \in Request
  BY DEF Inv, Entry
<1>2. f \in Files /\ \A q \in Procs : chan[q] # NoRec => req[q].file \in Files
  <2>1. \A m \in Request : m.file \in Files
    BY DEF Request
  <2>2. ASSUME NEW q \in Procs, chan[q] # NoRec PROVE req[q] \in Request
    <3>1. Stands(q, pc[q], req[q], chan[q])
      BY <1>1
    <3>2. req[q] # NoRequest
      BY <2>2, <3>1 DEF Stands
    <3>3. QED
      BY <1>1, <3>2 DEF TypeOK
  <2>3. QED
    BY <1>1, <2>1, <2>2
<1>3. Updated(s0, t, p)
  BY FlckadjFacts
<1>4. Reworked(r, fr, locks[f], t.recs, t.free, t.list, t.woken)
  <2>1. s0.recs = r /\ s0.free = fr /\ s0.list = locks[f]
    BY StartFields
  <2> HIDE DEF s0, t
  <2>2. Reworked(s0.recs, s0.free, s0.list, t.recs, t.free, t.list, t.woken)
    BY <1>3, UpdatedReworked
  <2>3. QED
    BY <2>1, <2>2
<1>5. /\ recs' = t.recs /\ frlock' = t.free /\ sleeplcks' = sl
      /\ locks' = [locks EXCEPT ![f] = t.list]
      /\ Wakeup(t.woken)
      /\ Return(p, result)
  BY DEF Update
<1> HIDE DEF t, s0
<1>6. result \in Result
  BY DEF Result
<1> HIDE DEF result
<1>7. /\ chan' \in [Procs -> Recs \cup {NoRec}]
      /\ \A q \in Procs : chan'[q] \in {chan[q], NoRec}
      /\ \A q \in Procs : chan'[q] # NoRec => chan'[q] = chan[q] /\ chan[q] \notin t.woken
  BY <1>1, <1>5, WakeupFacts
<1>8. /\ pc' \in [Procs -> {"user", "call", "asleep", "plock"}]
      /\ req' \in [Procs -> Request \cup {NoRequest}]
      /\ intr' \in [Procs -> BOOLEAN]
      /\ ret' \in Result
      /\ \A q \in Procs : Stands(q, pc'[q], req'[q], chan'[q])
      /\ Asleep' = Asleep \ {p}
      /\ \A q \in Procs : q # p => req'[q] = req[q]
      /\ chan'[p] = NoRec
  BY <1>1, <1>5, <1>6, <1>7, ReturnFacts
<1>9. /\ locks \in [Files -> Seq(Recs)] /\ Pool(fr, sl, locks)
      /\ \A g \in Files : FileOK(locks[g], r)
      /\ sl \subseteq Recs
      /\ Recorded(r, sl, Asleep \ {p}) /\ NoRing(r, sl) /\ Told(r, locks, sl, chan, req)
  BY <1>1 DEF Entry, TypeOK
<1>10. TypeOK'
  <2>1. /\ t.recs \in [Recs -> Record \cup {Blank}] /\ t.free \subseteq Recs /\ t.list \in Seq(Recs)
    BY <1>4 DEF Reworked
  <2>2. locks' \in [Files -> Seq(Recs)]
    BY <1>5, <1>9, <2>1
  <2>3. QED
    BY <1>5, <1>7, <1>8, <1>9, <2>1, <2>2 DEF TypeOK
<1>11. Pool(frlock', sleeplcks', locks')
  BY <1>2, <1>4, <1>5, <1>9, PoolReworked
<1>12. \A g \in Files : FileOK(locks'[g], recs')
  BY <1>2, <1>4, <1>5, <1>9, FilesReworked
<1>13. InPool(fr, sl, locks, f, r, t.recs, t.free, t.list, t.woken)
  BY <1>2, <1>4, <1>9 DEF InPool
<1>18. \A x \in sl : t.recs[x] = r[x]
  BY <1>13, SleepersReworked
<1>14. Recorded(recs', sleeplcks', Asleep') /\ \A q : WaitsFor(recs', sl, q) = WaitsFor(r, sl, q)
  BY <1>5, <1>8, <1>9, <1>18, RecordedSame
<1>15. NoRing(recs', sleeplcks')
  BY <1>5, <1>9, <1>14 DEF NoRing
<1>16. Told(recs', locks', sleeplcks', chan', req')
  <2>1. Heard(chan, req, chan', req', t.woken)
    BY <1>2, <1>7, <1>8 DEF Heard
  <2> HIDE DEF f
  <2>2. Told(t.recs, [locks EXCEPT ![f] = t.list], sl, chan', req')
    BY <1>9, <1>13, <2>1, ToldReworked
  <2>3. QED
    BY <1>5, <2>2
<1>17. QED
  BY <1>8, <1>10, <1>11, <1>12, <1>14, <1>15, <1>16 DEF Inv

-----------------------------------------------------------------------------
(* blocked() *)
LEMMA BlockedFacts ==
    ASSUME NEW q \in Seq(Recs), NEW r, NEW p, NEW l
    PROVE  LET x == Blocked(q, r, p, l) IN
           /\ x # NoRec => /\ x \in ToSet(q) /\ r[x].pid # p
                           /\ Overlap(l, r[x]) /\ InTheWay(l, r[x])
           /\ x = NoRec => \A y \in ToSet(q) :
                             r[y].pid # p /\ Overlap(l, r[y]) => ~InTheWay(l, r[y])
<1> DEFINE hit == {i \in DOMAIN q : r[q[i]].pid # p /\ Overlap(l, r[q[i]]) /\ InTheWay(l, r[q[i]])}
           x == Blocked(q, r, p, l)
<1>1. x = IF hit = {} THEN NoRec ELSE q[Min(hit)]
  BY DEF Blocked
<1>2. DOMAIN q = 1..Len(q) /\ Len(q) \in Nat
  OBVIOUS
<1>3. CASE hit = {}
  BY <1>1, <1>3 DEF ToSet
<1>4. CASE hit # {}
  <2>1. hit \in SUBSET Nat
    BY <1>2
  <2> DEFINE i == Min(hit)
  <2>2. i \in hit
    BY <1>4, <2>1, LeastFacts
  <2> HIDE DEF i
  <2>3. i \in DOMAIN q /\ r[q[i]].pid # p /\ Overlap(l, r[q[i]]) /\ InTheWay(l, r[q[i]])
    BY <2>2
  <2>4. x = q[i]
    BY <1>1, <1>4 DEF i
  <2>5. q[i] \in ToSet(q) /\ q[i] \in Recs
    BY <1>2, <2>3 DEF ToSet
  <2>6. q[i] # NoRec
    BY <2>5, LockAssumption
  <2>7. QED
    BY <2>3, <2>4, <2>5, <2>6
<1>5. QED
  BY <1>3, <1>4

(* A list whose records differ in stat only is as good as it was. *)
LEMMA FileAlike ==
    ASSUME NEW q, NEW r, NEW c, FileOK(q, r),
           \A x \in ToSet(q) : /\ InUse(c[x])
                               /\ c[x].start = r[x].start /\ c[x].end = r[x].end
                               /\ c[x].pid = r[x].pid /\ c[x].type = r[x].type
    PROVE  FileOK(q, c)
<1>1. \A i \in DOMAIN q : q[i] \in ToSet(q)
  BY DEF ToSet
<1>2. Sorted(q, c)
  BY <1>1 DEF FileOK, Sorted
<1>3. \A x, y \in ToSet(q) : x # y /\ c[x].pid = c[y].pid => Separate(c[x], c[y])
  BY DEF FileOK, Separate, Below
<1>4. QED
  BY <1>2, <1>3 DEF FileOK

(* p sleeps on the lock x, which its new record y says. *)
SleepsOn(p, l, x, y, r, fr, sl) ==
    /\ y \in fr
    /\ recs' = [r EXCEPT ![x] = [@ EXCEPT !.stat = Wanted],
                         ![y] = [type |-> l.type, start |-> l.start, end |-> l.end,
                                 pid |-> p, stat |-> r[x].pid]]
    /\ frlock' = fr \ {y} /\ sleeplcks' = sl \cup {y}
    /\ pc' = [pc EXCEPT ![p] = "asleep"]
    /\ req' = [req EXCEPT ![p] = l]
    /\ chan' = [chan EXCEPT ![p] = x]
    /\ ret' = "none"
    /\ UNCHANGED <<locks, intr>>

LEMMA SleepInv ==
    ASSUME Inv, NEW p, NEW r, NEW fr, NEW sl, Entry(p, r, fr, sl), NEW l, l = req[p],
           NEW x \in ToSet(locks[l.file]), r[x].pid # p, Overlap(l, r[x]), InTheWay(l, r[x]),
           l.type # "F_UNLCK", l.op # "set",
           ~Deadflck(r, sl, p, r[x].pid), NEW y, SleepsOn(p, l, x, y, r, fr, sl)
    PROVE  Inv'
<1> DEFINE f == l.file
           n == [type |-> l.type, start |-> l.start, end |-> l.end, pid |-> p, stat |-> r[x].pid]
           m == [r[x] EXCEPT !.stat = Wanted]
<1>1. /\ TypeOK /\ \A q \in Procs : Stands(q, pc[q], req[q], chan[q])
      /\ p \in Procs /\ chan[p] = NoRec /\ l \in Request
      /\ r \in [Recs -> Record \cup {Blank}] /\ fr \subseteq Recs /\ sl \subseteq Recs
      /\ Pool(fr, sl, locks)
      /\ \A g \in Files : FileOK(locks[g], r)
      /\ Recorded(r, sl, Asleep \ {p})
      /\ NoRing(r, sl)
      /\ Told(r, locks, sl, chan, req)
  BY DEF Inv, Entry
<1>2. /\ y \in fr
      /\ recs' = [r EXCEPT ![x] = m, ![y] = n]
      /\ frlock' = fr \ {y} /\ sleeplcks' = sl \cup {y}
      /\ pc' = [pc EXCEPT ![p] = "asleep"]
      /\ req' = [req EXCEPT ![p] = l]
      /\ chan' = [chan EXCEPT ![p] = x]
      /\ ret' = "none"
      /\ locks' = locks /\ intr' = intr
  BY DEF SleepsOn
<1>3. f \in Files /\ l.type \in LockType /\ l.start \in Byte /\ l.end \in Byte /\ l.start <= l.end
  <2>1. f \in Files
    BY <1>1 DEF Request
  <2>2. QED
    BY <1>1, <2>1, RequestFacts
<1>4. /\ x \in Recs /\ x \notin fr /\ x \notin sl /\ x # y /\ y \in Recs /\ y \notin sl
      /\ \A g \in Files : y \notin ToSet(locks[g])
  BY <1>1, <1>2, <1>3 DEF Pool
<1>5. InUse(r[x]) /\ r[x] \in Record /\ r[x].pid \in Procs
  <2>1. InUse(r[x])
    BY <1>1, <1>3 DEF FileOK
  <2>2. QED
    BY <2>1, InUseFacts DEF InUse
<1>6. /\ m \in Record /\ InUse(m) /\ m.stat = Wanted /\ m.start = r[x].start /\ m.end = r[x].end
      /\ m.pid = r[x].pid /\ m.type = r[x].type
  BY <1>5 DEF Record, InUse
<1>7. n \in Record /\ InUse(n) /\ n.pid = p /\ n.stat = r[x].pid
  BY <1>1, <1>3, <1>5 DEF Record, InUse
<1> HIDE DEF m, n
<1>8. /\ recs' \in [Recs -> Record \cup {Blank}] /\ recs'[x] = m /\ recs'[y] = n
      /\ \A z \in Recs : z # x /\ z # y => recs'[z] = r[z]
  BY <1>1, <1>2, <1>4, <1>6, <1>7
<1>9. /\ pc' \in [Procs -> {"user", "call", "asleep", "plock"}]
      /\ req' = req /\ chan' \in [Procs -> Recs \cup {NoRec}]
      /\ pc'[p] = "asleep" /\ chan'[p] = x /\ intr' \in [Procs -> BOOLEAN]
      /\ \A q \in Procs : q # p => pc'[q] = pc[q] /\ chan'[q] = chan[q]
  BY <1>1, <1>2, <1>4 DEF TypeOK
<1>10. TypeOK'
  <2>1. ret' \in Result
    BY <1>2 DEF Result
  <2>2. frlock' \subseteq Recs /\ sleeplcks' \subseteq Recs
    BY <1>1, <1>2, <1>4
  <2>3. QED
    BY <1>1, <1>2, <1>8, <1>9, <2>1, <2>2 DEF TypeOK
<1>11. Pool(frlock', sleeplcks', locks')
  BY <1>1, <1>2, <1>4 DEF Pool
<1>12. ASSUME NEW g \in Files PROVE FileOK(locks'[g], recs')
  <2>1. ASSUME NEW z \in ToSet(locks[g])
        PROVE  /\ InUse(recs'[z])
               /\ recs'[z].start = r[z].start /\ recs'[z].end = r[z].end
               /\ recs'[z].pid = r[z].pid /\ recs'[z].type = r[z].type
    <3>1. z \in Recs /\ z # y /\ InUse(r[z])
      BY <1>1, <1>4 DEF Pool, FileOK
    <3>2. QED
      BY <1>6, <1>8, <3>1
  <2>2. FileOK(locks[g], r)
    BY <1>1
  <2>3. FileOK(locks[g], recs')
    BY <2>1, <2>2, FileAlike
  <2>4. QED
    BY <1>2, <2>3
<1>13. \A z \in sl : z \in Recs /\ recs'[z] = r[z] /\ r[z].pid # p
  BY <1>1, <1>4, <1>8 DEF Recorded
<1>14. Asleep' = (Asleep \ {p}) \cup {p}
  BY <1>1, <1>9 DEF Asleep
<1>15. Recorded(recs', sleeplcks', Asleep')
  <2>1. \A z \in sl \cup {y} : /\ InUse(recs'[z]) /\ recs'[z].pid \in (Asleep \ {p}) \cup {p}
                               /\ recs'[z].stat \in Procs
    BY <1>1, <1>5, <1>7, <1>8, <1>13 DEF Recorded
  <2>2. \A w, z \in sl \cup {y} : recs'[w].pid = recs'[z].pid => w = z
    BY <1>1, <1>7, <1>8, <1>13 DEF Recorded
  <2>3. ASSUME NEW q \in (Asleep \ {p}) \cup {p} PROVE \E z \in sl \cup {y} : recs'[z].pid = q
    <3>1. CASE q = p
      BY <1>7, <1>8, <3>1
    <3>2. CASE q # p
      <4>1. PICK z \in sl : r[z].pid = q
        BY <1>1, <3>2 DEF Recorded
      <4>2. QED
        BY <1>13, <4>1
    <3>3. QED
      BY <3>1, <3>2
  <2>4. Recorded(recs', sl \cup {y}, (Asleep \ {p}) \cup {p})
    BY <2>1, <2>2, <2>3 DEF Recorded
  <2>5. QED
    BY <1>2, <1>14, <2>4
<1>16. NoRing(recs', sleeplcks')
  <2>1. WaitsFor(recs', sleeplcks', p) = r[x].pid
    <3>1. y \in sleeplcks' /\ recs'[y].pid = p /\ recs'[y].stat = r[x].pid
      BY <1>2, <1>7, <1>8
    <3>2. WaitsFor(recs', sleeplcks', recs'[y].pid) = recs'[y].stat
      BY <1>15, <3>1, WaitsForFacts
    <3>3. QED
      BY <3>1, <3>2
  <2>2. ASSUME NEW q \in Procs, q # p
        PROVE  WaitsFor(recs', sleeplcks', q) = WaitsFor(r, sl, q)
    <3>1. CASE \E z \in sl : r[z].pid = q
      <4>1. PICK z \in sl : r[z].pid = q
        BY <3>1
      <4>2. z \in sleeplcks' /\ recs'[z] = r[z]
        BY <1>2, <1>13, <4>1
      <4>3. WaitsFor(recs', sleeplcks', recs'[z].pid) = recs'[z].stat
        BY <1>15, <4>2, WaitsForFacts
      <4>4. WaitsFor(r, sl, r[z].pid) = r[z].stat
        BY <1>1, <4>1, WaitsForFacts
      <4>5. QED
        BY <4>1, <4>2, <4>3, <4>4
    <3>2. CASE ~\E z \in sl : r[z].pid = q
      <4>1. \A z \in sleeplcks' : recs'[z].pid # q
        BY <1>2, <1>7, <1>8, <1>13, <2>2, <3>2
      <4>2. WaitsFor(recs', sleeplcks', q) = NoProc
        BY <1>15, <4>1, WaitsForFacts
      <4>3. WaitsFor(r, sl, q) = NoProc
        BY <1>1, <3>2, WaitsForFacts
      <4>4. QED
        BY <4>2, <4>3
    <3>3. QED
      BY <3>1, <3>2
  <2>3. QED
    BY <1>1, <1>5, <2>1, <2>2, NoNewRing
<1>17. Told(recs', locks', sleeplcks', chan', req')
  <2> SUFFICES ASSUME NEW q \in Procs, chan'[q] # NoRec
               PROVE  /\ chan'[q] \in ToSet(locks'[req'[q].file])
                      /\ recs'[chan'[q]].stat = Wanted /\ recs'[chan'[q]].pid # q
                      /\ Overlap(req'[q], recs'[chan'[q]]) /\ InTheWay(req'[q], recs'[chan'[q]])
                      /\ \A z \in sleeplcks' : recs'[z].pid = q => recs'[z].stat = recs'[chan'[q]].pid
    BY DEF Told
  <2>1. CASE q = p
    <3>1. chan'[q] = x /\ req'[q] = l /\ recs'[x] = m
      BY <1>8, <1>9, <2>1
    <3>2. \A z \in sleeplcks' : recs'[z].pid = p => z = y
      BY <1>2, <1>13
    <3>3. Overlap(l, m) /\ InTheWay(l, m)
      BY <1>6 DEF Overlap, InTheWay
    <3>4. x \in ToSet(locks'[l.file])
      BY <1>2
    <3>5. QED
      BY <1>6, <1>7, <1>8, <2>1, <3>1, <3>2, <3>3, <3>4
  <2>2. CASE q # p
    <3> DEFINE v == chan[q]
    <3>1. chan'[q] = v /\ req'[q] = req[q]
      BY <1>9, <2>2
    <3> HIDE DEF v
    <3>2. /\ v \in ToSet(locks[req[q].file])
          /\ r[v].stat = Wanted /\ r[v].pid # q
          /\ Overlap(req[q], r[v]) /\ InTheWay(req[q], r[v])
          /\ \A z \in sl : r[z].pid = q => r[z].stat = r[v].pid
      BY <1>1, <3>1 DEF Told, v
    <3>3. req[q].file \in Files
      <4>1. Stands(q, pc[q], req[q], v)
        BY <1>1 DEF v
      <4>2. req[q] \in Request
        BY <1>1, <3>1, <4>1 DEF Stands, TypeOK
      <4>3. QED
        BY <4>2 DEF Request
    <3>4. v \in Recs /\ v # y
      BY <1>1, <1>4, <3>2, <3>3 DEF Pool
    <3>5. /\ recs'[v].stat = Wanted /\ recs'[v].pid = r[v].pid /\ recs'[v].type = r[v].type
          /\ recs'[v].start = r[v].start /\ recs'[v].end = r[v].end
      BY <1>6, <1>8, <3>2, <3>4
    <3>6. Overlap(req[q], recs'[v]) /\ InTheWay(req[q], recs'[v])
      BY <3>2, <3>5 DEF Overlap, InTheWay
    <3>7. ASSUME NEW z \in sleeplcks', recs'[z].pid = q PROVE recs'[z].stat = recs'[v].pid
      <4>1. z \in sl
        BY <1>2, <1>7, <1>8, <2>2, <3>7
      <4>2. recs'[z] = r[z]
        BY <1>13, <4>1
      <4>3. QED
        BY <3>2, <3>5, <3>7, <4>1, <4>2
    <3>8. QED
      BY <1>2, <3>1, <3>2, <3>5, <3>6, <3>7
  <2>3. QED
    BY <2>1, <2>2
<1>18. ASSUME NEW q \in Procs PROVE Stands(q, pc'[q], req'[q], chan'[q])
  <2>1. Stands(q, pc[q], req[q], chan[q])
    BY <1>1
  <2>2. CASE q = p
    <3>1. l # NoRequest
      BY <1>1, RequestNot
    <3>2. QED
      BY <1>9, <2>2, <3>1 DEF Stands
  <2>3. CASE q # p
    BY <1>9, <2>1, <2>3
  <2>4. QED
    BY <2>2, <2>3
<1>19. QED
  BY <1>10, <1>11, <1>12, <1>15, <1>16, <1>17, <1>18 DEF Inv

-----------------------------------------------------------------------------
(* The steps. *)
LEMMA SleepOnFacts ==
    ASSUME NEW p, NEW l, NEW x, NEW r, NEW fr, fr # {}, NEW sl, SleepOn(p, l, x, r, fr, sl)
    PROVE  SleepsOn(p, l, x, AnyOf(fr), r, fr, sl)
<1>1. AnyOf(fr) \in fr
  BY DEF AnyOf
<1>2. QED
  BY <1>1 DEF SleepOn, SleepsOn

LEMMA ReclockInv ==
    ASSUME Inv, NEW p, NEW r, NEW fr, NEW sl, Entry(p, r, fr, sl), Reclock(p, req[p], r, fr, sl)
    PROVE  Inv'
<1> DEFINE l == req[p]
           list == locks[l.file]
           x == Blocked(list, r, p, l)
<1>1. TypeOK /\ l \in Request /\ p \in Procs /\ l.file \in Files
  <2>1. TypeOK /\ l \in Request /\ p \in Procs
    BY DEF Inv, Entry
  <2>2. QED
    BY <2>1 DEF Request
<1>2. Ordered(r, fr, list) /\ list \in Seq(Recs)
  BY <1>1, EntryOrdered DEF Ordered
<1>3. ASSUME NEW result \in Result, Refuse(p, result, r, fr, sl) PROVE Inv'
  BY <1>3, RefuseInv
<1>4. CASE l.type = "F_UNLCK"
  <2> DEFINE i == IF list = << >> THEN 0 ELSE 1
  <2>1. Update(p, l, i, r, fr, sl)
    BY <1>4 DEF Reclock
  <2>2. Begun(Start(r, fr, list, l, i), p, i)
    BY <1>1, <1>2, <1>4, BegunUnlock
  <2> HIDE DEF i
  <2>3. QED
    BY <2>1, <2>2, UpdateInv
<1>5. CASE l.type # "F_UNLCK" /\ x = NoRec
  <2>1. CASE l.op = "check"
    <3>1. Refuse(p, "clear", r, fr, sl)
      BY <1>5, <2>1 DEF Reclock
    <3>2. QED
      BY <1>3, <3>1 DEF Result
  <2>2. CASE l.op # "check"
    <3> DEFINE i == Insrt(list, r, p, l)
    <3>1. Update(p, l, i, r, fr, sl)
      BY <1>5, <2>2 DEF Reclock
    <3>2. Begun(Start(r, fr, list, l, i), p, i)
      BY <1>1, <1>2, <1>5, BegunLock
    <3> HIDE DEF i
    <3>3. QED
      BY <3>1, <3>2, UpdateInv
  <2>3. QED
    BY <2>1, <2>2
<1>6. CASE l.type # "F_UNLCK" /\ x # NoRec
  <2>1. x \in ToSet(list) /\ r[x].pid # p /\ Overlap(l, r[x]) /\ InTheWay(l, r[x])
    BY <1>2, <1>6, BlockedFacts
  <2>2. IF l.op = "set" THEN Refuse(p, "EAGAIN", r, fr, sl)
        ELSE IF Deadlock(r, sl, p, x) THEN Refuse(p, "EDEADLK", r, fr, sl)
        ELSE IF fr = {} THEN Refuse(p, "ENOLCK", r, fr, sl)
        ELSE IF p \in Servers THEN Refuse(p, "EBUSY", r, fr, sl)
        ELSE SleepOn(p, l, x, r, fr, sl)
    BY <1>6 DEF Reclock
  <2> HIDE DEF x
  <2>3. /\ "EAGAIN" \in Result /\ "EDEADLK" \in Result /\ "ENOLCK" \in Result /\ "EBUSY" \in Result
    BY DEF Result
  <2>4. CASE l.op = "set" \/ Deadlock(r, sl, p, x) \/ fr = {} \/ p \in Servers
    BY <1>3, <2>2, <2>3, <2>4
  <2>5. CASE l.op # "set" /\ ~Deadlock(r, sl, p, x) /\ fr # {} /\ p \notin Servers
    <3>1. SleepOn(p, l, x, r, fr, sl)
      BY <2>2, <2>5
    <3> DEFINE y == AnyOf(fr)
    <3>2. SleepsOn(p, l, x, y, r, fr, sl)
      BY <2>5, <3>1, SleepOnFacts
    <3>3. ~Deadflck(r, sl, p, r[x].pid)
      BY <2>5 DEF Deadlock
    <3> HIDE DEF y
    <3>4. QED
      BY <1>6, <2>1, <2>5, <3>2, <3>3, SleepInv
  <2>6. QED
    BY <2>4, <2>5
<1>7. QED
  BY <1>4, <1>5, <1>6

(* A process in a call has no record among the sleepers'. *)
LEMMA EntryAwake ==
    ASSUME Inv, NEW p \in Procs, pc[p] \in {"call", "plock"}
    PROVE  Entry(p, recs, frlock, sleeplcks)
<1>1. Stands(p, pc[p], req[p], chan[p])
  BY DEF Inv
<1>2. chan[p] = NoRec /\ req[p] # NoRequest
  BY <1>1 DEF Stands
<1>3. req[p] \in Request
  BY <1>2 DEF Inv, TypeOK
<1>4. Asleep \ {p} = Asleep
  BY DEF Asleep
<1>5. /\ recs \in [Recs -> Record \cup {Blank}] /\ frlock \subseteq Recs /\ sleeplcks \subseteq Recs
  BY DEF Inv, TypeOK
<1>6. QED
  BY <1>2, <1>3, <1>4, <1>5 DEF Inv, Entry

(* One that wakes has one, which it gives back. *)
LEMMA EntryWakes ==
    ASSUME Inv, NEW p \in Procs, pc[p] = "asleep", chan[p] = NoRec
    PROVE  /\ Mine(p) \in sleeplcks
           /\ Entry(p, Unrecorded(p), frlock \cup {Mine(p)}, sleeplcks \ {Mine(p)})
<1> DEFINE x == Mine(p)
           r == Unrecorded(p)
           fr == frlock \cup {x}
           sl == sleeplcks \ {x}
<1>1. /\ recs \in [Recs -> Record \cup {Blank}] /\ frlock \subseteq Recs /\ sleeplcks \subseteq Recs
      /\ Pool(frlock, sleeplcks, locks)
      /\ \A f \in Files : FileOK(locks[f], recs)
      /\ Recorded(recs, sleeplcks, Asleep)
      /\ NoRing(recs, sleeplcks)
      /\ Told(recs, locks, sleeplcks, chan, req)
  BY DEF Inv, TypeOK
<1>2. x \in sleeplcks /\ recs[x].pid = p
  <2>1. \E y \in sleeplcks : recs[y].pid = p
    BY <1>1 DEF Recorded, Asleep
  <2>2. QED
    BY <2>1 DEF Mine
<1>3. r = [recs EXCEPT ![x] = Blank]
  BY DEF Unrecorded
<1> HIDE DEF x, r
<1>4. req[p] \in Request
  <2>1. Stands(p, pc[p], req[p], chan[p])
    BY DEF Inv
  <2>2. req[p] # NoRequest
    BY <2>1 DEF Stands
  <2>3. QED
    BY <2>2 DEF Inv, TypeOK
<1>5. /\ r \in [Recs -> Record \cup {Blank}] /\ fr \subseteq Recs /\ sl \subseteq Recs
      /\ \A y \in Recs : y # x => r[y] = recs[y]
  BY <1>1, <1>2, <1>3
<1>6. Pool(fr, sl, locks)
  BY <1>1, <1>2 DEF Pool
<1>7. ASSUME NEW f \in Files PROVE FileOK(locks[f], r)
  <2>1. \A y \in ToSet(locks[f]) : y \in Recs /\ y # x
    BY <1>1, <1>2 DEF Pool
  <2>2. \A y \in ToSet(locks[f]) : r[y] = recs[y]
    BY <1>5, <2>1
  <2>3. FileOK(locks[f], recs)
    BY <1>1
  <2>4. QED
    BY <2>2, <2>3, FileSame
<1>8. Recorded(r, sl, Asleep \ {p}) /\ NoRing(r, sl)
  BY <1>1, <1>2, <1>3, RecordedLess
<1>9. Told(r, locks, sl, chan, req)
  <2>1. ASSUME NEW q \in Procs, chan[q] # NoRec
        PROVE  chan[q] \in ToSet(locks[req[q].file]) /\ r[chan[q]] = recs[chan[q]]
    <3>1. chan[q] \in ToSet(locks[req[q].file])
      BY <1>1, <2>1 DEF Told
    <3>2. req[q].file \in Files
      <4>1. Stands(q, pc[q], req[q], chan[q])
        BY DEF Inv
      <4>2. req[q] \in Request
        BY <2>1, <4>1 DEF Inv, Stands, TypeOK
      <4>3. QED
        BY <4>2 DEF Request
    <3>3. chan[q] \in Recs /\ chan[q] # x
      BY <1>1, <1>2, <3>1, <3>2 DEF Pool
    <3>4. QED
      BY <1>5, <3>1, <3>3
  <2>2. \A y \in sl : r[y] = recs[y]
    BY <1>1, <1>5
  <2>3. QED
    BY <1>1, <2>1, <2>2, ToldLess
<1>10. QED
  BY <1>2, <1>4, <1>5, <1>6, <1>7, <1>8, <1>9 DEF Entry, x, r

LEMMA InitInv ==
    ASSUME Init
    PROVE  Inv
<1>1. TypeOK
  BY DEF Init, TypeOK, Result
<1>2. Pool(frlock, sleeplcks, locks)
  BY DEF Init, Pool, ToSet, IsInjective
<1>3. \A f \in Files : FileOK(locks[f], recs)
  BY DEF Init, FileOK, ToSet, Sorted
<1>4. Recorded(recs, sleeplcks, Asleep)
  BY DEF Init, Recorded, Asleep
<1>5. NoRing(recs, sleeplcks)
  <2>1. \A q : WaitsFor(recs, sleeplcks, q) = NoProc
    BY <1>4, WaitsForFacts DEF Init
  <2>2. QED
    BY <2>1, LockAssumption DEF NoRing
<1>6. Told(recs, locks, sleeplcks, chan, req)
  BY DEF Init, Told
<1>7. \A p \in Procs : Stands(p, pc[p], req[p], chan[p])
  BY DEF Init, Stands
<1>8. QED
  BY <1>1, <1>2, <1>3, <1>4, <1>5, <1>6, <1>7 DEF Inv

(* Only where processes stand is changed. *)
LEMMA MoveInv ==
    ASSUME Inv, UNCHANGED <<recs, frlock, locks, sleeplcks>>, TypeOK', Asleep' = Asleep,
           \A q \in Procs : Stands(q, pc'[q], req'[q], chan'[q]),
           \A q \in Procs : chan'[q] # NoRec => chan'[q] = chan[q] /\ req'[q] = req[q]
    PROVE  Inv'
<1>1. Told(recs', locks', sleeplcks', chan', req')
  <2>1. Told(recs, locks, sleeplcks, chan, req)
    BY DEF Inv
  <2>2. \A q \in Procs : chan'[q] # NoRec =>
              /\ chan'[q] = chan[q] /\ req'[q] = req[q]
              /\ chan[q] \in ToSet(locks'[req[q].file]) /\ recs'[chan[q]] = recs[chan[q]]
    BY <2>1 DEF Told
  <2>3. QED
    BY <2>1, <2>2, ToldLess
<1>2. QED
  BY <1>1 DEF Inv

LEMMA CallInv ==
    ASSUME Inv, NEW p \in Procs, NEW l \in Requests, Call(p, l)
    PROVE  Inv'
<1>1. /\ TypeOK /\ \A q \in Procs : Stands(q, pc[q], req[q], chan[q])
      /\ l \in Request /\ l # NoRequest
  BY LockAssumption, RequestNot DEF Inv
<1>2. /\ pc[p] = "user" /\ pc' = [pc EXCEPT ![p] = "call"] /\ req' = [req EXCEPT ![p] = l]
      /\ ret' = "none"
      /\ UNCHANGED <<recs, frlock, locks, sleeplcks, chan, intr>>
  BY DEF Call
<1>3. TypeOK'
  BY <1>1, <1>2 DEF TypeOK, Result
<1>4. Asleep' = Asleep
  BY <1>1, <1>2 DEF TypeOK, Asleep
<1>5. /\ pc'[p] = "call" /\ req'[p] = l
      /\ \A q \in Procs : q # p => pc'[q] = pc[q] /\ req'[q] = req[q]
  BY <1>1, <1>2 DEF TypeOK
<1>6. chan[p] = NoRec
  BY <1>1, <1>2 DEF Stands
<1>7. \A q \in Procs : Stands(q, pc'[q], req'[q], chan'[q])
  BY <1>1, <1>2, <1>5, <1>6 DEF Stands
<1>8. \A q \in Procs : chan'[q] # NoRec => chan'[q] = chan[q] /\ req'[q] = req[q]
  BY <1>2, <1>5, <1>6
<1>9. QED
  BY <1>2, <1>3, <1>4, <1>7, <1>8, MoveInv

LEMMA SignalInv ==
    ASSUME Inv, NEW p \in Procs, Signal(p)
    PROVE  Inv'
<1>1. TypeOK /\ \A q \in Procs : Stands(q, pc[q], req[q], chan[q])
  BY DEF Inv
<1>2. /\ pc[p] = "asleep" /\ chan' = [chan EXCEPT ![p] = NoRec] /\ intr' = [intr EXCEPT ![p] = TRUE]
      /\ ret' = "none"
      /\ UNCHANGED <<recs, frlock, locks, sleeplcks, pc, req>>
  BY DEF Signal
<1>3. TypeOK'
  BY <1>1, <1>2 DEF TypeOK, Result
<1>4. Asleep' = Asleep
  BY <1>2 DEF Asleep
<1>5. \A q \in Procs : chan'[q] # NoRec => chan'[q] = chan[q] /\ req'[q] = req[q]
  BY <1>1, <1>2 DEF TypeOK
<1>6. \A q \in Procs : Stands(q, pc'[q], req'[q], chan'[q])
  BY <1>1, <1>2, <1>5 DEF Stands
<1>7. QED
  BY <1>2, <1>3, <1>4, <1>5, <1>6, MoveInv

LEMMA PlockInv ==
    ASSUME Inv, NEW p \in Procs, Plock(p)
    PROVE  Inv'
<1>1. /\ TypeOK /\ \A q \in Procs : Stands(q, pc[q], req[q], chan[q])
      /\ pc[p] = "asleep" /\ chan[p] = NoRec /\ req[p].op = "check"
      /\ recs' = Unrecorded(p) /\ frlock' = frlock \cup {Mine(p)}
      /\ sleeplcks' = sleeplcks \ {Mine(p)}
      /\ pc' = [pc EXCEPT ![p] = "plock"] /\ ret' = "none"
      /\ UNCHANGED <<locks, req, chan, intr>>
  BY DEF Inv, Plock
<1>2. Entry(p, recs', frlock', sleeplcks')
  BY <1>1, EntryWakes
<1>3. TypeOK'
  BY <1>1, <1>2 DEF TypeOK, Result, Entry
<1>4. pc'[p] = "plock" /\ \A q \in Procs : q # p => pc'[q] = pc[q]
  BY <1>1 DEF TypeOK
<1>5. Asleep' = Asleep \ {p}
  BY <1>4 DEF Asleep
<1>6. \A q \in Procs : Stands(q, pc'[q], req'[q], chan'[q])
  BY <1>1, <1>4 DEF Stands
<1>7. Told(recs', locks', sleeplcks', chan', req')
  BY <1>1, <1>2 DEF Entry
<1>8. QED
  BY <1>1, <1>2, <1>3, <1>5, <1>6, <1>7 DEF Inv, Entry

LEMMA CleanStartOK ==
    ASSUME Inv, NEW f \in Files
    PROVE  CleanOK(CleanStart(f))
<1>1. /\ recs \in [Recs -> Record \cup {Blank}] /\ frlock \subseteq Recs /\ locks[f] \in Seq(Recs)
      /\ Pool(frlock, sleeplcks, locks) /\ FileOK(locks[f], recs)
  BY DEF Inv, TypeOK
<1>2. CleanStart(f) \in CleanWork
  BY <1>1 DEF CleanStart, CleanWork
<1>3. /\ CleanStart(f).recs = recs /\ CleanStart(f).free = frlock /\ CleanStart(f).list = locks[f]
  BY DEF CleanStart
<1>4. IsInjective(locks[f]) /\ ToSet(locks[f]) \cap frlock = {}
  BY <1>1 DEF Pool
<1>5. QED
  BY <1>1, <1>2, <1>3, <1>4 DEF CleanOK, FileOK

LEMMA CleanReworked ==
    ASSUME Inv, NEW f \in Files, NEW P
    PROVE  LET t == Unlocked(f, P) IN
           Reworked(recs, frlock, locks[f], t.recs, t.free, t.list, t.woken)
<1> DEFINE t == Unlocked(f, P)
           s0 == CleanStart(f)
           X == {x \in ToSet(locks[f]) : recs[x].pid \in P}
<1>1. CleanOK(s0)
  BY CleanStartOK
<1>2. Stripped(s0, t, X)
  BY <1>1, UnlockedFacts
<1>3. s0.recs = recs /\ s0.free = frlock /\ s0.list = locks[f]
  BY DEF CleanStart
<1>4. FileOK(locks[f], recs) /\ ToSet(locks[f]) \cap frlock = {} /\ ToSet(locks[f]) \subseteq Recs
  BY DEF Inv, Pool
<1> HIDE DEF s0, t
<1>5. /\ t \in CleanWork
      /\ IsInjective(t.list) /\ ToSet(t.list) = ToSet(locks[f]) \ X /\ Sorted(t.list, t.recs)
      /\ t.free = frlock \cup X
      /\ \A y \in Recs \ X : t.recs[y] = recs[y]
      /\ \A y \in X : recs[y].stat = NoProc \/ y \in t.woken
  BY <1>2, <1>3 DEF Stripped
<1>6. /\ t.recs \in [Recs -> Record \cup {Blank}] /\ t.free \subseteq Recs /\ t.list \in Seq(Recs)
  BY <1>5, CleanFields
<1>7. X \subseteq ToSet(locks[f])
  OBVIOUS
<1> HIDE DEF X
<1>8. \A x \in ToSet(t.list) : x \in ToSet(locks[f]) /\ t.recs[x] = recs[x]
  BY <1>4, <1>5
<1>9. FileOK(t.list, t.recs)
  BY <1>4, <1>5, <1>8 DEF FileOK
<1>10. ToSet(t.list) \cap t.free = {} /\ t.free \cup ToSet(t.list) = frlock \cup ToSet(locks[f])
  BY <1>4, <1>5, <1>7
<1>11. /\ \A y \in Recs : y \notin frlock \cup ToSet(locks[f]) => t.recs[y] = recs[y]
       /\ \A y \in ToSet(locks[f]) :
            recs[y].stat = NoProc \/ y \in t.woken \/ (y \in ToSet(t.list) /\ t.recs[y] = recs[y])
  BY <1>4, <1>5, <1>7
<1>12. QED
  BY <1>5, <1>6, <1>9, <1>10, <1>11 DEF Reworked, t

LEMMA CleanInv ==
    ASSUME Inv, NEW f \in Files, NEW P, Cleanlocks(f, P)
    PROVE  Inv'
<1> DEFINE t == Unlocked(f, P)
<1>1. /\ TypeOK /\ \A q \in Procs : Stands(q, pc[q], req[q], chan[q])
      /\ locks \in [Files -> Seq(Recs)] /\ Pool(frlock, sleeplcks, locks)
      /\ \A g \in Files : FileOK(locks[g], recs)
      /\ Recorded(recs, sleeplcks, Asleep) /\ NoRing(recs, sleeplcks)
      /\ Told(recs, locks, sleeplcks, chan, req)
  BY DEF Inv, TypeOK
<1>2. Reworked(recs, frlock, locks[f], t.recs, t.free, t.list, t.woken)
  BY CleanReworked
<1>3. /\ recs' = t.recs /\ frlock' = t.free /\ locks' = [locks EXCEPT ![f] = t.list]
      /\ Wakeup(t.woken) /\ ret' = "none"
      /\ UNCHANGED <<sleeplcks, pc, req, intr>>
  BY DEF Cleanlocks
<1> HIDE DEF t
<1>4. /\ chan' \in [Procs -> Recs \cup {NoRec}]
      /\ \A q \in Procs : chan'[q] \in {chan[q], NoRec}
      /\ \A q \in Procs : chan'[q] # NoRec => chan'[q] = chan[q] /\ chan[q] \notin t.woken
  BY <1>1, <1>3, WakeupFacts
<1>5. TypeOK'
  <2>1. t.recs \in [Recs -> Record \cup {Blank}] /\ t.free \subseteq Recs /\ t.list \in Seq(Recs)
    BY <1>2 DEF Reworked
  <2>2. locks' \in [Files -> Seq(Recs)]
    BY <1>1, <1>3, <2>1
  <2>3. QED
    BY <1>1, <1>3, <1>4, <2>1, <2>2 DEF TypeOK, Result
<1>6. Pool(frlock', sleeplcks', locks')
  BY <1>1, <1>2, <1>3, PoolReworked
<1>7. \A g \in Files : FileOK(locks'[g], recs')
  BY <1>1, <1>2, <1>3, FilesReworked
<1>8. InPool(frlock, sleeplcks, locks, f, recs, t.recs, t.free, t.list, t.woken)
  BY <1>1, <1>2 DEF InPool
<1>9. \A x \in sleeplcks : t.recs[x] = recs[x]
  BY <1>8, SleepersReworked
<1>10. Asleep' = Asleep
  BY <1>3 DEF Asleep
<1>11. /\ Recorded(recs', sleeplcks', Asleep')
       /\ \A q : WaitsFor(recs', sleeplcks', q) = WaitsFor(recs, sleeplcks, q)
  BY <1>1, <1>3, <1>9, <1>10, RecordedSame
<1>12. NoRing(recs', sleeplcks')
  BY <1>1, <1>11 DEF NoRing
<1>13. \A q \in Procs : Stands(q, pc'[q], req'[q], chan'[q])
  BY <1>1, <1>3, <1>4 DEF Stands
<1>14. Told(recs', locks', sleeplcks', chan', req')
  <2>1. ASSUME NEW q \in Procs, chan[q] # NoRec PROVE req[q].file \in Files
    <3>1. Stands(q, pc[q], req[q], chan[q])
      BY <1>1
    <3>2. req[q] \in Request
      BY <1>1, <2>1, <3>1 DEF Stands, TypeOK
    <3>3. QED
      BY <3>2 DEF Request
  <2>2. Heard(chan, req, chan', req', t.woken)
    BY <1>3, <1>4, <2>1 DEF Heard
  <2>3. Told(t.recs, [locks EXCEPT ![f] = t.list], sleeplcks, chan', req')
    BY <1>1, <1>8, <2>2, ToldReworked
  <2>4. QED
    BY <1>3, <2>3
<1>15. QED
  BY <1>5, <1>6, <1>7, <1>11, <1>12, <1>13, <1>14 DEF Inv

LEMMA NextInv ==
    ASSUME Inv, [Next]_vars
    PROVE  Inv'
<1>1. ASSUME NEW p \in Procs, NEW l \in Requests, Call(p, l) PROVE Inv'
  BY <1>1, CallInv
<1>2. ASSUME NEW p \in Procs, Called(p) PROVE Inv'
  <2>1. pc[p] = "call" /\ Reclock(p, req[p], recs, frlock, sleeplcks)
    BY <1>2 DEF Called
  <2>2. Entry(p, recs, frlock, sleeplcks)
    BY <2>1, EntryAwake
  <2>3. QED
    BY <2>1, <2>2, ReclockInv
<1>3. ASSUME NEW p \in Procs, Signal(p) PROVE Inv'
  BY <1>3, SignalInv
<1>4. ASSUME NEW p \in Procs, Resume(p) PROVE Inv'
  <2> DEFINE r == Unrecorded(p)
             fr == frlock \cup {Mine(p)}
             sl == sleeplcks \ {Mine(p)}
  <2>1. /\ pc[p] = "asleep" /\ chan[p] = NoRec
        /\ IF intr[p] THEN Refuse(p, "EINTR", r, fr, sl) ELSE Reclock(p, req[p], r, fr, sl)
    BY <1>4 DEF Resume
  <2>2. Entry(p, r, fr, sl)
    BY <2>1, EntryWakes
  <2> HIDE DEF r, fr, sl
  <2>3. "EINTR" \in Result
    BY DEF Result
  <2>4. QED
    BY <2>1, <2>2, <2>3, RefuseInv, ReclockInv
<1>5. ASSUME NEW p \in Procs, Plock(p) PROVE Inv'
  BY <1>5, PlockInv
<1>6. ASSUME NEW p \in Procs, Plocked(p) PROVE Inv'
  <2>1. /\ pc[p] = "plock"
        /\ IF intr[p] THEN Refuse(p, "EINTR", recs, frlock, sleeplcks)
           ELSE Reclock(p, req[p], recs, frlock, sleeplcks)
    BY <1>6 DEF Plocked
  <2>2. Entry(p, recs, frlock, sleeplcks)
    BY <2>1, EntryAwake
  <2>3. "EINTR" \in Result
    BY DEF Result
  <2>4. QED
    BY <2>1, <2>2, <2>3, RefuseInv, ReclockInv
<1>7. ASSUME NEW p \in Procs, NEW f \in Files, Close(p, f) PROVE Inv'
  BY <1>7, CleanInv DEF Close
<1>8. ASSUME NEW f \in Files, CleanSystem(f) PROVE Inv'
  BY <1>8, CleanInv DEF CleanSystem
<1>9. CASE UNCHANGED vars
  BY <1>9 DEF vars, Inv, TypeOK, Asleep
<1>10. QED
  BY <1>1, <1>2, <1>3, <1>4, <1>5, <1>6, <1>7, <1>8, <1>9 DEF Next

(* The invariant holds always. *)
THEOREM Invariance == Spec => []Inv
  BY InitInv, NextInv, PTL DEF Spec

(* Every variable has a value of its kind: reclock only ever works on lock *)
(* records of the table and answers with one of its error numbers.         *)
THEOREM TypeCorrect == Spec => []TypeOK
<1>1. Inv => TypeOK
  BY DEF Inv
<1>2. QED
  BY <1>1, Invariance, PTL

(* No lock record is lost or on two lists, whatever insflck, delflck and   *)
(* the sleep in reclock do with the free list.                             *)
THEOREM RecordsAccounted == Spec => []PoolAccounted
<1>1. Inv => PoolAccounted
  BY DEF Inv, Pool, PoolAccounted
<1>2. QED
  BY <1>1, Invariance, PTL

(* The list of each file stays in order, and the locks of an owner on it   *)
(* apart: what flckadj needs to stop early it leaves behind.               *)
THEOREM ListsCoalesced == Spec => []Coalesced
<1>1. ASSUME Inv PROVE Coalesced
  <2> SUFFICES ASSUME NEW f \in Files, NEW i \in DOMAIN locks[f], NEW j \in DOMAIN locks[f], i < j
               PROVE  LET l == recs[locks[f][i]]
                          m == recs[locks[f][j]]
                      IN  /\ l.start <= m.start
                          /\ l.pid = m.pid => l.end < m.start
                          /\ l.pid = m.pid /\ l.type = m.type => l.end + 1 < m.start
    BY DEF Coalesced
  <2> DEFINE x == locks[f][i]
             y == locks[f][j]
  <2>1. FileOK(locks[f], recs) /\ IsInjective(locks[f]) /\ locks[f] \in Seq(Recs)
    BY <1>1 DEF Inv, Pool, TypeOK
  <2>2. x \in ToSet(locks[f]) /\ y \in ToSet(locks[f])
    BY DEF ToSet
  <2>3. i # j
    <3>1. i \in Nat /\ j \in Nat
      BY <2>1
    <3>2. QED
      BY <3>1
  <2>4. x # y
    BY <2>1, <2>3 DEF IsInjective
  <2>5. recs[x].start <= recs[y].start
    BY <2>1 DEF FileOK, Sorted
  <2>6. InUse(recs[x]) /\ InUse(recs[y])
    BY <2>1, <2>2 DEF FileOK
  <2>7. ASSUME recs[x].pid = recs[y].pid PROVE Below(recs[x], recs[y])
    <3>1. Separate(recs[x], recs[y])
      BY <2>1, <2>2, <2>4, <2>7 DEF FileOK
    <3>2. QED
      BY <2>5, <2>6, <3>1, LaterBelow
  <2> HIDE DEF x, y
  <2>8. /\ recs[x].pid = recs[y].pid => recs[x].end < recs[y].start
        /\ recs[x].pid = recs[y].pid /\ recs[x].type = recs[y].type
             => recs[x].end + 1 < recs[y].start
    BY <2>7 DEF Below
  <2>9. QED
    BY <2>5, <2>8 DEF x, y
<1>2. QED
  BY <1>1, Invariance, PTL

(* Whoever sleeps in reclock sleeps on a lock that is in its way, and will *)
(* be told: delflck and the trimming of a lock wake everybody.             *)
THEOREM SleepersWillBeTold == Spec => []SleeperBlocked
<1>1. Inv => SleeperBlocked
  BY DEF Inv, Told, SleeperBlocked
<1>2. QED
  BY <1>1, Invariance, PTL

(* deadflck() prevents every circle: of those who sleep on each other's    *)
(* locks, and of the records it would follow for ever.                     *)
THEOREM NobodyInACircle == Spec => []NoCircle
<1>1. ASSUME Inv PROVE NoCircle
  <2> DEFINE next == [p \in Procs |-> IF chan[p] = NoRec THEN NoProc ELSE recs[chan[p]].pid]
             waits == [p \in Procs |-> WaitsFor(recs, sleeplcks, p)]
  <2>1. /\ NoRing(recs, sleeplcks) /\ Recorded(recs, sleeplcks, Asleep)
        /\ Told(recs, locks, sleeplcks, chan, req)
        /\ \A p \in Procs : Stands(p, pc[p], req[p], chan[p])
    BY <1>1 DEF Inv
  <2>2. ASSUME NEW P \in (SUBSET Procs) \ {{}}, \A p \in P : waits[p] \in P PROVE FALSE
    <3>1. \A p \in P : WaitsFor(recs, sleeplcks, p) \in P
      BY <2>2
    <3>2. QED
      BY <2>1, <3>1 DEF NoRing
  <2>3. ASSUME NEW P \in (SUBSET Procs) \ {{}}, \A p \in P : next[p] \in P PROVE FALSE
    <3>1. ASSUME NEW p \in P PROVE WaitsFor(recs, sleeplcks, p) \in P
      <4>1. p \in Procs /\ chan[p] # NoRec /\ recs[chan[p]].pid \in P
        BY <2>3, LockAssumption
      <4>2. Stands(p, pc[p], req[p], chan[p])
        BY <2>1, <4>1
      <4>3. p \in Asleep
        BY <4>1, <4>2 DEF Stands, Asleep
      <4>4. PICK x \in sleeplcks : recs[x].pid = p
        BY <2>1, <4>3 DEF Recorded
      <4>5. recs[x].stat = recs[chan[p]].pid
        BY <2>1, <4>1, <4>4 DEF Told
      <4>6. WaitsFor(recs, sleeplcks, recs[x].pid) = recs[x].stat
        BY <2>1, <4>4, WaitsForFacts
      <4>7. QED
        BY <4>1, <4>4, <4>5, <4>6
    <3>2. QED
      BY <2>1, <3>1 DEF NoRing
  <2> HIDE DEF next, waits
  <2>4. /\ ~\E P \in (SUBSET Procs) \ {{}} : \A p \in P : next[p] \in P
        /\ ~\E P \in (SUBSET Procs) \ {{}} : \A p \in P : waits[p] \in P
    BY <2>2, <2>3
  <2>5. QED
    BY <2>4 DEF NoCircle, next, waits
<1>2. QED
  BY <1>1, Invariance, PTL

-----------------------------------------------------------------------------
(* The lists are to their owners what a lock on each byte would be. *)
Locked(q, r, p, b, ty) == \E z \in ToSet(q) : r[z].pid = p /\ r[z].type = ty /\ On(r[z], b)

Quads == Files \X Procs \X Byte \X LockType

HeldBy(lk, r) == UNION {UNION {BytesOf(f, r[x]) : x \in ToSet(lk[f])} : f \in Files}

FilesOK(lk, r) == \A f \in Files : FileOK(lk[f], r)

LEMMA HeldFacts ==
    ASSUME NEW lk, NEW r, FilesOK(lk, r)
    PROVE  /\ HeldBy(lk, r) \subseteq Quads
           /\ \A f \in Files, p \in Procs, b \in Byte, ty \in LockType :
                <<f, p, b, ty>> \in HeldBy(lk, r) <=> Locked(lk[f], r, p, b, ty)
<1>1. ASSUME NEW e \in HeldBy(lk, r)
      PROVE  \E f \in Files : \E x \in ToSet(lk[f]) : \E b \in r[x].start..r[x].end :
                e = <<f, r[x].pid, b, r[x].type>>
  <2>1. PICK f \in Files : e \in UNION {BytesOf(f, r[x]) : x \in ToSet(lk[f])}
    BY DEF HeldBy
  <2>2. PICK x \in ToSet(lk[f]) : e \in BytesOf(f, r[x])
    BY <2>1
  <2>3. QED
    BY <2>2 DEF BytesOf
<1>2. ASSUME NEW f \in Files, NEW x \in ToSet(lk[f]), NEW b \in r[x].start..r[x].end
      PROVE  <<f, r[x].pid, b, r[x].type>> \in HeldBy(lk, r)
  <2>1. <<f, r[x].pid, b, r[x].type>> \in BytesOf(f, r[x])
    BY DEF BytesOf
  <2>2. QED
    BY <2>1 DEF HeldBy
<1>3. ASSUME NEW f \in Files, NEW x \in ToSet(lk[f])
      PROVE  /\ r[x].pid \in Procs /\ r[x].type \in LockType
             /\ r[x].start..r[x].end \subseteq Byte
             /\ \A b \in Byte : b \in r[x].start..r[x].end <=> On(r[x], b)
  <2>1. InUse(r[x])
    BY DEF FilesOK, FileOK
  <2>2. r[x].pid \in Procs /\ r[x].type \in LockType /\ r[x].start \in Byte /\ r[x].end \in Byte
    BY <2>1 DEF InUse, Record
  <2>3. QED
    BY <2>2, LockAssumption DEF Byte, On
<1>4. ASSUME NEW e \in HeldBy(lk, r) PROVE e \in Quads
  <2>1. PICK f \in Files : \E x \in ToSet(lk[f]) : \E b \in r[x].start..r[x].end :
                e = <<f, r[x].pid, b, r[x].type>>
    BY <1>1
  <2>2. PICK x \in ToSet(lk[f]) : \E b \in r[x].start..r[x].end :
                e = <<f, r[x].pid, b, r[x].type>>
    BY <2>1
  <2>3. PICK b \in r[x].start..r[x].end : e = <<f, r[x].pid, b, r[x].type>>
    BY <2>2
  <2>4. b \in Byte
    BY <1>3
  <2>5. QED
    BY <1>3, <2>3, <2>4 DEF Quads
<1>5. ASSUME NEW f \in Files, NEW p \in Procs, NEW b \in Byte, NEW ty \in LockType
      PROVE  <<f, p, b, ty>> \in HeldBy(lk, r) <=> Locked(lk[f], r, p, b, ty)
  <2>1. ASSUME <<f, p, b, ty>> \in HeldBy(lk, r) PROVE Locked(lk[f], r, p, b, ty)
    <3>1. PICK g \in Files : \E x \in ToSet(lk[g]) : \E c \in r[x].start..r[x].end :
                <<f, p, b, ty>> = <<g, r[x].pid, c, r[x].type>>
      BY <1>1, <2>1
    <3>2. PICK x \in ToSet(lk[g]) : \E c \in r[x].start..r[x].end :
                <<f, p, b, ty>> = <<g, r[x].pid, c, r[x].type>>
      BY <3>1
    <3>3. g = f /\ r[x].pid = p /\ r[x].type = ty /\ b \in r[x].start..r[x].end
      BY <3>2
    <3>4. QED
      BY <1>3, <3>3, <3>2 DEF Locked
  <2>2. ASSUME Locked(lk[f], r, p, b, ty) PROVE <<f, p, b, ty>> \in HeldBy(lk, r)
    <3>1. PICK x \in ToSet(lk[f]) : r[x].pid = p /\ r[x].type = ty /\ On(r[x], b)
      BY <2>2 DEF Locked
    <3>2. b \in r[x].start..r[x].end
      BY <1>3, <3>1
    <3>3. QED
      BY <1>2, <3>1, <3>2
  <2>3. QED
    BY <2>1, <2>2
<1>6. QED
  BY <1>4, <1>5

(* Two sets of locks that agree byte by byte are the same. *)
LEMMA QuadsEqual ==
    ASSUME NEW A, NEW B, A \subseteq Quads, B \subseteq Quads,
           \A f \in Files, p \in Procs, b \in Byte, ty \in LockType :
             <<f, p, b, ty>> \in A <=> <<f, p, b, ty>> \in B
    PROVE  A = B
<1>1. ASSUME NEW e \in Quads PROVE e \in A <=> e \in B
  <2>1. PICK f \in Files, p \in Procs, b \in Byte, ty \in LockType : e = <<f, p, b, ty>>
    BY DEF Quads
  <2>2. QED
    BY <2>1
<1>2. QED
  BY <1>1

(* Records that are as they were, but for stat, lock the same bytes. *)
LEMMA HeldSame ==
    ASSUME NEW lk, NEW r, NEW c,
           \A f \in Files : \A x \in ToSet(lk[f]) :
              /\ c[x].pid = r[x].pid /\ c[x].type = r[x].type
              /\ c[x].start = r[x].start /\ c[x].end = r[x].end
    PROVE  HeldBy(lk, c) = HeldBy(lk, r)
<1>1. \A f \in Files : \A x \in ToSet(lk[f]) : BytesOf(f, c[x]) = BytesOf(f, r[x])
  BY DEF BytesOf
<1>2. \A f \in Files :
        {BytesOf(f, c[x]) : x \in ToSet(lk[f])} = {BytesOf(f, r[x]) : x \in ToSet(lk[f])}
  BY <1>1
<1>3. QED
  BY <1>2 DEF HeldBy

(* An owner locks a byte in one manner only. *)
LEMMA LockedOnce ==
    ASSUME NEW q, NEW r, FileOK(q, r), NEW p, NEW b \in Nat, NEW t, NEW u,
           Locked(q, r, p, b, t), Locked(q, r, p, b, u)
    PROVE  t = u
<1>1. PICK x \in ToSet(q) : r[x].pid = p /\ r[x].type = t /\ On(r[x], b)
  BY DEF Locked
<1>2. PICK y \in ToSet(q) : r[y].pid = p /\ r[y].type = u /\ On(r[y], b)
  BY DEF Locked
<1>3. CASE x = y
  BY <1>1, <1>2, <1>3
<1>4. CASE x # y
  <2>1. Separate(r[x], r[y]) /\ InUse(r[x]) /\ InUse(r[y])
    BY <1>1, <1>2, <1>4 DEF FileOK
  <2>2. r[y].start \in Nat /\ r[y].end \in Nat /\ r[y].start <= r[y].end
    BY <2>1, InUseFacts
  <2>3. QED
    BY <1>1, <1>2, <2>1, <2>2, SeparateBytes
<1>5. QED
  BY <1>3, <1>4
(* What an update of the list of f by p does to each byte; runsout if it   *)
(* fails for want of a record.                                             *)
Outcome(lk, r, lk2, c, f, p, l, runsout) ==
    \A g \in Files, o \in Procs, b \in Byte, ty \in LockType :
       LET was == Locked(lk[g], r, o, b, ty)
           is  == Locked(lk2[g], c, o, b, ty)
       IN  /\ ~(g = f /\ o = p /\ On(l, b)) => (is <=> was)
           /\ g = f /\ o = p /\ On(l, b) =>
                IF runsout THEN is => was ELSE is <=> ty = l.type

LEMMA UpdatedOutcome ==
    ASSUME NEW lk \in [Files -> Seq(Recs)], NEW f, NEW r, NEW fr, NEW sl,
           NEW s0, s0.recs = r, s0.free = fr, s0.list = lk[f], NEW p, NEW t, Updated(s0, t, p),
           InPool(fr, sl, lk, f, r, t.recs, t.free, t.list, t.woken)
    PROVE  Outcome(lk, r, [lk EXCEPT ![f] = t.list], t.recs, f, p, s0.ld, t.scan = "ENOLCK")
<1> DEFINE lk2 == [lk EXCEPT ![f] = t.list]
           q == lk[f]
           c == t.recs
           l == s0.ld
<1>1. f \in Files /\ lk2[f] = t.list /\ \A g \in Files : g # f => lk2[g] = lk[g]
  BY DEF InPool
<1>2. ASSUME NEW g \in Files, g # f, NEW o, NEW b, NEW ty
      PROVE  Locked(lk2[g], c, o, b, ty) <=> Locked(lk[g], r, o, b, ty)
  <2>1. \A x \in ToSet(lk[g]) : x \in Recs /\ x \notin fr \cup ToSet(lk[f])
    BY <1>2 DEF InPool, Pool
  <2>2. \A x \in ToSet(lk[g]) : c[x] = r[x]
    BY <2>1 DEF InPool, Reworked
  <2>3. lk2[g] = lk[g]
    BY <1>1, <1>2
  <2> HIDE DEF lk2
  <2>4. QED
    BY <2>2, <2>3 DEF Locked
<1>3. ASSUME NEW o, o # p, NEW b, NEW ty
      PROVE  Locked(t.list, c, o, b, ty) <=> Locked(q, r, o, b, ty)
  <2>1. /\ \A y \in ToSet(q) : r[y].pid # p => y \in ToSet(t.list) /\ c[y] = r[y]
        /\ \A y \in ToSet(t.list) : c[y].pid # p => y \in ToSet(q) /\ c[y] = r[y]
    BY DEF Updated, Lists
  <2>2. QED
    BY <1>3, <2>1 DEF Locked
<1>4. \A b, ty : /\ Has(s0, p, b, ty) <=> Locked(q, r, p, b, ty)
                 /\ Has(t, p, b, ty) <=> Locked(t.list, c, p, b, ty)
  BY DEF Has, Locked
<1>5. ASSUME NEW b \in Nat, NEW ty \in LockType
      PROVE  /\ ~On(l, b) => (Locked(q, r, p, b, ty) <=> Locked(t.list, c, p, b, ty))
             /\ On(l, b) => IF t.scan = "ENOLCK"
                            THEN Locked(t.list, c, p, b, ty) => Locked(q, r, p, b, ty)
                            ELSE Locked(t.list, c, p, b, ty) <=> ty = l.type
  BY <1>4 DEF Updated
<1> HIDE DEF lk2, q, c, l
<1>6. Byte \subseteq Nat
  BY LockAssumption DEF Byte
<1>7. ASSUME NEW g \in Files, NEW o \in Procs, NEW b \in Byte, NEW ty \in LockType
      PROVE  /\ ~(g = f /\ o = p /\ On(l, b)) =>
                  (Locked(lk2[g], c, o, b, ty) <=> Locked(lk[g], r, o, b, ty))
             /\ g = f /\ o = p /\ On(l, b) =>
                  IF t.scan = "ENOLCK" THEN Locked(lk2[g], c, o, b, ty) => Locked(lk[g], r, o, b, ty)
                  ELSE Locked(lk2[g], c, o, b, ty) <=> ty = l.type
  <2>1. CASE g # f
    BY <1>2, <2>1
  <2>2. CASE g = f /\ o # p
    BY <1>1, <1>3, <2>2 DEF q
  <2>3. CASE g = f /\ o = p
    BY <1>1, <1>5, <1>6, <2>3 DEF q
  <2>4. QED
    BY <2>1, <2>2, <2>3
<1>8. Outcome(lk, r, lk2, c, f, p, l, t.scan = "ENOLCK")
  BY <1>7 DEF Outcome
<1>9. QED
  BY <1>8 DEF lk2, c, l

-----------------------------------------------------------------------------
(* The steps of ByteLocks. *)
LEMMA HeldIs ==
    Held = HeldBy(locks, recs) /\ Held' = HeldBy(locks', recs')
  BY DEF Held, HeldBy

(* The bytes of a request. *)
LEMMA RequestBytes ==
    ASSUME NEW l \in Request
    PROVE  /\ l.start..l.end \subseteq Byte /\ Byte \subseteq Nat
           /\ \A b \in Byte : On(l, b) <=> b \in l.start..l.end
<1>1. l.start \in Byte /\ l.end \in Byte
  BY RequestFacts
<1>2. QED
  BY <1>1, LockAssumption DEF Byte, On

(* Who is told that nothing is in the way can rely on it, and the reverse. *)
LEMMA ClearFacts ==
    ASSUME NEW r, FilesOK(locks, r), Held = HeldBy(locks, r),
           NEW p \in Procs, req[p] \in Request, req[p].type # "F_UNLCK",
           locks[req[p].file] \in Seq(Recs)
    PROVE  Blocked(locks[req[p].file], r, p, req[p]) = NoRec <=> ByByte!Clear(p)
<1> DEFINE l == req[p]
           q == locks[l.file]
           x == Blocked(q, r, p, l)
<1>1. /\ x # NoRec => /\ x \in ToSet(q) /\ r[x].pid # p
                      /\ Overlap(l, r[x]) /\ InTheWay(l, r[x])
      /\ x = NoRec => \A y \in ToSet(q) :
                        r[y].pid # p /\ Overlap(l, r[y]) => ~InTheWay(l, r[y])
  BY BlockedFacts
<1>2. l.file \in Files /\ l.type \in LockType /\ l.start \in Nat /\ l.end \in Nat /\ l.start <= l.end
      /\ l.start \in Byte /\ l.end \in Byte
  <2>1. l.file \in Files
    BY DEF Request
  <2>2. QED
    BY <2>1, RequestFacts
<1> HIDE DEF x
<1>3. \A y \in ToSet(q) : InUse(r[y])
  BY <1>2 DEF FilesOK, FileOK
<1>4. ASSUME x = NoRec PROVE ByByte!Clear(p)
  <2>1. ASSUME NEW e \in Held, e[1] = l.file, e[2] # p, e[3] \in l.start..l.end
        PROVE  ~ByByte!Against(l.type, e[4])
    <3>1. e \in Quads
      BY HeldFacts
    <3>2. e[1] \in Files /\ e[2] \in Procs /\ e[3] \in Byte /\ e[4] \in LockType
          /\ e = <<e[1], e[2], e[3], e[4]>>
      BY <3>1 DEF Quads
    <3>3. Locked(q, r, e[2], e[3], e[4])
      BY <2>1, <3>2, HeldFacts
    <3>4. PICK z \in ToSet(q) : r[z].pid = e[2] /\ r[z].type = e[4] /\ On(r[z], e[3])
      BY <3>3 DEF Locked
    <3>5. Overlap(l, r[z])
      <4> DEFINE b == e[3]
      <4>1. b \in Nat /\ b \in l.start..l.end /\ On(r[z], b)
        BY <2>1, <3>2, <3>4, LockAssumption DEF Byte
      <4>2. r[z].start \in Nat /\ r[z].end \in Nat
        BY <1>3, InUseFacts
      <4> HIDE DEF b, l
      <4>3. QED
        BY <1>2, <4>1, <4>2 DEF Overlap, On
    <3>6. ~InTheWay(l, r[z])
      BY <1>1, <1>4, <2>1, <3>4, <3>5
    <3>7. QED
      BY <1>2, <3>2, <3>4, <3>6 DEF InTheWay, ByByte!Against, LockType
  <2>2. QED
    BY <2>1 DEF ByByte!Clear
<1>5. ASSUME x # NoRec PROVE ~ByByte!Clear(p)
  <2>1. /\ x \in ToSet(q) /\ r[x].pid # p
        /\ Overlap(l, r[x]) /\ InTheWay(l, r[x])
    BY <1>1, <1>5
  <2>2. /\ r[x].start \in Nat /\ r[x].end \in Nat /\ r[x].start <= r[x].end
        /\ r[x].start \in Byte /\ r[x].type \in LockType /\ r[x].pid \in Procs
    BY <1>3, <2>1, InUseFacts
  <2> DEFINE b == IF l.start <= r[x].start THEN r[x].start ELSE l.start
  <2>3. b \in Byte /\ b \in l.start..l.end /\ On(r[x], b)
    BY <1>2, <2>1, <2>2 DEF Overlap, On
  <2> HIDE DEF b
  <2>4. Locked(q, r, r[x].pid, b, r[x].type)
    BY <2>1, <2>3 DEF Locked
  <2>5. <<l.file, r[x].pid, b, r[x].type>> \in Held
    BY <1>2, <2>2, <2>3, <2>4, HeldFacts
  <2>6. ByByte!Against(l.type, r[x].type)
    BY <2>1 DEF InTheWay, ByByte!Against
  <2>7. QED
    BY <2>1, <2>3, <2>5, <2>6 DEF ByByte!Clear
<1>6. QED
  BY <1>4, <1>5 DEF x
(* The lists of r, as p finds them, say what ByteLocks knows. *)
Known(p, r, fr, sl) == Entry(p, r, fr, sl) /\ Held = HeldBy(locks, r)

LEMMA RefuseStep ==
    ASSUME NEW p, NEW r, NEW fr, NEW sl, Known(p, r, fr, sl), NEW result, Refuse(p, result, r, fr, sl)
    PROVE  ByByte!Answer(p, result) /\ Held' = Held
<1>1. p \in Procs /\ req[p] # NoRequest
  BY RequestNot DEF Known, Entry
<1>2. Return(p, result) /\ recs' = r /\ locks' = locks
  BY DEF Refuse
<1>3. ByByte!Answer(p, result)
  BY <1>1, <1>2 DEF Return, ByByte!Answer
<1>4. Held' = HeldBy(locks', recs') /\ Held = HeldBy(locks, r)
  BY HeldIs DEF Known
<1>5. Held' = Held
  BY <1>2, <1>4
<1>6. QED
  BY <1>3, <1>5

(* The request of p is carried out: what it does to each byte. *)
Done(p, r, l, runsout) ==
    /\ p \in Procs /\ l \in Request /\ l = req[p]
    /\ FilesOK(locks, r) /\ FilesOK(locks', recs') /\ Held = HeldBy(locks, r)
    /\ Outcome(locks, r, locks', recs', l.file, p, l, runsout)
    /\ ByByte!Answer(p, IF runsout THEN "ENOLCK" ELSE "ok")

LEMMA UpdateStep ==
    ASSUME Inv, NEW p, NEW r, NEW fr, NEW sl, Known(p, r, fr, sl), NEW l, l = req[p], NEW i,
           Begun(Start(r, fr, locks[l.file], l, i), p, i),
           Update(p, l, i, r, fr, sl)
    PROVE  \E runsout \in BOOLEAN : Done(p, r, l, runsout)
<1> DEFINE f == l.file
           s0 == Start(r, fr, locks[f], l, i)
           t == Flckadj(r, fr, locks[f], p, l, i)
           runsout == t.scan = "ENOLCK"
<1>1. /\ Entry(p, r, fr, sl) /\ p \in Procs /\ l \in Request /\ l # NoRequest /\ f \in Files
      /\ locks \in [Files -> Seq(Recs)]
  <2>1. Entry(p, r, fr, sl)
    BY DEF Known
  <2>2. p \in Procs /\ l \in Request
    BY <2>1 DEF Entry
  <2>3. QED
    BY <2>1, <2>2, RequestNot DEF Request, Inv, TypeOK
<1>2. Inv'
  BY <1>1, UpdateInv
<1>3. Updated(s0, t, p)
  BY FlckadjFacts
<1>4. s0.recs = r /\ s0.free = fr /\ s0.list = locks[f] /\ s0.ld = l
  BY StartFields
<1>5. /\ recs' = t.recs /\ locks' = [locks EXCEPT ![f] = t.list]
      /\ Return(p, IF runsout THEN "ENOLCK" ELSE "ok")
  BY DEF Update
<1> HIDE DEF t, s0
<1>6. InPool(fr, sl, locks, f, r, t.recs, t.free, t.list, t.woken)
  <2>1. Reworked(s0.recs, s0.free, s0.list, t.recs, t.free, t.list, t.woken)
    BY <1>3, UpdatedReworked
  <2>2. Pool(fr, sl, locks)
    BY <1>1 DEF Entry
  <2>3. QED
    BY <1>1, <1>4, <2>1, <2>2 DEF InPool
<1>7. Outcome(locks, r, locks', recs', f, p, l, runsout)
  <2>1. Outcome(locks, r, [locks EXCEPT ![f] = t.list], t.recs, f, p, s0.ld, t.scan = "ENOLCK")
    BY <1>1, <1>3, <1>4, <1>6, UpdatedOutcome
  <2>2. QED
    BY <1>4, <1>5, <2>1
<1> HIDE DEF f, runsout
<1>8. FilesOK(locks, r) /\ FilesOK(locks', recs') /\ Held = HeldBy(locks, r)
  BY <1>1, <1>2 DEF Entry, Inv, FilesOK, Known
<1>9. ByByte!Answer(p, IF runsout THEN "ENOLCK" ELSE "ok")
  BY <1>1, <1>5 DEF Return, ByByte!Answer
<1>10. runsout \in BOOLEAN
  BY DEF runsout
<1>11. QED
  BY <1>1, <1>7, <1>8, <1>9, <1>10 DEF Done, f

(* What ByteLocks keeps. *)
Kept(W, f, p, B) ==
    /\ W \subseteq Held
    /\ \A g \in Files, o \in Procs, b \in Byte, ty \in LockType :
         <<g, o, b, ty>> \in W <=> <<g, o, b, ty>> \in Held /\ ~(g = f /\ o = p /\ b \in B)

LEMMA WithoutFacts ==
    ASSUME NEW f, NEW p, NEW B
    PROVE  Kept(ByByte!Without(f, p, B), f, p, B)
  BY DEF ByByte!Without, Kept

(* What the request changes: the lock e is there before and after. *)
ChangedOn(g, o, b, ty, p, l, runsout) ==
    LET e == <<g, o, b, ty>>
    IN  /\ ~(g = l.file /\ o = p /\ On(l, b)) => (e \in Held' <=> e \in Held)
        /\ g = l.file /\ o = p /\ On(l, b) =>
             /\ runsout => (e \in Held' => e \in Held)
             /\ ~runsout => (e \in Held' <=> ty = l.type)

Changed(p, l, runsout) ==
    \A g \in Files, o \in Procs, b \in Byte, ty \in LockType : ChangedOn(g, o, b, ty, p, l, runsout)

LEMMA DoneFacts ==
    ASSUME NEW p, NEW r, NEW l, NEW runsout, Done(p, r, l, runsout)
    PROVE  /\ p \in Procs /\ l \in Request /\ l.file \in Files /\ l = req[p]
           /\ Held \subseteq Quads /\ Held' \subseteq Quads
           /\ ByByte!Answer(p, IF runsout THEN "ENOLCK" ELSE "ok")
           /\ Changed(p, l, runsout)
<1>1. /\ p \in Procs /\ l \in Request /\ l = req[p]
      /\ FilesOK(locks, r) /\ FilesOK(locks', recs') /\ Held = HeldBy(locks, r)
      /\ Held' = HeldBy(locks', recs')
      /\ Outcome(locks, r, locks', recs', l.file, p, l, runsout)
      /\ ByByte!Answer(p, IF runsout THEN "ENOLCK" ELSE "ok")
  BY HeldIs DEF Done
<1>2. l.file \in Files
  BY <1>1 DEF Request
<1>3. Held \subseteq Quads /\ Held' \subseteq Quads
  BY <1>1, HeldFacts
<1>4. ASSUME NEW g \in Files, NEW o \in Procs, NEW b \in Byte, NEW ty \in LockType
      PROVE  ChangedOn(g, o, b, ty, p, l, runsout)
  <2>1. <<g, o, b, ty>> \in Held <=> Locked(locks[g], r, o, b, ty)
    BY <1>1, HeldFacts
  <2>2. <<g, o, b, ty>> \in Held' <=> Locked(locks'[g], recs', o, b, ty)
    BY <1>1, HeldFacts
  <2>3. QED
    BY <1>1, <2>1, <2>2 DEF Outcome, ChangedOn
<1>5. Changed(p, l, runsout)
  BY <1>4 DEF Changed
<1>6. QED
  BY <1>1, <1>2, <1>3, <1>5

LEMMA UnlockStep ==
    ASSUME NEW p, NEW r, NEW l, Done(p, r, l, FALSE), l.type = "F_UNLCK"
    PROVE  ByByte!Unlock(p)
<1> DEFINE B == l.start..l.end
           W == ByByte!Without(l.file, p, B)
<1>1. /\ l \in Request /\ l = req[p] /\ Held \subseteq Quads /\ Held' \subseteq Quads
      /\ ByByte!Answer(p, "ok")
      /\ Changed(p, l, FALSE)
  BY DoneFacts
<1>2. "F_UNLCK" \notin LockType
  BY DEF LockType
<1>3. Kept(W, l.file, p, B)
  BY WithoutFacts
<1>4. W \subseteq Quads
  BY <1>1, <1>3 DEF Kept
<1> HIDE DEF W
<1>5. ASSUME NEW g \in Files, NEW o \in Procs, NEW b \in Byte, NEW ty \in LockType
      PROVE  <<g, o, b, ty>> \in Held' <=> <<g, o, b, ty>> \in W
  <2>1. <<g, o, b, ty>> \in W <=> <<g, o, b, ty>> \in Held /\ ~(g = l.file /\ o = p /\ b \in B)
    BY <1>3 DEF Kept
  <2>2. /\ ~(g = l.file /\ o = p /\ b \in B) => (<<g, o, b, ty>> \in Held' <=> <<g, o, b, ty>> \in Held)
        /\ g = l.file /\ o = p /\ b \in B => (<<g, o, b, ty>> \in Held' <=> ty = l.type)
    BY <1>1, RequestBytes DEF Changed, ChangedOn
  <2>3. QED
    BY <1>2, <2>1, <2>2
<1>6. Held' = W
  BY <1>1, <1>4, <1>5, QuadsEqual
<1>7. QED
  BY <1>1, <1>6 DEF ByByte!Unlock, W

LEMMA LockStep ==
    ASSUME NEW p, NEW r, NEW l, Done(p, r, l, FALSE), l.type # "F_UNLCK", l.op # "check",
           ByByte!Clear(p)
    PROVE  ByByte!Lock(p)
<1> DEFINE B == l.start..l.end
           N == {<<l.file, p, b, l.type>> : b \in B}
           W == ByByte!Without(l.file, p, B)
<1>1. /\ p \in Procs /\ l \in Request /\ l.file \in Files
      /\ l = req[p] /\ Held \subseteq Quads /\ Held' \subseteq Quads
      /\ ByByte!Answer(p, "ok")
      /\ Changed(p, l, FALSE)
  BY DoneFacts
<1>2. B \subseteq Byte /\ l.type \in LockType
  BY <1>1, RequestBytes, RequestFacts
<1>3. Kept(W, l.file, p, B)
  BY WithoutFacts
<1>4. W \cup N \subseteq Quads
  <2>1. W \subseteq Quads
    BY <1>1, <1>3 DEF Kept
  <2>2. N \subseteq Quads
    BY <1>1, <1>2 DEF Quads
  <2>3. QED
    BY <2>1, <2>2
<1> HIDE DEF W
<1>5. ASSUME NEW g \in Files, NEW o \in Procs, NEW b \in Byte, NEW ty \in LockType
      PROVE  <<g, o, b, ty>> \in Held' <=> <<g, o, b, ty>> \in W \cup N
  <2>1. <<g, o, b, ty>> \in W <=> <<g, o, b, ty>> \in Held /\ ~(g = l.file /\ o = p /\ b \in B)
    BY <1>3 DEF Kept
  <2>2. /\ ~(g = l.file /\ o = p /\ b \in B) => (<<g, o, b, ty>> \in Held' <=> <<g, o, b, ty>> \in Held)
        /\ g = l.file /\ o = p /\ b \in B => (<<g, o, b, ty>> \in Held' <=> ty = l.type)
    BY <1>1, RequestBytes DEF Changed, ChangedOn
  <2>3. <<g, o, b, ty>> \in N <=> g = l.file /\ o = p /\ b \in B /\ ty = l.type
    OBVIOUS
  <2> HIDE DEF N, B
  <2>4. QED
    BY <2>1, <2>2, <2>3
<1>6. Held' = W \cup N
  <2> DEFINE V == W \cup N
  <2>1. V \subseteq Quads /\ \A g \in Files, o \in Procs, b \in Byte, ty \in LockType :
                               <<g, o, b, ty>> \in Held' <=> <<g, o, b, ty>> \in V
    BY <1>4, <1>5
  <2> HIDE DEF V
  <2>2. Held' = V
    BY <1>1, <2>1, QuadsEqual
  <2>3. QED
    BY <2>2 DEF V
<1>7. QED
  BY <1>1, <1>6 DEF ByByte!Lock, W

(* Out of records: some of the bytes may have lost their lock. *)
LEMMA RunOutStep ==
    ASSUME NEW p, NEW r, NEW l, Done(p, r, l, TRUE)
    PROVE  ByByte!RunOut(p)
<1> DEFINE R == l.start..l.end
           B == {b \in R : \A ty \in LockType : <<l.file, p, b, ty>> \notin Held'}
           W == ByByte!Without(l.file, p, B)
<1>1. /\ p \in Procs /\ l \in Request /\ l.file \in Files
      /\ l = req[p] /\ Held \subseteq Quads /\ Held' \subseteq Quads
      /\ ByByte!Answer(p, "ENOLCK")
      /\ Changed(p, l, TRUE)
  BY DoneFacts
<1>2. R \subseteq Byte /\ B \subseteq R /\ Byte \subseteq Nat
  BY <1>1, RequestBytes
<1>3. Kept(W, l.file, p, B)
  BY WithoutFacts
<1>4. W \subseteq Quads
  BY <1>1, <1>3 DEF Kept
<1>5. \A b \in R, ty \in LockType, u \in LockType :
         <<l.file, p, b, ty>> \in Held /\ <<l.file, p, b, u>> \in Held => ty = u
  <2> TAKE b \in R, ty \in LockType, u \in LockType
  <2> HAVE <<l.file, p, b, ty>> \in Held /\ <<l.file, p, b, u>> \in Held
  <2>1. b \in Byte /\ b \in Nat
    BY <1>2
  <2>2. FilesOK(locks, r) /\ Held = HeldBy(locks, r)
    BY DEF Done
  <2>3. Locked(locks[l.file], r, p, b, ty) /\ Locked(locks[l.file], r, p, b, u)
    BY <1>1, <2>1, <2>2, HeldFacts
  <2>4. FileOK(locks[l.file], r)
    BY <1>1, <2>2 DEF FilesOK
  <2>5. QED
    BY <2>1, <2>3, <2>4, LockedOnce
<1> HIDE DEF W
<1>6. ASSUME NEW g \in Files, NEW o \in Procs, NEW b \in Byte, NEW ty \in LockType
      PROVE  <<g, o, b, ty>> \in Held' <=> <<g, o, b, ty>> \in W
  <2>1. <<g, o, b, ty>> \in W <=> <<g, o, b, ty>> \in Held /\ ~(g = l.file /\ o = p /\ b \in B)
    BY <1>3 DEF Kept
  <2>2. /\ ~(g = l.file /\ o = p /\ b \in R) => (<<g, o, b, ty>> \in Held' <=> <<g, o, b, ty>> \in Held)
        /\ g = l.file /\ o = p /\ b \in R => (<<g, o, b, ty>> \in Held' => <<g, o, b, ty>> \in Held)
    BY <1>1, RequestBytes DEF Changed, ChangedOn
  <2> HIDE DEF R
  <2>3. CASE g = l.file /\ o = p /\ b \in R
    <3>1. <<g, o, b, ty>> \in Held' => <<g, o, b, ty>> \in Held /\ b \notin B
      BY <2>2, <2>3
    <3>2. ASSUME <<g, o, b, ty>> \in Held, b \notin B PROVE <<g, o, b, ty>> \in Held'
      <4>1. PICK u \in LockType : <<l.file, p, b, u>> \in Held'
        BY <2>3, <3>2
      <4>2. <<l.file, p, b, u>> \in Held
        BY <1>1, <1>2, <2>3, <4>1 DEF Changed, ChangedOn, R
      <4>3. ty = u
        BY <1>5, <2>3, <3>2, <4>2
      <4>4. QED
        BY <2>3, <4>1, <4>3
    <3>3. QED
      BY <2>1, <2>3, <3>1, <3>2
  <2>4. CASE ~(g = l.file /\ o = p /\ b \in R)
    BY <1>2, <2>1, <2>2, <2>4
  <2>5. QED
    BY <2>3, <2>4
<1>7. Held' = W
  BY <1>1, <1>4, <1>6, QuadsEqual
<1>8. B \in SUBSET (req[p].start..req[p].end)
  BY <1>1, <1>2
<1> HIDE DEF B
<1>9. QED
  BY <1>1, <1>7, <1>8 DEF ByByte!RunOut, W
LEMMA SleepStep ==
    ASSUME Inv, NEW p, NEW r, NEW fr, NEW sl, Known(p, r, fr, sl), fr # {},
           NEW x \in ToSet(locks[req[p].file]), SleepOn(p, req[p], x, r, fr, sl)
    PROVE  ByByte!Wait
<1>1. Entry(p, r, fr, sl) /\ Held = HeldBy(locks, r)
  BY DEF Known
<1>2. p \in Procs /\ r \in [Recs -> Record \cup {Blank}] /\ Pool(fr, sl, locks)
      /\ req[p] \in Request /\ FilesOK(locks, r)
  BY <1>1 DEF Entry, FilesOK
<1> DEFINE y == AnyOf(fr)
           n == [type |-> req[p].type, start |-> req[p].start, end |-> req[p].end,
                 pid |-> p, stat |-> r[x].pid]
           m == [r[x] EXCEPT !.stat = Wanted]
<1>3. y \in fr
  BY DEF AnyOf
<1>4. recs' = [r EXCEPT ![x] = m, ![y] = n] /\ locks' = locks /\ ret' = "none"
      /\ req' = [req EXCEPT ![p] = req[p]]
  BY DEF SleepOn
<1> HIDE DEF y
<1>5. req[p].file \in Files
  BY <1>2 DEF Request
<1>6. x \in Recs /\ InUse(r[x])
  BY <1>2, <1>5 DEF Pool, FilesOK, FileOK
<1>7. m.pid = r[x].pid /\ m.type = r[x].type /\ m.start = r[x].start /\ m.end = r[x].end
  BY <1>6 DEF InUse, Record
<1> HIDE DEF m, n
<1>8. ASSUME NEW f \in Files, NEW z \in ToSet(locks[f])
      PROVE  /\ recs'[z].pid = r[z].pid /\ recs'[z].type = r[z].type
             /\ recs'[z].start = r[z].start /\ recs'[z].end = r[z].end
  <2>1. z \in Recs /\ z # y
    BY <1>2, <1>3 DEF Pool
  <2>2. CASE z = x
    BY <1>2, <1>4, <1>7, <2>1, <2>2
  <2>3. CASE z # x
    BY <1>2, <1>4, <2>1, <2>3
  <2>4. QED
    BY <2>2, <2>3
<1>9. HeldBy(locks, recs') = HeldBy(locks, r)
  BY <1>8, HeldSame
<1>10. Held' = Held
  BY <1>1, <1>4, <1>9, HeldIs
<1>11. req' = req
  BY <1>4 DEF Inv, TypeOK
<1>12. QED
  BY <1>4, <1>10, <1>11 DEF ByByte!Wait

(* Once round the loop of reclock(), byte by byte. *)
LEMMA ReclockStep ==
    ASSUME Inv, NEW p, NEW r, NEW fr, NEW sl, Known(p, r, fr, sl), Reclock(p, req[p], r, fr, sl)
    PROVE  ByByte!Next
<1> DEFINE l == req[p]
           list == locks[l.file]
           x == Blocked(list, r, p, l)
<1>1. /\ Entry(p, r, fr, sl) /\ Held = HeldBy(locks, r) /\ FilesOK(locks, r)
      /\ TypeOK /\ l \in Request /\ p \in Procs /\ l.file \in Files
  <2>1. /\ Entry(p, r, fr, sl) /\ Held = HeldBy(locks, r) /\ FilesOK(locks, r)
        /\ TypeOK /\ l \in Request /\ p \in Procs
    BY DEF Inv, Known, Entry, FilesOK
  <2>2. QED
    BY <2>1 DEF Request
<1>2. Ordered(r, fr, list) /\ list \in Seq(Recs)
  BY <1>1, EntryOrdered DEF Ordered
<1>3. l.type # "F_UNLCK" => (x = NoRec <=> ByByte!Clear(p))
  BY <1>1, <1>2, ClearFacts
<1>4. ByByte!Unlock(p) \/ ByByte!Lock(p) \/ ByByte!RunOut(p) \/ ByByte!Tell(p) \/ ByByte!Wait
        => ByByte!Next
  BY <1>1 DEF ByByte!Next
<1>5. CASE l.type = "F_UNLCK"
  <2> DEFINE i == IF list = << >> THEN 0 ELSE 1
  <2>1. Update(p, l, i, r, fr, sl)
    BY <1>5 DEF Reclock
  <2>2. Begun(Start(r, fr, list, l, i), p, i)
    BY <1>1, <1>2, <1>5, BegunUnlock
  <2> HIDE DEF i
  <2>3. PICK runsout \in BOOLEAN : Done(p, r, l, runsout)
    BY <2>1, <2>2, UpdateStep
  <2>4. CASE runsout = TRUE
    BY <1>4, <2>3, <2>4, RunOutStep
  <2>5. CASE runsout = FALSE
    BY <1>4, <1>5, <2>3, <2>5, UnlockStep
  <2>6. QED
    BY <2>4, <2>5
<1>6. CASE l.type # "F_UNLCK" /\ x = NoRec
  <2>1. CASE l.op = "check"
    <3>1. Refuse(p, "clear", r, fr, sl)
      BY <1>6, <2>1 DEF Reclock
    <3>2. ByByte!Answer(p, "clear") /\ Held' = Held
      BY <3>1, RefuseStep
    <3>3. ByByte!Tell(p)
      BY <1>3, <1>6, <2>1, <3>2 DEF ByByte!Tell
    <3>4. QED
      BY <1>4, <3>3
  <2>2. CASE l.op # "check"
    <3> DEFINE i == Insrt(list, r, p, l)
    <3>1. Update(p, l, i, r, fr, sl)
      BY <1>6, <2>2 DEF Reclock
    <3>2. Begun(Start(r, fr, list, l, i), p, i)
      BY <1>1, <1>2, <1>6, BegunLock
    <3> HIDE DEF i
    <3>3. PICK runsout \in BOOLEAN : Done(p, r, l, runsout)
      BY <3>1, <3>2, UpdateStep
    <3>4. CASE runsout = TRUE
      BY <1>4, <3>3, <3>4, RunOutStep
    <3>5. CASE runsout = FALSE
      BY <1>3, <1>4, <1>6, <2>2, <3>3, <3>5, LockStep
    <3>6. QED
      BY <3>4, <3>5
  <2>3. QED
    BY <2>1, <2>2
<1>7. CASE l.type # "F_UNLCK" /\ x # NoRec
  <2>1. x \in ToSet(list) /\ ~ByByte!Clear(p)
    BY <1>2, <1>3, <1>7, BlockedFacts
  <2>2. IF l.op = "set" THEN Refuse(p, "EAGAIN", r, fr, sl)
        ELSE IF Deadlock(r, sl, p, x) THEN Refuse(p, "EDEADLK", r, fr, sl)
        ELSE IF fr = {} THEN Refuse(p, "ENOLCK", r, fr, sl)
        ELSE IF p \in Servers THEN Refuse(p, "EBUSY", r, fr, sl)
        ELSE SleepOn(p, l, x, r, fr, sl)
    BY <1>7 DEF Reclock
  <2> HIDE DEF x
  <2>3. \A result : Refuse(p, result, r, fr, sl) => ByByte!Answer(p, result) /\ Held' = Held
    BY RefuseStep
  <2>4. CASE l.op = "set"
    <3>1. ByByte!Answer(p, "EAGAIN") /\ Held' = Held
      BY <2>2, <2>3, <2>4
    <3>2. QED
      BY <1>4, <2>1, <2>4, <3>1 DEF ByByte!Tell
  <2>5. CASE l.op # "set" /\ Deadlock(r, sl, p, x)
    <3>1. ByByte!Answer(p, "EDEADLK") /\ Held' = Held
      BY <2>2, <2>3, <2>5
    <3>2. QED
      BY <1>4, <2>1, <2>5, <3>1 DEF ByByte!Tell
  <2>6. CASE l.op # "set" /\ ~Deadlock(r, sl, p, x) /\ fr = {}
    <3>1. ByByte!Answer(p, "ENOLCK") /\ Held' = Held
      BY <2>2, <2>3, <2>6
    <3>2. Held' = ByByte!Without(req[p].file, p, {})
      BY <3>1 DEF ByByte!Without
    <3>3. ByByte!RunOut(p)
      BY <3>1, <3>2 DEF ByByte!RunOut
    <3>4. QED
      BY <1>4, <3>3
  <2>7. CASE l.op # "set" /\ ~Deadlock(r, sl, p, x) /\ fr # {} /\ p \in Servers
    <3>1. ByByte!Answer(p, "EBUSY") /\ Held' = Held
      BY <2>2, <2>3, <2>7
    <3>2. QED
      BY <1>4, <2>1, <2>7, <3>1 DEF ByByte!Tell
  <2>8. CASE l.op # "set" /\ ~Deadlock(r, sl, p, x) /\ fr # {} /\ p \notin Servers
    <3>1. SleepOn(p, l, x, r, fr, sl)
      BY <2>2, <2>8
    <3>2. ByByte!Wait
      BY <2>1, <2>8, <3>1, SleepStep
    <3>3. QED
      BY <1>4, <3>2
  <2>9. QED
    BY <2>4, <2>5, <2>6, <2>7, <2>8
<1>8. QED
  BY <1>5, <1>6, <1>7

(* A process that wakes takes back a record that is on no list. *)
LEMMA KnownAwake ==
    ASSUME Inv, NEW p \in Procs, pc[p] \in {"call", "plock"}
    PROVE  Known(p, recs, frlock, sleeplcks)
  BY EntryAwake, HeldIs DEF Known

LEMMA KnownWakes ==
    ASSUME Inv, NEW p \in Procs, pc[p] = "asleep", chan[p] = NoRec
    PROVE  Known(p, Unrecorded(p), frlock \cup {Mine(p)}, sleeplcks \ {Mine(p)})
<1> DEFINE r == Unrecorded(p)
<1>1. Mine(p) \in sleeplcks /\ Entry(p, r, frlock \cup {Mine(p)}, sleeplcks \ {Mine(p)})
  BY EntryWakes
<1>2. r = [recs EXCEPT ![Mine(p)] = Blank]
  BY DEF Unrecorded
<1> HIDE DEF r
<1>3. ASSUME NEW f \in Files, NEW x \in ToSet(locks[f]) PROVE r[x] = recs[x]
  <2>1. x \in Recs /\ x # Mine(p)
    BY <1>1 DEF Inv, Pool
  <2>2. QED
    BY <1>2, <2>1 DEF Inv, TypeOK
<1>4. HeldBy(locks, r) = HeldBy(locks, recs)
  BY <1>3, HeldSame
<1>5. QED
  BY <1>1, <1>4, HeldIs DEF Known, r

(* cleanlocks() *)
LEMMA DropStep ==
    ASSUME Inv, NEW f \in Files, NEW P, Cleanlocks(f, P)
    PROVE  ByByte!Drop(f, P)
<1> DEFINE t == Unlocked(f, P)
           s0 == CleanStart(f)
           X == {x \in ToSet(locks[f]) : recs[x].pid \in P}
           H == {x \in Held : x[1] # f \/ x[2] \notin P}
<1>1. Stripped(s0, t, X)
  BY CleanStartOK, UnlockedFacts
<1>2. s0.recs = recs /\ s0.free = frlock /\ s0.list = locks[f]
  BY DEF CleanStart
<1>3. /\ recs' = t.recs /\ locks' = [locks EXCEPT ![f] = t.list] /\ ret' = "none" /\ req' = req
  BY DEF Cleanlocks
<1> HIDE DEF s0, t
<1>4. /\ ToSet(t.list) = ToSet(locks[f]) \ X
      /\ \A y \in Recs \ X : t.recs[y] = recs[y]
  BY <1>1, <1>2 DEF Stripped
<1>5. locks'[f] = t.list /\ \A g \in Files : g # f => locks'[g] = locks[g]
  BY <1>3 DEF Inv, TypeOK
<1>6. Pool(frlock, sleeplcks, locks) /\ FilesOK(locks, recs)
  BY DEF Inv, FilesOK
<1>7. FilesOK(locks', recs')
  BY CleanInv DEF Inv, FilesOK
<1>8. Held \subseteq Quads /\ Held' \subseteq Quads /\ H \subseteq Quads
  BY <1>6, <1>7, HeldFacts, HeldIs
<1>9. ASSUME NEW g \in Files, NEW o \in Procs, NEW b \in Byte, NEW ty \in LockType
      PROVE  <<g, o, b, ty>> \in Held' <=> <<g, o, b, ty>> \in H
  <2>1. <<g, o, b, ty>> \in Held <=> Locked(locks[g], recs, o, b, ty)
    BY <1>6, HeldFacts, HeldIs
  <2>2. <<g, o, b, ty>> \in Held' <=> Locked(locks'[g], recs', o, b, ty)
    BY <1>7, HeldFacts, HeldIs
  <2>3. <<g, o, b, ty>> \in H <=> <<g, o, b, ty>> \in Held /\ (g # f \/ o \notin P)
    OBVIOUS
  <2> HIDE DEF H
  <2>4. CASE g # f
    <3>1. \A x \in ToSet(locks[g]) : x \in Recs \ X
      BY <1>6, <2>4 DEF Pool
    <3>2. \A x \in ToSet(locks[g]) : recs'[x] = recs[x]
      BY <1>3, <1>4, <3>1
    <3>3. Locked(locks'[g], recs', o, b, ty) <=> Locked(locks[g], recs, o, b, ty)
      BY <1>5, <2>4, <3>2 DEF Locked
    <3>4. QED
      BY <2>1, <2>2, <2>3, <2>4, <3>3
  <2>5. CASE g = f
    <3>1. \A x : x \in ToSet(locks'[f]) <=> x \in ToSet(locks[f]) /\ recs[x].pid \notin P
      BY <1>4, <1>5
    <3>2. \A x \in ToSet(locks'[f]) : recs'[x] = recs[x]
      <4>1. \A x \in ToSet(locks'[f]) : x \in Recs \ X
        BY <1>6, <3>1 DEF Pool
      <4>2. QED
        BY <1>3, <1>4, <4>1
    <3>3. Locked(locks'[f], recs', o, b, ty) <=> Locked(locks[f], recs, o, b, ty) /\ o \notin P
      BY <3>1, <3>2 DEF Locked
    <3>4. QED
      BY <2>1, <2>2, <2>3, <2>5, <3>3
  <2>6. QED
    BY <2>4, <2>5
<1> HIDE DEF H
<1>10. Held' = H
  BY <1>8, <1>9, QuadsEqual
<1>11. QED
  BY <1>3, <1>10 DEF ByByte!Drop, H

(* Every step is one of ByteLocks, or none. *)
LEMMA NextStep ==
    ASSUME Inv, [Next]_vars
    PROVE  [ByByte!Next]_(ByByte!vars)
<1>1. ASSUME NEW p \in Procs, NEW l \in Requests, Call(p, l) PROVE ByByte!Next
  <2>1. /\ pc[p] = "user" /\ req' = [req EXCEPT ![p] = l] /\ ret' = "none"
        /\ recs' = recs /\ locks' = locks
    BY <1>1 DEF Call
  <2>2. Stands(p, pc[p], req[p], chan[p]) /\ req \in [Procs -> Request \cup {NoRequest}]
    BY DEF Inv, TypeOK
  <2>3. req[p] = NoRequest /\ req'[p] = l
    BY <2>1, <2>2 DEF Stands
  <2>4. Held' = Held
    BY <2>1, HeldIs
  <2>5. ByByte!Ask(p)
    BY <2>1, <2>3, <2>4 DEF ByByte!Ask
  <2>6. QED
    BY <2>5 DEF ByByte!Next
<1>2. ASSUME NEW p \in Procs, Called(p) PROVE ByByte!Next
  <2>1. pc[p] = "call" /\ Reclock(p, req[p], recs, frlock, sleeplcks)
    BY <1>2 DEF Called
  <2>2. Known(p, recs, frlock, sleeplcks)
    BY <2>1, KnownAwake
  <2>3. QED
    BY <2>1, <2>2, ReclockStep
<1>3. ASSUME NEW p \in Procs, Signal(p) PROVE ByByte!Next
  <2>1. recs' = recs /\ locks' = locks /\ req' = req /\ ret' = "none"
    BY <1>3 DEF Signal
  <2>2. ByByte!Wait
    BY <2>1, HeldIs DEF ByByte!Wait
  <2>3. QED
    BY <2>2 DEF ByByte!Next
<1>4. ASSUME NEW p \in Procs, NEW r, NEW fr, NEW sl, Known(p, r, fr, sl), req[p].op # "set",
             Refuse(p, "EINTR", r, fr, sl)
      PROVE  ByByte!Next
  <2>1. ByByte!Answer(p, "EINTR") /\ Held' = Held
    BY <1>4, RefuseStep
  <2>2. ByByte!Tell(p)
    BY <1>4, <2>1 DEF ByByte!Tell
  <2>3. QED
    BY <2>2 DEF ByByte!Next
<1>5. ASSUME NEW p \in Procs, Resume(p) PROVE ByByte!Next
  <2> DEFINE r == Unrecorded(p)
             fr == frlock \cup {Mine(p)}
             sl == sleeplcks \ {Mine(p)}
  <2>1. /\ pc[p] = "asleep" /\ chan[p] = NoRec
        /\ IF intr[p] THEN Refuse(p, "EINTR", r, fr, sl) ELSE Reclock(p, req[p], r, fr, sl)
    BY <1>5 DEF Resume
  <2>2. Known(p, r, fr, sl)
    BY <2>1, KnownWakes
  <2> HIDE DEF r, fr, sl
  <2>3. Stands(p, pc[p], req[p], chan[p])
    BY DEF Inv
  <2>4. req[p].op # "set"
    BY <2>1, <2>3 DEF Stands
  <2>5. QED
    BY <1>4, <2>1, <2>2, <2>4, ReclockStep
<1>6. ASSUME NEW p \in Procs, Plock(p) PROVE ByByte!Next
  <2>1. /\ pc[p] = "asleep" /\ chan[p] = NoRec
        /\ recs' = Unrecorded(p) /\ locks' = locks /\ req' = req /\ ret' = "none"
    BY <1>6 DEF Plock
  <2>2. Held = HeldBy(locks, Unrecorded(p))
    BY <2>1, KnownWakes DEF Known
  <2>3. Held' = Held
    BY <2>1, <2>2, HeldIs
  <2>4. ByByte!Wait
    BY <2>1, <2>3 DEF ByByte!Wait
  <2>5. QED
    BY <2>4 DEF ByByte!Next
<1>7. ASSUME NEW p \in Procs, Plocked(p) PROVE ByByte!Next
  <2>1. /\ pc[p] = "plock"
        /\ IF intr[p] THEN Refuse(p, "EINTR", recs, frlock, sleeplcks)
           ELSE Reclock(p, req[p], recs, frlock, sleeplcks)
    BY <1>7 DEF Plocked
  <2>2. Known(p, recs, frlock, sleeplcks)
    BY <2>1, KnownAwake
  <2>3. Stands(p, pc[p], req[p], chan[p])
    BY DEF Inv
  <2>4. req[p].op # "set"
    BY <2>1, <2>3 DEF Stands
  <2>5. QED
    BY <1>4, <2>1, <2>2, <2>4, ReclockStep
<1>8. ASSUME NEW p \in Procs, NEW f \in Files, Close(p, f) PROVE ByByte!Next
  <2>1. Cleanlocks(f, {p})
    BY <1>8 DEF Close
  <2>2. ByByte!Drop(f, {p})
    BY <2>1, DropStep
  <2>3. QED
    BY <2>2 DEF ByByte!Next
<1>9. ASSUME NEW f \in Files, CleanSystem(f) PROVE ByByte!Next
  <2>1. Cleanlocks(f, Servers)
    BY <1>9 DEF CleanSystem
  <2>2. ByByte!Drop(f, Servers)
    BY <2>1, DropStep
  <2>3. QED
    BY <2>2 DEF ByByte!Next
<1>10. CASE UNCHANGED vars
  <2>1. recs' = recs /\ locks' = locks /\ req' = req /\ ret' = ret
    BY <1>10 DEF vars
  <2>2. UNCHANGED ByByte!vars
    BY <2>1, HeldIs DEF ByByte!vars
  <2>3. QED
    BY <2>2
<1>11. QED
  BY <1>1, <1>2, <1>3, <1>5, <1>6, <1>7, <1>8, <1>9, <1>10 DEF Next

LEMMA InitStep ==
    ASSUME Init
    PROVE  ByByte!Init
<1>1. \A f \in Files : ToSet(locks[f]) = {}
  BY DEF Init, ToSet
<1>2. Held = {}
  BY <1>1 DEF Held
<1>3. QED
  BY <1>2 DEF Init, ByByte!Init

(* Lists of lock records that flckadj splits, trims and joins are to their *)
(* owners what a lock on each byte would be; a request that runs out of    *)
(* records leaves what is outside of it alone, and what is inside locked   *)
(* as it was or not at all.                                                *)
THEOREM LocksImplemented == Spec => ImplementsByteLocks
<1>1. Init => ByByte!Init
  BY InitStep
<1>2. Inv /\ [Next]_vars => [ByByte!Next]_(ByByte!vars)
  BY NextStep
<1>3. QED
  BY <1>1, <1>2, Invariance, PTL DEF Spec, ByByte!Spec, ImplementsByteLocks

-----------------------------------------------------------------------------
(* What ByteLocks promises is enough: a subset of the locks is as          *)
(* exclusive as they are.                                                  *)
LEMMA FewerLocks ==
    ASSUME ByByte!Exclusive, Held' \subseteq Held
    PROVE  ByByte!Exclusive'
  BY DEF ByByte!Exclusive, ByByte!Against

(* A lock is only granted if it is compatible with those that are there. *)
LEMMA LockExclusive ==
    ASSUME NEW p, ByByte!Exclusive, ByByte!Lock(p)
    PROVE  ByByte!Exclusive'
<1> DEFINE l == req[p]
           B == l.start..l.end
           new == {<<l.file, p, b, l.type>> : b \in B}
           old == ByByte!Without(l.file, p, B)
<1>1. Held' = old \cup new /\ old \subseteq Held
  BY DEF ByByte!Lock, ByByte!Without
<1>2. ASSUME NEW x \in Held', NEW y \in Held', x[1] = y[1], x[3] = y[3], x[2] # y[2]
      PROVE  ~ByByte!Against(x[4], y[4])
  <2>1. CASE x \in old /\ y \in old
    BY <1>1, <1>2, <2>1 DEF ByByte!Exclusive
  <2>2. ~(x \in new /\ y \in new)
    BY <1>2
  <2>3. ASSUME NEW v \in new, NEW w \in old, v[1] = w[1], v[3] = w[3], v[2] # w[2]
        PROVE  ~ByByte!Against(v[4], w[4])
    <3>1. v[1] = l.file /\ v[2] = p /\ v[3] \in B /\ v[4] = l.type
      BY <2>3
    <3>2. w \in Held /\ w[1] = req[p].file /\ w[2] # p /\ w[3] \in req[p].start..req[p].end
      BY <1>1, <2>3, <3>1
    <3>3. ByByte!Clear(p)
      BY DEF ByByte!Lock
    <3>4. ~ByByte!Against(req[p].type, w[4])
      BY <3>2, <3>3 DEF ByByte!Clear
    <3>5. QED
      BY <3>1, <3>4
  <2>4. CASE x \in new /\ y \in old
    BY <1>2, <2>3, <2>4
  <2>5. CASE x \in old /\ y \in new
    BY <1>2, <2>3, <2>5 DEF ByByte!Against
  <2>6. QED
    BY <1>1, <2>1, <2>2, <2>4, <2>5
<1>3. QED
  BY <1>2 DEF ByByte!Exclusive

LEMMA ExclusiveStep ==
    ASSUME ByByte!Exclusive, [ByByte!Next]_(ByByte!vars)
    PROVE  ByByte!Exclusive'
<1>1. ASSUME NEW p \in Procs, ByByte!Ask(p) PROVE ByByte!Exclusive'
  BY <1>1, FewerLocks DEF ByByte!Ask
<1>2. ASSUME NEW p \in Procs, ByByte!Unlock(p) PROVE ByByte!Exclusive'
  BY <1>2, FewerLocks DEF ByByte!Unlock, ByByte!Without
<1>3. ASSUME NEW p \in Procs, ByByte!Lock(p) PROVE ByByte!Exclusive'
  BY <1>3, LockExclusive
<1>4. ASSUME NEW p \in Procs, ByByte!RunOut(p) PROVE ByByte!Exclusive'
  BY <1>4, FewerLocks DEF ByByte!RunOut, ByByte!Without
<1>5. ASSUME NEW p \in Procs, ByByte!Tell(p) PROVE ByByte!Exclusive'
  BY <1>5, FewerLocks DEF ByByte!Tell
<1>6. ASSUME NEW f, NEW P, ByByte!Drop(f, P) PROVE ByByte!Exclusive'
  BY <1>6, FewerLocks DEF ByByte!Drop
<1>7. CASE ByByte!Wait
  BY <1>7, FewerLocks DEF ByByte!Wait
<1>8. CASE UNCHANGED ByByte!vars
  BY <1>8, FewerLocks DEF ByByte!vars
<1>9. QED
  BY <1>1, <1>2, <1>3, <1>4, <1>5, <1>6, <1>7, <1>8 DEF ByByte!Next

(* No byte of a file is ever locked by two owners, one of them for         *)
(* writing: reclock grants a lock only when nobody else's is in its way,   *)
(* and flckadj gives an owner no byte it did not ask for.                  *)
THEOREM AlwaysExclusive == Spec => []ByByte!Exclusive
<1>1. ByByte!Init => ByByte!Exclusive
  BY DEF ByByte!Init, ByByte!Exclusive
<1>2. ByByte!Exclusive /\ [ByByte!Next]_(ByByte!vars) => ByByte!Exclusive'
  BY ExclusiveStep
<1>3. Spec => ByByte!Spec
  BY LocksImplemented DEF ImplementsByteLocks
<1>4. QED
  BY <1>1, <1>2, <1>3, PTL DEF ByByte!Spec
=============================================================================
