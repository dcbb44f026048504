---------------------------- MODULE Messages_proofs ----------------------------
(***************************************************************************)
(* Proofs about resource maps and Messages: no segment is in two texts,    *)
(* none is lost while the map has slots, whoever sleeps has a reason to,   *)
(* and the queues are those of MessageQueues.                              *)
(***************************************************************************)
EXTENDS Messages, SeqLemmas

Span == [addr : Int, size : Int]
Map(m) == m \in Seq(Span) /\ InOrder(m)

LEMMA MapSpans ==
    ASSUME NEW m, Map(m)
    PROVE  /\ Len(m) \in Nat /\ DOMAIN m = 1..Len(m)
           /\ \A i \in DOMAIN m : m[i].addr \in Int /\ m[i].size \in Int /\ m[i].addr > 0
                /\ m[i].size > 0 /\ m[i] = Range_(m[i].addr, m[i].size)
           /\ \A i, j \in DOMAIN m : i < j => m[i].addr + m[i].size < m[j].addr
<1>1. \A i \in DOMAIN m : m[i] \in Span
  BY DEF Map
<1>2. QED
  BY <1>1 DEF Map, Span, InOrder, Range_

LEMMA InUnits ==
    ASSUME NEW m, Map(m), NEW u \in Int
    PROVE  u \in UnitsOf(m) <=> \E i \in DOMAIN m : m[i].addr <= u /\ u < m[i].addr + m[i].size
<1>1. \A i \in DOMAIN m : u \in Units(m[i].addr, m[i].size) <=>
            (m[i].addr <= u /\ u < m[i].addr + m[i].size)
  BY MapSpans DEF Units
<1>2. QED
  BY <1>1 DEF UnitsOf

LEMMA UnitsAreInt ==
    ASSUME NEW m, Map(m)
    PROVE  UnitsOf(m) \subseteq Int
<1>1. \A i \in DOMAIN m : Units(m[i].addr, m[i].size) \subseteq Int
  BY MapSpans DEF Units
<1>2. QED
  BY <1>1 DEF UnitsOf

(* The ranges below an address are the first ones. *)
LEMMA BelowFacts ==
    ASSUME NEW m, Map(m), NEW a \in Int
    PROVE  /\ Below(m, a) \in 0..Len(m)
           /\ \A j \in DOMAIN m : j <= Below(m, a) <=> m[j].addr <= a
<1> DEFINE S == {i \in DOMAIN m : m[i].addr <= a}
           Out == {i \in 1..(Len(m) + 1) : i \notin S}
           k == Min(Out)
<1>1. Len(m) \in Nat /\ DOMAIN m = 1..Len(m) /\ Len(m) + 1 \in Out
  BY MapSpans
<1>2. k \in Out /\ \A y \in Out : k <= y
  <2>1. Out \in SUBSET Nat /\ Out # {}
    BY <1>1
  <2> HIDE DEF Out
  <2>2. QED
    BY <2>1, LeastFacts
<1> HIDE DEF k
<1>3. k \in 1..(Len(m) + 1) /\ k \notin S
  BY <1>2
<1>4. ASSUME NEW j \in DOMAIN m PROVE j < k <=> j \in S
  <2>1. CASE j < k
    BY <1>1, <1>2, <1>3, <2>1
  <2>2. CASE j = k
    BY <1>3, <2>2
  <2>3. CASE j > k
    <3>1. k \in DOMAIN m /\ m[k].addr > a
      BY <1>1, <1>3, <2>3, MapSpans
    <3>2. m[k].addr + m[k].size < m[j].addr
      BY <3>1, <2>3, MapSpans
    <3>3. m[j].addr > a
      BY <3>1, <3>2, MapSpans
    <3>4. QED
      BY <3>3, <2>3, <1>3, MapSpans
  <2>4. QED
    BY <1>1, <1>3, <2>1, <2>2, <2>3
<1>5. S = 1..(k - 1)
  <2>1. \A j \in S : j \in 1..(k - 1)
    BY <1>1, <1>3, <1>4
  <2>2. \A j \in 1..(k - 1) : j \in S
    BY <1>1, <1>3, <1>4
  <2>3. QED
    BY <2>1, <2>2
<1>6. Cardinality(1..(k - 1)) = k - 1
  <2>1. 1 \in Int /\ k - 1 \in Int /\ k - 1 >= 0
    BY <1>3, <1>1
  <2>2. QED
    BY <2>1, FS_Interval
<1>7. Below(m, a) = k - 1
  BY <1>5, <1>6 DEF Below
<1>8. QED
  BY <1>1, <1>3, <1>4, <1>7

LEMMA InsertAtPlaces ==
    ASSUME NEW S, NEW s \in Seq(S), NEW i \in 1..(Len(s) + 1), NEW e \in S
    PROVE  /\ InsertAt(s, i, e) \in Seq(S) /\ Len(InsertAt(s, i, e)) = Len(s) + 1
           /\ \A j \in 1..(i - 1) : InsertAt(s, i, e)[j] = s[j]
           /\ InsertAt(s, i, e)[i] = e
           /\ \A j \in (i + 1)..(Len(s) + 1) : InsertAt(s, i, e)[j] = s[j - 1]
<1> DEFINE x == SubSeq(s, 1, i - 1)
           y == SubSeq(s, i, Len(s))
           z == <<e>>
           xz == x \o z
           r == xz \o y
<1>1. i \in Int /\ 1 <= i /\ i <= Len(s) + 1 /\ Len(s) \in Nat /\ DOMAIN s = 1..Len(s)
  OBVIOUS
<1>2. /\ x \in Seq(S) /\ Len(x) = i - 1
      /\ \A j \in 1..(i - 1) : x[j] = s[j]
  BY <1>1, SubSeqProperties
<1>3. /\ y \in Seq(S) /\ Len(y) = Len(s) - i + 1
      /\ \A j \in 1..(Len(s) - i + 1) : y[j] = s[i + j - 1]
  BY <1>1, SubSeqProperties
<1>4. z \in Seq(S) /\ Len(z) = 1 /\ z[1] = e
  OBVIOUS
<1> HIDE DEF x, y, z
<1>5. /\ xz \in Seq(S) /\ Len(xz) = i
      /\ \A j \in 1..i : xz[j] = IF j < i THEN s[j] ELSE e
  <2>1. /\ xz \in Seq(S) /\ Len(xz) = Len(x) + Len(z)
        /\ \A j \in 1..(Len(x) + Len(z)) : xz[j] = IF j <= Len(x) THEN x[j] ELSE z[j - Len(x)]
    BY <1>2, <1>4, ConcatProperties
  <2>2. QED
    BY <1>1, <1>2, <1>4, <2>1
<1> HIDE DEF xz
<1>6. /\ r \in Seq(S) /\ Len(r) = Len(s) + 1
      /\ \A j \in 1..(Len(s) + 1) : r[j] = IF j < i THEN s[j] ELSE IF j = i THEN e ELSE s[j - 1]
  <2>1. /\ r \in Seq(S) /\ Len(r) = Len(xz) + Len(y)
        /\ \A j \in 1..(Len(xz) + Len(y)) : r[j] = IF j <= Len(xz) THEN xz[j] ELSE y[j - Len(xz)]
    BY <1>3, <1>5, ConcatProperties
  <2> HIDE DEF r
  <2>2. ASSUME NEW j \in 1..(Len(s) + 1)
        PROVE  r[j] = IF j < i THEN s[j] ELSE IF j = i THEN e ELSE s[j - 1]
    <3>1. CASE j <= i
      BY <1>1, <1>3, <1>5, <2>1, <3>1
    <3>2. CASE j > i
      <4>1. j - i \in 1..(Len(s) - i + 1) /\ i + (j - i) - 1 = j - 1
        BY <1>1, <3>2
      <4>2. r[j] = y[j - i]
        BY <1>1, <1>3, <1>5, <2>1, <3>2
      <4>3. QED
        BY <1>3, <3>2, <4>1, <4>2
    <3>3. QED
      BY <1>1, <3>1, <3>2
  <2>3. QED
    BY <1>1, <1>3, <1>5, <2>1, <2>2
<1>7. InsertAt(s, i, e) = r
  BY DEF InsertAt, r, xz, x, y, z
<1> HIDE DEF r
<1>8. QED
  BY <1>1, <1>6, <1>7

(* What is given back lies between the ranges below it and the others. *)
LEMMA Apart ==
    ASSUME NEW m, Map(m), NEW a \in Int, NEW k \in Int, k > 0, Units(a, k) \cap UnitsOf(m) = {}
    PROVE  /\ Below(m, a) \in 0..Len(m)
           /\ \A j \in DOMAIN m : j <= Below(m, a) => m[j].addr + m[j].size <= a
           /\ \A j \in DOMAIN m : j > Below(m, a) => a + k <= m[j].addr
<1>1. Below(m, a) \in 0..Len(m) /\ \A j \in DOMAIN m : j <= Below(m, a) <=> m[j].addr <= a
  BY BelowFacts
<1>2. ASSUME NEW j \in DOMAIN m, NEW u \in Int, m[j].addr <= u, u < m[j].addr + m[j].size
      PROVE  ~(a <= u /\ u < a + k)
  <2>1. u \in UnitsOf(m)
    BY <1>2, InUnits
  <2>2. u \notin Units(a, k)
    BY <2>1
  <2>3. QED
    BY <2>2 DEF Units
<1>3. ASSUME NEW j \in DOMAIN m, j <= Below(m, a) PROVE m[j].addr + m[j].size <= a
  <2>1. m[j].addr <= a /\ m[j].addr \in Int /\ m[j].size \in Int
    BY <1>1, <1>3, MapSpans
  <2>2. QED
    BY <2>1, <1>2
<1>4. ASSUME NEW j \in DOMAIN m, j > Below(m, a) PROVE a + k <= m[j].addr
  <2>1. /\ m[j].addr > a /\ m[j].addr \in Int /\ m[j].size \in Int /\ m[j].size > 0
    BY <1>1, <1>4, MapSpans
  <2>2. QED
    BY <2>1, <1>2
<1>5. QED
  BY <1>1, <1>3, <1>4

(* A map that differs from m in one place, by units a..a+k-1 more. *)
Adds(m, r, k, a) ==
    /\ Map(r)
    /\ UnitsOf(r) = UnitsOf(m) \cup Units(a, k)

LEMMA AddsWhen ==
    ASSUME NEW m, Map(m), NEW r, Map(r), NEW a \in Int, NEW k \in Int,
           \A u \in Int :
                (\E j \in DOMAIN r : r[j].addr <= u /\ u < r[j].addr + r[j].size)
                <=> \/ \E j \in DOMAIN m : m[j].addr <= u /\ u < m[j].addr + m[j].size
                    \/ a <= u /\ u < a + k
    PROVE  Adds(m, r, k, a)
<1>1. UnitsOf(r) \subseteq Int /\ UnitsOf(m) \subseteq Int /\ Units(a, k) \subseteq Int
  BY UnitsAreInt DEF Units
<1>2. \A u \in Int : u \in Units(a, k) <=> a <= u /\ u < a + k
  BY DEF Units
<1>3. \A u \in Int : u \in UnitsOf(r) <=> u \in UnitsOf(m) \/ u \in Units(a, k)
  BY <1>2, InUnits
<1>4. QED
  BY <1>1, <1>3 DEF Adds

LEMMA InsertedFacts ==
    ASSUME NEW m, Map(m), NEW a \in Int, NEW k \in Int, k > 0, a > 0, NEW i \in 0..Len(m),
           \A j \in DOMAIN m : j <= i => m[j].addr + m[j].size < a,
           \A j \in DOMAIN m : j > i => a + k < m[j].addr
    PROVE  Adds(m, InsertAt(m, i + 1, Range_(a, k)), k, a)
           /\ Len(InsertAt(m, i + 1, Range_(a, k))) = Len(m) + 1
<1> DEFINE e == Range_(a, k)
           r == InsertAt(m, i + 1, e)
<1>1. /\ m \in Seq(Span) /\ Len(m) \in Nat /\ DOMAIN m = 1..Len(m)
      /\ i + 1 \in 1..(Len(m) + 1) /\ e \in Span /\ e.addr = a /\ e.size = k
  BY MapSpans DEF Map, Span, Range_
<1> HIDE DEF e
<1>2. /\ r \in Seq(Span) /\ Len(r) = Len(m) + 1 /\ DOMAIN r = 1..(Len(m) + 1)
      /\ \A j \in 1..i : r[j] = m[j]
      /\ r[i + 1] = e
      /\ \A j \in (i + 2)..(Len(m) + 1) : r[j] = m[j - 1]
  <2> DEFINE h == i + 1
  <2>1. h \in 1..(Len(m) + 1) /\ m \in Seq(Span) /\ e \in Span
    BY <1>1
  <2>2. h - 1 = i /\ h + 1 = i + 2
    BY <1>1
  <2> HIDE DEF h
  <2>3. /\ InsertAt(m, h, e) \in Seq(Span) /\ Len(InsertAt(m, h, e)) = Len(m) + 1
        /\ \A j \in 1..(h - 1) : InsertAt(m, h, e)[j] = m[j]
        /\ InsertAt(m, h, e)[h] = e
        /\ \A j \in (h + 1)..(Len(m) + 1) : InsertAt(m, h, e)[j] = m[j - 1]
    <3>1. InsertAt(m, h, e) \in Seq(Span) /\ Len(InsertAt(m, h, e)) = Len(m) + 1
      BY ONLY <2>1, InsertAtPlaces
    <3>2. \A j \in 1..(h - 1) : InsertAt(m, h, e)[j] = m[j]
      BY ONLY <2>1, InsertAtPlaces
    <3>3. InsertAt(m, h, e)[h] = e
      BY ONLY <2>1, InsertAtPlaces
    <3>4. \A j \in (h + 1)..(Len(m) + 1) : InsertAt(m, h, e)[j] = m[j - 1]
      BY ONLY <2>1, InsertAtPlaces
    <3>5. QED
      BY <3>1, <3>2, <3>3, <3>4
  <2>4. r = InsertAt(m, h, e)
    BY DEF h
  <2> HIDE DEF r
  <2>5. h = i + 1
    BY DEF h
  <2>6. DOMAIN r = 1..(Len(m) + 1)
    BY <1>1, <2>3, <2>4
  <2>7. QED
    BY ONLY <2>2, <2>3, <2>4, <2>5, <2>6
<1> HIDE DEF r
<1>3. \A j \in DOMAIN r : j < i + 1 => j \in DOMAIN m /\ r[j] = m[j]
  BY <1>1, <1>2
<1>4. \A j \in DOMAIN r : j > i + 1 => j - 1 \in DOMAIN m /\ r[j] = m[j - 1] /\ j - 1 > i
  BY <1>1, <1>2
<1>5. i + 1 \in DOMAIN r /\ r[i + 1] = e
  BY <1>1, <1>2
<1>6. Map(r)
  <2>1. ASSUME NEW j \in DOMAIN r PROVE r[j].addr > 0 /\ r[j].size > 0
    <3>1. CASE j < i + 1
      BY <1>3, <3>1, MapSpans
    <3>2. CASE j = i + 1
      BY <1>1, <1>5, <3>2
    <3>3. CASE j > i + 1
      BY <1>4, <3>3, MapSpans
    <3>4. QED
      BY <1>2, <3>1, <3>2, <3>3
  <2>2. ASSUME NEW j \in DOMAIN r, NEW l \in DOMAIN r, j < l PROVE r[j].addr + r[j].size < r[l].addr
    <3>1. CASE l < i + 1
      <4>1. j < i + 1
        BY <1>2, <2>2, <3>1
      <4>2. QED
        BY <1>3, <2>2, <3>1, <4>1, MapSpans
    <3>2. CASE l = i + 1
      <4>1. j \in DOMAIN m /\ j <= i /\ r[j] = m[j] /\ r[l].addr = a
        BY <1>1, <1>2, <1>3, <1>5, <2>2, <3>2
      <4>2. QED
        BY <4>1
    <3>3. CASE l > i + 1
      <4>1. l - 1 \in DOMAIN m /\ r[l] = m[l - 1] /\ l - 1 > i
        BY <1>4, <3>3
      <4>2. CASE j = i + 1
        BY <1>1, <1>5, <4>1, <4>2
      <4>3. CASE j < i + 1
        <5>1. j \in DOMAIN m /\ r[j] = m[j] /\ j < l - 1
          BY <1>1, <1>2, <1>3, <4>1, <4>3
        <5>2. QED
          BY <4>1, <5>1, MapSpans
      <4>4. CASE j > i + 1
        <5>1. j - 1 \in DOMAIN m /\ r[j] = m[j - 1] /\ j - 1 < l - 1
          BY <1>2, <1>4, <2>2, <4>4
        <5>2. QED
          BY <4>1, <5>1, MapSpans
      <4>5. QED
        BY <1>2, <4>2, <4>3, <4>4
    <3>4. QED
      BY <1>2, <3>1, <3>2, <3>3
  <2>3. QED
    BY <1>2, <2>1, <2>2 DEF Map, InOrder
<1>7. ASSUME NEW u \in Int
      PROVE (\E j \in DOMAIN r : r[j].addr <= u /\ u < r[j].addr + r[j].size)
                <=> \/ \E j \in DOMAIN m : m[j].addr <= u /\ u < m[j].addr + m[j].size
                    \/ a <= u /\ u < a + k
  <2>1. ASSUME NEW j \in DOMAIN m, m[j].addr <= u /\ u < m[j].addr + m[j].size
        PROVE  \E l \in DOMAIN r : r[l].addr <= u /\ u < r[l].addr + r[l].size
    <3>1. CASE j <= i
      <4>1. j \in DOMAIN r /\ r[j] = m[j]
        BY <1>1, <1>2, <3>1
      <4>2. QED
        BY <2>1, <4>1
    <3>2. CASE j > i
      <4>1. j + 1 \in DOMAIN r /\ r[j + 1] = m[j]
        <5>1. j + 1 \in 1..(Len(m) + 1) /\ j + 1 > i + 1 /\ (j + 1) - 1 = j
          BY <1>1, <3>2
        <5>2. QED
          BY <1>2, <5>1
      <4>2. QED
        BY <2>1, <4>1
    <3>3. QED
      BY <1>1, <3>1, <3>2
  <2>2. ASSUME a <= u /\ u < a + k
        PROVE  \E l \in DOMAIN r : r[l].addr <= u /\ u < r[l].addr + r[l].size
    BY <1>1, <1>5, <2>2
  <2>3. ASSUME NEW l \in DOMAIN r, r[l].addr <= u /\ u < r[l].addr + r[l].size
        PROVE  \/ \E j \in DOMAIN m : m[j].addr <= u /\ u < m[j].addr + m[j].size
               \/ a <= u /\ u < a + k
    <3>1. CASE l < i + 1
      BY <1>3, <2>3, <3>1
    <3>2. CASE l = i + 1
      BY <1>1, <1>5, <2>3, <3>2
    <3>3. CASE l > i + 1
      BY <1>4, <2>3, <3>3
    <3>4. QED
      BY <1>2, <3>1, <3>2, <3>3
  <2>4. QED
    BY <2>1, <2>2, <2>3
<1>8. Adds(m, r, k, a)
  BY <1>6, <1>7, AddsWhen
<1>9. QED
  BY <1>2, <1>8 DEF r, e

(* The units follow a range, ... *)
LEMMA JoinBefore ==
    ASSUME NEW m, Map(m), NEW a \in Int, NEW k \in Int, k > 0, NEW i \in DOMAIN m,
           m[i].addr + m[i].size = a,
           \A j \in DOMAIN m : j > i => a + k < m[j].addr
    PROVE  Adds(m, [m EXCEPT ![i].size = @ + k], k, a)
<1> DEFINE r == [m EXCEPT ![i].size = @ + k]
<1>1. /\ m \in Seq(Span) /\ Len(m) \in Nat /\ DOMAIN m = 1..Len(m) /\ i \in Int
      /\ m[i] \in Span
  BY MapSpans DEF Map
<1>2. /\ DOMAIN r = DOMAIN m
      /\ r[i].addr = m[i].addr /\ r[i].size = m[i].size + k /\ r[i] \in Span
      /\ \A j \in DOMAIN m : j # i => r[j] = m[j]
  BY <1>1 DEF Span
<1>3. r \in Seq(Span)
  BY <1>1, <1>2
<1> HIDE DEF r
<1>4. Map(r)
  <2>1. ASSUME NEW j \in DOMAIN r PROVE r[j].addr > 0 /\ r[j].size > 0
    BY <1>2, MapSpans
  <2>2. ASSUME NEW j \in DOMAIN r, NEW l \in DOMAIN r, j < l PROVE r[j].addr + r[j].size < r[l].addr
    <3>1. r[l].addr = m[l].addr
      BY <1>2
    <3>2. CASE j = i
      BY <1>2, <2>2, <3>1, <3>2, MapSpans
    <3>3. CASE j # i
      BY <1>2, <2>2, <3>1, <3>3, MapSpans
    <3>4. QED
      BY <3>2, <3>3
  <2>3. QED
    BY <1>3, <2>1, <2>2 DEF Map, InOrder
<1>5. ASSUME NEW u \in Int
      PROVE (\E j \in DOMAIN r : r[j].addr <= u /\ u < r[j].addr + r[j].size)
                <=> \/ \E j \in DOMAIN m : m[j].addr <= u /\ u < m[j].addr + m[j].size
                    \/ a <= u /\ u < a + k
  <2>1. ASSUME NEW j \in DOMAIN m
        PROVE  (r[j].addr <= u /\ u < r[j].addr + r[j].size)
                <=> \/ m[j].addr <= u /\ u < m[j].addr + m[j].size
                    \/ j = i /\ a <= u /\ u < a + k
    <3>1. m[j].addr \in Int /\ m[j].size \in Int /\ m[j].size > 0
      BY MapSpans
    <3>2. CASE j = i
      <4>1. r[j].addr = m[j].addr /\ r[j].size = m[j].size + k /\ m[j].addr + m[j].size = a
        BY <1>2, <3>2
      <4>2. QED
        BY ONLY <3>1, <3>2, <4>1, u \in Int, a \in Int, k \in Int, k > 0
    <3>3. CASE j # i
      BY <1>2, <3>3
    <3>4. QED
      BY <3>2, <3>3
  <2>2. QED
    BY <1>2, <2>1
<1>6. QED
  BY <1>4, <1>5, AddsWhen DEF r

(* ... or are followed by one, ... *)
LEMMA JoinBehind ==
    ASSUME NEW m, Map(m), NEW a \in Int, NEW k \in Int, k > 0, a > 0, NEW i \in DOMAIN m,
           m[i].addr = a + k,
           \A j \in DOMAIN m : j < i => m[j].addr + m[j].size < a
    PROVE  Adds(m, [m EXCEPT ![i] = Range_(a, @.size + k)], k, a)
<1> DEFINE r == [m EXCEPT ![i] = Range_(a, @.size + k)]
<1>1. /\ m \in Seq(Span) /\ Len(m) \in Nat /\ DOMAIN m = 1..Len(m) /\ i \in Int
      /\ m[i] \in Span
  BY MapSpans DEF Map
<1>2. /\ DOMAIN r = DOMAIN m
      /\ r[i].addr = a /\ r[i].size = m[i].size + k /\ r[i] \in Span
      /\ \A j \in DOMAIN m : j # i => r[j] = m[j]
  BY <1>1 DEF Span, Range_
<1>3. r \in Seq(Span)
  BY <1>1, <1>2
<1> HIDE DEF r
<1>4. Map(r)
  <2>1. ASSUME NEW j \in DOMAIN r PROVE r[j].addr > 0 /\ r[j].size > 0
    BY <1>2, MapSpans
  <2>2. ASSUME NEW j \in DOMAIN r, NEW l \in DOMAIN r, j < l PROVE r[j].addr + r[j].size < r[l].addr
    <3>1. r[j].addr + r[j].size = m[j].addr + m[j].size
      <4>1. m[i].size \in Int
        BY MapSpans
      <4>2. CASE j = i
        BY <1>2, <4>1, <4>2
      <4>3. CASE j # i
        BY <1>2, <4>3
      <4>4. QED
        BY <4>2, <4>3
    <3>2. CASE l = i
      BY <1>2, <2>2, <3>1, <3>2, MapSpans
    <3>3. CASE l # i
      BY <1>2, <2>2, <3>1, <3>3, MapSpans
    <3>4. QED
      BY <3>2, <3>3
  <2>3. QED
    BY <1>3, <2>1, <2>2 DEF Map, InOrder
<1>5. ASSUME NEW u \in Int
      PROVE (\E j \in DOMAIN r : r[j].addr <= u /\ u < r[j].addr + r[j].size)
                <=> \/ \E j \in DOMAIN m : m[j].addr <= u /\ u < m[j].addr + m[j].size
                    \/ a <= u /\ u < a + k
  <2>1. ASSUME NEW j \in DOMAIN m
        PROVE  (r[j].addr <= u /\ u < r[j].addr + r[j].size)
                <=> \/ m[j].addr <= u /\ u < m[j].addr + m[j].size
                    \/ j = i /\ a <= u /\ u < a + k
    <3>1. m[j].addr \in Int /\ m[j].size \in Int /\ m[j].size > 0
      BY MapSpans
    <3>2. CASE j = i
      <4>1. r[j].addr = a /\ r[j].size = m[j].size + k /\ m[j].addr = a + k
        BY <1>2, <3>2
      <4>2. QED
        BY ONLY <3>1, <3>2, <4>1, u \in Int, a \in Int, k \in Int, k > 0
    <3>3. CASE j # i
      BY <1>2, <3>3
    <3>4. QED
      BY <3>2, <3>3
  <2>2. QED
    BY <1>2, <2>1
<1>6. QED
  BY <1>4, <1>5, AddsWhen DEF r

(* ... or both.                                                            *)
LEMMA JoinBoth ==
    ASSUME NEW m, Map(m), NEW a \in Int, NEW k \in Int, k > 0, NEW i \in DOMAIN m,
           i + 1 \in DOMAIN m, m[i].addr + m[i].size = a, m[i + 1].addr = a + k
    PROVE  Adds(m, RemoveAt([m EXCEPT ![i].size = @ + k + m[i + 1].size], i + 1), k, a)
<1> DEFINE n == [m EXCEPT ![i].size = @ + k + m[i + 1].size]
           h == i + 1
           r == RemoveAt(n, h)
<1>1. /\ m \in Seq(Span) /\ Len(m) \in Nat /\ DOMAIN m = 1..Len(m) /\ i \in Int
      /\ m[i] \in Span /\ m[i + 1] \in Span
  BY MapSpans DEF Map
<1>2. /\ DOMAIN n = DOMAIN m
      /\ n[i].addr = m[i].addr /\ n[i].size = m[i].size + k + m[i + 1].size /\ n[i] \in Span
      /\ \A j \in DOMAIN m : j # i => n[j] = m[j]
  <2> DEFINE z == m[i].size + k + m[i + 1].size
  <2>1. z \in Int
    BY <1>1 DEF Span
  <2>2. n = [m EXCEPT ![i] = [m[i] EXCEPT !.size = z]]
    BY <1>1
  <2>3. [m[i] EXCEPT !.size = z].addr = m[i].addr /\ [m[i] EXCEPT !.size = z].size = z
        /\ [m[i] EXCEPT !.size = z] \in Span
    <3> HIDE DEF z
    <3> QED
      BY <1>1, <2>1 DEF Span
  <2> HIDE DEF n
  <2>4. DOMAIN n = DOMAIN m /\ n[i] = [m[i] EXCEPT !.size = z] /\ \A j \in DOMAIN m : j # i => n[j] = m[j]
    <3> HIDE DEF z
    <3> QED
      BY <1>1, <2>2
  <2>5. QED
    BY <2>3, <2>4
<1>3. n \in Seq(Span) /\ Len(n) = Len(m)
  BY <1>1, <1>2
<1> HIDE DEF n
<1>h. h \in DOMAIN n /\ h = i + 1 /\ DOMAIN n = 1..Len(m)
  BY <1>1, <1>2
<1> HIDE DEF h
<1>4. r \in Seq(Span) /\ Len(r) = Len(n) - 1
  BY ONLY <1>3, <1>h, RemoveAtPlaces
<1>5. \A j \in 1..Len(r) : r[j] = IF j < h THEN n[j] ELSE n[j + 1]
  BY ONLY <1>3, <1>h, RemoveAtPlaces
<1> HIDE DEF r
<1>6. DOMAIN r = 1..(Len(m) - 1)
  BY <1>1, <1>3, <1>4
<1>7. /\ \A j \in DOMAIN r : j < i => j \in DOMAIN m /\ r[j] = m[j]
      /\ \A j \in DOMAIN r : j > i => j + 1 \in DOMAIN m /\ r[j] = m[j + 1]
      /\ i \in DOMAIN r /\ r[i] = n[i]
  <2>1. ASSUME NEW j \in DOMAIN r, j < i PROVE j \in DOMAIN m /\ r[j] = m[j]
    <3>1. j \in 1..Len(r) /\ j \in 1..Len(m) /\ j < h /\ j # i
      BY <1>1, <1>3, <1>4, <1>6, <1>h, <2>1
    <3>2. QED
      BY <1>1, <1>2, <1>5, <3>1
  <2>2. ASSUME NEW j \in DOMAIN r, j > i PROVE j + 1 \in DOMAIN m /\ r[j] = m[j + 1]
    <3>1. j \in 1..Len(r) /\ j + 1 \in 1..Len(m) /\ ~(j < h) /\ j + 1 # i
      BY <1>1, <1>3, <1>4, <1>6, <1>h, <2>2
    <3>2. QED
      BY <1>1, <1>2, <1>5, <3>1
  <2>3. i \in DOMAIN r /\ i \in 1..Len(r) /\ i < h
    BY <1>1, <1>3, <1>4, <1>6, <1>h
  <2>4. QED
    BY <1>5, <2>1, <2>2, <2>3
<1>8. Map(r)
  <2>1. ASSUME NEW j \in DOMAIN r PROVE r[j].addr > 0 /\ r[j].size > 0
    <3>1. CASE j < i
      BY <1>7, <3>1, MapSpans
    <3>2. CASE j = i
      <4>1. r[j].addr = m[i].addr /\ r[j].size = m[i].size + k + m[i + 1].size
        BY <1>2, <1>7, <3>2
      <4>2. /\ m[i].addr \in Int /\ m[i].size \in Int /\ m[i + 1].size \in Int
            /\ m[i].addr > 0 /\ m[i].size > 0 /\ m[i + 1].size > 0
        BY MapSpans
      <4>3. QED
        BY ONLY <4>1, <4>2, k \in Int, k > 0
    <3>3. CASE j > i
      BY <1>7, <3>3, MapSpans
    <3>4. QED
      BY <1>1, <1>6, <3>1, <3>2, <3>3
  <2>2. ASSUME NEW j \in DOMAIN r, NEW l \in DOMAIN r, j < l PROVE r[j].addr + r[j].size < r[l].addr
    <3>0. j \in Int /\ l \in Int
      BY <1>6
    <3>1. CASE l < i
      <4>1. j \in DOMAIN m /\ r[j] = m[j] /\ l \in DOMAIN m /\ r[l] = m[l]
        BY <1>1, <1>7, <2>2, <3>0, <3>1
      <4>2. QED
        BY <2>2, <4>1, MapSpans
    <3>2. CASE l = i
      <4>1. j \in DOMAIN m /\ r[j] = m[j] /\ r[l].addr = m[i].addr
        BY <1>1, <1>2, <1>7, <2>2, <3>0, <3>2
      <4>2. QED
        BY <2>2, <3>2, <4>1, MapSpans
    <3>3. CASE l > i
      <4>1. l + 1 \in DOMAIN m /\ r[l] = m[l + 1]
        BY <1>7, <3>3
      <4>2. CASE j < i
        <5>1. j \in DOMAIN m /\ r[j] = m[j] /\ j < l + 1
          BY <1>1, <1>7, <2>2, <3>0, <4>2
        <5>2. QED
          BY <4>1, <5>1, MapSpans
      <4>3. CASE j = i
        <5>1. r[j].addr + r[j].size = m[i + 1].addr + m[i + 1].size
          <6>1. r[j].addr = m[i].addr /\ r[j].size = m[i].size + k + m[i + 1].size
            BY <1>2, <1>7, <4>3
          <6>2. m[i].addr \in Int /\ m[i].size \in Int /\ m[i + 1].addr \in Int /\ m[i + 1].size \in Int
            BY MapSpans
          <6>3. QED
            BY ONLY <6>1, <6>2, m[i].addr + m[i].size = a, m[i + 1].addr = a + k, k \in Int
        <5>2. i + 1 < l + 1
          BY <1>1, <3>0, <3>3
        <5>3. QED
          BY <4>1, <5>1, <5>2, MapSpans
      <4>4. CASE j > i
        <5>1. j + 1 \in DOMAIN m /\ r[j] = m[j + 1] /\ j + 1 < l + 1
          BY <1>7, <2>2, <3>0, <4>4
        <5>2. QED
          BY <4>1, <5>1, MapSpans
      <4>5. QED
        BY <1>1, <3>0, <4>2, <4>3, <4>4
    <3>4. QED
      BY <1>1, <3>0, <3>1, <3>2, <3>3
  <2>3. QED
    BY <1>4, <2>1, <2>2 DEF Map, InOrder
<1>9. ASSUME NEW u \in Int
      PROVE (\E j \in DOMAIN r : r[j].addr <= u /\ u < r[j].addr + r[j].size)
                <=> \/ \E j \in DOMAIN m : m[j].addr <= u /\ u < m[j].addr + m[j].size
                    \/ a <= u /\ u < a + k
  <2>0. /\ r[i].addr = m[i].addr /\ r[i].size = m[i].size + k + m[i + 1].size
        /\ m[i].addr \in Int /\ m[i].size \in Int /\ m[i + 1].addr \in Int /\ m[i + 1].size \in Int
        /\ m[i].size > 0 /\ m[i + 1].size > 0
    BY <1>1, <1>2, <1>7, MapSpans
  <2>1. ASSUME NEW j \in DOMAIN m, m[j].addr <= u /\ u < m[j].addr + m[j].size
        PROVE  \E l \in DOMAIN r : r[l].addr <= u /\ u < r[l].addr + r[l].size
    <3>0. j \in Int
      BY <1>1
    <3>1. CASE j < i
      <4>1. j \in DOMAIN r
        BY <1>1, <1>6, <3>1
      <4>2. QED
        BY <1>7, <2>1, <3>1, <4>1
    <3>2. CASE j = i \/ j = i + 1
      <4>1. r[i].addr <= u /\ u < r[i].addr + r[i].size
        BY <2>0, <2>1, <3>2
      <4>2. QED
        BY <1>7, <4>1
    <3>3. CASE j > i + 1
      <4>1. j - 1 \in DOMAIN r /\ j - 1 > i /\ (j - 1) + 1 = j
        BY <1>1, <1>6, <3>3
      <4>2. r[j - 1] = m[j]
        BY <1>7, <4>1
      <4>3. QED
        BY <2>1, <4>1, <4>2
    <3>4. QED
      BY <1>1, <3>0, <3>1, <3>2, <3>3
  <2>2. ASSUME a <= u /\ u < a + k
        PROVE  \E l \in DOMAIN r : r[l].addr <= u /\ u < r[l].addr + r[l].size
    <3>1. r[i].addr <= u /\ u < r[i].addr + r[i].size
      BY <2>0, <2>2
    <3>2. QED
      BY <1>7, <3>1
  <2>3. ASSUME NEW l \in DOMAIN r, r[l].addr <= u /\ u < r[l].addr + r[l].size
        PROVE  \/ \E j \in DOMAIN m : m[j].addr <= u /\ u < m[j].addr + m[j].size
               \/ a <= u /\ u < a + k
    <3>0. l \in Int
      BY <1>6
    <3>1. CASE l < i
      BY <1>7, <2>3, <3>1
    <3>2. CASE l = i
      <4>1. \/ m[i].addr <= u /\ u < m[i].addr + m[i].size
            \/ m[i + 1].addr <= u /\ u < m[i + 1].addr + m[i + 1].size
            \/ a <= u /\ u < a + k
        BY <2>0, <2>3, <3>2
      <4>2. QED
        BY <4>1
    <3>3. CASE l > i
      BY <1>7, <2>3, <3>3
    <3>4. QED
      BY <1>1, <3>0, <3>1, <3>2, <3>3
  <2>4. QED
    BY <2>1, <2>2, <2>3
<1>10. Adds(m, r, k, a)
  BY <1>8, <1>9, AddsWhen
<1>11. QED
  BY <1>10 DEF r, h, n

(* What does not touch a range is apart from it. *)
LEMMA Gap ==
    ASSUME NEW m, Map(m), NEW a \in Int, NEW k \in Int, k > 0, Units(a, k) \cap UnitsOf(m) = {}
    PROVE  /\ ~(Below(m, a) > 0 /\ m[Below(m, a)].addr + m[Below(m, a)].size = a) =>
                \A j \in DOMAIN m : j <= Below(m, a) => m[j].addr + m[j].size < a
           /\ ~(Below(m, a) < Len(m) /\ a + k = m[Below(m, a) + 1].addr) =>
                \A j \in DOMAIN m : j > Below(m, a) => a + k < m[j].addr
<1> DEFINE i == Below(m, a)
           before == i > 0 /\ m[i].addr + m[i].size = a
           behind == i < Len(m) /\ a + k = m[i + 1].addr
<1>1. /\ i \in 0..Len(m) /\ Len(m) \in Nat /\ DOMAIN m = 1..Len(m)
      /\ \A j \in DOMAIN m : j <= i => m[j].addr + m[j].size <= a
      /\ \A j \in DOMAIN m : j > i => a + k <= m[j].addr
  BY Apart, MapSpans
<1> HIDE DEF i
<1>3. ~before => \A j \in DOMAIN m : j <= i => m[j].addr + m[j].size < a
  <2>1. ASSUME ~before, NEW j \in DOMAIN m, j <= i PROVE m[j].addr + m[j].size < a
    <3>1. CASE j = i
      <4>1. i > 0 /\ m[j].addr + m[j].size <= a /\ m[j].addr + m[j].size # a
        BY <1>1, <2>1, <3>1
      <4>2. m[j].addr \in Int /\ m[j].size \in Int
        BY MapSpans
      <4>3. QED
        BY ONLY <4>1, <4>2, a \in Int
    <3>2. CASE j < i
      <4>1. i \in DOMAIN m
        BY <1>1, <3>2
      <4>2. m[j].addr + m[j].size < m[i].addr /\ m[i].addr + m[i].size <= a
        BY <1>1, <3>2, <4>1, MapSpans
      <4>3. QED
        BY <4>1, <4>2, MapSpans
    <3>3. QED
      BY <1>1, <2>1, <3>1, <3>2
  <2>2. QED
    BY <2>1
<1>4. ~behind => \A j \in DOMAIN m : j > i => a + k < m[j].addr
  <2>1. ASSUME ~behind, NEW j \in DOMAIN m, j > i PROVE a + k < m[j].addr
    <3>0. i + 1 \in DOMAIN m /\ i < Len(m)
      BY <1>1, <2>1
    <3>1. CASE j = i + 1
      <4>1. a + k # m[j].addr /\ a + k <= m[j].addr
        BY <1>1, <2>1, <3>0, <3>1
      <4>2. m[j].addr \in Int
        BY MapSpans
      <4> DEFINE z == m[j].addr
                 b == a + k
      <4>3. z \in Int /\ b \in Int /\ b # z /\ b <= z
        BY <4>1, <4>2
      <4> HIDE DEF z, b
      <4>4. b < z
        BY ONLY <4>3
      <4>5. QED
        BY <4>4 DEF b, z
    <3>2. CASE j > i + 1
      <4>1. m[i + 1].addr + m[i + 1].size < m[j].addr /\ a + k <= m[i + 1].addr
        BY <1>1, <3>0, <3>2, MapSpans
      <4>2. m[i + 1].addr \in Int /\ m[i + 1].size \in Int /\ m[i + 1].size > 0 /\ m[j].addr \in Int
        BY <3>0, MapSpans
      <4> DEFINE x == m[i + 1].addr
                 y == m[i + 1].size
                 z == m[j].addr
                 b == a + k
      <4>3. x \in Int /\ y \in Int /\ y > 0 /\ z \in Int /\ b \in Int /\ x + y < z /\ b <= x
        BY <4>1, <4>2
      <4> HIDE DEF x, y, z, b
      <4>4. b < z
        BY ONLY <4>3
      <4>5. QED
        BY <4>4 DEF b, z
    <3>3. QED
      BY <1>1, <2>1, <3>1, <3>2
  <2>2. QED
    BY <2>1
<1>5. QED
  BY <1>3, <1>4 DEF i

LEMMA MfreeFacts ==
    ASSUME NEW m, Map(m), NEW a \in Int, NEW k \in Int, k > 0, a > 0, Units(a, k) \cap UnitsOf(m) = {},
           ~Overflows(m, k, a)
    PROVE  Adds(m, Mfree(m, k, a), k, a)
<1> DEFINE i == Below(m, a)
           before == i > 0 /\ m[i].addr + m[i].size = a
           behind == i < Len(m) /\ a + k = m[i + 1].addr
<1>1. /\ i \in 0..Len(m) /\ Len(m) \in Nat /\ DOMAIN m = 1..Len(m)
      /\ \A j \in DOMAIN m : j <= i => m[j].addr + m[j].size <= a
      /\ \A j \in DOMAIN m : j > i => a + k <= m[j].addr
  BY Apart, MapSpans
<1>2. Mfree(m, k, a) = IF before /\ behind
        THEN RemoveAt([m EXCEPT ![i].size = @ + k + m[i + 1].size], i + 1)
        ELSE IF before THEN [m EXCEPT ![i].size = @ + k]
        ELSE IF behind THEN [m EXCEPT ![i + 1] = Range_(a, @.size + k)]
        ELSE InsertAt(m, i + 1, Range_(a, k))
  BY DEF Mfree, Overflows
<1> HIDE DEF i
<1>3. ~before => \A j \in DOMAIN m : j <= i => m[j].addr + m[j].size < a
  BY Gap DEF i
<1>4. ~behind => \A j \in DOMAIN m : j > i => a + k < m[j].addr
  BY Gap DEF i
<1>5. CASE before /\ behind
  <2>1. i \in DOMAIN m /\ i + 1 \in DOMAIN m /\ m[i].addr + m[i].size = a /\ m[i + 1].addr = a + k
    BY <1>1, <1>5
  <2>2. Adds(m, RemoveAt([m EXCEPT ![i].size = @ + k + m[i + 1].size], i + 1), k, a)
    BY <2>1, JoinBoth
  <2>3. QED
    BY <1>2, <1>5, <2>2
<1>6. CASE before /\ ~behind
  <2>1. i \in DOMAIN m
    BY <1>1, <1>6
  <2>2. Adds(m, [m EXCEPT ![i].size = @ + k], k, a)
    BY <1>4, <1>6, <2>1, JoinBefore
  <2>3. QED
    BY <1>2, <1>6, <2>2
<1>7. CASE ~before /\ behind
  <2> DEFINE h == i + 1
  <2>1. h \in DOMAIN m /\ m[h].addr = a + k
    BY <1>1, <1>7
  <2>2. \A j \in DOMAIN m : j < h => m[j].addr + m[j].size < a
    BY <1>1, <1>3, <1>7
  <2> HIDE DEF h
  <2>3. Adds(m, [m EXCEPT ![h] = Range_(a, @.size + k)], k, a)
    BY <2>1, <2>2, JoinBehind
  <2>4. QED
    BY <1>2, <1>7, <2>3 DEF h
<1>8. CASE ~before /\ ~behind
  <2>1. Adds(m, InsertAt(m, i + 1, Range_(a, k)), k, a)
    BY <1>1, <1>3, <1>4, <1>8, InsertedFacts
  <2>2. QED
    BY <1>2, <1>8, <2>1
<1>9. QED
  BY <1>5, <1>6, <1>7, <1>8

-----------------------------------------------------------------------------
(* r is m without units a..a+k-1, and nothing fits that did not fit. *)
Lacks(m, r, k, a) ==
    /\ Map(r)
    /\ UnitsOf(r) = UnitsOf(m) \ Units(a, k)
    /\ Units(a, k) \subseteq UnitsOf(m)
    /\ \A n \in Int : Fits(m, n) = {} => Fits(r, n) = {}

LEMMA LacksWhen ==
    ASSUME NEW m, Map(m), NEW r, Map(r), NEW a \in Int, NEW k \in Int,
           \A u \in Int :
                (\E j \in DOMAIN m : m[j].addr <= u /\ u < m[j].addr + m[j].size)
                <=> \/ \E j \in DOMAIN r : r[j].addr <= u /\ u < r[j].addr + r[j].size
                    \/ a <= u /\ u < a + k,
           \A u \in Int : a <= u /\ u < a + k =>
                ~\E j \in DOMAIN r : r[j].addr <= u /\ u < r[j].addr + r[j].size,
           \A j \in DOMAIN r : \E l \in DOMAIN m : r[j].size <= m[l].size
    PROVE  Lacks(m, r, k, a)
<1>1. UnitsOf(r) \subseteq Int /\ UnitsOf(m) \subseteq Int /\ Units(a, k) \subseteq Int
  BY UnitsAreInt DEF Units
<1>2. \A u \in Int : u \in Units(a, k) <=> a <= u /\ u < a + k
  BY DEF Units
<1>3. \A u \in Int : u \in UnitsOf(m) <=> u \in UnitsOf(r) \/ u \in Units(a, k)
  BY <1>2, InUnits
<1>4. \A u \in Int : u \in Units(a, k) => u \notin UnitsOf(r)
  BY <1>2, InUnits
<1>5. ASSUME NEW n \in Int, Fits(m, n) = {}, NEW j \in Fits(r, n) PROVE FALSE
  <2>1. j \in DOMAIN r /\ r[j].size >= n /\ r[j].size \in Int
    BY <1>5, MapSpans DEF Fits
  <2>2. PICK l \in DOMAIN m : r[j].size <= m[l].size
    BY <2>1
  <2>3. m[l].size >= n
    BY <2>1, <2>2, MapSpans
  <2>4. QED
    BY <1>5, <2>3 DEF Fits
<1>6. QED
  BY <1>1, <1>3, <1>4, <1>5 DEF Lacks

LEMMA TakenFacts ==
    ASSUME NEW m, Map(m), NEW k \in Int, k > 0, Fits(m, k) # {}
    PROVE  /\ Malloc(m, k) \in Nat
           /\ Lacks(m, Taken(m, k), k, Malloc(m, k))
<1> DEFINE i == Min(Fits(m, k))
           a == m[i].addr
<1>1. /\ m \in Seq(Span) /\ Len(m) \in Nat /\ DOMAIN m = 1..Len(m)
  BY MapSpans DEF Map
<1>2. i \in DOMAIN m /\ m[i].size >= k
  <2>1. Fits(m, k) \in SUBSET Nat
    BY <1>1 DEF Fits
  <2>2. i \in Fits(m, k)
    BY <2>1, LeastFacts
  <2>3. QED
    BY <2>2 DEF Fits
<1>3. Malloc(m, k) = a
  BY DEF Malloc
<1>4. Taken(m, k) = IF m[i].size = k THEN RemoveAt(m, i)
                    ELSE [m EXCEPT ![i] = Range_(@.addr + k, @.size - k)]
  BY DEF Taken
<1> HIDE DEF i
<1>5. /\ i \in Int /\ a \in Int /\ a > 0 /\ m[i].size \in Int /\ m[i] \in Span
      /\ a + k <= m[i].addr + m[i].size
  BY <1>1, <1>2, MapSpans
<1>6. ASSUME NEW j \in DOMAIN m, j # i, NEW u \in Int, m[j].addr <= u, u < m[j].addr + m[j].size
      PROVE  ~(a <= u /\ u < m[i].addr + m[i].size)
  <2>0. j \in Int /\ m[j].addr \in Int /\ m[j].size \in Int
    BY <1>1, MapSpans
  <2>1. CASE j < i
    <3>1. m[j].addr + m[j].size < m[i].addr
      BY <1>2, <2>1, MapSpans
    <3>2. QED
      BY <1>5, <1>6, <2>0, <3>1
  <2>2. CASE j > i
    <3>1. m[i].addr + m[i].size < m[j].addr
      BY <1>2, <2>2, MapSpans
    <3>2. QED
      BY <1>5, <1>6, <2>0, <3>1
  <2>3. QED
    BY <1>5, <1>6, <2>0, <2>1, <2>2
<1>7. CASE m[i].size = k
  <2> DEFINE r == RemoveAt(m, i)
  <2>1. r \in Seq(Span) /\ Len(r) = Len(m) - 1
    BY ONLY <1>1, <1>2, RemoveAtPlaces
  <2>2. \A j \in 1..Len(r) : r[j] = IF j < i THEN m[j] ELSE m[j + 1]
    BY ONLY <1>1, <1>2, RemoveAtPlaces
  <2> HIDE DEF r
  <2>3. DOMAIN r = 1..(Len(m) - 1)
    BY <1>1, <2>1
  <2>4. \A j \in DOMAIN r : j < i => j \in DOMAIN m /\ r[j] = m[j]
    BY <1>1, <1>2, <2>1, <2>2, <2>3
  <2>5. \A j \in DOMAIN r : j >= i => j + 1 \in DOMAIN m /\ r[j] = m[j + 1]
    BY <1>1, <1>2, <1>5, <2>1, <2>2, <2>3
  <2>6. Map(r)
    <3>1. ASSUME NEW j \in DOMAIN r PROVE r[j].addr > 0 /\ r[j].size > 0
      BY <1>5, <2>3, <2>4, <2>5, MapSpans
    <3>2. ASSUME NEW j \in DOMAIN r, NEW l \in DOMAIN r, j < l PROVE r[j].addr + r[j].size < r[l].addr
      <4>0. j \in Int /\ l \in Int
        BY <2>3
      <4>1. CASE l < i
        <5>1. j \in DOMAIN m /\ r[j] = m[j] /\ l \in DOMAIN m /\ r[l] = m[l]
          BY <1>5, <2>4, <3>2, <4>0, <4>1
        <5>2. QED
          BY <3>2, <5>1, MapSpans
      <4>2. CASE j < i /\ l >= i
        <5>1. j \in DOMAIN m /\ r[j] = m[j] /\ l + 1 \in DOMAIN m /\ r[l] = m[l + 1] /\ j < l + 1
          BY <2>4, <2>5, <3>2, <4>0, <4>2
        <5>2. QED
          BY <5>1, MapSpans
      <4>3. CASE j >= i
        <5>1. l >= i
          BY <1>5, <3>2, <4>0, <4>3
        <5>2. j + 1 \in DOMAIN m /\ r[j] = m[j + 1] /\ l + 1 \in DOMAIN m /\ r[l] = m[l + 1] /\ j + 1 < l + 1
          BY <2>5, <3>2, <4>0, <4>3, <5>1
        <5>3. QED
          BY <5>2, MapSpans
      <4>4. QED
        BY <1>5, <4>0, <4>1, <4>2, <4>3
    <3>3. QED
      BY <2>1, <3>1, <3>2 DEF Map, InOrder
  <2>7. ASSUME NEW j \in DOMAIN r PROVE \E l \in DOMAIN m : l # i /\ r[j] = m[l]
    <3>1. CASE j < i
      BY <1>5, <2>3, <2>4, <3>1
    <3>2. CASE j >= i
      <4>1. j + 1 # i
        BY <1>5, <2>3, <3>2
      <4>2. QED
        BY <2>5, <3>2, <4>1
    <3>3. QED
      BY <1>5, <2>3, <3>1, <3>2
  <2>8. ASSUME NEW l \in DOMAIN m, l # i PROVE \E j \in DOMAIN r : r[j] = m[l]
    <3>1. CASE l < i
      <4>1. l \in DOMAIN r
        BY <1>1, <1>2, <2>3, <3>1
      <4>2. QED
        BY <2>4, <3>1, <4>1
    <3>2. CASE l > i
      <4>1. l - 1 \in DOMAIN r /\ l - 1 >= i /\ (l - 1) + 1 = l
        BY <1>1, <1>2, <2>3, <3>2
      <4>2. r[l - 1] = m[l]
        BY <2>5, <4>1
      <4>3. QED
        BY <4>1, <4>2
    <3>3. QED
      BY <1>1, <1>5, <2>8, <3>1, <3>2
  <2>9. ASSUME NEW u \in Int
        PROVE  (\E j \in DOMAIN m : m[j].addr <= u /\ u < m[j].addr + m[j].size)
                <=> \/ \E j \in DOMAIN r : r[j].addr <= u /\ u < r[j].addr + r[j].size
                    \/ a <= u /\ u < a + k
    BY <1>2, <1>7, <2>7, <2>8
  <2>10. ASSUME NEW u \in Int, a <= u /\ u < a + k
         PROVE  ~\E j \in DOMAIN r : r[j].addr <= u /\ u < r[j].addr + r[j].size
    BY <1>6, <1>7, <2>7, <2>10
  <2>11. \A j \in DOMAIN r : \E l \in DOMAIN m : r[j].size <= m[l].size
    BY <2>7, MapSpans
  <2>12. Lacks(m, r, k, a)
    BY <1>5, <2>6, <2>9, <2>10, <2>11, LacksWhen
  <2>13. QED
    BY <1>3, <1>4, <1>5, <1>7, <2>12 DEF r
<1>8. CASE m[i].size # k
  <2> DEFINE r == [m EXCEPT ![i] = Range_(@.addr + k, @.size - k)]
  <2>1. /\ DOMAIN r = DOMAIN m
        /\ r[i].addr = a + k /\ r[i].size = m[i].size - k /\ r[i] \in Span
        /\ \A j \in DOMAIN m : j # i => r[j] = m[j]
    BY <1>1, <1>2, <1>5 DEF Span, Range_
  <2>2. r \in Seq(Span)
    <3>1. \A j \in 1..Len(m) : r[j] \in Span
      BY <1>1, <2>1
    <3>2. DOMAIN r = 1..Len(m)
      BY <1>1, <2>1
    <3>3. r = [j \in 1..Len(m) |-> r[j]]
      BY <3>2
    <3> HIDE DEF r
    <3>4. QED
      BY <1>1, <3>1, <3>3
  <2> HIDE DEF r
  <2>3. m[i].size > k
    BY <1>2, <1>5, <1>8
  <2>e. r[i].addr + r[i].size = m[i].addr + m[i].size
    BY ONLY <1>5, <2>1, k \in Int
  <2>4. Map(r)
    <3>1. ASSUME NEW j \in DOMAIN r PROVE r[j].addr > 0 /\ r[j].size > 0
      BY <1>5, <2>1, <2>3, MapSpans
    <3>2. ASSUME NEW j \in DOMAIN r, NEW l \in DOMAIN r, j < l PROVE r[j].addr + r[j].size < r[l].addr
      <4>1. r[j].addr + r[j].size = m[j].addr + m[j].size
        BY <2>1, <2>e
      <4>2. m[l].addr <= r[l].addr /\ m[l].addr \in Int /\ r[l].addr \in Int
        <5>1. m[l].addr \in Int /\ r[l].addr = IF l = i THEN a + k ELSE m[l].addr
          BY <2>1, MapSpans
        <5>2. QED
          BY <1>5, <5>1
      <4>3. m[j].addr + m[j].size < m[l].addr /\ m[j].addr \in Int /\ m[j].size \in Int
        BY <2>1, <3>2, MapSpans
      <4>4. QED
        BY ONLY <4>1, <4>2, <4>3
    <3>3. QED
      BY <2>2, <3>1, <3>2 DEF Map, InOrder
  <2>5. ASSUME NEW u \in Int
        PROVE  (\E j \in DOMAIN m : m[j].addr <= u /\ u < m[j].addr + m[j].size)
                <=> \/ \E j \in DOMAIN r : r[j].addr <= u /\ u < r[j].addr + r[j].size
                    \/ a <= u /\ u < a + k
    <3>1. (m[i].addr <= u /\ u < m[i].addr + m[i].size)
            <=> (r[i].addr <= u /\ u < r[i].addr + r[i].size) \/ (a <= u /\ u < a + k)
      BY <1>5, <2>1, <2>3, <2>e
    <3>2. QED
      BY <1>2, <2>1, <3>1
  <2>6. ASSUME NEW u \in Int, a <= u /\ u < a + k, NEW j \in DOMAIN r,
               r[j].addr <= u, u < r[j].addr + r[j].size
        PROVE  FALSE
    <3>1. CASE j = i
      BY <1>5, <2>1, <2>6, <3>1
    <3>2. CASE j # i
      <4>1. ~(a <= u /\ u < m[i].addr + m[i].size)
        BY <1>6, <2>1, <2>6, <3>2
      <4>2. QED
        BY <1>5, <2>6, <4>1
    <3>3. QED
      BY <3>1, <3>2
  <2>7. \A j \in DOMAIN r : \E l \in DOMAIN m : r[j].size <= m[l].size
    <3>1. ASSUME NEW j \in DOMAIN r PROVE r[j].size <= m[j].size /\ j \in DOMAIN m
      BY <1>5, <2>1, <2>3, MapSpans
    <3>2. QED
      BY <3>1
  <2>8. Lacks(m, r, k, a)
    BY <1>5, <2>4, <2>5, <2>6, <2>7, LacksWhen
  <2>9. QED
    BY <1>3, <1>4, <1>5, <1>8, <2>8 DEF r
<1>9. QED
  BY <1>7, <1>8

(* Behind each range of a map but the last there is a unit that is not in  *)
(* it: if these are few, so are the ranges.                                *)
LEMMA RangesCounted ==
    ASSUME NEW r, Map(r), UnitsOf(r) \subseteq 1..MSGSEG, NEW n \in Nat, Len(r) = n + 1,
           NEW P, IsFiniteSet(P),
           \A u \in 1..MSGSEG : u \notin UnitsOf(r) /\ u - 1 \in UnitsOf(r) => u \in P
    PROVE  n <= Cardinality(P)
<1> DEFINE f == [i \in 1..n |-> r[i].addr + r[i].size]
<1>1. DOMAIN r = 1..(n + 1) /\ MSGSEG \in Nat
  BY MapSpans, MessagesAssumption
<1>2. ASSUME NEW i \in 1..n
      PROVE  /\ i \in DOMAIN r /\ i + 1 \in DOMAIN r /\ i < i + 1
             /\ r[i].addr \in Int /\ r[i].size \in Int /\ r[i].addr > 0 /\ r[i].size > 0
  BY <1>1, MapSpans
<1>3. ASSUME NEW i \in 1..n PROVE f[i] \in P
  <2> DEFINE u == r[i].addr + r[i].size
  <2>0. r[i].addr \in Int /\ r[i].size \in Int /\ r[i].addr > 0 /\ r[i].size > 0
    BY <1>2
  <2>1. u \in Int /\ r[i].addr <= u - 1 /\ u - 1 < r[i].addr + r[i].size /\ u > 0
    BY ONLY <2>0
  <2>2. u - 1 \in UnitsOf(r)
    <3>1. \E j \in DOMAIN r : r[j].addr <= u - 1 /\ u - 1 < r[j].addr + r[j].size
      BY <1>2, <2>1
    <3>2. QED
      BY <2>1, <3>1, InUnits
  <2>3. u \notin UnitsOf(r)
    <3>1. ASSUME NEW j \in DOMAIN r, r[j].addr <= u, u < r[j].addr + r[j].size PROVE FALSE
      <4>1. CASE j = i
        BY <1>2, <3>1, <4>1
      <4>2. CASE j < i
        <5>1. r[j].addr + r[j].size < r[i].addr /\ r[j].addr \in Int /\ r[j].size \in Int
          BY <1>2, <4>2, MapSpans
        <5>2. QED
          BY ONLY <1>2, <2>1, <3>1, <5>1
      <4>3. CASE i < j
        <5>1. r[i].addr + r[i].size < r[j].addr /\ r[j].addr \in Int
          BY <1>2, <4>3, MapSpans
        <5> HIDE DEF u
        <5>2. u < r[j].addr
          BY <5>1 DEF u
        <5>3. QED
          BY ONLY <2>1, <3>1, <5>1, <5>2
      <4>4. j \in Int /\ i \in Int
        BY <1>1
      <4>5. QED
        BY <4>1, <4>2, <4>3, <4>4
    <3>2. QED
      BY <2>1, <3>1, InUnits
  <2>4. u <= MSGSEG
    <3> DEFINE v == r[i + 1].addr
    <3>1. v \in Int /\ u < v /\ r[i + 1].size > 0 /\ r[i + 1].size \in Int
      BY <1>2, MapSpans
    <3>2. v \in UnitsOf(r)
      <4>1. \E j \in DOMAIN r : r[j].addr <= v /\ v < r[j].addr + r[j].size
        <5>1. i + 1 \in DOMAIN r
          BY <1>2
        <5>2. r[i + 1].addr <= v /\ v < r[i + 1].addr + r[i + 1].size
          BY ONLY <3>1
        <5>3. QED
          BY ONLY <5>1, <5>2
      <4> HIDE DEF v
      <4>2. QED
        BY <3>1, <4>1, InUnits
    <3>3. v <= MSGSEG
      BY <1>1, <3>2
    <3> HIDE DEF u, v
    <3>4. QED
      BY <1>1, <2>1, <3>1, <3>3
  <2> HIDE DEF u
  <2>5. u \in P
    BY <1>1, <2>1, <2>2, <2>3, <2>4
  <2>6. QED
    BY <2>5 DEF u
<1>4. ASSUME NEW i \in 1..n, NEW l \in 1..n, i < l PROVE f[i] < f[l] /\ f[i] \in Int
  <2>1. r[i].addr + r[i].size < r[l].addr
    BY <1>2, <1>4, MapSpans
  <2>2. QED
    BY <1>2, <2>1
<1>5. f \in [1..n -> P]
  BY <1>3
<1>6. \A i, l \in 1..n : f[i] = f[l] => i = l
  <2>1. ASSUME NEW i \in 1..n, NEW l \in 1..n, f[i] = f[l], i # l PROVE FALSE
    <3>1. f[i] \in Int /\ f[l] \in Int
      BY <1>2
    <3>2. (i < l => f[i] < f[l]) /\ (l < i => f[l] < f[i])
      BY <1>4
    <3> HIDE DEF f
    <3>3. QED
      BY <2>1, <3>1, <3>2
  <2>2. QED
    BY <2>1
<1> HIDE DEF f
<1>7. f \in Injection(1..n, P)
  BY <1>5, <1>6 DEF Injection, IsInjective
<1>8. Cardinality(1..n) <= Cardinality(P)
  BY <1>7, FS_Injection
<1>9. Cardinality(1..n) = n
  BY FS_Interval
<1>10. QED
  BY <1>8, <1>9

(* A slot for every text: what is left between them is in no more pieces.  *)
EnoughSlots == MSGTQL <= MAPSLOTS

(* C are the units that belong with the one before them.  Those in use     *)
(* that are not in C begin a text; there are no more than headers.         *)
Continued(C, U) == \A u \in C : u \in U <=> u - 1 \in U
Starts(C, F) == (1..MSGSEG) \ (F \cup C)
Pieces(C, F) == Continued(C, F) /\ Cardinality(Starts(C, F)) <= MSGTQL

LEMMA StartsFinite ==
    ASSUME NEW C, NEW F
    PROVE  IsFiniteSet(Starts(C, F)) /\ Cardinality(Starts(C, F)) \in Nat
<1>1. IsFiniteSet(1..MSGSEG)
  BY FS_Interval, MessagesAssumption
<1>2. IsFiniteSet(Starts(C, F))
  BY <1>1, FS_Subset DEF Starts
<1>3. QED
  BY <1>2, FS_CardinalityType

LEMMA PiecesGrow ==
    ASSUME NEW C, NEW F, NEW U, Pieces(C, F), Continued(C, U)
    PROVE  Pieces(C, F \cup U)
<1>1. Continued(C, F \cup U)
  BY DEF Pieces, Continued
<1>2. Starts(C, F \cup U) \subseteq Starts(C, F)
  BY DEF Starts
<1> DEFINE S == Starts(C, F)
           T == Starts(C, F \cup U)
<1>3. IsFiniteSet(S) /\ Cardinality(S) \in Nat /\ Cardinality(T) \in Nat /\ Cardinality(S) <= MSGTQL
  BY StartsFinite DEF Pieces
<1>4. Cardinality(T) <= Cardinality(S)
  <2> HIDE DEF S, T
  <2>1. T \in SUBSET S
    BY <1>2 DEF S, T
  <2>2. QED
    BY <1>3, <2>1, FS_Subset
<1> HIDE DEF S, T
<1>5. Cardinality(T) <= MSGTQL
  BY <1>3, <1>4, MessagesAssumption
<1>6. QED
  BY <1>1, <1>5 DEF Pieces, T

LEMMA NoOverflow ==
    ASSUME EnoughSlots, NEW m, Map(m), UnitsOf(m) \subseteq 1..MSGSEG,
           NEW a \in Int, NEW k \in Int, k > 0, Units(a, k) \subseteq 1..MSGSEG,
           Units(a, k) \cap UnitsOf(m) = {},
           NEW C, Pieces(C, UnitsOf(m)), Continued(C, Units(a, k))
    PROVE  ~Overflows(m, k, a)
<1> SUFFICES ASSUME Overflows(m, k, a) PROVE FALSE
  OBVIOUS
<1> DEFINE i == Below(m, a)
           r == InsertAt(m, i + 1, Range_(a, k))
           S == Starts(C, UnitsOf(m))
           P == S \ {a}
<1>1. /\ i \in 0..Len(m) /\ Len(m) \in Nat /\ DOMAIN m = 1..Len(m)
      /\ \A j \in DOMAIN m : j <= i => m[j].addr + m[j].size <= a
      /\ \A j \in DOMAIN m : j > i => a + k <= m[j].addr
  BY Apart, MapSpans
<1>2. /\ ~(i > 0 /\ m[i].addr + m[i].size = a)
      /\ ~(i < Len(m) /\ a + k = m[i + 1].addr)
      /\ Len(m) = MAPSLOTS
  BY DEF Overflows
<1> HIDE DEF i
<1>3. \A j \in DOMAIN m : j <= i => m[j].addr + m[j].size < a
  BY <1>2, Gap DEF i
<1>4. \A j \in DOMAIN m : j > i => a + k < m[j].addr
  BY <1>2, Gap DEF i
<1>5. a \in Units(a, k) /\ a - 1 \notin Units(a, k) /\ a \in 1..MSGSEG /\ a > 0
  <2>1. a \in Units(a, k) /\ a - 1 \notin Units(a, k)
    BY DEF Units
  <2>2. QED
    BY <2>1
<1>6. Adds(m, r, k, a) /\ Len(r) = Len(m) + 1
  BY <1>1, <1>3, <1>4, <1>5, InsertedFacts
<1> HIDE DEF r
<1>7. Map(r) /\ UnitsOf(r) = UnitsOf(m) \cup Units(a, k) /\ UnitsOf(r) \subseteq 1..MSGSEG
  BY <1>6 DEF Adds
<1>8. a \in S
  BY <1>5 DEF Continued, Starts
<1>9. IsFiniteSet(S) /\ Cardinality(S) \in Nat /\ Cardinality(S) <= MSGTQL
  BY StartsFinite DEF Pieces
<1>10. ASSUME NEW u \in 1..MSGSEG, u \notin UnitsOf(r), u - 1 \in UnitsOf(r) PROVE u \in P
  <2>1. Continued(C, UnitsOf(r))
    BY <1>7 DEF Pieces, Continued
  <2>2. u \notin C /\ u \notin UnitsOf(m) /\ u # a
    BY <1>5, <1>7, <1>10, <2>1 DEF Continued
  <2>3. QED
    BY <2>2 DEF Starts
<1> HIDE DEF S
<1>11. IsFiniteSet(P) /\ Cardinality(P) = Cardinality(S) - 1
  BY <1>8, <1>9, FS_RemoveElement
<1> HIDE DEF P
<1>12. MAPSLOTS \in Nat /\ MSGTQL \in Nat
  BY SlotsAssumption, MessagesAssumption
<1>13. MAPSLOTS <= Cardinality(P)
  BY <1>2, <1>6, <1>7, <1>10, <1>11, <1>12, RangesCounted
<1>14. QED
  BY <1>9, <1>11, <1>12, <1>13 DEF EnoughSlots

-----------------------------------------------------------------------------
LEMMA BtoqFacts ==
    ASSUME NEW n \in Nat
    PROVE  Btoq(n) \in Nat /\ (n = 0 => Btoq(n) = 0) /\ (n > 0 => Btoq(n) > 0)
<1>1. MSGSSZ \in Nat \ {0}
  BY MessagesAssumption
<1>2. Btoq(n) \in Int /\ Btoq(n) >= 0
  BY <1>1 DEF Btoq
<1>3. ASSUME n = 0 PROVE Btoq(n) = 0
  BY <1>1, <1>3 DEF Btoq
<1>4. ASSUME n > 0 PROVE Btoq(n) > 0
  BY <1>1, <1>4 DEF Btoq
<1>5. QED
  BY <1>2, <1>3, <1>4

(* The segments of a text. *)
Text(m) == Units(m.spot, Btoq(m.ts))

Maps == [free : Seq(Span), want : BOOLEAN]
GoodMap(mm) == mm \in Maps /\ Map(mm.free) /\ UnitsOf(mm.free) \subseteq 1..MSGSEG

(* From mm to r at most the segments of U came back, and nobody was wanted *)
(* afterwards if any did.                                                  *)
Back(mm, r, U) ==
    /\ GoodMap(r)
    /\ UnitsOf(r.free) \subseteq UnitsOf(mm.free) \cup U
    /\ EnoughSlots => UnitsOf(r.free) = UnitsOf(mm.free) \cup U
    /\ r.want => r = mm

LEMMA TextBackFacts ==
    ASSUME NEW mm, GoodMap(mm), NEW m, m.ts \in Nat, m.spot \in Int, Text(m) \subseteq 1..MSGSEG,
           Text(m) \cap UnitsOf(mm.free) = {}, NEW C, Continued(C, Text(m)),
           EnoughSlots => Pieces(C, UnitsOf(mm.free))
    PROVE  Back(mm, TextBack(mm, m), Text(m))
<1> DEFINE k == Btoq(m.ts)
<1>1. k \in Nat /\ (m.ts = 0 => k = 0) /\ (m.ts # 0 => k > 0) /\ Text(m) = Units(m.spot, k)
  BY BtoqFacts DEF Text
<1> HIDE DEF k
<1>2. CASE m.ts = 0
  <2>1. Text(m) = {}
    BY <1>1, <1>2 DEF Units
  <2>2. TextBack(mm, m) = mm
    BY <1>2 DEF TextBack
  <2>3. QED
    BY <2>1, <2>2 DEF Back
<1>3. CASE m.ts # 0 /\ Overflows(mm.free, k, m.spot)
  <2>1. TextBack(mm, m) = mm
    BY <1>3 DEF TextBack, k
  <2>2. ~EnoughSlots
    BY <1>1, <1>3, NoOverflow DEF GoodMap
  <2>3. QED
    BY <2>1, <2>2 DEF Back
<1>4. CASE m.ts # 0 /\ ~Overflows(mm.free, k, m.spot)
  <2> DEFINE f == Mfree(mm.free, k, m.spot)
  <2>1. TextBack(mm, m) = [free |-> f, want |-> FALSE]
    BY <1>4 DEF TextBack, k
  <2>2. k > 0
    BY <1>1, <1>4
  <2>3. m.spot > 0
    <3>1. m.spot \in Units(m.spot, k)
      BY <1>1, <2>2 DEF Units
    <3>2. m.spot \in 1..MSGSEG
      BY <1>1, <3>1
    <3>3. QED
      BY <3>2
  <2>4. Adds(mm.free, f, k, m.spot)
    BY <1>1, <1>4, <2>2, <2>3, MfreeFacts DEF GoodMap
  <2> HIDE DEF f
  <2>5. Map(f) /\ UnitsOf(f) = UnitsOf(mm.free) \cup Text(m)
    BY <1>1, <2>4 DEF Adds
  <2>6. f \in Seq(Span)
    BY <2>5 DEF Map
  <2>7. QED
    BY <2>1, <2>5, <2>6 DEF Back, GoodMap, Maps
<1>5. QED
  BY <1>2, <1>3, <1>4

Message == [type : Nat \ {0}, ts : Nat, spot : Nat]
TextsOf(s, n) == UNION {Text(s[i]) : i \in 1..n}

LEMMA PiecesKept ==
    ASSUME NEW mm, NEW r, NEW s, NEW n \in Nat, Back(mm, r, TextsOf(s, n)),
           NEW C, EnoughSlots => Pieces(C, UnitsOf(mm.free)), \A i \in 1..n : Continued(C, Text(s[i]))
    PROVE  EnoughSlots => Pieces(C, UnitsOf(r.free))
<1>1. Continued(C, TextsOf(s, n))
  BY DEF Continued, TextsOf
<1>2. EnoughSlots => UnitsOf(r.free) = UnitsOf(mm.free) \cup TextsOf(s, n)
  BY DEF Back
<1>3. QED
  BY <1>1, <1>2, PiecesGrow

(* One text after the other: b[i] is the map after i of them. *)
LEMMA RunBack ==
    ASSUME NEW mm, GoodMap(mm), NEW s \in Seq(Message), NEW b, b[0] = mm,
           \A i \in DOMAIN s : Text(s[i]) \subseteq 1..MSGSEG /\ Text(s[i]) \cap UnitsOf(mm.free) = {},
           \A i, j \in DOMAIN s : i # j => Text(s[i]) \cap Text(s[j]) = {},
           \A i \in DOMAIN s : GoodMap(TextBack(b[i - 1], s[i])) => b[i] = TextBack(b[i - 1], s[i]),
           NEW C, EnoughSlots => Pieces(C, UnitsOf(mm.free)), \A i \in DOMAIN s : Continued(C, Text(s[i]))
    PROVE  \A n \in 0..Len(s) : Back(mm, b[n], TextsOf(s, n))
<1> DEFINE S == {n \in Nat : n <= Len(s) => Back(mm, b[n], TextsOf(s, n))}
<1>1. Len(s) \in Nat /\ DOMAIN s = 1..Len(s)
  OBVIOUS
<1>2. 0 \in S
  <2>1. TextsOf(s, 0) = {}
    BY DEF TextsOf
  <2>2. QED
    BY <2>1 DEF Back
<1>3. ASSUME NEW n \in Nat, n < Len(s), n \in S PROVE n + 1 \in S
  <2> DEFINE j == n + 1
             m == s[j]
  <2>1. j \in DOMAIN s /\ j - 1 = n /\ j \in Nat
    BY <1>1, <1>3
  <2>2. Back(mm, b[n], TextsOf(s, n))
    BY <1>1, <1>3
  <2>3. m \in Message /\ Text(m) \subseteq 1..MSGSEG /\ Text(m) \cap UnitsOf(mm.free) = {}
    BY <2>1
  <2>4. Text(m) \cap TextsOf(s, n) = {}
    <3>1. \A i \in 1..n : i \in DOMAIN s /\ i # j
      BY <1>1, <1>3
    <3>2. \A i \in 1..n : Text(m) \cap Text(s[i]) = {}
      BY <2>1, <3>1
    <3> HIDE DEF m
    <3>3. QED
      BY <3>2 DEF TextsOf
  <2>5. TextsOf(s, j) = TextsOf(s, n) \cup Text(m)
    <3>1. 1..j = 1..n \cup {j}
      BY <2>1
    <3>2. QED
      BY <3>1 DEF TextsOf
  <2>6. /\ GoodMap(b[n]) /\ m.ts \in Nat /\ m.spot \in Int
        /\ Text(m) \cap UnitsOf(b[n].free) = {}
    <3>1. UnitsOf(b[n].free) \subseteq UnitsOf(mm.free) \cup TextsOf(s, n) /\ GoodMap(b[n])
      BY <2>2 DEF Back
    <3>2. m.ts \in Nat /\ m.spot \in Int
      BY <2>3 DEF Message
    <3> HIDE DEF m
    <3>3. QED
      BY <2>3, <2>4, <3>1, <3>2
  <2>7. Back(b[n], TextBack(b[n], m), Text(m))
    <3>1. Continued(C, Text(m))
      BY <2>1
    <3>2. EnoughSlots => Pieces(C, UnitsOf(b[n].free))
      <4>1. n \in Nat /\ \A i \in 1..n : Continued(C, Text(s[i]))
        <5>1. \A i \in 1..n : i \in DOMAIN s
          BY <1>1, <1>3
        <5>2. QED
          BY ONLY <1>3, <5>1, \A i \in DOMAIN s : Continued(C, Text(s[i]))
      <4>2. EnoughSlots => Pieces(C, UnitsOf(mm.free))
        OBVIOUS
      <4> HIDE DEF S
      <4>3. QED
        BY ONLY <2>2, <4>1, <4>2, PiecesKept
    <3> HIDE DEF m
    <3>3. QED
      BY <2>3, <2>6, <3>1, <3>2, TextBackFacts
  <2>8. b[j] = TextBack(b[n], m)
    BY <2>1, <2>7 DEF Back
  <2> HIDE DEF m, j
  <2>9. Back(mm, b[j], TextsOf(s, j))
    <3>1. /\ GoodMap(b[j])
          /\ UnitsOf(b[j].free) \subseteq UnitsOf(b[n].free) \cup Text(m)
          /\ EnoughSlots => UnitsOf(b[j].free) = UnitsOf(b[n].free) \cup Text(m)
          /\ b[j].want => b[j] = b[n]
      BY <2>7, <2>8 DEF Back
    <3>2. /\ UnitsOf(b[n].free) \subseteq UnitsOf(mm.free) \cup TextsOf(s, n)
          /\ EnoughSlots => UnitsOf(b[n].free) = UnitsOf(mm.free) \cup TextsOf(s, n)
          /\ b[n].want => b[n] = mm
      BY <2>2 DEF Back
    <3>3. QED
      BY <2>5, <3>1, <3>2 DEF Back
  <2>10. QED
    BY <2>1, <2>9 DEF j
<1>4. \A n \in 0..Len(s) : n \in S
  <2> HIDE DEF S
  <2> QED
    BY <1>1, <1>2, <1>3, UpTo
<1>5. QED
  BY <1>1, <1>4

LEMMA TextsBackFacts ==
    ASSUME NEW mm, GoodMap(mm), NEW s \in Seq(Message),
           \A i \in DOMAIN s : Text(s[i]) \subseteq 1..MSGSEG /\ Text(s[i]) \cap UnitsOf(mm.free) = {},
           \A i, j \in DOMAIN s : i # j => Text(s[i]) \cap Text(s[j]) = {},
           NEW C, EnoughSlots => Pieces(C, UnitsOf(mm.free)), \A i \in DOMAIN s : Continued(C, Text(s[i]))
    PROVE  Back(mm, TextsBack(mm, s), TextsOf(s, Len(s)))
<1> DEFINE T == {r \in Maps : GoodMap(r)}
           N == Len(s)
           G == [i \in 1..N |-> [t \in T |-> IF GoodMap(TextBack(t, s[i])) THEN TextBack(t, s[i]) ELSE t]]
           Step(b) == [i \in 0..N |-> IF i = 0 THEN mm ELSE TextBack(b[i - 1], s[i])]
           c == CHOOSE b : b = Step(b)
<1>1. N \in Nat /\ DOMAIN s = 1..N
  OBVIOUS
<1>2. mm \in T /\ G \in [1..N -> [T -> T]]
  BY DEF GoodMap
<1>3. PICK f \in [0..N -> T] : f[0] = mm /\ \A i \in 1..N : f[i] = G[i][f[i - 1]]
  <2> HIDE DEF T, G, N, Step, c
  <2>1. \E f \in [0..N -> T] : f[0] = mm /\ \A i \in 1..N : f[i] = G[i][f[i - 1]]
    <3>1. N \in Nat
      BY <1>1
    <3>2. mm \in T
      BY <1>2
    <3>3. G \in [1..N -> [T -> T]]
      BY <1>2
    <3>4. QED
      BY ONLY <3>1, <3>2, <3>3, IterationExists
  <2>2. QED
    BY <2>1
<1>4. ASSUME NEW i \in DOMAIN s, GoodMap(TextBack(f[i - 1], s[i])) PROVE f[i] = TextBack(f[i - 1], s[i])
  <2>1. i - 1 \in 0..N /\ i \in 1..N
    BY <1>1
  <2>2. f[i - 1] \in T /\ f[i] = G[i][f[i - 1]]
    BY <1>3, <2>1
  <2>3. QED
    BY <1>4, <2>1, <2>2
<1>5. \A n \in 0..N : Back(mm, f[n], TextsOf(s, n))
  <2> HIDE DEF T, G
  <2> QED
    BY <1>3, <1>4, RunBack
<1>6. f = Step(f)
  <2>1. ASSUME NEW i \in 1..N PROVE f[i] = TextBack(f[i - 1], s[i])
    <3>1. i - 1 \in 0..N /\ i - 1 \in Nat /\ i \in DOMAIN s
      BY <1>1
    <3>2. Back(mm, f[i - 1], TextsOf(s, i - 1)) /\ f[i - 1] \in T
      BY <1>3, <1>5, <3>1
    <3>3. Text(s[i]) \cap TextsOf(s, i - 1) = {}
      <4>1. \A j \in 1..(i - 1) : j \in DOMAIN s /\ j # i
        BY <1>1
      <4>2. \A j \in 1..(i - 1) : Text(s[i]) \cap Text(s[j]) = {}
        BY <3>1, <4>1
      <4>3. QED
        BY <4>2 DEF TextsOf
    <3>4. s[i].ts \in Nat /\ s[i].spot \in Int
      <4>1. s[i] \in Message
        BY <3>1
      <4>2. QED
        BY <4>1 DEF Message
    <3>5. GoodMap(f[i - 1]) /\ UnitsOf(f[i - 1].free) \subseteq UnitsOf(mm.free) \cup TextsOf(s, i - 1)
      BY <3>2 DEF Back
    <3>6. Text(s[i]) \cap UnitsOf(f[i - 1].free) = {} /\ Text(s[i]) \subseteq 1..MSGSEG
      <4>1. Text(s[i]) \subseteq 1..MSGSEG /\ Text(s[i]) \cap UnitsOf(mm.free) = {}
        BY <3>1
      <4>2. QED
        BY <3>3, <3>5, <4>1
    <3>7. Back(f[i - 1], TextBack(f[i - 1], s[i]), Text(s[i]))
      <4>1. \A j \in 1..(i - 1) : j \in DOMAIN s
        BY <1>1
      <4>2. \A j \in 1..(i - 1) : Continued(C, Text(s[j]))
        BY ONLY <4>1, \A j \in DOMAIN s : Continued(C, Text(s[j]))
      <4>3. EnoughSlots => Pieces(C, UnitsOf(f[i - 1].free))
        BY <3>1, <3>2, <4>2, PiecesKept
      <4>4. Continued(C, Text(s[i]))
        BY <3>1
      <4> HIDE DEF T, G, N
      <4>5. QED
        BY <3>4, <3>5, <3>6, <4>3, <4>4, TextBackFacts
    <3>8. GoodMap(TextBack(f[i - 1], s[i]))
      BY <3>7 DEF Back
    <3>9. QED
      BY <1>4, <3>1, <3>8
  <2>2. DOMAIN f = 0..N /\ f[0] = mm
    BY <1>3
  <2> HIDE DEF T, G, N
  <2>3. \A i \in 0..N : f[i] = IF i = 0 THEN mm ELSE TextBack(f[i - 1], s[i])
    BY <1>1, <2>1, <2>2
  <2>4. f = [i \in 0..N |-> f[i]]
    BY <2>2
  <2>5. QED
    BY <2>3, <2>4
<1> HIDE DEF G, T
<1>7. c = Step(c)
  <2> HIDE DEF Step
  <2> QED
    BY <1>6
<1>8. TextsBack(mm, s) = c[N]
  BY DEF TextsBack
<1> HIDE DEF c
<1>9. \A i \in 0..N : c[i] = Step(c)[i]
  <2> HIDE DEF Step
  <2> QED
    BY <1>7
<1>10. c[0] = mm /\ \A i \in DOMAIN s : c[i] = TextBack(c[i - 1], s[i])
  <2>1. 0 \in 0..N /\ \A i \in DOMAIN s : i \in 0..N /\ i # 0
    BY <1>1
  <2>2. c[0] = Step(c)[0]
    BY ONLY <1>9, <2>1
  <2>3. ASSUME NEW i \in DOMAIN s PROVE c[i] = TextBack(c[i - 1], s[i])
    <3>1. i \in 0..N /\ i # 0
      BY <2>1
    <3>2. c[i] = Step(c)[i]
      BY ONLY <1>9, <3>1
    <3>3. QED
      BY <3>1, <3>2
  <2>4. QED
    BY <2>1, <2>2, <2>3
<1>11. \A n \in 0..N : Back(mm, c[n], TextsOf(s, n))
  <2> HIDE DEF Step
  <2> QED
    BY <1>10, RunBack
<1>12. QED
  BY <1>1, <1>8, <1>11
-----------------------------------------------------------------------------
(* The bytes of a queue, as a running sum. *)
Sizes == [type : Int, size : Nat]
SumOf(f, s) ==
    /\ f \in [0..Len(s) -> Nat] /\ f[0] = 0
    /\ \A i \in 1..Len(s) : f[i] = f[i - 1] + s[i].size

LEMMA BytesSum ==
    ASSUME NEW s \in Seq(Sizes)
    PROVE  \E f : SumOf(f, s) /\ Promise!Bytes(s) = f[Len(s)]
<1> DEFINE N == Len(s)
           G == [i \in 1..N |-> [t \in Nat |-> t + s[i].size]]
           Step(b) == [i \in 0..N |-> IF i = 0 THEN 0 ELSE b[i - 1] + s[i].size]
           c == CHOOSE b : b = Step(b)
<1>1. N \in Nat /\ DOMAIN s = 1..N /\ \A i \in 1..N : s[i].size \in Nat
  <2>1. N \in Nat /\ DOMAIN s = 1..N /\ \A i \in 1..N : s[i] \in Sizes
    OBVIOUS
  <2>2. QED
    BY <2>1 DEF Sizes
<1>2. G \in [1..N -> [Nat -> Nat]]
  BY <1>1
<1>3. PICK f \in [0..N -> Nat] : f[0] = 0 /\ \A i \in 1..N : f[i] = G[i][f[i - 1]]
  <2> DEFINE T == Nat
             x == 0
  <2> HIDE DEF G, N, Step, c
  <2>0. x \in T /\ N \in Nat /\ G \in [1..N -> [T -> T]]
    BY <1>1, <1>2
  <2> HIDE DEF T, x
  <2>3. \E f \in [0..N -> T] : f[0] = x /\ \A i \in 1..N : f[i] = G[i][f[i - 1]]
    BY ONLY <2>0, IterationExists
  <2>1. \E f \in [0..N -> Nat] : f[0] = 0 /\ \A i \in 1..N : f[i] = G[i][f[i - 1]]
    BY <2>3 DEF T, x
  <2>2. QED
    BY <2>1
<1>4. \A i \in 1..N : f[i] = f[i - 1] + s[i].size
  <2>1. \A i \in 1..N : i - 1 \in 0..N
    BY <1>1
  <2>2. QED
    BY <1>3, <2>1
<1>5. f = Step(f)
  <2>1. DOMAIN f = 0..N /\ f[0] = 0
    BY <1>3
  <2>2. \A i \in 0..N : f[i] = IF i = 0 THEN 0 ELSE f[i - 1] + s[i].size
    BY <1>1, <1>4, <2>1
  <2>3. f = [i \in 0..N |-> f[i]]
    BY <2>1
  <2> HIDE DEF N, G
  <2>4. QED
    BY <2>2, <2>3
<1>6. c = Step(c)
  <2> HIDE DEF Step
  <2> QED
    BY <1>5
<1>7. Promise!Bytes(s) = c[N]
  BY DEF Promise!Bytes
<1> HIDE DEF c, G
<1>8. \A i \in 0..N : c[i] = Step(c)[i]
  <2> HIDE DEF Step
  <2> QED
    BY <1>6
<1>9. c[0] = 0 /\ \A i \in 1..N : c[i] = c[i - 1] + s[i].size
  <2>1. 0 \in 0..N /\ \A i \in 1..N : i \in 0..N /\ i # 0
    BY <1>1
  <2>2. c[0] = Step(c)[0]
    BY ONLY <1>8, <2>1
  <2>3. ASSUME NEW i \in 1..N PROVE c[i] = c[i - 1] + s[i].size
    <3>1. i \in 0..N /\ i # 0
      BY <2>1
    <3>2. c[i] = Step(c)[i]
      BY ONLY <1>8, <3>1
    <3>3. QED
      BY <3>1, <3>2
  <2>4. QED
    BY <2>1, <2>2, <2>3
<1>10. DOMAIN c = 0..N
  <2>1. DOMAIN Step(c) = 0..N
    OBVIOUS
  <2> HIDE DEF Step
  <2>2. QED
    BY <1>6, <2>1
<1>11. \A n \in 0..N : c[n] \in Nat
  <2> DEFINE S == {n \in Nat : n <= N => c[n] \in Nat}
  <2>1. 0 \in S
    BY <1>9
  <2>2. ASSUME NEW n \in Nat, n < N, n \in S PROVE n + 1 \in S
    <3>1. n + 1 \in 1..N /\ (n + 1) - 1 = n
      BY <1>1, <2>2
    <3>2. c[n + 1] = c[n] + s[n + 1].size
      BY <1>9, <3>1
    <3>3. QED
      BY <1>1, <2>2, <3>1, <3>2
  <2>3. \A n \in 0..N : n \in S
    <3> HIDE DEF S
    <3> QED
      BY <1>1, <2>1, <2>2, UpTo
  <2>4. QED
    BY <1>1, <2>3
<1> HIDE DEF Step
<1>12. SumOf(c, s)
  <2>1. c = [n \in 0..N |-> c[n]]
    <3>1. Step(c) = [n \in 0..N |-> Step(c)[n]]
      BY DEF Step
    <3>2. QED
      BY <1>6, <3>1
  <2>2. c \in [0..N -> Nat]
    BY <1>11, <2>1
  <2>3. QED
    BY <1>9, <2>2 DEF SumOf
<1>13. QED
  BY <1>7, <1>12

LEMMA BytesAppend ==
    ASSUME NEW s \in Seq(Sizes), NEW m \in Sizes
    PROVE  Promise!Bytes(Append(s, m)) = Promise!Bytes(s) + m.size /\ Promise!Bytes(s) \in Nat
<1> DEFINE t == Append(s, m)
           N == Len(s)
<1>1. /\ t \in Seq(Sizes) /\ Len(t) = N + 1 /\ N \in Nat /\ t[N + 1] = m
      /\ \A i \in 1..N : t[i] = s[i]
  BY AppendProperties
<1> HIDE DEF t
<1>2. PICK f : SumOf(f, s) /\ Promise!Bytes(s) = f[N]
  BY BytesSum
<1>3. PICK g : SumOf(g, t) /\ Promise!Bytes(t) = g[N + 1]
  BY <1>1, BytesSum
<1>4. /\ f[0] = 0 /\ \A i \in 1..N : f[i] = f[i - 1] + s[i].size
      /\ g[0] = 0 /\ \A i \in 1..(N + 1) : g[i] = g[i - 1] + t[i].size
      /\ f[N] \in Nat
  BY <1>1, <1>2, <1>3 DEF SumOf
<1>5. \A n \in 0..N : g[n] = f[n]
  <2> DEFINE S == {n \in Nat : n <= N => g[n] = f[n]}
  <2>1. 0 \in S
    BY <1>4
  <2>2. ASSUME NEW n \in Nat, n < N, n \in S PROVE n + 1 \in S
    <3>1. n + 1 \in 1..N /\ n + 1 \in 1..(N + 1) /\ (n + 1) - 1 = n
      BY <1>1, <2>2
    <3>2. f[n + 1] = f[n] + s[n + 1].size /\ g[n + 1] = g[n] + t[n + 1].size /\ t[n + 1] = s[n + 1]
      BY <1>1, <1>4, <3>1
    <3>3. QED
      BY <2>2, <3>2
  <2>3. \A n \in 0..N : n \in S
    <3> HIDE DEF S
    <3> QED
      BY <1>1, <2>1, <2>2, UpTo
  <2>4. QED
    BY <1>1, <2>3
<1>6. g[N + 1] = g[N] + m.size
  <2>1. N + 1 \in 1..(N + 1) /\ (N + 1) - 1 = N
    BY <1>1
  <2>2. QED
    BY <1>1, <1>4, <2>1
<1>7. g[N] = f[N]
  BY <1>1, <1>5
<1>8. QED
  BY <1>2, <1>3, <1>4, <1>6, <1>7 DEF t

LEMMA BytesRemove ==
    ASSUME NEW s \in Seq(Sizes), NEW i \in DOMAIN s
    PROVE  Promise!Bytes(RemoveAt(s, i)) = Promise!Bytes(s) - s[i].size
<1> DEFINE t == RemoveAt(s, i)
           N == Len(s)
<1>0. N \in Nat /\ DOMAIN s = 1..N /\ i \in 1..N /\ \A j \in 1..N : s[j].size \in Nat
  <2>1. N \in Nat /\ DOMAIN s = 1..N /\ i \in 1..N /\ \A j \in 1..N : s[j] \in Sizes
    OBVIOUS
  <2>2. QED
    BY <2>1 DEF Sizes
<1>1. t \in Seq(Sizes) /\ Len(t) = N - 1
  BY RemoveAtPlaces
<1>2. \A j \in 1..Len(t) : t[j] = IF j < i THEN s[j] ELSE s[j + 1]
  BY RemoveAtPlaces
<1> HIDE DEF t
<1>3. PICK f : SumOf(f, s) /\ Promise!Bytes(s) = f[N]
  BY BytesSum
<1>4. PICK g : SumOf(g, t) /\ Promise!Bytes(t) = g[N - 1]
  BY <1>1, BytesSum
<1>5. /\ f[0] = 0 /\ \A j \in 1..N : f[j] = f[j - 1] + s[j].size
      /\ g[0] = 0 /\ \A j \in 1..(N - 1) : g[j] = g[j - 1] + t[j].size
      /\ \A j \in 0..N : f[j] \in Nat
  BY <1>1, <1>3, <1>4 DEF SumOf
<1>6. \A n \in 0..(N - 1) : g[n] = IF n < i THEN f[n] ELSE f[n + 1] - s[i].size
  <2> DEFINE S == {n \in Nat : n <= N - 1 => g[n] = IF n < i THEN f[n] ELSE f[n + 1] - s[i].size}
  <2>1. 0 \in S
    BY <1>0, <1>5
  <2>2. ASSUME NEW n \in Nat, n < N - 1, n \in S PROVE n + 1 \in S
    <3>1. n + 1 \in 1..(N - 1) /\ (n + 1) - 1 = n /\ n + 1 \in 1..N /\ n + 2 \in 1..N /\ (n + 2) - 1 = n + 1
          /\ n \in 0..N /\ n + 1 \in 0..N /\ n + 2 \in 0..N
      BY <1>0, <2>2
    <3>2. /\ g[n + 1] = g[n] + t[n + 1].size /\ f[n + 1] = f[n] + s[n + 1].size
          /\ f[n + 2] = f[n + 1] + s[n + 2].size
      BY <1>5, <3>1
    <3>3. f[n] \in Nat /\ f[n + 1] \in Nat /\ f[n + 2] \in Nat /\ s[n + 1].size \in Nat
          /\ s[n + 2].size \in Nat /\ s[i].size \in Nat
      BY <1>0, <1>5, <3>1
    <3>4. g[n] = IF n < i THEN f[n] ELSE f[n + 1] - s[i].size
      BY <1>0, <2>2
    <3>5. t[n + 1] = IF n + 1 < i THEN s[n + 1] ELSE s[(n + 1) + 1]
      BY <1>1, <1>2, <3>1
    <3>6. g[n + 1] = IF n + 1 < i THEN f[n + 1] ELSE f[n + 2] - s[i].size
      <4>1. CASE n + 1 < i
        BY <1>0, <3>2, <3>4, <3>5, <4>1
      <4>2. CASE n + 1 = i
        <5>1. t[n + 1] = s[n + 2] /\ g[n] = f[n]
          BY <1>0, <3>4, <3>5, <4>2
        <5>2. s[i].size = s[n + 1].size /\ ~(n + 1 < i)
          BY <1>0, <4>2
        <5>3. g[n + 1] = f[n + 2] - s[i].size
          BY ONLY <3>2, <3>3, <5>1, <5>2
        <5>4. QED
          BY <5>2, <5>3
      <4>3. CASE n + 1 > i
        <5>1. t[n + 1] = s[n + 2] /\ g[n] = f[n + 1] - s[i].size
          BY <1>0, <3>4, <3>5, <4>3
        <5>2. ~(n + 1 < i)
          BY <1>0, <4>3
        <5>3. g[n + 1] = f[n + 2] - s[i].size
          <6>1. f[n + 1] - s[i].size \in Int /\ f[n + 2] = f[n + 1] + s[n + 2].size
                /\ g[n + 1] = (f[n + 1] - s[i].size) + s[n + 2].size
            BY ONLY <3>2, <3>3, <5>1
          <6>2. QED
            BY ONLY <3>3, <6>1
        <5>4. QED
          BY <5>2, <5>3
      <4>4. QED
        BY <1>0, <4>1, <4>2, <4>3
    <3>7. (n + 1) + 1 = n + 2
      OBVIOUS
    <3>8. QED
      BY <3>6, <3>7
  <2>3. \A n \in 0..(N - 1) : n \in S
    <3>1. N - 1 \in Nat
      BY <1>0
    <3> HIDE DEF S
    <3> QED
      BY <2>1, <2>2, <3>1, UpTo
  <2>4. QED
    BY <1>0, <2>3
<1>7. g[N - 1] = f[N] - s[i].size
  <2>1. N - 1 \in 0..(N - 1) /\ (N - 1) + 1 = N
    BY <1>0
  <2>2. g[N - 1] = IF N - 1 < i THEN f[N - 1] ELSE f[N] - s[i].size
    BY <1>6, <2>1
  <2>3. CASE i = N
    <3>1. f[N] = f[N - 1] + s[N].size /\ N - 1 \in 0..N /\ N - 1 < i
      BY <1>0, <1>5, <2>3
    <3>2. QED
      BY <1>0, <1>5, <2>2, <2>3, <3>1
  <2>4. CASE i < N
    BY <1>0, <2>2, <2>4
  <2>5. QED
    BY <1>0, <2>3, <2>4
<1>8. QED
  BY <1>3, <1>4, <1>7 DEF t

LEMMA BytesNone == Promise!Bytes(<< >>) = 0
<1>1. << >> \in Seq(Sizes) /\ Len(<< >>) = 0
  OBVIOUS
<1>2. PICK f : SumOf(f, << >>) /\ Promise!Bytes(<< >>) = f[Len(<< >>)]
  BY <1>1, BytesSum
<1>3. QED
  BY <1>1, <1>2 DEF SumOf

-----------------------------------------------------------------------------
(* What a process is in a call. *)
Calling ==
    [pc : Sleeps \cup {"copyin", "copyout", "intr"}, asleep : BOOLEAN, req : Requests,
     seq : Nat, at : Nat]

ProcOK(e) ==
    /\ e = Idle \/ e \in Calling
    /\ e.asleep => e.pc \in Sleeps

Typed(P) == P = [o \in Procs |-> P[o]] /\ \A o \in Procs : ProcOK(P[o])

(* A queue; one that is not allocated is empty. *)
QueueOK(k) ==
    /\ k \in [alloc : BOOLEAN, seq : 0..MaxSeq, msgs : Seq(Message), cbytes : Nat,
              qbytes : Nat, rwait : BOOLEAN, wwait : BOOLEAN]
    /\ k.cbytes = Promise!Bytes(Sent(k.msgs))
    /\ ~k.alloc => k.msgs = << >>

(* Who copies has its queue locked, alone, and it is the queue he called   *)
(* for; room for his message, or the message and the older ones, stay.     *)
Holding == {p \in Procs : proc[p].pc \in {"copyin", "copyout"}}

Locks ==
    /\ msglock = {proc[p].req.q : p \in Holding}
    /\ \A p, o \in Holding : proc[p].req.q = proc[o].req.q => p = o

CopyFor(e, k) ==
    /\ k.alloc /\ k.seq = e.seq
    /\ e.pc = "copyin" => e.req.op = "snd" /\ e.req.cnt > 0 /\ e.req.cnt + k.cbytes <= k.qbytes
    /\ e.pc = "copyout" =>
         /\ e.at \in DOMAIN k.msgs
         /\ \A j \in 1..(e.at - 1) : k.msgs[j].type # k.msgs[e.at].type

CopyOK(p) == CopyFor(proc[p], msgque[proc[p].req.q])

(* SleepersBlocked, and a sleeper for room has none for the limit he saw.  *)
ReasonFor(e, k, fp, mm) ==
    e.asleep =>
        /\ e.pc = "room" => k.alloc /\ k.seq = e.seq /\ k.wwait /\ e.req.cnt + k.cbytes > e.at
        /\ e.pc = "header" => fp = 0
        /\ e.pc = "space" => mm.want /\ Fits(mm.free, Btoq(e.req.cnt)) = {}
        /\ e.pc = "reader" =>
             k.alloc /\ k.seq = e.seq /\ k.rwait /\ Wanted(k.msgs, e.req.typ) = {}

ReasonOK(p) == ReasonFor(proc[p], msgque[proc[p].req.q], msgfp, msgmap)

(* Each header and text is held by a place in a queue or a process that    *)
(* copies: K are the messages of each queue, U the texts being copied in.  *)
Holders(K, U) ==
    (UNION {{<<"q", q, i>> : i \in DOMAIN K[q]} : q \in Queues}) \cup {<<"p", p, 0>> : p \in DOMAIN U}

Holds(K, U, h) == IF h[1] = "q" THEN Text(K[h[2]][h[3]]) ELSE U[h[2]]

PoolFor(mm, fp, H, T) ==
    /\ GoodMap(mm)
    /\ fp \in Nat /\ IsFiniteSet(H) /\ fp + Cardinality(H) = MSGTQL
    /\ \A h \in H : T[h] \subseteq 1..MSGSEG /\ T[h] \cap UnitsOf(mm.free) = {}
    /\ \A h, g \in H : h # g => T[h] \cap T[g] = {}
    /\ EnoughSlots => UnitsOf(mm.free) \cup UNION {T[h] : h \in H} = 1..MSGSEG

PoolOf(mm, fp, K, U) ==
    PoolFor(mm, fp, Holders(K, U), [h \in Holders(K, U) |-> Holds(K, U, h)])

Lists == [q \in Queues |-> msgque[q].msgs]
Uses == [p \in Copying |-> Units(proc[p].at, Btoq(proc[p].req.cnt))]

Inv ==
    /\ Typed(proc)
    /\ msgque = [q \in Queues |-> msgque[q]] /\ \A q \in Queues : QueueOK(msgque[q])
    /\ Locks
    /\ \A p \in Holding : CopyOK(p)
    /\ \A p \in Procs : ReasonOK(p)
    /\ PoolOf(msgmap, msgfp, Lists, Uses)
-----------------------------------------------------------------------------
LEMMA PoolLoses ==
    ASSUME NEW mm, NEW fp, NEW H, NEW T, PoolFor(mm, fp, H, T), NEW R, R \subseteq H,
           NEW m2, Back(mm, m2, UNION {T[h] : h \in R}),
           NEW T2, \A h \in H \ R : T2[h] = T[h]
    PROVE  PoolFor(m2, fp + Cardinality(R), H \ R, T2)
<1>1. /\ IsFiniteSet(H) /\ Cardinality(H) \in Nat /\ IsFiniteSet(R) /\ Cardinality(R) \in Nat
      /\ IsFiniteSet(H \ R) /\ Cardinality(H \ R) = Cardinality(H) - Cardinality(R)
  <2>1. IsFiniteSet(H)
    BY DEF PoolFor
  <2>2. IsFiniteSet(R) /\ IsFiniteSet(H \ R)
    BY <2>1, FS_Subset
  <2>3. Cardinality(H \ R) = Cardinality(H) - Cardinality(H \cap R)
    BY <2>1, FS_Difference
  <2>4. H \cap R = R
    OBVIOUS
  <2>5. QED
    BY <2>1, <2>2, <2>3, <2>4, FS_CardinalityType
<1>2. /\ GoodMap(m2)
      /\ UnitsOf(m2.free) \subseteq UnitsOf(mm.free) \cup UNION {T[h] : h \in R}
      /\ EnoughSlots => UnitsOf(m2.free) = UnitsOf(mm.free) \cup UNION {T[h] : h \in R}
  BY DEF Back
<1>3. fp + Cardinality(R) \in Nat /\ fp + Cardinality(R) + Cardinality(H \ R) = MSGTQL
  BY <1>1, MessagesAssumption DEF PoolFor
<1>4. ASSUME NEW h \in H \ R PROVE T2[h] \subseteq 1..MSGSEG /\ T2[h] \cap UnitsOf(m2.free) = {}
  <2>1. T[h] \cap UNION {T[g] : g \in R} = {}
    BY DEF PoolFor
  <2>2. T[h] \subseteq 1..MSGSEG /\ T[h] \cap UnitsOf(mm.free) = {} /\ T2[h] = T[h]
    BY DEF PoolFor
  <2>3. QED
    BY <1>2, <2>1, <2>2
<1>5. ASSUME NEW h \in H \ R, NEW g \in H \ R, h # g PROVE T2[h] \cap T2[g] = {}
  <2>1. T[h] \cap T[g] = {} /\ T2[h] = T[h] /\ T2[g] = T[g]
    BY <1>5 DEF PoolFor
  <2>2. QED
    BY <2>1
<1>6. ASSUME EnoughSlots PROVE UnitsOf(m2.free) \cup UNION {T2[h] : h \in H \ R} = 1..MSGSEG
  <2>1. UnitsOf(mm.free) \cup UNION {T[h] : h \in H} = 1..MSGSEG
    BY <1>6 DEF PoolFor
  <2>2. UNION {T[h] : h \in H} = (UNION {T[h] : h \in R}) \cup UNION {T2[h] : h \in H \ R}
    <3>1. \A h \in H : T[h] \in {T[g] : g \in R} \cup {T2[g] : g \in H \ R}
      OBVIOUS
    <3>2. \A h \in H \ R : T2[h] \in {T[g] : g \in H}
      OBVIOUS
    <3>3. \A h \in R : T[h] \in {T[g] : g \in H}
      OBVIOUS
    <3>4. {T[h] : h \in H} = {T[h] : h \in R} \cup {T2[h] : h \in H \ R}
      BY <3>1, <3>2, <3>3
    <3> DEFINE A == {T[h] : h \in R}
               B == {T2[h] : h \in H \ R}
               C == {T[h] : h \in H}
    <3> HIDE DEF A, B, C
    <3>5. C = A \cup B
      BY <3>4 DEF A, B, C
    <3>6. UNION C = (UNION A) \cup UNION B
      BY ONLY <3>5
    <3>7. QED
      BY <3>6 DEF A, B, C
  <2>3. QED
    BY <1>2, <1>6, <2>1, <2>2
<1>7. QED
  BY <1>1, <1>2, <1>3, <1>4, <1>5, <1>6 DEF PoolFor

LEMMA PoolRenamed ==
    ASSUME NEW mm, NEW fp, NEW H, NEW T, PoolFor(mm, fp, H, T), NEW H2, NEW f \in Bijection(H, H2),
           NEW T2, \A h \in H : T2[f[h]] = T[h]
    PROVE  PoolFor(mm, fp, H2, T2)
<1>1. IsFiniteSet(H2) /\ Cardinality(H2) = Cardinality(H)
  BY FS_Bijection DEF PoolFor, ExistsBijection
<1>2. /\ \A h \in H : f[h] \in H2
      /\ \A g \in H2 : \E h \in H : g = f[h]
  BY DEF Bijection, Injection, Surjection
<1>3. ASSUME NEW g \in H2 PROVE T2[g] \subseteq 1..MSGSEG /\ T2[g] \cap UnitsOf(mm.free) = {}
  <2>1. PICK h \in H : g = f[h]
    BY <1>2
  <2>2. QED
    BY <2>1 DEF PoolFor
<1>4. ASSUME NEW g \in H2, NEW e \in H2, g # e PROVE T2[g] \cap T2[e] = {}
  <2>1. PICK h \in H : g = f[h]
    BY <1>2
  <2>2. PICK d \in H : e = f[d]
    BY <1>2
  <2>3. h # d
    BY <1>4, <2>1, <2>2
  <2>4. T[h] \cap T[d] = {}
    BY <2>3 DEF PoolFor
  <2>5. QED
    BY <2>1, <2>2, <2>4
<1>5. UNION {T2[g] : g \in H2} = UNION {T[h] : h \in H}
  <2>1. \A h \in H : T[h] \in {T2[g] : g \in H2}
    BY <1>2
  <2>2. \A g \in H2 : T2[g] \in {T[h] : h \in H}
    BY <1>2
  <2>3. {T2[g] : g \in H2} = {T[h] : h \in H}
    BY <2>1, <2>2
  <2>4. QED
    BY <2>3
<1>6. QED
  BY <1>1, <1>3, <1>4, <1>5 DEF PoolFor

LEMMA PoolGains ==
    ASSUME NEW mm, NEW fp, NEW H, NEW T, PoolFor(mm, fp, H, T), fp # 0, NEW x, x \notin H,
           NEW T2, \A h \in H : T2[h] = T[h], T2[x] \subseteq UnitsOf(mm.free),
           NEW m2, GoodMap(m2), UnitsOf(m2.free) = UnitsOf(mm.free) \ T2[x]
    PROVE  PoolFor(m2, fp - 1, H \cup {x}, T2)
<1> DEFINE H2 == H \cup {x}
<1>1. IsFiniteSet(H2) /\ Cardinality(H2) = Cardinality(H) + 1 /\ Cardinality(H) \in Nat
  BY FS_AddElement, FS_CardinalityType DEF PoolFor
<1>2. fp - 1 \in Nat /\ (fp - 1) + Cardinality(H2) = MSGTQL
  <2>1. fp \in Nat /\ fp + Cardinality(H) = MSGTQL
    BY DEF PoolFor
  <2>2. QED
    BY <1>1, <2>1
<1>3. UnitsOf(mm.free) \subseteq 1..MSGSEG
  BY DEF PoolFor, GoodMap
<1>4. ASSUME NEW h \in H2 PROVE T2[h] \subseteq 1..MSGSEG /\ T2[h] \cap UnitsOf(m2.free) = {}
  <2>1. CASE h = x
    BY <1>3, <2>1
  <2>2. CASE h \in H
    <3>1. T[h] \subseteq 1..MSGSEG /\ T[h] \cap UnitsOf(mm.free) = {} /\ T2[h] = T[h]
      BY <2>2 DEF PoolFor
    <3>2. QED
      BY <3>1
  <2>3. QED
    BY <2>1, <2>2
<1>5. ASSUME NEW h \in H2, NEW g \in H2, h # g PROVE T2[h] \cap T2[g] = {}
  <2>1. \A e \in H : T2[e] = T[e] /\ T[e] \cap UnitsOf(mm.free) = {}
    BY DEF PoolFor
  <2>2. CASE h = x
    BY <1>5, <2>1, <2>2
  <2>3. CASE g = x
    BY <1>5, <2>1, <2>3
  <2>4. CASE h \in H /\ g \in H
    <3>1. T[h] \cap T[g] = {}
      BY <1>5, <2>4 DEF PoolFor
    <3>2. QED
      BY <2>1, <2>4, <3>1
  <2>5. QED
    BY <2>2, <2>3, <2>4
<1>6. ASSUME EnoughSlots PROVE UnitsOf(m2.free) \cup UNION {T2[h] : h \in H2} = 1..MSGSEG
  <2>1. UnitsOf(mm.free) \cup UNION {T[h] : h \in H} = 1..MSGSEG
    BY <1>6 DEF PoolFor
  <2>2. UNION {T2[h] : h \in H2} = T2[x] \cup UNION {T[h] : h \in H}
    OBVIOUS
  <2>3. QED
    BY <2>1, <2>2
<1>7. QED
  BY <1>1, <1>2, <1>4, <1>5, <1>6 DEF PoolFor

-----------------------------------------------------------------------------
(* The messages of the queues, and the texts being copied in. *)
ListsOK(K) == K \in [Queues -> Seq(Message)]

LEMMA HoldersAre ==
    ASSUME NEW K, NEW U, NEW h
    PROVE  h \in Holders(K, U) <=>
                \/ \E q \in Queues : \E i \in DOMAIN K[q] : h = <<"q", q, i>>
                \/ \E p \in DOMAIN U : h = <<"p", p, 0>>
BY DEF Holders

LEMMA QueueHolder ==
    ASSUME NEW K, NEW U, NEW q, NEW i
    PROVE  /\ <<"q", q, i>> \in Holders(K, U) <=> q \in Queues /\ i \in DOMAIN K[q]
           /\ Holds(K, U, <<"q", q, i>>) = Text(K[q][i])
<1>1. ASSUME q \in Queues, i \in DOMAIN K[q] PROVE <<"q", q, i>> \in Holders(K, U)
  BY <1>1, HoldersAre
<1>2. ASSUME <<"q", q, i>> \in Holders(K, U) PROVE q \in Queues /\ i \in DOMAIN K[q]
  <2>1. CASE \E c \in Queues : \E j \in DOMAIN K[c] : <<"q", q, i>> = <<"q", c, j>>
    BY <2>1
  <2>2. CASE \E p \in DOMAIN U : <<"q", q, i>> = <<"p", p, 0>>
    BY <2>2
  <2>3. QED
    BY <1>2, <2>1, <2>2, HoldersAre
<1>3. Holds(K, U, <<"q", q, i>>) = Text(K[q][i])
  BY DEF Holds
<1>4. QED
  BY <1>1, <1>2, <1>3

LEMMA ProcHolder ==
    ASSUME NEW K, NEW U, NEW p
    PROVE  /\ <<"p", p, 0>> \in Holders(K, U) <=> p \in DOMAIN U
           /\ Holds(K, U, <<"p", p, 0>>) = U[p]
<1>1. ASSUME p \in DOMAIN U PROVE <<"p", p, 0>> \in Holders(K, U)
  BY <1>1, HoldersAre
<1>2. ASSUME <<"p", p, 0>> \in Holders(K, U) PROVE p \in DOMAIN U
  <2>1. CASE \E c \in Queues : \E j \in DOMAIN K[c] : <<"p", p, 0>> = <<"q", c, j>>
    BY <2>1
  <2>2. CASE \E o \in DOMAIN U : <<"p", p, 0>> = <<"p", o, 0>>
    BY <2>2
  <2>3. QED
    BY <1>2, <2>1, <2>2, HoldersAre
<1>3. Holds(K, U, <<"p", p, 0>>) = U[p]
  BY DEF Holds
<1>4. QED
  BY <1>1, <1>2, <1>3

(* A message without text is put on a queue, *)
LEMMA PoolLinksEmpty ==
    ASSUME NEW mm, NEW fp, NEW K, NEW U, ListsOK(K), PoolOf(mm, fp, K, U), fp # 0,
           NEW q \in Queues, NEW m \in Message, m.ts = 0
    PROVE  PoolOf(mm, fp - 1, [K EXCEPT ![q] = Append(@, m)], U)
<1> DEFINE K2 == [K EXCEPT ![q] = Append(@, m)]
           H == Holders(K, U)
           H2 == Holders(K2, U)
           T == [h \in H |-> Holds(K, U, h)]
           T2 == [h \in H2 |-> Holds(K2, U, h)]
           n == Len(K[q])
           x == <<"q", q, n + 1>>
<1>1. /\ K[q] \in Seq(Message) /\ n \in Nat /\ DOMAIN K[q] = 1..n
      /\ K2[q] = Append(K[q], m) /\ \A c \in Queues : c # q => K2[c] = K[c]
  BY DEF ListsOK
<1>2. /\ DOMAIN K2[q] = 1..(n + 1) /\ K2[q][n + 1] = m
      /\ \A i \in 1..n : K2[q][i] = K[q][i]
  BY <1>1, AppendProperties
<1> HIDE DEF K2, n
<1>3. x \notin H /\ x \in H2 /\ Holds(K2, U, x) = Text(m)
  <2>1. n + 1 \in 1..(n + 1) /\ n + 1 \notin 1..n
    BY <1>1
  <2>2. QED
    BY <1>1, <1>2, <2>1, QueueHolder
<1>4. ASSUME NEW h \in H PROVE h \in H2 /\ Holds(K2, U, h) = Holds(K, U, h)
  <2>1. ASSUME NEW c \in Queues, NEW i \in DOMAIN K[c], h = <<"q", c, i>>
        PROVE  h \in H2 /\ Holds(K2, U, h) = Holds(K, U, h)
    <3>1. i \in DOMAIN K2[c] /\ K2[c][i] = K[c][i]
      BY <1>1, <1>2
    <3>2. QED
      BY <2>1, <3>1, QueueHolder
  <2>2. ASSUME NEW p \in DOMAIN U, h = <<"p", p, 0>>
        PROVE  h \in H2 /\ Holds(K2, U, h) = Holds(K, U, h)
    BY <2>2, ProcHolder
  <2>3. QED
    BY <2>1, <2>2, HoldersAre
<1>5. ASSUME NEW h \in H2 PROVE h \in H \/ h = x
  <2>1. ASSUME NEW c \in Queues, NEW i \in DOMAIN K2[c], h = <<"q", c, i>>
        PROVE  h \in H \/ h = x
    <3>1. CASE i \in DOMAIN K[c]
      BY <2>1, <3>1, QueueHolder
    <3>2. CASE i \notin DOMAIN K[c]
      <4>1. c = q /\ i = n + 1
        BY <1>1, <1>2, <3>2
      <4>2. QED
        BY <2>1, <4>1
    <3>3. QED
      BY <3>1, <3>2
  <2>2. ASSUME NEW p \in DOMAIN U, h = <<"p", p, 0>> PROVE h \in H
    BY <2>2, ProcHolder
  <2>3. QED
    BY <2>1, <2>2, HoldersAre
<1>6. Text(m) = {}
  BY <1>1, BtoqFacts DEF Text, Units, Message
<1> HIDE DEF x, H, H2
<1>7. H2 = H \cup {x}
  BY <1>3, <1>4, <1>5
<1>8. /\ \A h \in H : T2[h] = T[h]
      /\ T2[x] = {}
  BY <1>3, <1>4, <1>6
<1>9. PoolFor(mm, fp, H, T)
  BY DEF PoolOf, H
<1> HIDE DEF T, T2
<1>10. PoolFor(mm, fp - 1, H \cup {x}, T2)
  <2>1. GoodMap(mm) /\ UnitsOf(mm.free) = UnitsOf(mm.free) \ T2[x]
    BY <1>8, <1>9 DEF PoolFor
  <2>2. QED
    BY <1>3, <1>8, <1>9, <2>1, PoolGains
<1>11. QED
  BY <1>7, <1>10 DEF PoolOf, K2, H2, T2

(* a text is taken to be copied in, *)
LEMMA PoolCopyin ==
    ASSUME NEW mm, NEW fp, NEW K, NEW U, PoolOf(mm, fp, K, U), fp # 0,
           NEW p, p \notin DOMAIN U, NEW V, V \subseteq UnitsOf(mm.free),
           NEW m2, GoodMap(m2), UnitsOf(m2.free) = UnitsOf(mm.free) \ V,
           NEW U2, DOMAIN U2 = DOMAIN U \cup {p}, U2[p] = V, \A o \in DOMAIN U : U2[o] = U[o]
    PROVE  PoolOf(m2, fp - 1, K, U2)
<1> DEFINE H == Holders(K, U)
           H2 == Holders(K, U2)
           T == [h \in H |-> Holds(K, U, h)]
           T2 == [h \in H2 |-> Holds(K, U2, h)]
           x == <<"p", p, 0>>
<1>3. x \notin H /\ x \in H2 /\ Holds(K, U2, x) = V
  BY ProcHolder
<1>4. ASSUME NEW h \in H PROVE h \in H2 /\ Holds(K, U2, h) = Holds(K, U, h)
  <2>1. ASSUME NEW c \in Queues, NEW i \in DOMAIN K[c], h = <<"q", c, i>>
        PROVE  h \in H2 /\ Holds(K, U2, h) = Holds(K, U, h)
    BY <2>1, QueueHolder
  <2>2. ASSUME NEW o \in DOMAIN U, h = <<"p", o, 0>>
        PROVE  h \in H2 /\ Holds(K, U2, h) = Holds(K, U, h)
    BY <2>2, ProcHolder
  <2>3. QED
    BY <2>1, <2>2, HoldersAre
<1>5. ASSUME NEW h \in H2 PROVE h \in H \/ h = x
  <2>1. ASSUME NEW c \in Queues, NEW i \in DOMAIN K[c], h = <<"q", c, i>>
        PROVE  h \in H
    BY <2>1, QueueHolder
  <2>2. ASSUME NEW o \in DOMAIN U2, h = <<"p", o, 0>> PROVE h \in H \/ h = x
    BY <2>2, ProcHolder
  <2>3. QED
    BY <2>1, <2>2, HoldersAre
<1> HIDE DEF x, H, H2
<1>7. H2 = H \cup {x}
  BY <1>3, <1>4, <1>5
<1>8. /\ \A h \in H : T2[h] = T[h]
      /\ T2[x] = V
  BY <1>3, <1>4
<1>9. PoolFor(mm, fp, H, T)
  BY DEF PoolOf, H
<1> HIDE DEF T, T2
<1>10. PoolFor(m2, fp - 1, H \cup {x}, T2)
  BY <1>3, <1>8, <1>9, PoolGains
<1>11. QED
  BY <1>7, <1>10 DEF PoolOf, H2, T2

(* which fails and gives it back, *)
LEMMA PoolCopyFails ==
    ASSUME NEW mm, NEW fp, NEW K, NEW U, PoolOf(mm, fp, K, U),
           NEW p \in DOMAIN U, NEW m2, Back(mm, m2, U[p]),
           NEW U2, DOMAIN U2 = DOMAIN U \ {p}, \A o \in DOMAIN U2 : U2[o] = U[o]
    PROVE  PoolOf(m2, fp + 1, K, U2)
<1> DEFINE H == Holders(K, U)
           H2 == Holders(K, U2)
           T == [h \in H |-> Holds(K, U, h)]
           T2 == [h \in H2 |-> Holds(K, U2, h)]
           x == <<"p", p, 0>>
           R == {x}
<1>3. x \in H /\ x \notin H2 /\ Holds(K, U, x) = U[p]
  BY ProcHolder
<1>4. ASSUME NEW h \in H2 PROVE h \in H /\ Holds(K, U2, h) = Holds(K, U, h)
  <2>1. ASSUME NEW c \in Queues, NEW i \in DOMAIN K[c], h = <<"q", c, i>>
        PROVE  h \in H /\ Holds(K, U2, h) = Holds(K, U, h)
    BY <2>1, QueueHolder
  <2>2. ASSUME NEW o \in DOMAIN U2, h = <<"p", o, 0>>
        PROVE  h \in H /\ Holds(K, U2, h) = Holds(K, U, h)
    BY <2>2, ProcHolder
  <2>3. QED
    BY <2>1, <2>2, HoldersAre
<1>5. ASSUME NEW h \in H PROVE h \in H2 \/ h = x
  <2>1. ASSUME NEW c \in Queues, NEW i \in DOMAIN K[c], h = <<"q", c, i>>
        PROVE  h \in H2
    BY <2>1, QueueHolder
  <2>2. ASSUME NEW o \in DOMAIN U, h = <<"p", o, 0>> PROVE h \in H2 \/ h = x
    BY <2>2, ProcHolder
  <2>3. QED
    BY <2>1, <2>2, HoldersAre
<1>6. Cardinality(R) = 1
  BY FS_Singleton
<1> HIDE DEF x, H, H2
<1>7. H2 = H \ R /\ R \subseteq H
  BY <1>3, <1>4, <1>5
<1>8. /\ \A h \in H \ R : T2[h] = T[h]
      /\ UNION {T[h] : h \in R} = U[p]
  BY <1>3, <1>4, <1>7
<1>9. PoolFor(mm, fp, H, T)
  BY DEF PoolOf, H
<1> HIDE DEF T, T2, R
<1>10. PoolFor(m2, fp + 1, H \ R, T2)
  <2>1. Back(mm, m2, UNION {T[h] : h \in R})
    BY <1>8
  <2>2. PoolFor(m2, fp + Cardinality(R), H \ R, T2)
    BY <1>7, <1>8, <1>9, <2>1, PoolLoses
  <2>3. QED
    BY <1>6, <2>2
<1>11. QED
  BY <1>7, <1>10 DEF PoolOf, H2, T2

(* or ends, and the message with the text is put on a queue. *)
LEMMA PoolCopiedIn ==
    ASSUME NEW mm, NEW fp, NEW K, NEW U, ListsOK(K), PoolOf(mm, fp, K, U),
           NEW p \in DOMAIN U, NEW q \in Queues, NEW m \in Message, Text(m) = U[p],
           NEW U2, DOMAIN U2 = DOMAIN U \ {p}, \A o \in DOMAIN U2 : U2[o] = U[o]
    PROVE  PoolOf(mm, fp, [K EXCEPT ![q] = Append(@, m)], U2)
<1> DEFINE K2 == [K EXCEPT ![q] = Append(@, m)]
           H == Holders(K, U)
           H2 == Holders(K2, U2)
           T == [h \in H |-> Holds(K, U, h)]
           T2 == [h \in H2 |-> Holds(K2, U2, h)]
           n == Len(K[q])
           x == <<"p", p, 0>>
           y == <<"q", q, n + 1>>
           f == [h \in H |-> IF h = x THEN y ELSE h]
<1>1. /\ K[q] \in Seq(Message) /\ n \in Nat /\ DOMAIN K[q] = 1..n
      /\ K2[q] = Append(K[q], m) /\ \A c \in Queues : c # q => K2[c] = K[c]
  BY DEF ListsOK
<1>2. /\ DOMAIN K2[q] = 1..(n + 1) /\ K2[q][n + 1] = m
      /\ \A i \in 1..n : K2[q][i] = K[q][i]
  BY <1>1, AppendProperties
<1> HIDE DEF K2, n
<1>3. y \notin H /\ y \in H2 /\ Holds(K2, U2, y) = Text(m)
  <2>1. n + 1 \in 1..(n + 1) /\ n + 1 \notin 1..n
    BY <1>1
  <2>2. QED
    BY <1>1, <1>2, <2>1, QueueHolder
<1>x. x \in H /\ x \notin H2 /\ Holds(K, U, x) = U[p]
  BY ProcHolder
<1>4. ASSUME NEW h \in H, h # x PROVE h \in H2 /\ Holds(K2, U2, h) = Holds(K, U, h)
  <2>1. ASSUME NEW c \in Queues, NEW i \in DOMAIN K[c], h = <<"q", c, i>>
        PROVE  h \in H2 /\ Holds(K2, U2, h) = Holds(K, U, h)
    <3>1. i \in DOMAIN K2[c] /\ K2[c][i] = K[c][i]
      BY <1>1, <1>2
    <3>2. QED
      BY <2>1, <3>1, QueueHolder
  <2>2. ASSUME NEW o \in DOMAIN U, h = <<"p", o, 0>>
        PROVE  h \in H2 /\ Holds(K2, U2, h) = Holds(K, U, h)
    BY <1>4, <2>2, ProcHolder
  <2>3. QED
    BY <2>1, <2>2, HoldersAre
<1>5. ASSUME NEW h \in H2, h # y PROVE h \in H
  <2>1. ASSUME NEW c \in Queues, NEW i \in DOMAIN K2[c], h = <<"q", c, i>>
        PROVE  h \in H
    <3>1. CASE i \in DOMAIN K[c]
      BY <2>1, <3>1, QueueHolder
    <3>2. CASE i \notin DOMAIN K[c]
      <4>1. c = q /\ i = n + 1
        BY <1>1, <1>2, <3>2
      <4>2. QED
        BY <1>5, <2>1, <4>1
    <3>3. QED
      BY <3>1, <3>2
  <2>2. ASSUME NEW o \in DOMAIN U2, h = <<"p", o, 0>> PROVE h \in H
    BY <2>2, ProcHolder
  <2>3. QED
    BY <2>1, <2>2, HoldersAre
<1> HIDE DEF x, y, H, H2
<1>6. f \in Bijection(H, H2)
  <2>1. f \in [H -> H2]
    BY <1>3, <1>4
  <2>2. \A a, b \in H : f[a] = f[b] => a = b
    BY <1>3
  <2>3. \A g \in H2 : \E h \in H : f[h] = g
    <3>1. ASSUME NEW g \in H2 PROVE \E h \in H : f[h] = g
      <4>1. CASE g = y
        BY <1>x, <4>1
      <4>2. CASE g # y
        <5>1. g \in H /\ g # x
          BY <1>5, <1>x, <4>2
        <5>2. QED
          BY <5>1
      <4>3. QED
        BY <4>1, <4>2
    <3>2. QED
      BY <3>1
  <2> HIDE DEF f
  <2>4. QED
    BY <2>1, <2>2, <2>3 DEF Bijection, Injection, Surjection, IsInjective
<1>7. \A h \in H : T2[f[h]] = T[h]
  BY <1>3, <1>4, <1>x
<1>8. PoolFor(mm, fp, H, T)
  BY DEF PoolOf, H
<1> HIDE DEF T, T2, f
<1>9. PoolFor(mm, fp, H2, T2)
  BY <1>6, <1>7, <1>8, PoolRenamed
<1>10. QED
  BY <1>9 DEF PoolOf, K2, H2, T2

(* A message leaves its queue, *)
LEMMA PoolMsgfree ==
    ASSUME NEW mm, NEW fp, NEW K, NEW U, ListsOK(K), PoolOf(mm, fp, K, U),
           NEW q \in Queues, NEW i \in DOMAIN K[q], NEW m2, Back(mm, m2, Text(K[q][i]))
    PROVE  PoolOf(m2, fp + 1, [K EXCEPT ![q] = RemoveAt(@, i)], U)
<1> DEFINE K2 == [K EXCEPT ![q] = RemoveAt(@, i)]
           H == Holders(K, U)
           H2 == Holders(K2, U)
           T == [h \in H |-> Holds(K, U, h)]
           T2 == [h \in H2 |-> Holds(K2, U, h)]
           n == Len(K[q])
           x == <<"q", q, i>>
           R == {x}
           H1 == H \ R
           F(h) == IF h[1] = "q" /\ h[2] = q /\ h[3] > i THEN <<"q", q, h[3] - 1>> ELSE h
           G(h) == IF h[1] = "q" /\ h[2] = q /\ h[3] >= i THEN <<"q", q, h[3] + 1>> ELSE h
           f == [h \in H1 |-> F(h)]
<1>1. /\ K[q] \in Seq(Message) /\ n \in Nat /\ DOMAIN K[q] = 1..n /\ i \in 1..n
      /\ K2[q] = RemoveAt(K[q], i) /\ \A c \in Queues : c # q => K2[c] = K[c]
  BY DEF ListsOK
<1>2. DOMAIN K2[q] = 1..(n - 1) /\ \A j \in 1..(n - 1) : K2[q][j] = IF j < i THEN K[q][j] ELSE K[q][j + 1]
  <2>1. /\ K2[q] \in Seq(Message) /\ Len(K2[q]) = n - 1
        /\ \A j \in 1..Len(K2[q]) : K2[q][j] = IF j < i THEN K[q][j] ELSE K[q][j + 1]
    BY <1>1, RemoveAtPlaces
  <2> HIDE DEF K2, n
  <2>2. QED
    BY <2>1
<1> HIDE DEF K2, n
<1>3. x \in H /\ Holds(K, U, x) = Text(K[q][i])
  BY <1>1, QueueHolder
<1>4. ASSUME NEW h \in H, h # x
      PROVE  F(h) \in H2 /\ Holds(K2, U, F(h)) = Holds(K, U, h) /\ G(F(h)) = h
  <2>1. ASSUME NEW c \in Queues, NEW j \in DOMAIN K[c], h = <<"q", c, j>>, c # q
        PROVE  F(h) \in H2 /\ Holds(K2, U, F(h)) = Holds(K, U, h) /\ G(F(h)) = h
    <3>1. F(h) = h /\ G(h) = h /\ K2[c] = K[c]
      BY <1>1, <2>1
    <3>2. QED
      BY <2>1, <3>1, QueueHolder
  <2>2. ASSUME NEW j \in DOMAIN K[q], h = <<"q", q, j>>, j < i
        PROVE  F(h) \in H2 /\ Holds(K2, U, F(h)) = Holds(K, U, h) /\ G(F(h)) = h
    <3>1. F(h) = h /\ G(h) = h
      BY <1>1, <2>2
    <3>2. j \in DOMAIN K2[q] /\ K2[q][j] = K[q][j]
      BY <1>1, <1>2, <2>2
    <3>3. QED
      BY <2>2, <3>1, <3>2, QueueHolder
  <2>3. ASSUME NEW j \in DOMAIN K[q], h = <<"q", q, j>>, j > i
        PROVE  F(h) \in H2 /\ Holds(K2, U, F(h)) = Holds(K, U, h) /\ G(F(h)) = h
    <3> DEFINE d == j - 1
    <3>1. d \in DOMAIN K2[q] /\ K2[q][d] = K[q][j] /\ d + 1 = j /\ d >= i
      BY <1>1, <1>2, <2>3
    <3>2. F(h) = <<"q", q, d>>
      BY <2>3
    <3>3. G(<<"q", q, d>>) = h
      BY <2>3, <3>1
    <3> HIDE DEF d
    <3>4. QED
      BY <2>3, <3>1, <3>2, <3>3, QueueHolder
  <2>4. ASSUME NEW p \in DOMAIN U, h = <<"p", p, 0>>
        PROVE  F(h) \in H2 /\ Holds(K2, U, F(h)) = Holds(K, U, h) /\ G(F(h)) = h
    <3>1. F(h) = h /\ G(h) = h
      BY <2>4
    <3>2. QED
      BY <2>4, <3>1, ProcHolder
  <2>5. ASSUME NEW j \in DOMAIN K[q], h = <<"q", q, j>> PROVE j < i \/ j > i
    BY <1>1, <1>4, <2>5
  <2> HIDE DEF F, G, x, H, H2
  <2>6. QED
    BY <2>1, <2>2, <2>3, <2>4, <2>5, HoldersAre DEF H
<1>5. ASSUME NEW e \in H2 PROVE G(e) \in H1 /\ F(G(e)) = e
  <2>1. ASSUME NEW c \in Queues, NEW j \in DOMAIN K2[c], e = <<"q", c, j>>, c # q
        PROVE  G(e) \in H1 /\ F(G(e)) = e
    <3>1. G(e) = e /\ F(e) = e /\ K2[c] = K[c] /\ e # x
      BY <1>1, <2>1
    <3>2. QED
      BY <2>1, <3>1, QueueHolder
  <2>2. ASSUME NEW j \in DOMAIN K2[q], e = <<"q", q, j>>, j < i
        PROVE  G(e) \in H1 /\ F(G(e)) = e
    <3>1. F(e) = e /\ G(e) = e /\ e # x
      BY <1>1, <1>2, <2>2
    <3>2. j \in DOMAIN K[q]
      BY <1>1, <1>2, <2>2
    <3>3. QED
      BY <2>2, <3>1, <3>2, QueueHolder
  <2>3. ASSUME NEW j \in DOMAIN K2[q], e = <<"q", q, j>>, j >= i
        PROVE  G(e) \in H1 /\ F(G(e)) = e
    <3> DEFINE d == j + 1
    <3>1. d \in DOMAIN K[q] /\ d - 1 = j /\ d > i
      BY <1>1, <1>2, <2>3
    <3>2. G(e) = <<"q", q, d>>
      BY <2>3
    <3>3. F(<<"q", q, d>>) = e
      BY <2>3, <3>1
    <3>5. <<"q", q, d>> # x
      BY <1>1, <3>1
    <3> HIDE DEF d
    <3>4. QED
      BY <2>3, <3>1, <3>2, <3>3, <3>5, QueueHolder
  <2>4. ASSUME NEW p \in DOMAIN U, e = <<"p", p, 0>>
        PROVE  G(e) \in H1 /\ F(G(e)) = e
    <3>1. F(e) = e /\ G(e) = e /\ e # x
      BY <2>4
    <3>2. QED
      BY <2>4, <3>1, ProcHolder
  <2>5. ASSUME NEW j \in DOMAIN K2[q] PROVE j < i \/ j >= i
    BY <1>1, <1>2
  <2> HIDE DEF F, G, x, H, H2, H1
  <2>6. QED
    BY <2>1, <2>2, <2>3, <2>4, <2>5, HoldersAre DEF H2
<1>6. Cardinality(R) = 1
  BY FS_Singleton
<1> HIDE DEF x, H, H2, F, G
<1>7. R \subseteq H
  BY <1>3
<1>8. UNION {T[h] : h \in R} = Text(K[q][i])
  BY <1>3
<1>9. PoolFor(mm, fp, H, T)
  BY DEF PoolOf, H
<1>10. \A h \in H1 : f[h] \in H2 /\ T2[f[h]] = T[h] /\ G(f[h]) = h
  BY <1>4
<1>11. \A e \in H2 : \E h \in H1 : f[h] = e
  BY <1>5
<1>12. f = [h \in H1 |-> f[h]]
  OBVIOUS
<1> HIDE DEF T, T2, R, f
<1>13. PoolFor(m2, fp + 1, H1, T)
  <2>1. Back(mm, m2, UNION {T[h] : h \in R})
    BY <1>8
  <2>2. PoolFor(m2, fp + Cardinality(R), H \ R, T)
    BY <1>7, <1>9, <2>1, PoolLoses
  <2>3. QED
    BY <1>6, <2>2
<1> HIDE DEF H1
<1>14. f \in Bijection(H1, H2)
  <2>1. f \in [H1 -> H2]
    BY <1>10, <1>12
  <2>2. \A a, b \in H1 : f[a] = f[b] => a = b
    BY <1>10
  <2>3. QED
    BY <2>1, <2>2, <1>11 DEF Bijection, Injection, Surjection, IsInjective
<1>15. PoolFor(m2, fp + 1, H2, T2)
  BY <1>10, <1>13, <1>14, PoolRenamed
<1>16. QED
  BY <1>15 DEF PoolOf, K2, H2, T2

(* or all of a queue do. *)
LEMMA PoolRmid ==
    ASSUME NEW mm, NEW fp, NEW K, NEW U, ListsOK(K), PoolOf(mm, fp, K, U),
           NEW q \in Queues, NEW m2, Back(mm, m2, TextsOf(K[q], Len(K[q])))
    PROVE  PoolOf(m2, fp + Len(K[q]), [K EXCEPT ![q] = << >>], U)
<1> DEFINE K2 == [K EXCEPT ![q] = << >>]
           H == Holders(K, U)
           H2 == Holders(K2, U)
           T == [h \in H |-> Holds(K, U, h)]
           T2 == [h \in H2 |-> Holds(K2, U, h)]
           n == Len(K[q])
           R == {<<"q", q, i>> : i \in 1..n}
           f == [i \in 1..n |-> <<"q", q, i>>]
<1>1. /\ K[q] \in Seq(Message) /\ n \in Nat /\ DOMAIN K[q] = 1..n
      /\ K2[q] = << >> /\ DOMAIN K2[q] = {} /\ \A c \in Queues : c # q => K2[c] = K[c]
  BY DEF ListsOK
<1> HIDE DEF K2, n
<1>2. Cardinality(R) = n
  <2>1. f \in Bijection(1..n, R)
    BY DEF Bijection, Injection, Surjection, IsInjective
  <2>2. IsFiniteSet(1..n) /\ Cardinality(1..n) = n
    BY <1>1, FS_Interval
  <2> HIDE DEF f, R
  <2>3. QED
    BY <2>1, <2>2, FS_Bijection DEF ExistsBijection
<1>3. R \subseteq H
  BY <1>1, QueueHolder
<1>4. ASSUME NEW h \in H \ R PROVE h \in H2 /\ Holds(K2, U, h) = Holds(K, U, h)
  <2>1. ASSUME NEW c \in Queues, NEW i \in DOMAIN K[c], h = <<"q", c, i>>
        PROVE  h \in H2 /\ Holds(K2, U, h) = Holds(K, U, h)
    <3>1. c # q
      BY <1>1, <2>1
    <3>2. K2[c] = K[c]
      BY <1>1, <3>1
    <3>3. QED
      BY <2>1, <3>2, QueueHolder
  <2>2. ASSUME NEW p \in DOMAIN U, h = <<"p", p, 0>>
        PROVE  h \in H2 /\ Holds(K2, U, h) = Holds(K, U, h)
    BY <2>2, ProcHolder
  <2>3. QED
    BY <2>1, <2>2, HoldersAre
<1>5. ASSUME NEW h \in H2 PROVE h \in H \ R
  <2>1. ASSUME NEW c \in Queues, NEW i \in DOMAIN K2[c], h = <<"q", c, i>>
        PROVE  h \in H \ R
    <3>1. c # q
      BY <1>1
    <3>2. K2[c] = K[c] /\ h \notin R
      BY <1>1, <2>1, <3>1
    <3>3. QED
      BY <2>1, <3>2, QueueHolder
  <2>2. ASSUME NEW p \in DOMAIN U, h = <<"p", p, 0>> PROVE h \in H \ R
    <3>1. h \notin R
      BY <2>2
    <3>2. QED
      BY <2>2, <3>1, ProcHolder
  <2>3. QED
    BY <2>1, <2>2, HoldersAre
<1>6. UNION {T[h] : h \in R} = TextsOf(K[q], n)
  <2>1. \A i \in 1..n : T[<<"q", q, i>>] = Text(K[q][i])
    BY <1>1, <1>3, QueueHolder
  <2> HIDE DEF T
  <2>2. {T[h] : h \in R} = {Text(K[q][i]) : i \in 1..n}
    BY <2>1
  <2>3. QED
    BY <2>2 DEF TextsOf
<1> HIDE DEF H, H2
<1>7. H2 = H \ R
  BY <1>4, <1>5
<1>8. \A h \in H \ R : T2[h] = T[h]
  BY <1>4
<1>9. PoolFor(mm, fp, H, T)
  BY DEF PoolOf, H
<1> HIDE DEF T, T2, R
<1>10. PoolFor(m2, fp + n, H \ R, T2)
  <2>1. Back(mm, m2, UNION {T[h] : h \in R})
    BY <1>6 DEF n
  <2>2. PoolFor(m2, fp + Cardinality(R), H \ R, T2)
    BY <1>3, <1>8, <1>9, <2>1, PoolLoses
  <2>3. QED
    BY <1>2, <2>2
<1>11. QED
  BY <1>7, <1>10 DEF PoolOf, K2, H2, T2, n

-----------------------------------------------------------------------------
(* Processes and wakeups. *)
LEMMA RequestFacts ==
    ASSUME NEW r \in Requests
    PROVE  /\ r.op \in {"snd", "rcv"} /\ r.q \in Queues /\ r.typ \in Int /\ r.cnt \in Nat
           /\ r.nowait \in BOOLEAN /\ r.noerror \in BOOLEAN /\ (r.op = "snd" => r.typ > 0)
<1>1. r \in [op : {"snd", "rcv"}, q : Queues, typ : Int, cnt : Nat, nowait : BOOLEAN, noerror : BOOLEAN]
  BY MessagesAssumption
<1>2. r.op = "snd" => r.typ > 0
  BY MessagesAssumption
<1>3. QED
  BY <1>1, <1>2

LEMMA ProcFacts ==
    ASSUME NEW e, ProcOK(e)
    PROVE  /\ e.pc = "user" => e = Idle
           /\ e.pc # "user" => e \in Calling
           /\ e.asleep => e.pc \in Sleeps
           /\ e \in Calling => e.req \in Requests /\ e.seq \in Nat /\ e.at \in Nat
           /\ e.pc \in Sleeps \cup {"user", "copyin", "copyout", "intr"} /\ e.asleep \in BOOLEAN
<1>1. CASE e = Idle
  BY <1>1 DEF Idle, Sleeps, Calling
<1>2. CASE e \in Calling
  BY <1>2 DEF Calling, ProcOK, Sleeps
<1>3. QED
  BY <1>1, <1>2 DEF ProcOK

LEMMA AtFacts ==
    ASSUME NEW pc \in Sleeps \cup {"copyin", "copyout", "intr"}, NEW r \in Requests, NEW s \in Nat,
           NEW k \in Nat
    PROVE  /\ ProcOK(At(pc, r, s, k)) /\ At(pc, r, s, k) \in Calling
           /\ At(pc, r, s, k).pc = pc /\ At(pc, r, s, k).req = r /\ At(pc, r, s, k).seq = s
           /\ At(pc, r, s, k).at = k /\ (At(pc, r, s, k).asleep <=> pc \in Sleeps)
<1>1. At(pc, r, s, k) \in Calling
  BY DEF At, Calling
<1>2. QED
  BY <1>1 DEF At, ProcOK

LEMMA IdleFacts == ProcOK(Idle) /\ Idle.pc = "user" /\ Idle.asleep = FALSE
BY DEF Idle, ProcOK

Woke(e, f) == f = e \/ (e.asleep /\ f = [e EXCEPT !.asleep = FALSE])

LEMMA WokeFacts ==
    ASSUME NEW e, ProcOK(e), NEW f, Woke(e, f)
    PROVE  /\ ProcOK(f) /\ f.pc = e.pc
           /\ f.asleep => f = e
           /\ f.pc \notin Sleeps => f = e
           /\ e \in Calling => f.req = e.req /\ f.seq = e.seq /\ f.at = e.at
<1>1. CASE f = e
  BY <1>1
<1>2. CASE e.asleep /\ f = [e EXCEPT !.asleep = FALSE]
  <2>1. e \in Calling /\ e.pc \in Sleeps
    BY <1>2, ProcFacts DEF ProcOK, Idle
  <2>2. f \in Calling /\ f.pc = e.pc /\ f.asleep = FALSE /\ f.req = e.req /\ f.seq = e.seq /\ f.at = e.at
    BY <1>2, <2>1 DEF Calling
  <2>3. QED
    BY <2>1, <2>2 DEF ProcOK
<1>3. QED
  BY <1>1, <1>2 DEF Woke

(* Q is P with some processes woken; nobody of those in Q sleeps at on for *)
(* a queue of S.                                                           *)
Roused(P, Q) == Q = [o \in Procs |-> Q[o]] /\ \A o \in Procs : Woke(P[o], Q[o])
Quiet(Q, on, S) == \A o \in Procs : ~(Q[o].asleep /\ Q[o].pc = on /\ Q[o].req.q \in S)

LEMMA RousedTyped ==
    ASSUME NEW P, Typed(P), NEW Q, Roused(P, Q)
    PROVE  Typed(Q)
<1>1. \A o \in Procs : ProcOK(Q[o])
  BY WokeFacts DEF Typed, Roused
<1>2. QED
  BY <1>1 DEF Typed, Roused

LEMMA RousedTwice ==
    ASSUME NEW P, Typed(P), NEW Q, Roused(P, Q), NEW R, Roused(Q, R)
    PROVE  Roused(P, R)
<1>1. ASSUME NEW o \in Procs PROVE Woke(P[o], R[o])
  <2>1. Woke(P[o], Q[o]) /\ Woke(Q[o], R[o]) /\ ProcOK(P[o])
    BY DEF Roused, Typed
  <2>2. CASE Q[o] = P[o]
    BY <2>1, <2>2
  <2>3. CASE Q[o] # P[o]
    <3>2. ~Q[o].asleep
      BY <2>1, <2>3, WokeFacts
    <3>3. R[o] = Q[o]
      BY <2>1, <3>2 DEF Woke
    <3>4. QED
      BY <2>1, <3>3
  <2>4. QED
    BY <2>2, <2>3
<1>2. QED
  BY <1>1 DEF Roused

LEMMA QuietStays ==
    ASSUME NEW P, Typed(P), NEW Q, Roused(P, Q), NEW on, NEW S, Quiet(P, on, S)
    PROVE  Quiet(Q, on, S)
<1>1. ASSUME NEW o \in Procs, Q[o].asleep PROVE Q[o] = P[o]
  <2>1. Woke(P[o], Q[o]) /\ ProcOK(P[o])
    BY DEF Roused, Typed
  <2>2. QED
    BY <1>1, <2>1, WokeFacts
<1>2. QED
  BY <1>1 DEF Quiet

LEMMA WakeupFacts ==
    ASSUME NEW P, Typed(P), NEW on, NEW S
    PROVE  Roused(P, Wakeup(P, on, S)) /\ Quiet(Wakeup(P, on, S), on, S)
<1> DEFINE Q == Wakeup(P, on, S)
<1>1. /\ Q = [o \in Procs |-> Q[o]]
      /\ \A o \in Procs : Q[o] = IF P[o].asleep /\ P[o].pc = on /\ P[o].req.q \in S
                                 THEN [P[o] EXCEPT !.asleep = FALSE] ELSE P[o]
  BY DEF Wakeup
<1> HIDE DEF Q
<1>2. ASSUME NEW o \in Procs
      PROVE  Woke(P[o], Q[o]) /\ ~(Q[o].asleep /\ Q[o].pc = on /\ Q[o].req.q \in S)
  <2>1. ProcOK(P[o])
    BY DEF Typed
  <2>2. CASE P[o].asleep /\ P[o].pc = on /\ P[o].req.q \in S
    <3>1. Q[o] = [P[o] EXCEPT !.asleep = FALSE]
      BY <1>1, <2>2
    <3>2. Woke(P[o], Q[o])
      BY <2>2, <3>1 DEF Woke
    <3>3. P[o] \in Calling
      BY <2>1, <2>2 DEF ProcOK, Idle
    <3>4. Q[o].asleep = FALSE
      BY <3>1, <3>3 DEF Calling
    <3>5. QED
      BY <3>2, <3>4
  <2>3. CASE ~(P[o].asleep /\ P[o].pc = on /\ P[o].req.q \in S)
    <3>1. Q[o] = P[o]
      BY <1>1, <2>3
    <3>2. QED
      BY <2>3, <3>1 DEF Woke
  <2>4. QED
    BY <2>2, <2>3
<1>3. QED
  BY <1>1, <1>2 DEF Roused, Quiet, Q

LEMMA RousedSelf ==
    ASSUME NEW P, Typed(P)
    PROVE  Roused(P, P)
BY DEF Roused, Typed, Woke

LEMMA HeaderBackFacts ==
    ASSUME NEW P, Typed(P), NEW fp
    PROVE  Roused(P, HeaderBack(P, fp)) /\ (fp = 0 => Quiet(HeaderBack(P, fp), "header", Queues))
BY WakeupFacts, RousedSelf DEF HeaderBack

LEMMA MapWakesFacts ==
    ASSUME NEW P, Typed(P), NEW mm
    PROVE  /\ Roused(P, MapWakes(P, mm))
           /\ msgmap.want /\ ~mm.want => Quiet(MapWakes(P, mm), "space", Queues)
BY WakeupFacts, RousedSelf DEF MapWakes

-----------------------------------------------------------------------------
(* A step in which the processes outside X are at most woken. *)
Others(X) ==
    /\ proc' = [o \in Procs |-> proc'[o]]
    /\ \A o \in Procs \ X : Woke(proc[o], proc'[o])

(* Nobody of them sleeps at on for queue q any more. *)
Calm(X, on, q) == \A o \in Procs \ X : ~(proc'[o].asleep /\ proc'[o].pc = on /\ proc'[o].req.q = q)

SameQueue(k, n) == n.alloc = k.alloc /\ n.seq = k.seq

(* A queue k becomes n and stays as a process needs it that copies with    *)
(* its lock,                                                               *)
CopiesKept(k, n) ==
    SameQueue(k, n) /\ n.msgs = k.msgs /\ n.cbytes = k.cbytes /\ n.qbytes = k.qbytes

(* as those need it that sleep for room,                                   *)
RoomKept(k, n) == SameQueue(k, n) /\ (k.wwait => n.wwait) /\ n.cbytes >= k.cbytes

(* and as those need it that sleep for a message.                          *)
ReadersKept(k, n) ==
    /\ SameQueue(k, n) /\ (k.rwait => n.rwait)
    /\ \A t \in Int : Wanted(k.msgs, t) = {} => Wanted(n.msgs, t) = {}

SpaceKept(mm, m2) ==
    (mm.want => m2.want) /\ \A n \in Int : Fits(mm.free, n) = {} => Fits(m2.free, n) = {}

LEMMA ReasonKept ==
    ASSUME NEW e \in Calling, NEW k, NEW n, NEW fp, NEW fp2, NEW mm, NEW m2,
           k.cbytes \in Int, n.cbytes \in Int, ReasonFor(e, k, fp, mm),
           e.pc = "room" => RoomKept(k, n), e.pc = "reader" => ReadersKept(k, n),
           e.pc = "header" => (fp = 0 => fp2 = 0), e.pc = "space" => SpaceKept(mm, m2)
    PROVE  ReasonFor(e, n, fp2, m2)
<1>1. e.req \in Requests /\ e.at \in Int
  BY DEF Calling
<1>2. e.req.typ \in Int /\ e.req.cnt \in Int /\ Btoq(e.req.cnt) \in Int
  BY <1>1, RequestFacts, BtoqFacts
<1>3. ASSUME e.asleep, e.pc = "room"
      PROVE  n.alloc /\ n.seq = e.seq /\ n.wwait /\ e.req.cnt + n.cbytes > e.at
  <2>1. k.alloc /\ k.seq = e.seq /\ k.wwait /\ e.req.cnt + k.cbytes > e.at /\ RoomKept(k, n)
    BY <1>3 DEF ReasonFor
  <2>2. n.alloc /\ n.seq = e.seq /\ n.wwait /\ n.cbytes >= k.cbytes
    BY ONLY <2>1 DEF RoomKept, SameQueue
  <2>3. e.req.cnt + n.cbytes > e.at
    BY ONLY <1>1, <1>2, <2>1, <2>2, k.cbytes \in Int, n.cbytes \in Int
  <2>4. QED
    BY <2>2, <2>3
<1>4. ASSUME e.asleep, e.pc = "reader"
      PROVE  n.alloc /\ n.seq = e.seq /\ n.rwait /\ Wanted(n.msgs, e.req.typ) = {}
  <2>1. k.alloc /\ k.seq = e.seq /\ k.rwait /\ Wanted(k.msgs, e.req.typ) = {} /\ ReadersKept(k, n)
    BY <1>4 DEF ReasonFor
  <2>2. QED
    BY ONLY <1>2, <2>1 DEF ReadersKept, SameQueue
<1>5. ASSUME e.asleep, e.pc = "space" PROVE m2.want /\ Fits(m2.free, Btoq(e.req.cnt)) = {}
  <2>1. mm.want /\ Fits(mm.free, Btoq(e.req.cnt)) = {} /\ SpaceKept(mm, m2)
    BY <1>5 DEF ReasonFor
  <2>2. QED
    BY ONLY <1>2, <2>1 DEF SpaceKept
<1>6. ASSUME e.asleep, e.pc = "header" PROVE fp2 = 0
  BY <1>6 DEF ReasonFor
<1>7. QED
  BY ONLY <1>3, <1>4, <1>5, <1>6 DEF ReasonFor

LEMMA OtherFacts ==
    ASSUME Typed(proc), NEW X, Others(X), NEW o \in Procs \ X
    PROVE  /\ ProcOK(proc[o]) /\ ProcOK(proc'[o]) /\ proc'[o].pc = proc[o].pc
           /\ proc'[o].asleep => proc'[o] = proc[o]
           /\ proc'[o].pc \notin Sleeps => proc'[o] = proc[o]
<1>1. ProcOK(proc[o]) /\ Woke(proc[o], proc'[o])
  BY DEF Typed, Others
<1>2. QED
  BY ONLY <1>1, WokeFacts

LEMMA HoldingIs ==
    ASSUME Typed(proc), NEW X, Others(X)
    PROVE  /\ \A o \in Procs \ X : o \in Holding' <=> o \in Holding
           /\ \A o \in Procs \ X : o \in Copying' <=> o \in Copying
           /\ \A o \in Holding : o \notin X => proc'[o] = proc[o]
           /\ Copying \subseteq Holding
<1>1. \A o \in Procs \ X : proc'[o].pc = proc[o].pc /\ (proc'[o].pc \notin Sleeps => proc'[o] = proc[o])
  BY OtherFacts
<1>2. \A o \in Holding : o \in Procs /\ proc[o].pc \notin Sleeps
  BY DEF Holding, Sleeps
<1>3. QED
  BY <1>1, <1>2 DEF Holding, Copying

LEMMA InvStep ==
    ASSUME Inv, NEW X, X \subseteq Procs, Others(X),
           \A p \in X : ProcOK(proc'[p]) /\ ReasonOK(p)' /\ (p \in Holding' => CopyOK(p)'),
           msgque' = [q \in Queues |-> msgque'[q]], \A q \in Queues : QueueOK(msgque'[q]),
           Locks',
           \A p \in Holding \ X : CopiesKept(msgque[proc[p].req.q], msgque'[proc[p].req.q]),
           \A q \in Queues : Calm(X, "room", q) \/ RoomKept(msgque[q], msgque'[q]),
           \A q \in Queues : Calm(X, "reader", q) \/ ReadersKept(msgque[q], msgque'[q]),
           (\A q \in Queues : Calm(X, "header", q)) \/ (msgfp = 0 => msgfp' = 0),
           (\A q \in Queues : Calm(X, "space", q)) \/ SpaceKept(msgmap, msgmap'),
           PoolOf(msgmap', msgfp', Lists', Uses')
    PROVE  Inv'
<1>1. Typed(proc')
  <2>1. \A o \in Procs : ProcOK(proc'[o])
    BY OtherFacts DEF Inv
  <2>2. QED
    BY <2>1 DEF Typed, Others
<1>2. ASSUME NEW p \in Holding' PROVE CopyOK(p)'
  <2>1. p \in Procs
    BY DEF Holding
  <2>2. CASE p \in X
    BY <2>2
  <2>3. CASE p \notin X
    <3>1. p \in Holding /\ proc'[p] = proc[p]
      BY <2>1, <2>3, HoldingIs DEF Inv
    <3> DEFINE k == msgque[proc[p].req.q]
               n == msgque'[proc[p].req.q]
    <3>2. CopyFor(proc[p], k)
      BY <3>1 DEF Inv, CopyOK
    <3>3. CopiesKept(k, n)
      BY <2>3, <3>1
    <3> HIDE DEF k, n
    <3>4. CopyFor(proc[p], n)
      BY ONLY <3>2, <3>3 DEF CopyFor, CopiesKept, SameQueue
    <3>5. QED
      BY <3>1, <3>4 DEF CopyOK, n
  <2>4. QED
    BY <2>2, <2>3
<1>3. ASSUME NEW p \in Procs PROVE ReasonOK(p)'
  <2>1. CASE p \in X
    BY <2>1
  <2>2. CASE p \notin X /\ ~proc'[p].asleep
    BY <2>2 DEF ReasonOK, ReasonFor
  <2>3. CASE p \notin X /\ proc'[p].asleep
    <3> DEFINE e == proc[p]
               k == msgque[e.req.q]
               n == msgque'[e.req.q]
    <3>1. proc'[p] = e /\ ProcOK(e)
      BY <2>3, OtherFacts DEF Inv
    <3>2. e.asleep
      BY <2>3, <3>1
    <3>3. e \in Calling
      BY ONLY <3>1, <3>2 DEF ProcOK, Idle
    <3>4. e.req \in Requests
      BY <3>3 DEF Calling
    <3>5. e.req.q \in Queues
      BY ONLY <3>4, RequestFacts
    <3>6. QueueOK(k) /\ QueueOK(n)
      BY <3>5 DEF Inv
    <3>7. k.cbytes \in Int /\ n.cbytes \in Int
      BY ONLY <3>6 DEF QueueOK
    <3>8. ReasonFor(e, k, msgfp, msgmap)
      BY DEF Inv, ReasonOK
    <3>9. p \in Procs \ X /\ proc'[p].req.q = e.req.q /\ proc'[p].pc = e.pc
      BY <2>3, <3>1
    <3>10. \A on : e.pc = on => ~Calm(X, on, e.req.q)
      BY <2>3, <3>9 DEF Calm
    <3> HIDE DEF e, k, n
    <3>11. /\ e.pc = "room" => RoomKept(k, n)
           /\ e.pc = "reader" => ReadersKept(k, n)
           /\ e.pc = "header" => (msgfp = 0 => msgfp' = 0)
           /\ e.pc = "space" => SpaceKept(msgmap, msgmap')
      BY <3>5, <3>10 DEF k, n
    <3>12. ReasonFor(e, n, msgfp', msgmap')
      BY ONLY <3>3, <3>7, <3>8, <3>11, ReasonKept
    <3>13. QED
      BY <3>1, <3>12 DEF ReasonOK, e, n
  <2>4. QED
    BY <2>1, <2>2, <2>3
<1>4. QED
  BY <1>1, <1>2, <1>3 DEF Inv

-----------------------------------------------------------------------------
(* The processes after a wakeup and a change of p, *)
LEMMA ThenChange ==
    ASSUME NEW P, Typed(P), Roused(proc, P), NEW p \in Procs, NEW e,
           proc' = [P EXCEPT ![p] = e]
    PROVE  /\ Others({p}) /\ proc'[p] = e
           /\ \A on, S : Quiet(P, on, S) => \A q \in S : Calm({p}, on, q)
<1>1. P = [o \in Procs |-> P[o]]
  BY DEF Typed
<1>2. proc' = [o \in Procs |-> IF o = p THEN e ELSE P[o]]
  BY <1>1
<1>3. QED
  BY <1>2 DEF Others, Roused, Quiet, Calm

(* or after a change of p and a wakeup. *)
LEMMA ChangeFirst ==
    ASSUME Typed(proc), NEW p \in Procs, NEW e, ProcOK(e), Roused([proc EXCEPT ![p] = e], proc')
    PROVE  /\ Others({p}) /\ Woke(e, proc'[p]) /\ ProcOK(proc'[p])
           /\ \A on, S : Quiet(proc', on, S) => \A q \in S : Calm({p}, on, q)
<1> DEFINE P == [proc EXCEPT ![p] = e]
<1>1. P[p] = e /\ \A o \in Procs \ {p} : P[o] = proc[o]
  BY DEF Typed
<1>2. Roused(P, proc')
  OBVIOUS
<1> HIDE DEF P
<1>3. Others({p}) /\ Woke(e, proc'[p])
  BY <1>1, <1>2 DEF Others, Roused
<1>4. ProcOK(proc'[p])
  BY ONLY <1>3, ProcOK(e), WokeFacts
<1>5. QED
  BY <1>3, <1>4 DEF Quiet, Calm

LEMMA ChangeTyped ==
    ASSUME Typed(proc), NEW p \in Procs, NEW e, ProcOK(e)
    PROVE  Typed([proc EXCEPT ![p] = e])
BY DEF Typed

(* Nobody but p changed. *)
LEMMA OnlyChange ==
    ASSUME Typed(proc), NEW p \in Procs, NEW e, proc' = [proc EXCEPT ![p] = e]
    PROVE  Others({p}) /\ proc'[p] = e
<1>1. Roused(proc, proc)
  BY RousedSelf
<1>2. QED
  BY <1>1, ThenChange

LEMMA NoChange ==
    ASSUME Typed(proc), Roused(proc, proc')
    PROVE  Others({}) /\ \A on, S : Quiet(proc', on, S) => \A q \in S : Calm({}, on, q)
BY DEF Others, Roused, Quiet, Calm

LEMMA UsesFacts ==
    ASSUME Typed(proc), NEW X, Others(X)
    PROVE  /\ DOMAIN Uses = Copying /\ DOMAIN Uses' = Copying'
           /\ \A o \in Copying' : Uses'[o] = Units(proc'[o].at, Btoq(proc'[o].req.cnt))
           /\ \A o \in Copying' \ X : Uses'[o] = Uses[o]
<1>1. ASSUME NEW o \in Copying' \ X PROVE Uses'[o] = Uses[o]
  <2>1. o \in Procs /\ o \in Copying /\ o \in Holding
    BY HoldingIs DEF Copying
  <2>2. proc'[o] = proc[o]
    BY <2>1, HoldingIs
  <2>3. QED
    BY <2>1, <2>2 DEF Uses
<1>2. QED
  BY <1>1 DEF Uses

LEMMA StayOutside ==
    ASSUME Typed(proc), Locks, NEW X, Others(X), X \subseteq Procs, X \cap Holding = {},
           X \cap Holding' = {}, msglock' = msglock
    PROVE  Locks' /\ Uses' = Uses /\ Holding' = Holding
<1>1. Holding' = Holding /\ Copying' = Copying /\ \A o \in Holding : proc'[o] = proc[o]
  <2>1. \A o \in Holding : o \notin X /\ o \in Procs
    BY DEF Holding
  <2>2. \A o \in Holding' : o \notin X /\ o \in Procs
    BY DEF Holding
  <2>3. \A o \in Copying : o \in Holding
    BY DEF Holding, Copying
  <2>4. \A o \in Copying' : o \in Holding'
    BY DEF Holding, Copying
  <2>5. QED
    BY <2>1, <2>2, <2>3, <2>4, HoldingIs
<1>2. Locks'
  BY <1>1 DEF Locks
<1>3. Uses' = Uses
  <2>1. \A o \in Copying : proc'[o] = proc[o]
    BY <1>1 DEF Holding, Copying
  <2>2. QED
    BY <1>1, <2>1 DEF Uses
<1>4. QED
  BY <1>1, <1>2, <1>3

LEMMA Enters ==
    ASSUME Typed(proc), Locks, NEW p \in Procs, Others({p}), p \notin Holding,
           proc'[p].pc \in {"copyin", "copyout"}, proc'[p].req.q \notin msglock,
           msglock' = msglock \cup {proc'[p].req.q}
    PROVE  Locks' /\ Copying' = Copying \cup (IF proc'[p].pc = "copyin" THEN {p} ELSE {})
<1>1. Holding' = Holding \cup {p} /\ \A o \in Holding : proc'[o] = proc[o]
  <2>1. p \in Holding'
    BY DEF Holding
  <2>2. \A o \in Holding' : o \in Procs
    BY DEF Holding
  <2>3. \A o \in Holding : o \in Procs
    BY DEF Holding
  <2>4. QED
    BY <2>1, <2>2, <2>3, HoldingIs
<1>2. Locks'
  <2>1. \A o \in Holding : proc'[o].req.q \in msglock /\ proc'[o].req.q = proc[o].req.q
    BY <1>1 DEF Locks
  <2>2. msglock' = {proc'[o].req.q : o \in Holding'}
    <3>1. msglock = {proc'[o].req.q : o \in Holding}
      BY <1>1 DEF Locks
    <3>2. QED
      BY <1>1, <3>1
  <2>3. \A h, o \in Holding' : proc'[h].req.q = proc'[o].req.q => h = o
    <3>1. \A h, o \in Holding : proc'[h].req.q = proc'[o].req.q => h = o
      BY <2>1 DEF Locks
    <3>2. QED
      BY <1>1, <2>1, <3>1
  <2>4. QED
    BY <2>2, <2>3 DEF Locks
<1>3. Copying' = Copying \cup (IF proc'[p].pc = "copyin" THEN {p} ELSE {})
  <2>1. \A o \in Copying' : o \in Procs
    BY DEF Copying
  <2>2. \A o \in Copying : o \in Procs /\ o # p
    BY DEF Copying, Holding
  <2>3. p \in Copying' <=> proc'[p].pc = "copyin"
    BY DEF Copying
  <2>4. QED
    BY <2>1, <2>2, <2>3, HoldingIs
<1>4. QED
  BY <1>2, <1>3

LEMMA Leaves ==
    ASSUME Typed(proc), Locks, NEW p \in Procs, Others({p}), p \in Holding,
           proc'[p] = Idle, msglock' = msglock \ {proc[p].req.q}
    PROVE  Locks' /\ Copying' = Copying \ {p}
<1>0. proc'[p].pc \notin {"copyin", "copyout"}
  BY IdleFacts
<1>1. Holding' = Holding \ {p} /\ \A o \in Holding' : proc'[o] = proc[o]
  <2>1. p \notin Holding'
    BY <1>0 DEF Holding
  <2>2. \A o \in Holding' : o \in Procs
    BY DEF Holding
  <2>3. \A o \in Holding : o \in Procs
    BY DEF Holding
  <2>4. QED
    BY <2>1, <2>2, <2>3, HoldingIs
<1>2. Locks'
  <2>1. msglock' = {proc'[o].req.q : o \in Holding'}
    <3>1. msglock = {proc[o].req.q : o \in Holding}
      BY DEF Locks
    <3>2. \A o \in Holding' : proc[o].req.q # proc[p].req.q
      BY <1>1 DEF Locks
    <3>3. msglock' = {proc[o].req.q : o \in Holding'}
      BY <1>1, <3>1, <3>2
    <3>4. QED
      BY <1>1, <3>3
  <2>2. \A h, o \in Holding' : proc'[h].req.q = proc'[o].req.q => h = o
    BY <1>1 DEF Locks
  <2>3. QED
    BY <2>1, <2>2 DEF Locks
<1>3. Copying' = Copying \ {p}
  <2>1. \A o \in Copying' : o \in Procs
    BY DEF Copying
  <2>2. \A o \in Copying : o \in Procs
    BY DEF Copying
  <2>3. p \notin Copying'
    BY <1>0 DEF Copying
  <2>4. QED
    BY <2>1, <2>2, <2>3, HoldingIs
<1>4. QED
  BY <1>2, <1>3

-----------------------------------------------------------------------------
(* Queues. *)
LEMMA PoolText ==
    ASSUME NEW mm, NEW fp, NEW K, NEW U, PoolOf(mm, fp, K, U)
    PROVE  /\ GoodMap(mm) /\ fp \in Nat
           /\ \A q \in Queues : \A i \in DOMAIN K[q] :
                Text(K[q][i]) \subseteq 1..MSGSEG /\ Text(K[q][i]) \cap UnitsOf(mm.free) = {}
           /\ \A q \in Queues : \A i, j \in DOMAIN K[q] : i # j => Text(K[q][i]) \cap Text(K[q][j]) = {}
           /\ \A p \in DOMAIN U : U[p] \subseteq 1..MSGSEG /\ U[p] \cap UnitsOf(mm.free) = {}
<1> DEFINE H == Holders(K, U)
           T == [h \in H |-> Holds(K, U, h)]
<1>1. PoolFor(mm, fp, H, T)
  BY DEF PoolOf
<1>2. \A q \in Queues : \A i \in DOMAIN K[q] : <<"q", q, i>> \in H /\ T[<<"q", q, i>>] = Text(K[q][i])
  BY QueueHolder
<1>3. \A p \in DOMAIN U : <<"p", p, 0>> \in H /\ T[<<"p", p, 0>>] = U[p]
  BY ProcHolder
<1>4. \A q \in Queues : \A i, j \in DOMAIN K[q] : i # j => <<"q", q, i>> # <<"q", q, j>>
  OBVIOUS
<1> HIDE DEF H, T
<1>5. /\ GoodMap(mm) /\ fp \in Nat
      /\ \A h \in H : T[h] \subseteq 1..MSGSEG /\ T[h] \cap UnitsOf(mm.free) = {}
      /\ \A h, g \in H : h # g => T[h] \cap T[g] = {}
  BY <1>1 DEF PoolFor
<1>6. ASSUME NEW q \in Queues, NEW i \in DOMAIN K[q]
      PROVE  Text(K[q][i]) \subseteq 1..MSGSEG /\ Text(K[q][i]) \cap UnitsOf(mm.free) = {}
  <2>1. <<"q", q, i>> \in H /\ T[<<"q", q, i>>] = Text(K[q][i])
    BY <1>2
  <2>2. QED
    BY ONLY <1>5, <2>1
<1>7. ASSUME NEW q \in Queues, NEW i \in DOMAIN K[q], NEW j \in DOMAIN K[q], i # j
      PROVE  Text(K[q][i]) \cap Text(K[q][j]) = {}
  <2> DEFINE h == <<"q", q, i>>
             g == <<"q", q, j>>
  <2>1. h \in H /\ T[h] = Text(K[q][i]) /\ g \in H /\ T[g] = Text(K[q][j]) /\ h # g
    BY <1>2, <1>4, <1>7
  <2> HIDE DEF h, g
  <2>2. T[h] \cap T[g] = {}
    BY ONLY <1>5, <2>1
  <2>3. QED
    BY <2>1, <2>2
<1>8. ASSUME NEW p \in DOMAIN U PROVE U[p] \subseteq 1..MSGSEG /\ U[p] \cap UnitsOf(mm.free) = {}
  <2>1. <<"p", p, 0>> \in H /\ T[<<"p", p, 0>>] = U[p]
    BY <1>3
  <2>2. QED
    BY ONLY <1>5, <2>1
<1>9. QED
  BY ONLY <1>5, <1>6, <1>7, <1>8

(* The segments that follow one of the same text: each that is not free    *)
(* and not among them begins a text, so they are no more than the holders. *)
Inner(H, T) == {u \in 1..MSGSEG : \E h \in H : u \in T[h] /\ u - 1 \in T[h]}

LEMMA InnerFacts ==
    ASSUME NEW mm, NEW fp, NEW H, NEW T, PoolFor(mm, fp, H, T),
           \A h \in H : \E a, k \in Nat : T[h] = Units(a, k)
    PROVE  /\ EnoughSlots => Pieces(Inner(H, T), UnitsOf(mm.free))
           /\ \A h \in H : Continued(Inner(H, T), T[h])
<1> DEFINE C == Inner(H, T)
           F == UnitsOf(mm.free)
           S == Starts(C, F)
           o == [u \in S |-> CHOOSE h \in H : u \in T[h]]
<1>1. /\ fp \in Nat /\ IsFiniteSet(H) /\ fp + Cardinality(H) = MSGTQL
      /\ \A h \in H : T[h] \subseteq 1..MSGSEG /\ T[h] \cap F = {}
      /\ \A h, g \in H : h # g => T[h] \cap T[g] = {}
      /\ EnoughSlots => F \cup UNION {T[h] : h \in H} = 1..MSGSEG
  BY DEF PoolFor
<1> HIDE DEF F
<1>2. \A u \in C : u \in 1..MSGSEG /\ \E h \in H : u \in T[h] /\ u - 1 \in T[h]
  BY DEF Inner
<1>3. ASSUME NEW u \in 1..MSGSEG, NEW h \in H, u \in T[h], u \notin C PROVE u - 1 \notin T[h]
  BY <1>3 DEF Inner
<1> HIDE DEF C
<1>4. ASSUME NEW h \in H PROVE Continued(C, T[h])
  <2>1. ASSUME NEW u \in C PROVE u \in T[h] <=> u - 1 \in T[h]
    <3>1. PICK g \in H : u \in T[g] /\ u - 1 \in T[g]
      BY <1>2
    <3>2. QED
      BY <1>1, <3>1
  <2>2. QED
    BY <2>1 DEF Continued
<1>5. Continued(C, F)
  <2>1. ASSUME NEW u \in C PROVE u \notin F /\ u - 1 \notin F
    <3>1. PICK g \in H : u \in T[g] /\ u - 1 \in T[g]
      BY <1>2
    <3>2. QED
      BY <1>1, <3>1
  <2>2. QED
    BY <2>1 DEF Continued
<1>6. ASSUME EnoughSlots PROVE Cardinality(S) <= MSGTQL
  <2>1. ASSUME NEW u \in S PROVE o[u] \in H /\ u \in T[o[u]] /\ u - 1 \notin T[o[u]] /\ u \in Int
    <3>1. u \in 1..MSGSEG /\ u \notin F /\ u \notin C
      BY <2>1 DEF Starts
    <3>2. \E h \in H : u \in T[h]
      BY <1>1, <1>6, <3>1
    <3>3. o[u] \in H /\ u \in T[o[u]]
      BY <2>1, <3>2
    <3> HIDE DEF o, S
    <3>4. QED
      BY <1>3, <3>1, <3>3
  <2> HIDE DEF o, S
  <2>2. ASSUME NEW u \in S, NEW v \in S, o[u] = o[v] PROVE u = v
    <3> DEFINE h == o[u]
    <3>1. h \in H /\ u \in T[h] /\ u - 1 \notin T[h] /\ u \in Int /\ v \in T[h] /\ v - 1 \notin T[h] /\ v \in Int
      BY <2>1, <2>2
    <3> HIDE DEF h
    <3>2. PICK a \in Nat, k \in Nat : T[h] = Units(a, k)
      BY <3>1
    <3>3. ASSUME NEW c \in Int, c \in T[h], c - 1 \notin T[h] PROVE c = a
      BY ONLY <3>2, <3>3 DEF Units
    <3>4. QED
      BY <3>1, <3>3
  <2>3. o \in [S -> H]
    BY <2>1 DEF o
  <2>4. o \in Injection(S, H)
    BY <2>2, <2>3 DEF Injection, IsInjective
  <2>5. Cardinality(S) <= Cardinality(H)
    BY <1>1, <2>4, FS_Injection
  <2>6. Cardinality(S) \in Nat /\ Cardinality(H) \in Nat /\ MSGTQL \in Nat
    BY <1>1, StartsFinite, FS_CardinalityType, MessagesAssumption DEF S
  <2>7. QED
    BY <1>1, <2>5, <2>6
<1>7. QED
  BY <1>4, <1>5, <1>6 DEF Pieces, C, F

LEMMA PoolPieces ==
    ASSUME NEW mm, NEW fp, NEW K, NEW U, ListsOK(K), PoolOf(mm, fp, K, U),
           \A p \in DOMAIN U : \E a, k \in Nat : U[p] = Units(a, k)
    PROVE  \E C : /\ EnoughSlots => Pieces(C, UnitsOf(mm.free))
                  /\ \A q \in Queues : \A i \in DOMAIN K[q] : Continued(C, Text(K[q][i]))
                  /\ \A p \in DOMAIN U : Continued(C, U[p])
<1> DEFINE H == Holders(K, U)
           T == [h \in H |-> Holds(K, U, h)]
<1>1. PoolFor(mm, fp, H, T)
  BY DEF PoolOf
<1>2. \A q \in Queues : \A i \in DOMAIN K[q] : <<"q", q, i>> \in H /\ T[<<"q", q, i>>] = Text(K[q][i])
  BY ONLY QueueHolder
<1>3. \A p \in DOMAIN U : <<"p", p, 0>> \in H /\ T[<<"p", p, 0>>] = U[p]
  BY ONLY ProcHolder
<1>4. ASSUME NEW h \in H PROVE \E a, k \in Nat : T[h] = Units(a, k)
  <2>1. CASE \E q \in Queues : \E i \in DOMAIN K[q] : h = <<"q", q, i>>
    <3>0. PICK q \in Queues : \E i \in DOMAIN K[q] : h = <<"q", q, i>>
      BY <2>1
    <3>1. PICK i \in DOMAIN K[q] : h = <<"q", q, i>>
      BY <3>0
    <3>2. T[h] = Text(K[q][i])
      BY <1>2, <3>1
    <3>3. K[q][i].spot \in Nat /\ Btoq(K[q][i].ts) \in Nat
      <4>1. K[q][i] \in Message
        BY <3>1 DEF ListsOK
      <4>2. K[q][i].spot \in Nat /\ K[q][i].ts \in Nat
        BY <4>1 DEF Message
      <4>3. QED
        BY <4>2, BtoqFacts
    <3> HIDE DEF T, H
    <3>4. QED
      BY <3>2, <3>3 DEF Text
  <2>2. CASE \E p \in DOMAIN U : h = <<"p", p, 0>>
    <3>1. PICK p \in DOMAIN U : h = <<"p", p, 0>>
      BY <2>2
    <3>2. T[h] = U[p]
      BY <1>3, <3>1
    <3> HIDE DEF T, H
    <3>3. QED
      BY <3>2
  <2>3. QED
    BY <2>1, <2>2, HoldersAre
<1> HIDE DEF H, T
<1>5. /\ EnoughSlots => Pieces(Inner(H, T), UnitsOf(mm.free))
      /\ \A h \in H : Continued(Inner(H, T), T[h])
  BY <1>1, <1>4, InnerFacts
<1>6. ASSUME NEW q \in Queues, NEW i \in DOMAIN K[q] PROVE Continued(Inner(H, T), Text(K[q][i]))
  <2>1. <<"q", q, i>> \in H /\ T[<<"q", q, i>>] = Text(K[q][i])
    BY <1>2
  <2>2. Continued(Inner(H, T), T[<<"q", q, i>>])
    BY ONLY <1>5, <2>1
  <2>3. QED
    BY <2>1, <2>2
<1>7. ASSUME NEW p \in DOMAIN U PROVE Continued(Inner(H, T), U[p])
  <2>1. <<"p", p, 0>> \in H /\ T[<<"p", p, 0>>] = U[p]
    BY <1>3
  <2>2. Continued(Inner(H, T), T[<<"p", p, 0>>])
    BY ONLY <1>5, <2>1
  <2>3. QED
    BY <2>1, <2>2
<1>8. QED
  BY <1>5, <1>6, <1>7

LEMMA MessageFacts ==
    ASSUME NEW s \in Seq(Message), NEW i \in DOMAIN s
    PROVE  s[i] \in Message /\ s[i].type \in Nat \ {0} /\ s[i].ts \in Nat /\ s[i].spot \in Nat
<1>1. s[i] \in Message
  OBVIOUS
<1>2. QED
  BY <1>1 DEF Message

LEMMA SentFacts ==
    ASSUME NEW s \in Seq(Message)
    PROVE  /\ Sent(s) \in Seq(Sizes) /\ Len(Sent(s)) = Len(s) /\ DOMAIN Sent(s) = DOMAIN s
           /\ \A i \in DOMAIN s : Sent(s)[i] = [type |-> s[i].type, size |-> s[i].ts]
<1>1. \A i \in DOMAIN s : [type |-> s[i].type, size |-> s[i].ts] \in Sizes
  BY MessageFacts DEF Sizes
<1>2. Sent(s) \in [1..Len(s) -> Sizes] /\ Len(s) \in Nat /\ DOMAIN s = 1..Len(s)
  BY <1>1 DEF Sent
<1>3. Sent(s) \in Seq(Sizes) /\ Len(Sent(s)) = Len(s)
  BY <1>2
<1>4. QED
  BY <1>2, <1>3 DEF Sent

LEMMA SentAppend ==
    ASSUME NEW s \in Seq(Message), NEW m \in Message
    PROVE  Sent(Append(s, m)) = Append(Sent(s), [type |-> m.type, size |-> m.ts])
<1> DEFINE t == Append(s, m)
           e == [type |-> m.type, size |-> m.ts]
           n == Len(s)
<1>1. t \in Seq(Message) /\ Len(t) = n + 1 /\ n \in Nat /\ t[n + 1] = m /\ \A i \in 1..n : t[i] = s[i]
  BY AppendProperties
<1>2. e \in Sizes
  BY DEF Message, Sizes
<1> HIDE DEF t, e
<1>3. Append(Sent(s), e) \in Seq(Sizes) /\ Len(Append(Sent(s), e)) = n + 1
      /\ Append(Sent(s), e)[n + 1] = e /\ \A i \in 1..n : Append(Sent(s), e)[i] = Sent(s)[i]
  BY <1>1, <1>2, SentFacts, AppendProperties
<1>4. Sent(t) \in Seq(Sizes) /\ Len(Sent(t)) = n + 1
  BY <1>1, SentFacts
<1>5. \A i \in 1..(n + 1) : Sent(t)[i] = Append(Sent(s), e)[i]
  <2>1. \A i \in 1..(n + 1) : Sent(t)[i] = [type |-> t[i].type, size |-> t[i].ts]
    BY <1>1, SentFacts
  <2>2. \A i \in 1..n : Sent(s)[i] = [type |-> s[i].type, size |-> s[i].ts]
    BY <1>1, SentFacts
  <2>3. \A i \in 1..(n + 1) : i = n + 1 \/ i \in 1..n
    BY <1>1
  <2>4. Sent(t)[n + 1] = e
    BY <1>1, <2>1 DEF e
  <2> DEFINE v == Append(Sent(s), e)
  <2>5. v[n + 1] = e /\ \A i \in 1..n : v[i] = Sent(s)[i]
    BY <1>3
  <2> HIDE DEF v
  <2>6. ASSUME NEW i \in 1..n PROVE Sent(t)[i] = v[i]
    <3>1. i \in 1..(n + 1) /\ t[i] = s[i]
      BY <1>1
    <3>2. Sent(t)[i] = [type |-> s[i].type, size |-> s[i].ts]
      BY ONLY <2>1, <3>1
    <3>3. v[i] = [type |-> s[i].type, size |-> s[i].ts]
      BY ONLY <2>2, <2>5, i \in 1..n
    <3>4. QED
      BY ONLY <3>2, <3>3
  <2>7. \A i \in 1..(n + 1) : Sent(t)[i] = v[i]
    BY <2>3, <2>4, <2>5, <2>6
  <2>8. QED
    BY <2>7 DEF v
<1>6. QED
  BY <1>3, <1>4, <1>5 DEF t, e

LEMMA SentRemove ==
    ASSUME NEW s \in Seq(Message), NEW i \in DOMAIN s
    PROVE  Sent(RemoveAt(s, i)) = RemoveAt(Sent(s), i) /\ RemoveAt(s, i) \in Seq(Message)
<1> DEFINE t == RemoveAt(s, i)
           u == RemoveAt(Sent(s), i)
           n == Len(s)
<1>1. /\ t \in Seq(Message) /\ Len(t) = n - 1 /\ n \in Nat /\ DOMAIN s = 1..n
      /\ \A j \in 1..Len(t) : t[j] = IF j < i THEN s[j] ELSE s[j + 1]
  BY RemoveAtPlaces
<1>2. Sent(s) \in Seq(Sizes) /\ Len(Sent(s)) = n /\ i \in DOMAIN Sent(s)
  BY SentFacts
<1>3. /\ u \in Seq(Sizes) /\ Len(u) = n - 1
      /\ \A j \in 1..Len(u) : u[j] = IF j < i THEN Sent(s)[j] ELSE Sent(s)[j + 1]
  BY <1>2, RemoveAtPlaces
<1> HIDE DEF t, u
<1>4. Sent(t) \in Seq(Sizes) /\ Len(Sent(t)) = n - 1
  BY <1>1, SentFacts
<1>5. \A j \in 1..(n - 1) : Sent(t)[j] = u[j]
  <2>1. \A j \in 1..(n - 1) : Sent(t)[j] = [type |-> t[j].type, size |-> t[j].ts]
    BY <1>1, SentFacts
  <2>2. \A j \in 1..n : Sent(s)[j] = [type |-> s[j].type, size |-> s[j].ts]
    BY <1>1, SentFacts
  <2>3. \A j \in 1..(n - 1) : j \in 1..n /\ j + 1 \in 1..n
    BY <1>1
  <2>4. QED
    BY <1>1, <1>3, <2>1, <2>2, <2>3
<1>6. QED
  BY <1>1, <1>3, <1>4, <1>5 DEF t, u

LEMMA QueueFacts ==
    ASSUME NEW k, QueueOK(k)
    PROVE  /\ k.alloc \in BOOLEAN /\ k.seq \in 0..MaxSeq /\ k.msgs \in Seq(Message) /\ k.cbytes \in Nat
           /\ k.qbytes \in Nat /\ k.rwait \in BOOLEAN /\ k.wwait \in BOOLEAN
           /\ k.cbytes = Promise!Bytes(Sent(k.msgs))
           /\ ~k.alloc => k.msgs = << >>
BY DEF QueueOK

(* A queue with one message more, *)
With(k, m) == [k EXCEPT !.rwait = FALSE, !.cbytes = @ + m.ts, !.msgs = Append(@, m)]

LEMMA Appended ==
    ASSUME NEW k, QueueOK(k), k.alloc, NEW m \in Message
    PROVE  QueueOK(With(k, m))
<1>1. Promise!Bytes(Sent(Append(k.msgs, m))) = k.cbytes + m.ts
  <2>1. k.msgs \in Seq(Message) /\ k.cbytes = Promise!Bytes(Sent(k.msgs))
    BY QueueFacts
  <2> DEFINE e == [type |-> m.type, size |-> m.ts]
  <2>2. e \in Sizes /\ e.size = m.ts
    BY DEF Message, Sizes
  <2> HIDE DEF e
  <2>3. Promise!Bytes(Append(Sent(k.msgs), e)) = Promise!Bytes(Sent(k.msgs)) + e.size
    BY <2>1, <2>2, SentFacts, BytesAppend
  <2>4. QED
    BY <2>1, <2>2, <2>3, SentAppend DEF e
<1>2. Append(k.msgs, m) \in Seq(Message) /\ k.cbytes + m.ts \in Nat
  BY QueueFacts DEF Message
<1> DEFINE n == With(k, m)
<1>3. /\ n \in [alloc : BOOLEAN, seq : 0..MaxSeq, msgs : Seq(Message), cbytes : Nat,
                qbytes : Nat, rwait : BOOLEAN, wwait : BOOLEAN]
      /\ n.cbytes = k.cbytes + m.ts /\ n.msgs = Append(k.msgs, m) /\ n.alloc = k.alloc
  BY <1>2 DEF QueueOK, With
<1> HIDE DEF n
<1>4. QueueOK(n)
  BY <1>1, <1>3 DEF QueueOK
<1>5. QED
  BY <1>4 DEF n

(* and with one less. *)
Without(k, i) ==
    [k EXCEPT !.msgs = RemoveAt(@, i), !.wwait = FALSE, !.cbytes = @ - k.msgs[i].ts]

LEMMA Removed ==
    ASSUME NEW k, QueueOK(k), NEW i \in DOMAIN k.msgs
    PROVE  QueueOK(Without(k, i))
<1>1. /\ k.msgs \in Seq(Message) /\ k.cbytes = Promise!Bytes(Sent(k.msgs)) /\ k.alloc \in BOOLEAN
      /\ RemoveAt(k.msgs, i) \in Seq(Message)
  BY QueueFacts, SentRemove
<1>2. Promise!Bytes(Sent(RemoveAt(k.msgs, i))) = k.cbytes - k.msgs[i].ts
  <2>1. Sent(k.msgs) \in Seq(Sizes) /\ i \in DOMAIN Sent(k.msgs) /\ Sent(k.msgs)[i].size = k.msgs[i].ts
    <3> DEFINE s == k.msgs
    <3>1. s \in Seq(Message) /\ i \in DOMAIN s
      BY <1>1
    <3> HIDE DEF s
    <3>2. /\ Sent(s) \in Seq(Sizes) /\ DOMAIN Sent(s) = DOMAIN s
          /\ Sent(s)[i] = [type |-> s[i].type, size |-> s[i].ts]
      BY <3>1, SentFacts
    <3>3. QED
      BY <3>1, <3>2 DEF s
  <2>2. Promise!Bytes(RemoveAt(Sent(k.msgs), i)) = Promise!Bytes(Sent(k.msgs)) - Sent(k.msgs)[i].size
    BY <2>1, BytesRemove
  <2>3. QED
    BY <1>1, <2>1, <2>2, SentRemove
<1>3. k.cbytes - k.msgs[i].ts \in Nat
  <2> DEFINE t == Sent(RemoveAt(k.msgs, i))
  <2>1. t \in Seq(Sizes)
    BY <1>1, SentFacts
  <2> HIDE DEF t
  <2>2. PICK f : SumOf(f, t) /\ Promise!Bytes(t) = f[Len(t)]
    BY <2>1, BytesSum
  <2>3. Promise!Bytes(t) \in Nat
    BY <2>1, <2>2 DEF SumOf
  <2>4. QED
    BY <1>2, <2>3 DEF t
<1> DEFINE n == Without(k, i)
<1>4. /\ n \in [alloc : BOOLEAN, seq : 0..MaxSeq, msgs : Seq(Message), cbytes : Nat,
                qbytes : Nat, rwait : BOOLEAN, wwait : BOOLEAN]
      /\ n.cbytes = k.cbytes - k.msgs[i].ts /\ n.msgs = RemoveAt(k.msgs, i) /\ n.alloc = k.alloc
  BY <1>1, <1>3 DEF QueueOK, Without
<1>5. k.alloc
  BY QueueFacts
<1> HIDE DEF n
<1>6. QueueOK(n)
  BY <1>2, <1>4, <1>5 DEF QueueOK
<1>7. QED
  BY <1>6 DEF n

LEMMA InvQueues ==
    ASSUME Inv
    PROVE  /\ msgque = [q \in Queues |-> msgque[q]] /\ \A q \in Queues : QueueOK(msgque[q])
           /\ Typed(proc) /\ Locks /\ ListsOK(Lists) /\ \A q \in Queues : Lists[q] = msgque[q].msgs
           /\ PoolOf(msgmap, msgfp, Lists, Uses)
<1>1. \A q \in Queues : msgque[q].msgs \in Seq(Message)
  BY QueueFacts DEF Inv
<1>2. QED
  BY <1>1 DEF Inv, Lists, ListsOK

LEMMA QueueChange ==
    ASSUME Inv, NEW q \in Queues, NEW n, QueueOK(n), msgque' = [msgque EXCEPT ![q] = n]
    PROVE  /\ msgque' = [c \in Queues |-> msgque'[c]] /\ \A c \in Queues : QueueOK(msgque'[c])
           /\ msgque'[q] = n /\ \A c \in Queues : c # q => msgque'[c] = msgque[c]
           /\ Lists' = [Lists EXCEPT ![q] = n.msgs]
<1>1. msgque' = [c \in Queues |-> IF c = q THEN n ELSE msgque[c]]
  BY InvQueues
<1>2. \A c \in Queues : QueueOK(msgque'[c])
  BY <1>1, InvQueues
<1>3. QED
  BY <1>1, <1>2 DEF Lists

-----------------------------------------------------------------------------
(* Steps in which only processes and locks change. *)
LEMMA KeptSelf ==
    ASSUME NEW k, QueueOK(k)
    PROVE  CopiesKept(k, k) /\ RoomKept(k, k) /\ ReadersKept(k, k)
<1>1. k.cbytes >= k.cbytes
  BY QueueFacts
<1>2. QED
  BY <1>1 DEF CopiesKept, RoomKept, ReadersKept, SameQueue

LEMMA SpaceSelf ==
    ASSUME NEW mm
    PROVE  SpaceKept(mm, mm)
BY DEF SpaceKept

LEMMA IdleIn ==
    ASSUME NEW p, proc'[p] = Idle
    PROVE  ProcOK(proc'[p]) /\ ReasonOK(p)' /\ p \notin Holding' /\ p \notin Copying'
<1>1. ReasonOK(p)'
  BY IdleFacts DEF ReasonOK, ReasonFor
<1>2. QED
  BY <1>1, IdleFacts DEF Holding, Copying

LEMMA QueuesSame ==
    ASSUME Inv, msgque' = msgque
    PROVE  /\ msgque' = [q \in Queues |-> msgque'[q]] /\ \A q \in Queues : QueueOK(msgque'[q])
           /\ \A q \in Queues : CopiesKept(msgque[q], msgque'[q]) /\ RoomKept(msgque[q], msgque'[q])
                /\ ReadersKept(msgque[q], msgque'[q])
           /\ Lists' = Lists
BY InvQueues, KeptSelf DEF Lists

LEMMA HeldQueue ==
    ASSUME Inv, NEW p \in Holding
    PROVE  /\ p \in Procs /\ proc[p] \in Calling /\ proc[p].req \in Requests /\ proc[p].seq \in Nat
           /\ proc[p].at \in Nat /\ proc[p].req.q \in Queues /\ proc[p].req.q \in msglock
           /\ ~proc[p].asleep
<1>1. p \in Procs /\ proc[p].pc \in {"copyin", "copyout"}
  BY DEF Holding
<1>2. ProcOK(proc[p])
  BY <1>1 DEF Inv, Typed
<1>3. proc[p] \in Calling /\ proc[p].req \in Requests /\ proc[p].seq \in Nat /\ proc[p].at \in Nat
  BY <1>1, <1>2, ProcFacts
<1>4. ~proc[p].asleep
  BY <1>1, <1>2 DEF ProcOK, Sleeps
<1>5. proc[p].req.q \in Queues
  BY <1>3, RequestFacts
<1>6. proc[p].req.q \in msglock
  BY DEF Inv, Locks
<1>7. QED
  BY <1>1, <1>3, <1>4, <1>5, <1>6

LEMMA InvPieces ==
    ASSUME Inv
    PROVE  \E C : /\ EnoughSlots => Pieces(C, UnitsOf(msgmap.free))
                  /\ \A q \in Queues : \A i \in DOMAIN Lists[q] : Continued(C, Text(Lists[q][i]))
                  /\ \A p \in DOMAIN Uses : Continued(C, Uses[p])
<1>1. PoolOf(msgmap, msgfp, Lists, Uses)
  BY InvQueues
<1>2. ASSUME NEW p \in DOMAIN Uses PROVE \E a, k \in Nat : Uses[p] = Units(a, k)
  <2>1. p \in Holding /\ Uses[p] = Units(proc[p].at, Btoq(proc[p].req.cnt))
    BY DEF Uses, Copying, Holding
  <2>2. proc[p].at \in Nat /\ proc[p].req.cnt \in Nat
    BY <2>1, HeldQueue, RequestFacts
  <2>3. Btoq(proc[p].req.cnt) \in Nat
    BY <2>2, BtoqFacts
  <2>4. QED
    BY ONLY <2>1, <2>2, <2>3
<1>3. ListsOK(Lists)
  BY InvQueues
<1>4. QED
  BY <1>1, <1>2, <1>3, PoolPieces

LEMMA QuietStep ==
    ASSUME Inv, NEW X, X \subseteq Procs, Others(X),
           \A p \in X : ProcOK(proc'[p]) /\ ReasonOK(p)' /\ (p \in Holding' => CopyOK(p)'),
           msgque' = msgque, msgfp' = msgfp, msgmap' = msgmap, Locks', Uses' = Uses
    PROVE  Inv'
<1>1. PoolOf(msgmap', msgfp', Lists', Uses')
  BY InvQueues, QueuesSame
<1>2. SpaceKept(msgmap, msgmap')
  BY SpaceSelf
<1>3. \A p \in Holding \ X : CopiesKept(msgque[proc[p].req.q], msgque'[proc[p].req.q])
  BY HeldQueue, QueuesSame
<1>4. QED
  BY <1>1, <1>2, <1>3, QueuesSame, InvStep

(* A call looks at its queue. *)
Ready(p, r, s) ==
    /\ p \in Procs /\ r \in Requests /\ s \in Nat
    /\ p \notin Holding /\ r.q \notin msglock /\ Valid(r.q, s)

LEMMA Waking ==
    ASSUME NEW P, Typed(P), NEW r
    PROVE  Roused(P, GaveBack(P, r))
BY HeaderBackFacts, RousedSelf DEF GaveBack

LEMMA RefusesInv ==
    ASSUME Inv, NEW p, NEW r, NEW s, Ready(p, r, s), Refuses(p, r, s)
    PROVE  Inv'
<1>1. p \in Procs /\ Typed(proc) /\ ProcOK(Idle) /\ p \notin Holding
  BY InvQueues, IdleFacts DEF Ready
<1>2. Roused([proc EXCEPT ![p] = Idle], proc')
  BY <1>1, ChangeTyped, Waking DEF Refuses
<1>3. Others({p}) /\ Woke(Idle, proc'[p])
  BY <1>1, <1>2, ChangeFirst
<1>4. proc'[p] = Idle
  BY <1>3, IdleFacts DEF Woke
<1>5. ProcOK(proc'[p]) /\ ReasonOK(p)' /\ p \notin Holding'
  BY <1>4, IdleIn
<1>6. Locks' /\ Uses' = Uses
  <2>1. msglock' = msglock
    BY DEF Refuses
  <2>2. QED
    BY <1>1, <1>3, <1>5, <2>1, InvQueues, StayOutside
<1>7. msgque' = msgque /\ msgfp' = msgfp /\ msgmap' = msgmap
  BY DEF Refuses
<1>8. QED
  BY <1>1, <1>3, <1>5, <1>6, <1>7, QuietStep

(* p stops, or sleeps not yet: nothing else changes. *)
LEMMA StopsInv ==
    ASSUME Inv, NEW p \in Procs, p \notin Holding, NEW e, ProcOK(e), ~e.asleep,
           e.pc \notin {"copyin", "copyout"},
           proc' = [proc EXCEPT ![p] = e], UNCHANGED <<msgque, msglock, msgfp, msgmap>>
    PROVE  Inv'
<1>1. Others({p}) /\ proc'[p] = e
  BY InvQueues, OnlyChange
<1>2. ReasonOK(p)' /\ p \notin Holding'
  BY <1>1 DEF ReasonOK, ReasonFor, Holding
<1>3. Locks' /\ Uses' = Uses
  BY <1>1, <1>2, InvQueues, StayOutside
<1>4. QED
  BY <1>1, <1>2, <1>3, QuietStep

LEMMA Finds0Inv ==
    ASSUME Inv, NEW p, NEW r, NEW s, Ready(p, r, s), Finds0(p, r, s)
    PROVE  Inv'
<1>1. p \in Procs /\ p \notin Holding
  BY DEF Ready
<1>2. QED
  BY <1>1, IdleFacts, StopsInv DEF Finds0

LEMMA InterruptInv ==
    ASSUME Inv, NEW p \in Procs, Interrupt(p)
    PROVE  Inv'
<1> DEFINE e == At("intr", proc[p].req, proc[p].seq, 0)
<1>1. /\ ProcOK(proc[p]) /\ proc[p].pc \in Sleeps
      /\ UNCHANGED <<msgque, msglock, msgfp, msgmap>>
  BY InvQueues DEF Interrupt, Typed
<1>2. p \notin Holding
  BY <1>1 DEF Holding, Sleeps
<1>3. proc[p].req \in Requests /\ proc[p].seq \in Nat
  <2>1. proc[p].pc # "user"
    BY <1>1 DEF Sleeps
  <2>2. QED
    BY <1>1, <2>1, ProcFacts
<1>4. ProcOK(e) /\ ~e.asleep /\ e.pc \notin {"copyin", "copyout"}
  <2>1. "intr" \notin Sleeps /\ 0 \in Nat
    BY DEF Sleeps
  <2>2. ProcOK(At("intr", proc[p].req, proc[p].seq, 0)) /\ At("intr", proc[p].req, proc[p].seq, 0).pc = "intr"
        /\ ~At("intr", proc[p].req, proc[p].seq, 0).asleep
    BY <1>3, <2>1, AtFacts
  <2>3. QED
    BY <2>2
<1>5. ProcOK(Idle) /\ ~Idle.asleep /\ Idle.pc \notin {"copyin", "copyout"}
  BY IdleFacts
<1>6. proc' = [proc EXCEPT ![p] = e] \/ proc' = [proc EXCEPT ![p] = Idle]
  BY InvQueues DEF Interrupt, Typed
<1> HIDE DEF e
<1>7. CASE proc' = [proc EXCEPT ![p] = e]
  BY <1>1, <1>2, <1>4, <1>7, StopsInv
<1>8. CASE proc' = [proc EXCEPT ![p] = Idle]
  BY <1>1, <1>2, <1>5, <1>8, StopsInv
<1>9. QED
  BY <1>6, <1>7, <1>8

LEMMA CopyoutFailsInv ==
    ASSUME Inv, NEW p \in Procs, CopyoutFails(p)
    PROVE  Inv'
<1>1. p \in Holding /\ p \notin Copying
  BY DEF CopyoutFails, Holding, Copying
<1>2. Others({p}) /\ proc'[p] = Idle
  BY InvQueues, OnlyChange DEF CopyoutFails
<1>3. Locks' /\ Copying' = Copying \ {p}
  BY <1>1, <1>2, InvQueues, Leaves DEF CopyoutFails
<1>4. Uses' = Uses
  <2>1. Copying' = Copying
    BY <1>1, <1>3
  <2>2. \A o \in Copying' : Uses'[o] = Uses[o]
    BY <1>1, <1>2, <2>1, InvQueues, UsesFacts
  <2>3. QED
    BY <2>1, <2>2 DEF Uses
<1>5. ProcOK(proc'[p]) /\ ReasonOK(p)' /\ p \notin Holding'
  BY <1>2, IdleIn
<1>6. QED
  BY <1>2, <1>3, <1>4, <1>5, QuietStep DEF CopyoutFails

-----------------------------------------------------------------------------
(* What a receiver finds. *)
LEMMA ChosenFacts ==
    ASSUME NEW s \in Seq(Message), NEW t \in Int, Wanted(s, t) # {}
    PROVE  /\ Chosen(s, t) \in DOMAIN s
           /\ \A j \in 1..(Chosen(s, t) - 1) : s[j].type # s[Chosen(s, t)].type
<1> DEFINE W == Wanted(s, t)
           V == {i \in W : \A j \in W : s[i].type <= s[j].type}
           c == Chosen(s, t)
<1>1. Len(s) \in Nat /\ DOMAIN s = 1..Len(s) /\ \A i \in DOMAIN s : s[i].type \in Nat
  BY MessageFacts
<1>2. W \subseteq DOMAIN s /\ W \subseteq Nat
  BY <1>1 DEF Wanted
<1>3. \A i \in W : \A j \in DOMAIN s : s[j].type = s[i].type => j \in W
  BY DEF Wanted
<1>4. \E D \in SUBSET Nat : /\ D # {} /\ D \subseteq W /\ c = Min(D)
        /\ \A i \in D : \A j \in W : s[j].type = s[i].type => j \in D
  <2>1. CASE t >= 0
    <3>1. c = Min(W)
      BY <2>1 DEF Chosen
    <3>2. QED
      BY <1>2, <3>1
  <2>2. CASE ~(t >= 0)
    <3>1. c = Min(V)
      BY <2>2 DEF Chosen
    <3>2. V # {}
      <4> DEFINE Y == {s[i].type : i \in W}
      <4>1. Y \in SUBSET Nat /\ Y # {}
        BY <1>1, <1>2
      <4>2. Min(Y) \in Y /\ \A y \in Y : Min(Y) <= y
        <5> HIDE DEF Y
        <5> QED
          BY <4>1, LeastFacts
      <4>3. PICK i \in W : s[i].type = Min(Y)
        BY <4>2
      <4>4. i \in V
        BY <4>2, <4>3
      <4>5. QED
        BY <4>4
    <3>3. \A i \in V : \A j \in W : s[j].type = s[i].type => j \in V
      OBVIOUS
    <3>4. V \in SUBSET Nat /\ V \subseteq W
      BY <1>2
    <3> HIDE DEF V, W, c
    <3>5. QED
      BY <3>1, <3>2, <3>3, <3>4
  <2>3. QED
    BY <2>1, <2>2
<1>5. PICK D \in SUBSET Nat : /\ D # {} /\ D \subseteq W /\ c = Min(D)
        /\ \A i \in D : \A j \in W : s[j].type = s[i].type => j \in D
  BY <1>4
<1> HIDE DEF c, W
<1>6. c \in D /\ \A y \in D : c <= y
  BY <1>5, LeastFacts
<1>7. c \in DOMAIN s
  BY <1>2, <1>5, <1>6
<1>8. ASSUME NEW j \in 1..(c - 1), s[j].type = s[c].type PROVE FALSE
  <2>1. j \in DOMAIN s /\ j < c /\ ~(c <= j)
    BY <1>1, <1>7
  <2>2. j \in W
    BY <1>3, <1>5, <1>6, <1>8, <2>1
  <2>3. j \in D
    BY <1>5, <1>6, <1>8, <2>2
  <2>4. QED
    BY <1>6, <2>1, <2>3
<1>9. QED
  BY <1>7, <1>8 DEF c

LEMMA ReadyFacts ==
    ASSUME Inv, NEW p, NEW r, NEW s, Ready(p, r, s)
    PROVE  /\ p \in Procs /\ p \notin Holding /\ p \notin Copying /\ Typed(proc)
           /\ r \in Requests /\ s \in Nat /\ r.q \in Queues /\ r.q \notin msglock
           /\ QueueOK(msgque[r.q]) /\ msgque[r.q].alloc /\ msgque[r.q].seq = s
           /\ \A o \in Holding : proc[o].req.q # r.q
<1>1. r.q \in Queues
  BY RequestFacts DEF Ready
<1>2. \A o \in Holding : proc[o].req.q # r.q
  BY HeldQueue DEF Ready
<1>3. QED
  BY <1>1, <1>2, InvQueues DEF Ready, Valid, Holding, Copying

LEMMA CopyoutInv ==
    ASSUME Inv, NEW p, NEW r, NEW s, Ready(p, r, s), Copyout(p, r, s)
    PROVE  Inv'
<1> DEFINE k == msgque[r.q]
           i == Chosen(k.msgs, r.typ)
           e == At("copyout", r, s, i)
<1>1. k.msgs \in Seq(Message) /\ r.typ \in Int /\ Wanted(k.msgs, r.typ) # {}
  BY ReadyFacts, QueueFacts, RequestFacts DEF Copyout
<1>2. i \in DOMAIN k.msgs /\ \A j \in 1..(i - 1) : k.msgs[j].type # k.msgs[i].type
  BY <1>1, ChosenFacts
<1>3. i \in Nat
  BY <1>1, <1>2
<1>4. proc' = [proc EXCEPT ![p] = e] /\ msglock' = msglock \cup {r.q} /\ UNCHANGED <<msgque, msgfp, msgmap>>
  BY DEF Copyout
<1> HIDE DEF i
<1>5. ProcOK(e) /\ e.pc = "copyout" /\ e.req = r /\ e.seq = s /\ e.at = i /\ ~e.asleep
  <2>1. "copyout" \notin Sleeps /\ "copyout" \in Sleeps \cup {"copyin", "copyout", "intr"}
    BY DEF Sleeps
  <2>2. QED
    BY <1>3, <2>1, ReadyFacts, AtFacts
<1> HIDE DEF e
<1>6. Others({p}) /\ proc'[p] = e
  BY <1>4, ReadyFacts, OnlyChange
<1>7. Locks' /\ Copying' = Copying
  <2>1. Locks /\ p \in Procs /\ p \notin Holding /\ Typed(proc)
    BY ReadyFacts, InvQueues
  <2>2. /\ proc'[p].pc = "copyout" /\ proc'[p].req.q \notin msglock
        /\ msglock' = msglock \cup {proc'[p].req.q}
    BY <1>4, <1>5, <1>6, ReadyFacts
  <2>3. Locks' /\ Copying' = Copying \cup (IF proc'[p].pc = "copyin" THEN {p} ELSE {})
    BY <1>6, <2>1, <2>2, Enters
  <2>4. QED
    BY <2>2, <2>3
<1>8. Uses' = Uses
  <2>1. \A o \in Copying' : Uses'[o] = Uses[o]
    BY <1>6, <1>7, ReadyFacts, UsesFacts
  <2>2. QED
    BY <1>7, <2>1 DEF Uses
<1>9. CopyOK(p)'
  <2>1. CopyFor(e, k)
    <3>1. k.alloc /\ k.seq = s
      BY ReadyFacts
    <3> HIDE DEF k
    <3>2. QED
      BY ONLY <1>2, <1>5, <3>1 DEF CopyFor
  <2>2. msgque'[proc'[p].req.q] = k
    BY <1>4, <1>5, <1>6
  <2>3. QED
    BY <1>6, <2>1, <2>2 DEF CopyOK
<1>10. ReasonOK(p)'
  BY <1>5, <1>6 DEF ReasonOK, ReasonFor
<1>11. ProcOK(proc'[p]) /\ p \in Procs
  BY <1>5, <1>6, ReadyFacts
<1>12. QED
  BY <1>4, <1>6, <1>7, <1>8, <1>9, <1>10, <1>11, QuietStep

-----------------------------------------------------------------------------
(* Steps that change one queue. *)
LEMMA Awake ==
    ASSUME Inv, NEW X, Others(X), NEW q \in Queues
    PROVE  /\ ~msgque[q].wwait => Calm(X, "room", q)
           /\ ~msgque[q].rwait => Calm(X, "reader", q)
           /\ msgfp # 0 => Calm(X, "header", q)
           /\ ~msgmap.want => Calm(X, "space", q)
<1>1. ASSUME NEW o \in Procs \ X, proc'[o].asleep, proc'[o].req.q = q
      PROVE  /\ proc'[o].pc = "room" => msgque[q].wwait
             /\ proc'[o].pc = "reader" => msgque[q].rwait
             /\ proc'[o].pc = "header" => msgfp = 0
             /\ proc'[o].pc = "space" => msgmap.want
  <2>1. proc'[o] = proc[o]
    BY <1>1, InvQueues, OtherFacts
  <2>2. ReasonFor(proc[o], msgque[q], msgfp, msgmap)
    BY <1>1, <2>1 DEF Inv, ReasonOK
  <2>3. proc[o].asleep
    BY <1>1, <2>1
  <2>4. QED
    BY ONLY <2>1, <2>2, <2>3 DEF ReasonFor
<1>2. QED
  BY <1>1 DEF Calm

LEMMA QueueStep ==
    ASSUME Inv, NEW X, X \subseteq Procs, Others(X),
           \A p \in X : ProcOK(proc'[p]) /\ ReasonOK(p)' /\ (p \in Holding' => CopyOK(p)'),
           NEW q \in Queues, NEW n, QueueOK(n), msgque' = [msgque EXCEPT ![q] = n],
           Locks',
           (\A p \in Holding \ X : proc[p].req.q # q) \/ CopiesKept(msgque[q], n),
           Calm(X, "room", q) \/ RoomKept(msgque[q], n),
           Calm(X, "reader", q) \/ ReadersKept(msgque[q], n),
           (\A c \in Queues : Calm(X, "header", c)) \/ (msgfp = 0 => msgfp' = 0),
           (\A c \in Queues : Calm(X, "space", c)) \/ SpaceKept(msgmap, msgmap'),
           PoolOf(msgmap', msgfp', [Lists EXCEPT ![q] = n.msgs], Uses')
    PROVE  Inv'
<1>1. /\ msgque' = [c \in Queues |-> msgque'[c]] /\ \A c \in Queues : QueueOK(msgque'[c])
      /\ msgque'[q] = n /\ \A c \in Queues : c # q => msgque'[c] = msgque[c]
      /\ Lists' = [Lists EXCEPT ![q] = n.msgs]
  BY QueueChange
<1>2. ASSUME NEW c \in Queues, c # q
      PROVE  CopiesKept(msgque[c], msgque'[c]) /\ RoomKept(msgque[c], msgque'[c])
             /\ ReadersKept(msgque[c], msgque'[c])
  <2>1. msgque'[c] = msgque[c] /\ QueueOK(msgque[c])
    BY <1>1, <1>2, InvQueues
  <2>2. QED
    BY <2>1, KeptSelf
<1>3. \A p \in Holding \ X : CopiesKept(msgque[proc[p].req.q], msgque'[proc[p].req.q])
  <2>1. ASSUME NEW p \in Holding \ X
        PROVE  CopiesKept(msgque[proc[p].req.q], msgque'[proc[p].req.q])
    <3>1. proc[p].req.q \in Queues
      BY HeldQueue
    <3>2. CASE proc[p].req.q # q
      BY <1>2, <3>1, <3>2
    <3>3. CASE proc[p].req.q = q
      BY <1>1, <3>3
    <3>4. QED
      BY <3>2, <3>3
  <2>2. QED
    BY <2>1
<1>4. \A c \in Queues : Calm(X, "room", c) \/ RoomKept(msgque[c], msgque'[c])
  BY <1>1, <1>2
<1>5. \A c \in Queues : Calm(X, "reader", c) \/ ReadersKept(msgque[c], msgque'[c])
  BY <1>1, <1>2
<1>6. PoolOf(msgmap', msgfp', Lists', Uses')
  BY <1>1
<1>7. QED
  BY <1>1, <1>3, <1>4, <1>5, <1>6, InvStep

LEMMA SameLists ==
    ASSUME Inv, NEW q \in Queues, NEW n, n.msgs = msgque[q].msgs
    PROVE  [Lists EXCEPT ![q] = n.msgs] = Lists
BY DEF Lists

LEMMA PoolWant ==
    ASSUME NEW mm, NEW fp, NEW K, NEW U, PoolOf(mm, fp, K, U), NEW m2, m2 \in Maps, m2.free = mm.free
    PROVE  PoolOf(m2, fp, K, U)
<1> DEFINE H == Holders(K, U)
           T == [h \in H |-> Holds(K, U, h)]
<1>1. PoolFor(mm, fp, H, T)
  BY DEF PoolOf
<1> HIDE DEF H, T
<1>2. PoolFor(m2, fp, H, T)
  BY <1>1 DEF PoolFor, GoodMap
<1>3. QED
  BY <1>2 DEF PoolOf, H, T

(* A flag or the limit of a queue changes. *)
Flags(k, rw, ww, b) == [k EXCEPT !.rwait = rw, !.wwait = ww, !.qbytes = b]

Flagged(k, n, rw, ww, b) ==
    /\ QueueOK(n)
    /\ n.alloc = k.alloc /\ n.seq = k.seq /\ n.msgs = k.msgs /\ n.cbytes = k.cbytes
    /\ n.qbytes = b /\ n.rwait = rw /\ n.wwait = ww
    /\ b = k.qbytes => CopiesKept(k, n)
    /\ (k.wwait => ww) => RoomKept(k, n)
    /\ (k.rwait => rw) => ReadersKept(k, n)

LEMMA FlagsChange ==
    ASSUME NEW k, QueueOK(k), NEW rw \in BOOLEAN, NEW ww \in BOOLEAN, NEW b \in Nat, NEW n,
           n = Flags(k, rw, ww, b)
    PROVE  Flagged(k, n, rw, ww, b)
<1>1. /\ n \in [alloc : BOOLEAN, seq : 0..MaxSeq, msgs : Seq(Message), cbytes : Nat,
                qbytes : Nat, rwait : BOOLEAN, wwait : BOOLEAN]
      /\ n.alloc = k.alloc /\ n.seq = k.seq /\ n.msgs = k.msgs /\ n.cbytes = k.cbytes
      /\ n.qbytes = b /\ n.rwait = rw /\ n.wwait = ww
  BY DEF QueueOK, Flags
<1>2. QueueOK(n)
  BY <1>1 DEF QueueOK
<1>3. n.cbytes >= k.cbytes
  BY <1>1, QueueFacts
<1>4. QED
  BY <1>1, <1>2, <1>3 DEF Flagged, CopiesKept, RoomKept, ReadersKept, SameQueue

LEMMA AwaitsInv ==
    ASSUME Inv, NEW p, NEW r, NEW s, Ready(p, r, s), Awaits(p, r, s)
    PROVE  Inv'
<1> DEFINE q == r.q
           k == msgque[q]
           n == Flags(k, TRUE, k.wwait, k.qbytes)
           e == At("reader", r, s, 0)
<1>1. /\ p \in Procs /\ p \notin Holding /\ p \notin Copying /\ Typed(proc) /\ q \in Queues
      /\ QueueOK(k) /\ k.alloc /\ k.seq = s
  BY ReadyFacts
<1>2. k.wwait \in BOOLEAN /\ k.qbytes \in Nat
  BY <1>1, QueueFacts
<1>3. msgque' = [msgque EXCEPT ![q] = n]
  <2>1. n = [k EXCEPT !.rwait = TRUE]
    BY <1>1 DEF QueueOK, Flags
  <2>2. QED
    BY <2>1 DEF Awaits
<1>4. /\ QueueOK(n) /\ CopiesKept(k, n) /\ RoomKept(k, n) /\ ReadersKept(k, n)
      /\ n.alloc = k.alloc /\ n.seq = k.seq /\ n.msgs = k.msgs /\ n.rwait = TRUE
  <2>1. n = Flags(k, TRUE, k.wwait, k.qbytes)
    OBVIOUS
  <2> HIDE DEF k, n
  <2>2. Flagged(k, n, TRUE, k.wwait, k.qbytes)
    BY <1>1, <1>2, <2>1, FlagsChange
  <2>3. QED
    BY <2>2 DEF Flagged
<1>5. /\ proc' = [proc EXCEPT ![p] = e] /\ UNCHANGED <<msglock, msgfp, msgmap>>
      /\ Wanted(k.msgs, r.typ) = {}
  BY DEF Awaits
<1>6. ProcOK(e) /\ e.pc = "reader" /\ e.req = r /\ e.seq = s
  BY ReadyFacts, AtFacts DEF Sleeps
<1> HIDE DEF e, n
<1>7. Others({p}) /\ proc'[p] = e
  BY <1>1, <1>5, OnlyChange
<1>8. p \notin Holding'
  BY <1>6, <1>7 DEF Holding
<1>9. Locks' /\ Uses' = Uses
  BY <1>1, <1>5, <1>7, <1>8, InvQueues, StayOutside
<1>10. ReasonOK(p)'
  <2>1. ReasonFor(e, n, msgfp', msgmap')
    BY ONLY <1>1, <1>4, <1>5, <1>6 DEF ReasonFor
  <2>2. msgque'[e.req.q] = n
    BY <1>1, <1>3, <1>6, InvQueues
  <2>3. QED
    BY <1>7, <2>1, <2>2 DEF ReasonOK
<1>11. PoolOf(msgmap', msgfp', [Lists EXCEPT ![q] = n.msgs], Uses')
  BY <1>1, <1>4, <1>5, <1>9, InvQueues, SameLists
<1>12. SpaceKept(msgmap, msgmap') /\ msgfp' = msgfp
  BY <1>5, SpaceSelf
<1> HIDE DEF q
<1>13. QED
  BY <1>1, <1>3, <1>4, <1>6, <1>7, <1>8, <1>9, <1>10, <1>11, <1>12, QueueStep DEF k

LEMMA LackFacts ==
    ASSUME NEW r
    PROVE  /\ Lack(r) \in {"room", "header", "space", "none"}
           /\ Lack(r) = "room" => r.cnt + msgque[r.q].cbytes > msgque[r.q].qbytes
           /\ Lack(r) = "header" => msgfp = 0
           /\ Lack(r) = "space" => Fits(msgmap.free, Btoq(r.cnt)) = {}
           /\ Lack(r) = "none" =>
                /\ ~(r.cnt + msgque[r.q].cbytes > msgque[r.q].qbytes) /\ msgfp # 0
                /\ r.cnt > 0 => Fits(msgmap.free, Btoq(r.cnt)) # {}
<1>1. CASE r.cnt + msgque[r.q].cbytes > msgque[r.q].qbytes
  BY <1>1 DEF Lack
<1>2. CASE ~(r.cnt + msgque[r.q].cbytes > msgque[r.q].qbytes) /\ msgfp = 0
  BY <1>2 DEF Lack
<1>3. CASE /\ ~(r.cnt + msgque[r.q].cbytes > msgque[r.q].qbytes) /\ msgfp # 0
           /\ r.cnt > 0 /\ Fits(msgmap.free, Btoq(r.cnt)) = {}
  BY <1>3 DEF Lack
<1>4. CASE /\ ~(r.cnt + msgque[r.q].cbytes > msgque[r.q].qbytes) /\ msgfp # 0
           /\ ~(r.cnt > 0 /\ Fits(msgmap.free, Btoq(r.cnt)) = {})
  BY <1>4 DEF Lack
<1>5. QED
  BY <1>1, <1>2, <1>3, <1>4

LEMMA WaitsInv ==
    ASSUME Inv, NEW p, NEW r, NEW s, Ready(p, r, s), Waits(p, r, s)
    PROVE  Inv'
<1> DEFINE q == r.q
           k == msgque[q]
           L == Lack(r)
           ww == k.wwait \/ L = "room"
           n == Flags(k, k.rwait, ww, k.qbytes)
           e == At(L, r, s, k.qbytes)
<1>1. /\ p \in Procs /\ p \notin Holding /\ p \notin Copying /\ Typed(proc) /\ q \in Queues
      /\ QueueOK(k) /\ k.alloc /\ k.seq = s
  BY ReadyFacts
<1>2. k.wwait \in BOOLEAN /\ k.rwait \in BOOLEAN /\ k.qbytes \in Nat
  BY <1>1, QueueFacts
<1>3. L \in {"room", "header", "space"} /\ L \in Sleeps
  BY LackFacts DEF Waits, Sleeps
<1>4. msgque' = [msgque EXCEPT ![q] = n]
  <2>1. n = [k EXCEPT !.wwait = ww]
    BY <1>1 DEF QueueOK, Flags
  <2>2. msgque' = [msgque EXCEPT ![q].wwait = @ \/ L = "room"]
    BY DEF Waits
  <2> HIDE DEF L, n
  <2>3. QED
    BY <2>1, <2>2
<1>5. Flagged(k, n, k.rwait, ww, k.qbytes)
  <2>1. ww \in BOOLEAN
    OBVIOUS
  <2>2. n = Flags(k, k.rwait, ww, k.qbytes)
    OBVIOUS
  <2> HIDE DEF k, n, ww
  <2>3. QED
    BY <1>1, <1>2, <2>1, <2>2, FlagsChange
<1>6. /\ QueueOK(n) /\ CopiesKept(k, n) /\ RoomKept(k, n) /\ ReadersKept(k, n)
      /\ n.alloc = k.alloc /\ n.seq = k.seq /\ n.msgs = k.msgs /\ n.cbytes = k.cbytes
      /\ L = "room" => n.wwait
  <2> HIDE DEF n, k
  <2>1. QED
    BY <1>5 DEF Flagged
<1>7. ProcOK(e) /\ e.pc = L /\ e.req = r /\ e.seq = s /\ e.at = k.qbytes
  <2>1. r \in Requests /\ s \in Nat /\ L \in Sleeps \cup {"copyin", "copyout", "intr"}
    BY <1>3, ReadyFacts
  <2> HIDE DEF L, k
  <2>2. QED
    BY <1>2, <2>1, AtFacts
<1>8. proc' = GaveBack([proc EXCEPT ![p] = e], r) /\ UNCHANGED <<msglock, msgfp>>
      /\ msgmap' = [msgmap EXCEPT !.want = @ \/ L = "space"]
  BY DEF Waits
<1>9. /\ L = "room" => r.cnt + k.cbytes > k.qbytes
      /\ L = "header" => msgfp = 0
      /\ L = "space" => Fits(msgmap.free, Btoq(r.cnt)) = {}
  BY LackFacts
<1>10. /\ msgmap'.free = msgmap.free /\ msgmap' \in Maps /\ (msgmap.want => msgmap'.want)
       /\ L = "space" => msgmap'.want
  <2>1. msgmap \in Maps
    BY InvQueues, PoolText DEF GoodMap
  <2> HIDE DEF L
  <2>2. QED
    BY <1>8, <2>1 DEF Maps
<1> HIDE DEF e, n, L, k, ww
<1>11. Roused([proc EXCEPT ![p] = e], proc')
  <2>1. Typed([proc EXCEPT ![p] = e])
    BY <1>1, <1>7, ChangeTyped
  <2> DEFINE P == [proc EXCEPT ![p] = e]
  <2> HIDE DEF P
  <2>2. Roused(P, GaveBack(P, r))
    BY <2>1, Waking DEF P
  <2>3. QED
    BY <1>8, <2>2 DEF P
<1>12. Others({p}) /\ Woke(e, proc'[p]) /\ ProcOK(proc'[p])
  BY <1>1, <1>7, <1>11, ChangeFirst
<1>13. proc'[p].pc = L /\ (proc'[p].asleep => proc'[p] = e)
  BY ONLY <1>7, <1>12, WokeFacts
<1>14. p \notin Holding'
  BY <1>3, <1>13 DEF Holding
<1>15. Locks' /\ Uses' = Uses
  BY <1>1, <1>8, <1>12, <1>14, InvQueues, StayOutside
<1>16. ReasonOK(p)'
  <2>1. CASE proc'[p].asleep
    <3>1. ReasonFor(e, n, msgfp', msgmap')
      BY ONLY <1>1, <1>3, <1>6, <1>7, <1>8, <1>9, <1>10 DEF ReasonFor
    <3>2. msgque'[e.req.q] = n
      BY <1>1, <1>4, <1>7, InvQueues
    <3>3. QED
      BY <1>13, <2>1, <3>1, <3>2 DEF ReasonOK
  <2>2. CASE ~proc'[p].asleep
    BY <2>2 DEF ReasonOK, ReasonFor
  <2>3. QED
    BY <2>1, <2>2
<1>17. PoolOf(msgmap', msgfp', [Lists EXCEPT ![q] = n.msgs], Uses')
  <2>1. [Lists EXCEPT ![q] = n.msgs] = Lists
    BY <1>1, <1>6, SameLists DEF k
  <2>2. PoolOf(msgmap, msgfp, Lists, Uses)
    BY InvQueues
  <2>3. PoolOf(msgmap', msgfp, Lists, Uses)
    BY <1>10, <2>2, PoolWant
  <2>4. QED
    BY <1>8, <1>15, <2>1, <2>3
<1>18. SpaceKept(msgmap, msgmap') /\ msgfp' = msgfp
  BY <1>8, <1>10 DEF SpaceKept
<1> HIDE DEF q
<1>19. QED
  BY <1>1, <1>4, <1>6, <1>12, <1>14, <1>15, <1>16, <1>17, <1>18, QueueStep DEF k

(* The message of a request. *)
Mail(r, a) == [type |-> r.typ, ts |-> r.cnt, spot |-> a]

Linked(p, q, m) ==
    LET k == msgque[q]
        n == With(k, m)
    IN  /\ m \in Message /\ msgque' = [msgque EXCEPT ![q] = n]
        /\ QueueOK(n) /\ RoomKept(k, n) /\ n.msgs = Append(k.msgs, m)
        /\ Others({p}) /\ proc'[p] = Idle /\ Calm({p}, "reader", q)

LEMMA LinkFacts ==
    ASSUME Inv, NEW p \in Procs, NEW r \in Requests, r.op = "snd", msgque[r.q].alloc, NEW a \in Nat,
           Link(p, r, a)
    PROVE  Linked(p, r.q, Mail(r, a))
<1> DEFINE q == r.q
           k == msgque[q]
           m == Mail(r, a)
           n == With(k, m)
           P == IF k.rwait THEN Wakeup(proc, "reader", {q}) ELSE proc
<1>1. q \in Queues /\ r.cnt \in Nat /\ r.typ \in Nat \ {0}
  BY RequestFacts
<1>2. QueueOK(k) /\ Typed(proc) /\ k.alloc
  BY <1>1, InvQueues
<1>3. m \in Message /\ m.ts = r.cnt
  BY <1>1 DEF Mail, Message
<1>4. msgque' = [msgque EXCEPT ![q] = n]
  <2>1. msgque' = [msgque EXCEPT ![q].rwait = FALSE, ![q].cbytes = @ + r.cnt, ![q].msgs = Append(@, m)]
    BY DEF Link, Mail
  <2>2. k \in [alloc : BOOLEAN, seq : 0..MaxSeq, msgs : Seq(Message), cbytes : Nat,
               qbytes : Nat, rwait : BOOLEAN, wwait : BOOLEAN]
    BY <1>2 DEF QueueOK
  <2>3. msgque = [c \in Queues |-> msgque[c]]
    BY InvQueues
  <2> HIDE DEF m
  <2>4. QED
    BY <1>1, <1>3, <2>1, <2>2, <2>3 DEF With
<1>5. QueueOK(n)
  <2> HIDE DEF k, m
  <2>1. QED
    BY <1>2, <1>3, Appended
<1>6. /\ n.alloc = k.alloc /\ n.seq = k.seq /\ n.msgs = Append(k.msgs, m) /\ n.wwait = k.wwait
      /\ n.cbytes = k.cbytes + m.ts
  BY <1>2 DEF QueueOK, With
<1>7. RoomKept(k, n)
  <2>1. k.cbytes \in Nat /\ m.ts \in Nat
    BY <1>1, <1>2, <1>3, QueueFacts
  <2> HIDE DEF k, m, n
  <2>2. n.cbytes >= k.cbytes
    BY <1>6, <2>1
  <2>3. QED
    BY <1>6, <2>2 DEF RoomKept, SameQueue
<1>8. Typed(P) /\ Roused(proc, P) /\ (k.rwait => Quiet(P, "reader", {q}))
  BY <1>2, WakeupFacts, RousedSelf, RousedTyped
<1>9. proc' = [P EXCEPT ![p] = Idle]
  BY DEF Link
<1> HIDE DEF P, n, m
<1>10. Others({p}) /\ proc'[p] = Idle /\ \A on, S : Quiet(P, on, S) => \A c \in S : Calm({p}, on, c)
  BY <1>8, <1>9, ThenChange
<1>11. Calm({p}, "reader", q)
  <2>1. CASE k.rwait
    BY <1>8, <1>10, <2>1
  <2>2. CASE ~k.rwait
    BY <1>1, <1>10, <2>2, Awake
  <2>3. QED
    BY <2>1, <2>2
<1>12. QED
  BY <1>3, <1>4, <1>5, <1>6, <1>7, <1>10, <1>11 DEF Linked, m, n

LEMMA LinksEmptyInv ==
    ASSUME Inv, NEW p, NEW r, NEW s, Ready(p, r, s), r.op = "snd", LinksEmpty(p, r, s)
    PROVE  Inv'
<1> DEFINE q == r.q
           k == msgque[q]
           m == Mail(r, 0)
           n == With(k, m)
<1>1. /\ p \in Procs /\ p \notin Holding /\ p \notin Copying /\ Typed(proc) /\ q \in Queues
      /\ QueueOK(k) /\ k.alloc /\ k.seq = s /\ r \in Requests
      /\ \A o \in Holding : proc[o].req.q # q
  BY ReadyFacts
<1>2. Linked(p, q, m)
  BY <1>1, LinkFacts DEF LinksEmpty
<1>3. /\ m \in Message /\ msgque' = [msgque EXCEPT ![q] = n]
      /\ QueueOK(n) /\ RoomKept(k, n) /\ n.msgs = Append(k.msgs, m)
      /\ Others({p}) /\ proc'[p] = Idle /\ Calm({p}, "reader", q)
  <2> HIDE DEF m
  <2> QED
    BY <1>2 DEF Linked
<1>4. msgfp' = msgfp - 1 /\ UNCHANGED <<msglock, msgmap>> /\ Lack(r) = "none" /\ m.ts = 0
  BY DEF LinksEmpty, Mail
<1>5. msgfp # 0
  BY <1>4, LackFacts
<1>6. ProcOK(proc'[p]) /\ ReasonOK(p)' /\ p \notin Holding'
  BY <1>3, IdleIn
<1>7. Locks' /\ Uses' = Uses
  BY <1>1, <1>3, <1>4, <1>6, InvQueues, StayOutside
<1>8. PoolOf(msgmap', msgfp', [Lists EXCEPT ![q] = n.msgs], Uses')
  <2>1. ListsOK(Lists) /\ Lists[q] = k.msgs /\ PoolOf(msgmap, msgfp, Lists, Uses)
    BY <1>1, InvQueues
  <2> HIDE DEF m, n, k, q
  <2>2. PoolOf(msgmap, msgfp - 1, [Lists EXCEPT ![q] = Append(@, m)], Uses)
    BY <1>1, <1>3, <1>4, <1>5, <2>1, PoolLinksEmpty
  <2>3. [Lists EXCEPT ![q] = Append(@, m)] = [Lists EXCEPT ![q] = n.msgs]
    BY <1>3, <2>1
  <2>4. QED
    BY <1>4, <1>7, <2>2, <2>3
<1>9. SpaceKept(msgmap, msgmap')
  BY <1>4, SpaceSelf
<1> HIDE DEF q, n
<1>10. QED
  BY <1>1, <1>3, <1>5, <1>6, <1>7, <1>8, <1>9, QueueStep DEF k

LEMMA CopiedInInv ==
    ASSUME Inv, NEW p \in Procs, CopiedIn(p)
    PROVE  Inv'
<1> DEFINE r == proc[p].req
           a == proc[p].at
           q == r.q
           k == msgque[q]
           m == Mail(r, a)
           n == With(k, m)
<1>1. p \in Holding /\ p \in Copying /\ proc[p].pc = "copyin"
  BY DEF CopiedIn, Holding, Copying
<1>2. r \in Requests /\ a \in Nat /\ q \in Queues /\ Typed(proc) /\ r.cnt \in Nat
  BY <1>1, HeldQueue, InvQueues, RequestFacts
<1>3. CopyFor(proc[p], k)
  BY <1>1 DEF Inv, CopyOK
<1>4. r.op = "snd" /\ k.alloc
  BY <1>1, <1>3 DEF CopyFor
<1>5. /\ Link(p, r, a) /\ msglock' = msglock \ {q} /\ UNCHANGED <<msgfp, msgmap>>
  BY DEF CopiedIn
<1>6. Linked(p, q, m)
  <2> HIDE DEF r, a
  <2> QED
    BY <1>2, <1>4, <1>5, LinkFacts
<1>7. /\ m \in Message /\ msgque' = [msgque EXCEPT ![q] = n]
      /\ QueueOK(n) /\ RoomKept(k, n) /\ n.msgs = Append(k.msgs, m)
      /\ Others({p}) /\ proc'[p] = Idle /\ Calm({p}, "reader", q)
  <2> HIDE DEF m, q
  <2> QED
    BY <1>6 DEF Linked
<1>8. Locks' /\ Copying' = Copying \ {p}
  <2> HIDE DEF k, m, n
  <2> QED
    BY <1>1, <1>2, <1>5, <1>7, InvQueues, Leaves
<1>9. ProcOK(proc'[p]) /\ ReasonOK(p)' /\ p \notin Holding'
  <2> HIDE DEF k, m, n, q
  <2> QED
    BY <1>7, IdleIn
<1>10. \A o \in Holding \ {p} : proc[o].req.q # q
  BY <1>1 DEF Inv, Locks
<1>11. PoolOf(msgmap', msgfp', [Lists EXCEPT ![q] = n.msgs], Uses')
  <2>1. ListsOK(Lists) /\ Lists[q] = k.msgs /\ PoolOf(msgmap, msgfp, Lists, Uses)
    BY <1>2, InvQueues
  <2>2. DOMAIN Uses' = DOMAIN Uses \ {p} /\ \A o \in DOMAIN Uses' : Uses'[o] = Uses[o]
    <3> HIDE DEF k, m, n, q
    <3>1. Typed(proc) /\ Others({p})
      BY <1>2, <1>7
    <3>2. QED
      BY <1>8, <3>1, UsesFacts
  <2>3. p \in DOMAIN Uses /\ Text(m) = Uses[p]
    <3>1. m.spot = a /\ m.ts = r.cnt
      BY DEF Mail
    <3>2. Uses[p] = Units(a, Btoq(r.cnt))
      BY <1>1 DEF Uses
    <3>3. QED
      BY <1>1, <3>1, <3>2 DEF Uses, Text
  <2> DEFINE U2 == Uses'
  <2>4. DOMAIN U2 = DOMAIN Uses \ {p} /\ \A o \in DOMAIN U2 : U2[o] = Uses[o]
    BY <2>2
  <2> HIDE DEF m, n, k, q, U2
  <2>5. PoolOf(msgmap, msgfp, [Lists EXCEPT ![q] = Append(@, m)], U2)
    <3>1. q \in Queues /\ m \in Message /\ p \in DOMAIN Uses
      BY <1>2, <1>7, <2>3
    <3>2. QED
      BY ONLY <2>1, <2>3, <2>4, <3>1, PoolCopiedIn
  <2>6. [Lists EXCEPT ![q] = Append(@, m)] = [Lists EXCEPT ![q] = n.msgs]
    BY <1>7, <2>1
  <2>7. QED
    BY <1>5, <2>5, <2>6 DEF U2
<1>12. SpaceKept(msgmap, msgmap') /\ msgfp' = msgfp
  BY <1>5, SpaceSelf
<1> HIDE DEF q, n
<1>13. QED
  BY <1>2, <1>7, <1>8, <1>9, <1>10, <1>11, <1>12, QueueStep DEF k

-----------------------------------------------------------------------------
(* Steps that change the map and no queue. *)
LEMMA MapStep ==
    ASSUME Inv, NEW X, X \subseteq Procs, Others(X),
           \A p \in X : ProcOK(proc'[p]) /\ ReasonOK(p)' /\ (p \in Holding' => CopyOK(p)'),
           msgque' = msgque, Locks',
           (\A c \in Queues : Calm(X, "header", c)) \/ (msgfp = 0 => msgfp' = 0),
           (\A c \in Queues : Calm(X, "space", c)) \/ SpaceKept(msgmap, msgmap'),
           PoolOf(msgmap', msgfp', Lists, Uses')
    PROVE  Inv'
<1>1. PoolOf(msgmap', msgfp', Lists', Uses')
  BY QueuesSame
<1>2. \A p \in Holding \ X : CopiesKept(msgque[proc[p].req.q], msgque'[proc[p].req.q])
  BY HeldQueue, QueuesSame
<1>3. QED
  BY <1>1, <1>2, QueuesSame, InvStep

LEMMA CopyinInv ==
    ASSUME Inv, NEW p, NEW r, NEW s, Ready(p, r, s), r.op = "snd", Copyin(p, r, s)
    PROVE  Inv'
<1> DEFINE q == r.q
           k == msgque[q]
           b == Btoq(r.cnt)
           a == Malloc(msgmap.free, b)
           f == Taken(msgmap.free, b)
           e == At("copyin", r, s, a)
           V == Units(a, b)
<1>1. /\ p \in Procs /\ p \notin Holding /\ p \notin Copying /\ Typed(proc) /\ q \in Queues
      /\ QueueOK(k) /\ k.alloc /\ k.seq = s /\ r \in Requests /\ s \in Nat /\ q \notin msglock
  BY ReadyFacts
<1>2. /\ msgfp' = msgfp - 1 /\ msgmap' = [msgmap EXCEPT !.free = f] /\ msglock' = msglock \cup {q}
      /\ proc' = [proc EXCEPT ![p] = e] /\ msgque' = msgque /\ Lack(r) = "none" /\ r.cnt > 0
  BY DEF Copyin
<1>3. ~(r.cnt + k.cbytes > k.qbytes) /\ msgfp # 0 /\ Fits(msgmap.free, b) # {}
  BY <1>2, LackFacts
<1>4. r.cnt \in Nat /\ b \in Nat /\ b > 0
  BY <1>1, <1>2, RequestFacts, BtoqFacts
<1>5. PoolOf(msgmap, msgfp, Lists, Uses) /\ GoodMap(msgmap) /\ Typed(proc) /\ Locks
  BY InvQueues, PoolText
<1>6. a \in Nat /\ Lacks(msgmap.free, f, b, a)
  <2> HIDE DEF b
  <2>1. Map(msgmap.free)
    BY <1>5 DEF GoodMap
  <2>2. a \in Nat
    BY <1>3, <1>4, <2>1, TakenFacts
  <2>3. Lacks(msgmap.free, f, b, a)
    BY <1>3, <1>4, <2>1, TakenFacts
  <2>4. QED
    BY <2>2, <2>3
<1> HIDE DEF k, b, a, f, q
<1>7. ProcOK(e) /\ e.pc = "copyin" /\ e.req = r /\ e.seq = s /\ e.at = a /\ ~e.asleep
  <2>1. "copyin" \notin Sleeps /\ "copyin" \in Sleeps \cup {"copyin", "copyout", "intr"}
    BY DEF Sleeps
  <2>2. QED
    BY <1>1, <1>6, <2>1, AtFacts
<1> HIDE DEF e
<1>8. Others({p}) /\ proc'[p] = e
  BY <1>1, <1>2, OnlyChange
<1>9. Locks' /\ Copying' = Copying \cup {p}
  <2>1. /\ proc'[p].pc = "copyin" /\ proc'[p].req.q \notin msglock
        /\ msglock' = msglock \cup {proc'[p].req.q}
    BY <1>1, <1>2, <1>7, <1>8 DEF q
  <2>2. Locks' /\ Copying' = Copying \cup (IF proc'[p].pc = "copyin" THEN {p} ELSE {})
    BY <1>1, <1>5, <1>8, <2>1, Enters
  <2>3. QED
    BY <2>1, <2>2
<1>10. /\ DOMAIN Uses' = DOMAIN Uses \cup {p} /\ Uses'[p] = V
       /\ \A o \in DOMAIN Uses : Uses'[o] = Uses[o]
  <2>1. /\ DOMAIN Uses = Copying /\ DOMAIN Uses' = Copying'
        /\ \A o \in Copying' : Uses'[o] = Units(proc'[o].at, Btoq(proc'[o].req.cnt))
        /\ \A o \in Copying' \ {p} : Uses'[o] = Uses[o]
    BY <1>1, <1>8, UsesFacts
  <2>2. Uses'[p] = V
    BY <1>7, <1>8, <1>9, <2>1 DEF b
  <2>3. QED
    BY <1>1, <1>9, <2>1, <2>2
<1>11. CopyOK(p)'
  <2>1. k.cbytes \in Nat /\ k.qbytes \in Nat
    BY <1>1, QueueFacts
  <2>2. r.cnt + k.cbytes <= k.qbytes
    BY ONLY <1>3, <1>4, <2>1
  <2>3. CopyFor(e, k)
    BY ONLY <1>1, <1>2, <1>7, <2>2, r.op = "snd" DEF CopyFor
  <2>4. msgque'[proc'[p].req.q] = k
    BY <1>2, <1>7, <1>8 DEF k, q
  <2>5. QED
    BY <1>8, <2>3, <2>4 DEF CopyOK
<1>12. ReasonOK(p)'
  BY <1>7, <1>8 DEF ReasonOK, ReasonFor
<1>13. /\ Map(f) /\ UnitsOf(f) = UnitsOf(msgmap.free) \ V /\ V \subseteq UnitsOf(msgmap.free)
       /\ \A i \in Int : Fits(msgmap.free, i) = {} => Fits(f, i) = {}
  BY <1>6 DEF Lacks
<1>14. msgmap'.free = f /\ msgmap'.want = msgmap.want /\ GoodMap(msgmap')
  <2>1. msgmap \in Maps /\ UnitsOf(msgmap.free) \subseteq 1..MSGSEG
    BY <1>5 DEF GoodMap
  <2>2. f \in Seq(Span)
    BY <1>13 DEF Map
  <2>3. msgmap'.free = f /\ msgmap'.want = msgmap.want /\ msgmap' \in Maps
    BY <1>2, <2>1, <2>2 DEF Maps
  <2>4. QED
    BY <1>13, <2>1, <2>3 DEF GoodMap
<1>15. SpaceKept(msgmap, msgmap')
  BY <1>13, <1>14 DEF SpaceKept
<1> HIDE DEF V
<1>16. PoolOf(msgmap', msgfp', Lists, Uses')
  <2> DEFINE U2 == Uses'
  <2>1. DOMAIN U2 = DOMAIN Uses \cup {p} /\ U2[p] = V /\ \A o \in DOMAIN Uses : U2[o] = Uses[o]
    BY <1>10
  <2>2. p \notin DOMAIN Uses
    BY <1>1 DEF Uses
  <2> DEFINE mm == msgmap
             m2 == msgmap'
  <2>3. GoodMap(m2) /\ UnitsOf(m2.free) = UnitsOf(mm.free) \ V /\ V \subseteq UnitsOf(mm.free)
    BY <1>13, <1>14
  <2>4. PoolOf(mm, msgfp, Lists, Uses)
    BY <1>5
  <2> HIDE DEF U2, mm, m2
  <2>5. PoolOf(m2, msgfp - 1, Lists, U2)
    BY ONLY <1>3, <2>1, <2>2, <2>3, <2>4, PoolCopyin
  <2>6. QED
    BY <1>2, <2>5 DEF U2, m2
<1>17. msgfp = 0 => msgfp' = 0
  BY <1>3
<1>18. QED
  BY <1>1, <1>2, <1>7, <1>8, <1>9, <1>11, <1>12, <1>15, <1>16, <1>17, MapStep

LEMMA CopyinFailsInv ==
    ASSUME Inv, NEW p \in Procs, CopyinFails(p)
    PROVE  Inv'
<1> DEFINE r == proc[p].req
           a == proc[p].at
           m == [ts |-> r.cnt, spot |-> a]
           P == [proc EXCEPT ![p] = Idle]
           Q == MapWakes(P, msgmap')
<1>1. p \in Holding /\ p \in Copying /\ proc[p].pc = "copyin"
  BY DEF CopyinFails, Holding, Copying
<1>2. r \in Requests /\ a \in Nat /\ Typed(proc) /\ r.cnt \in Nat
  BY <1>1, HeldQueue, InvQueues, RequestFacts
<1>3. /\ msgmap' = TextBack(msgmap, m) /\ msgfp' = msgfp + 1 /\ proc' = HeaderBack(Q, msgfp)
      /\ msglock' = msglock \ {r.q} /\ msgque' = msgque
  BY DEF CopyinFails
<1>4. /\ PoolOf(msgmap, msgfp, Lists, Uses) /\ GoodMap(msgmap) /\ msgfp \in Nat
      /\ \A o \in DOMAIN Uses : Uses[o] \subseteq 1..MSGSEG /\ Uses[o] \cap UnitsOf(msgmap.free) = {}
  <2>1. PoolOf(msgmap, msgfp, Lists, Uses)
    BY InvQueues
  <2>2. QED
    BY <2>1, PoolText
<1>5. p \in DOMAIN Uses /\ Uses[p] = Text(m)
  BY <1>1 DEF Uses, Text
<1>6. Back(msgmap, msgmap', Uses[p])
  <2>1. m.ts \in Nat /\ m.spot \in Int
    BY <1>2
  <2>2. Text(m) \subseteq 1..MSGSEG /\ Text(m) \cap UnitsOf(msgmap.free) = {}
    BY <1>4, <1>5
  <2>c. PICK C : /\ EnoughSlots => Pieces(C, UnitsOf(msgmap.free))
                 /\ \A o \in DOMAIN Uses : Continued(C, Uses[o])
    BY InvPieces
  <2>d. Continued(C, Text(m))
    BY <1>5, <2>c
  <2> HIDE DEF m
  <2>3. Back(msgmap, TextBack(msgmap, m), Text(m))
    BY <1>4, <2>1, <2>2, <2>c, <2>d, TextBackFacts
  <2>4. QED
    BY <1>3, <1>5, <2>3
<1> HIDE DEF m, r, a
<1>7. Typed(P)
  BY <1>2, IdleFacts, ChangeTyped
<1> HIDE DEF P
<1>8. Roused(P, Q) /\ Typed(Q) /\ (msgmap.want /\ ~msgmap'.want => Quiet(Q, "space", Queues))
  <2> DEFINE m2 == msgmap'
  <2>1. Q = MapWakes(P, m2)
    OBVIOUS
  <2> HIDE DEF m2, Q
  <2>2. Roused(P, Q) /\ (msgmap.want /\ ~m2.want => Quiet(Q, "space", Queues))
    BY <1>7, <2>1, MapWakesFacts
  <2>3. Typed(Q)
    BY <1>7, <2>2, RousedTyped
  <2>4. QED
    BY <2>2, <2>3 DEF m2
<1> HIDE DEF Q
<1>9. Roused(Q, proc') /\ (msgfp = 0 => Quiet(proc', "header", Queues))
  BY <1>3, <1>8, HeaderBackFacts
<1>10. Roused(P, proc')
  BY <1>7, <1>8, <1>9, RousedTwice
<1>11. msgmap.want /\ ~msgmap'.want => Quiet(proc', "space", Queues)
  BY <1>8, <1>9, QuietStays
<1>12. /\ Others({p}) /\ Woke(Idle, proc'[p])
       /\ \A on, S : Quiet(proc', on, S) => \A c \in S : Calm({p}, on, c)
  BY <1>2, <1>10, IdleFacts, ChangeFirst DEF P
<1>13. proc'[p] = Idle
  BY <1>12, IdleFacts DEF Woke
<1>14. Locks' /\ Copying' = Copying \ {p}
  BY <1>1, <1>2, <1>3, <1>12, <1>13, InvQueues, Leaves DEF r
<1>15. ProcOK(proc'[p]) /\ ReasonOK(p)' /\ p \notin Holding'
  BY <1>13, IdleIn
<1>16. PoolOf(msgmap', msgfp', Lists, Uses')
  <2> DEFINE U2 == Uses'
             m2 == msgmap'
  <2>1. DOMAIN U2 = DOMAIN Uses \ {p} /\ \A o \in DOMAIN U2 : U2[o] = Uses[o]
    BY <1>2, <1>12, <1>14, UsesFacts
  <2>2. Back(msgmap, m2, Uses[p]) /\ p \in DOMAIN Uses
    BY <1>5, <1>6
  <2> HIDE DEF U2, m2
  <2>3. PoolOf(m2, msgfp + 1, Lists, U2)
    BY ONLY <1>4, <2>1, <2>2, PoolCopyFails
  <2>4. QED
    BY <1>3, <2>3 DEF U2, m2
<1>17. (\A c \in Queues : Calm({p}, "header", c)) \/ (msgfp = 0 => msgfp' = 0)
  BY <1>9, <1>12
<1>18. (\A c \in Queues : Calm({p}, "space", c)) \/ SpaceKept(msgmap, msgmap')
  <2>1. CASE ~msgmap.want
    BY <1>12, <2>1, Awake
  <2>2. CASE msgmap.want /\ ~msgmap'.want
    BY <1>11, <1>12, <2>2
  <2>3. CASE msgmap'.want
    BY <1>6, <2>3, SpaceSelf DEF Back
  <2>4. QED
    BY <2>1, <2>2, <2>3
<1>19. QED
  BY <1>3, <1>12, <1>14, <1>15, <1>16, <1>17, <1>18, MapStep

-----------------------------------------------------------------------------
(* A message leaves its queue. *)
LEMMA WantedRemove ==
    ASSUME NEW s \in Seq(Message), NEW i \in DOMAIN s, NEW t \in Int, Wanted(s, t) = {}
    PROVE  Wanted(RemoveAt(s, i), t) = {}
<1> DEFINE u == RemoveAt(s, i)
<1>1. /\ u \in Seq(Message) /\ Len(u) = Len(s) - 1 /\ Len(s) \in Nat /\ DOMAIN s = 1..Len(s)
      /\ \A j \in 1..Len(u) : u[j] = IF j < i THEN s[j] ELSE s[j + 1]
  BY RemoveAtPlaces
<1> HIDE DEF u
<1>2. ASSUME NEW j \in Wanted(u, t) PROVE FALSE
  <2>1. j \in 1..Len(u) /\ (t = 0 \/ u[j].type = t \/ u[j].type <= -t)
    BY <1>1 DEF Wanted
  <2>2. PICK l \in DOMAIN s : u[j] = s[l]
    <3>1. j \in DOMAIN s /\ j + 1 \in DOMAIN s
      BY <1>1, <2>1
    <3>2. QED
      BY <1>1, <2>1, <3>1
  <2>3. l \in Wanted(s, t)
    BY <2>1, <2>2 DEF Wanted
  <2>4. QED
    BY <2>3
<1>3. QED
  BY <1>2 DEF u

LEMMA WithoutFacts ==
    ASSUME NEW k, QueueOK(k), NEW i \in DOMAIN k.msgs, NEW n, n = Without(k, i)
    PROVE  QueueOK(n) /\ ReadersKept(k, n) /\ n.msgs = RemoveAt(k.msgs, i)
<1>1. QueueOK(n)
  BY Removed
<1>2. k.msgs \in Seq(Message)
  BY QueueFacts
<1>3. n.alloc = k.alloc /\ n.seq = k.seq /\ n.rwait = k.rwait /\ n.msgs = RemoveAt(k.msgs, i)
  BY DEF Without, QueueOK
<1>4. \A t \in Int : Wanted(k.msgs, t) = {} => Wanted(n.msgs, t) = {}
  BY <1>2, <1>3, WantedRemove
<1>5. QED
  BY <1>1, <1>3, <1>4 DEF ReadersKept, SameQueue

(* The three wakeups of msgfree, one after the other. *)
LEMMA MsgfreeWakes ==
    ASSUME Inv, NEW q \in Queues, NEW m2, NEW R, NEW P, NEW Q,
           R = IF msgque[q].wwait THEN Wakeup(proc, "room", {q}) ELSE proc,
           Q = MapWakes(R, m2), Roused(Q, P)
    PROVE  /\ Typed(P) /\ Roused(proc, P) /\ Typed(Q)
           /\ msgque[q].wwait => Quiet(P, "room", {q})
           /\ msgmap.want /\ ~m2.want => Quiet(P, "space", Queues)
<1>1. Typed(proc)
  BY InvQueues
<1>2. Roused(proc, R) /\ (msgque[q].wwait => Quiet(R, "room", {q}))
  BY <1>1, WakeupFacts, RousedSelf
<1>3. Typed(R)
  BY <1>1, <1>2, RousedTyped
<1>4. Roused(R, Q) /\ (msgmap.want /\ ~m2.want => Quiet(Q, "space", Queues))
  BY <1>3, MapWakesFacts
<1>5. Typed(Q)
  BY <1>3, <1>4, RousedTyped
<1>6. Typed(P)
  BY <1>5, RousedTyped
<1>7. Roused(R, P)
  BY <1>3, <1>4, RousedTwice
<1>8. Roused(proc, P)
  BY <1>1, <1>2, <1>7, RousedTwice
<1>9. msgque[q].wwait => Quiet(P, "room", {q})
  BY <1>2, <1>3, <1>7, QuietStays
<1>10. msgmap.want /\ ~m2.want => Quiet(P, "space", Queues)
  BY <1>4, <1>5, QuietStays
<1>11. QED
  BY <1>5, <1>6, <1>8, <1>9, <1>10

LEMMA CopiedOutInv ==
    ASSUME Inv, NEW p \in Procs, CopiedOut(p)
    PROVE  Inv'
<1> DEFINE q == proc[p].req.q
           i == proc[p].at
           k == msgque[q]
           m == k.msgs[i]
           n == Without(k, i)
           R == IF k.wwait THEN Wakeup(proc, "room", {q}) ELSE proc
           Q == MapWakes(R, msgmap')
           P == HeaderBack(Q, msgfp)
<1>1. p \in Holding /\ p \notin Copying /\ proc[p].pc = "copyout"
  BY DEF CopiedOut, Holding, Copying
<1>2. q \in Queues /\ Typed(proc) /\ QueueOK(k) /\ k.wwait \in BOOLEAN /\ k.msgs \in Seq(Message)
  BY <1>1, HeldQueue, InvQueues, QueueFacts
<1>3. i \in DOMAIN k.msgs
  <2>1. CopyFor(proc[p], k)
    BY <1>1 DEF Inv, CopyOK
  <2> HIDE DEF k
  <2>2. QED
    BY <1>1, <2>1 DEF CopyFor
<1>4. /\ msgque' = [msgque EXCEPT ![q].msgs = RemoveAt(@, i), ![q].wwait = FALSE, ![q].cbytes = @ - m.ts]
      /\ msgmap' = TextBack(msgmap, m) /\ msgfp' = msgfp + 1 /\ proc' = [P EXCEPT ![p] = Idle]
      /\ msglock' = msglock \ {q}
  <2>1. Msgfree(p, q, i) /\ msglock' = msglock \ {q}
    BY DEF CopiedOut
  <2> HIDE DEF q, i
  <2>2. QED
    BY ONLY <2>1 DEF Msgfree
<1>5. msgque' = [msgque EXCEPT ![q] = n]
  <2>1. k \in [alloc : BOOLEAN, seq : 0..MaxSeq, msgs : Seq(Message), cbytes : Nat,
               qbytes : Nat, rwait : BOOLEAN, wwait : BOOLEAN]
    BY <1>2 DEF QueueOK
  <2>2. msgque = [c \in Queues |-> msgque[c]]
    BY InvQueues
  <2> HIDE DEF q, i
  <2>3. QED
    BY <1>2, <1>4, <2>1, <2>2 DEF Without
<1> HIDE DEF q, i, k
<1>6. QueueOK(n) /\ ReadersKept(k, n) /\ n.msgs = RemoveAt(k.msgs, i)
  BY <1>2, <1>3, WithoutFacts
<1> HIDE DEF n
<1>7. PoolOf(msgmap, msgfp, Lists, Uses) /\ ListsOK(Lists) /\ Lists[q] = k.msgs /\ Locks
  BY <1>2, InvQueues DEF k
<1>8. Back(msgmap, msgmap', Text(m))
  <2>1. GoodMap(msgmap) /\ Text(m) \subseteq 1..MSGSEG /\ Text(m) \cap UnitsOf(msgmap.free) = {}
    BY <1>2, <1>3, <1>7, PoolText
  <2>2. m.ts \in Nat /\ m.spot \in Int
    BY <1>2, <1>3, MessageFacts
  <2>c. PICK C : /\ EnoughSlots => Pieces(C, UnitsOf(msgmap.free))
                 /\ \A c \in Queues : \A j \in DOMAIN Lists[c] : Continued(C, Text(Lists[c][j]))
    BY InvPieces
  <2>d. Continued(C, Text(m))
    BY <1>2, <1>3, <1>7, <2>c
  <2> HIDE DEF m
  <2>3. Back(msgmap, TextBack(msgmap, m), Text(m))
    BY <2>1, <2>2, <2>c, <2>d, TextBackFacts
  <2>4. QED
    BY <1>4, <2>3
<1>9. /\ Typed(P) /\ Roused(proc, P)
      /\ k.wwait => Quiet(P, "room", {q})
      /\ msgmap.want /\ ~msgmap'.want => Quiet(P, "space", Queues)
      /\ msgfp = 0 => Quiet(P, "header", Queues)
  <2> DEFINE m2 == msgmap'
  <2>1. Q = MapWakes(R, m2) /\ R = IF msgque[q].wwait THEN Wakeup(proc, "room", {q}) ELSE proc
    BY DEF k
  <2> HIDE DEF R, Q, P, m2
  <2>2. Roused(Q, Q)
    <3>1. R = [o \in Procs |-> R[o]]
      BY <1>2, <2>1 DEF Wakeup, Typed
    <3>2. Q = [o \in Procs |-> Q[o]]
      BY <2>1, <3>1 DEF MapWakes, Wakeup
    <3>3. QED
      BY <3>2 DEF Roused, Woke
  <2>3. Typed(Q)
    BY <1>2, <2>1, <2>2, MsgfreeWakes
  <2>4. Roused(Q, P) /\ (msgfp = 0 => Quiet(P, "header", Queues))
    BY <2>3, HeaderBackFacts DEF P
  <2>5. Typed(P)
    BY <2>3, <2>4, RousedTyped
  <2>6. Roused(proc, P)
    BY <1>2, <2>1, <2>4, MsgfreeWakes
  <2>7. msgque[q].wwait => Quiet(P, "room", {q})
    BY <1>2, <2>1, <2>4, MsgfreeWakes
  <2>8. msgmap.want /\ ~m2.want => Quiet(P, "space", Queues)
    BY <1>2, <2>1, <2>4, MsgfreeWakes
  <2>9. QED
    BY <2>4, <2>5, <2>6, <2>7, <2>8 DEF k, m2
<1> HIDE DEF R, Q, P
<1>10. Others({p}) /\ proc'[p] = Idle /\ \A on, S : Quiet(P, on, S) => \A c \in S : Calm({p}, on, c)
  BY <1>4, <1>9, ThenChange
<1>11. Locks' /\ Copying' = Copying \ {p}
  BY <1>1, <1>2, <1>4, <1>7, <1>10, Leaves DEF q
<1>12. Uses' = Uses
  <2>1. Copying' = Copying
    BY <1>1, <1>11
  <2>2. \A o \in Copying' : Uses'[o] = Uses[o]
    BY <1>1, <1>2, <1>10, <2>1, UsesFacts
  <2>3. QED
    BY <2>1, <2>2 DEF Uses
<1>13. ProcOK(proc'[p]) /\ ReasonOK(p)' /\ p \notin Holding'
  BY <1>10, IdleIn
<1>14. \A o \in Holding \ {p} : proc[o].req.q # q
  BY <1>1 DEF Inv, Locks, q
<1>15. Calm({p}, "room", q)
  <2>1. CASE k.wwait
    BY <1>9, <1>10, <2>1
  <2>2. CASE ~k.wwait
    BY <1>2, <1>10, <2>2, Awake DEF k
  <2>3. QED
    BY <2>1, <2>2
<1>16. (\A c \in Queues : Calm({p}, "header", c)) \/ (msgfp = 0 => msgfp' = 0)
  BY <1>9, <1>10
<1>17. (\A c \in Queues : Calm({p}, "space", c)) \/ SpaceKept(msgmap, msgmap')
  <2>1. CASE ~msgmap.want
    BY <1>10, <2>1, Awake
  <2>2. CASE msgmap.want /\ ~msgmap'.want
    BY <1>9, <1>10, <2>2
  <2>3. CASE msgmap'.want
    BY <1>8, <2>3, SpaceSelf DEF Back
  <2>4. QED
    BY <2>1, <2>2, <2>3
<1>18. PoolOf(msgmap', msgfp', [Lists EXCEPT ![q] = n.msgs], Uses')
  <2> DEFINE m2 == msgmap'
  <2>1. Back(msgmap, m2, Text(Lists[q][i])) /\ i \in DOMAIN Lists[q]
    BY <1>3, <1>7, <1>8
  <2> HIDE DEF m2
  <2>2. PoolOf(m2, msgfp + 1, [Lists EXCEPT ![q] = RemoveAt(@, i)], Uses)
    BY ONLY <1>2, <1>7, <2>1, PoolMsgfree
  <2>3. [Lists EXCEPT ![q] = RemoveAt(@, i)] = [Lists EXCEPT ![q] = n.msgs]
    BY <1>6, <1>7
  <2>4. QED
    BY <1>4, <1>12, <2>2, <2>3 DEF m2
<1>19. QED
  BY <1>2, <1>5, <1>6, <1>10, <1>11, <1>13, <1>14, <1>15, <1>16, <1>17, <1>18, QueueStep DEF k

-----------------------------------------------------------------------------
(* The other steps. *)
LEMMA IntrLooksInv ==
    ASSUME Inv, NEW p \in Procs, RoomIntr(p), IntrLooks(p)
    PROVE  Inv'
<1> DEFINE q == proc[p].req.q
           s == proc[p].seq
           k == msgque[q]
           same == Valid(q, s)
           ww == k.wwait /\ ~same
           n == Flags(k, k.rwait, ww, k.qbytes)
           P == IF same THEN Wakeup(proc, "room", {q}) ELSE proc
<1>1. p \notin Holding /\ Typed(proc) /\ ProcOK(proc[p]) /\ proc[p].pc = "intr"
  BY InvQueues DEF RoomIntr, Holding, Typed
<1>2. q \in Queues /\ q \notin msglock
  <2>1. proc[p].req \in Requests
    BY <1>1, ProcFacts
  <2>2. QED
    BY <2>1, RequestFacts DEF IntrLooks
<1>3. QueueOK(k) /\ k.wwait \in BOOLEAN /\ k.rwait \in BOOLEAN /\ k.qbytes \in Nat
  BY <1>2, InvQueues, QueueFacts
<1>4. /\ msgque' = [msgque EXCEPT ![q].wwait = @ /\ ~same] /\ proc' = [P EXCEPT ![p] = Idle]
      /\ UNCHANGED <<msglock, msgfp, msgmap>>
  BY DEF RoomIntr, IntrLooks
<1>5. same \in BOOLEAN
  BY DEF Valid
<1> HIDE DEF same
<1>6. ww \in BOOLEAN
  OBVIOUS
<1>7. msgque' = [msgque EXCEPT ![q] = n]
  <2>1. n = [k EXCEPT !.wwait = ww]
    BY <1>3 DEF QueueOK, Flags
  <2> HIDE DEF n, q
  <2>2. QED
    BY <1>4, <2>1
<1>8. Flagged(k, n, k.rwait, ww, k.qbytes)
  <2>1. n = Flags(k, k.rwait, ww, k.qbytes)
    OBVIOUS
  <2> HIDE DEF k, n, ww
  <2>2. QED
    BY <1>3, <1>6, <2>1, FlagsChange
<1>9. /\ QueueOK(n) /\ CopiesKept(k, n) /\ ReadersKept(k, n) /\ n.msgs = k.msgs
      /\ (k.wwait => ww) => RoomKept(k, n)
  <2> HIDE DEF k, n, ww
  <2>1. QED
    BY <1>8 DEF Flagged
<1>10. Typed(P) /\ Roused(proc, P) /\ (same => Quiet(P, "room", {q}))
  BY <1>1, WakeupFacts, RousedSelf, RousedTyped
<1> HIDE DEF n, P, k
<1>11. Others({p}) /\ proc'[p] = Idle /\ \A on, S : Quiet(P, on, S) => \A c \in S : Calm({p}, on, c)
  BY <1>4, <1>10, ThenChange
<1>12. Calm({p}, "room", q) \/ RoomKept(k, n)
  <2>1. CASE same
    BY <1>10, <1>11, <2>1
  <2>2. CASE ~same
    BY <1>9, <2>2
  <2>3. QED
    BY <2>1, <2>2
<1>13. ProcOK(proc'[p]) /\ ReasonOK(p)' /\ p \notin Holding'
  BY <1>11, IdleIn
<1>14. Locks' /\ Uses' = Uses
  BY <1>1, <1>4, <1>11, <1>13, InvQueues, StayOutside
<1>15. PoolOf(msgmap', msgfp', [Lists EXCEPT ![q] = n.msgs], Uses')
  BY <1>2, <1>4, <1>9, <1>14, InvQueues, SameLists DEF k
<1>16. SpaceKept(msgmap, msgmap') /\ msgfp' = msgfp
  BY <1>4, SpaceSelf
<1> HIDE DEF q
<1>17. QED
  BY <1>2, <1>7, <1>9, <1>11, <1>12, <1>13, <1>14, <1>15, <1>16, QueueStep DEF k

LEMMA RoomIntrInv ==
    ASSUME Inv, NEW p \in Procs, RoomIntr(p)
    PROVE  Inv'
<1>1. CASE IntrLocked(p)
  <2>1. p \notin Holding /\ ProcOK(Idle) /\ ~Idle.asleep /\ Idle.pc \notin {"copyin", "copyout"}
    BY IdleFacts DEF RoomIntr, Holding
  <2>2. proc' = [proc EXCEPT ![p] = Idle] /\ UNCHANGED <<msgque, msglock, msgfp, msgmap>>
    BY <1>1 DEF RoomIntr, IntrLocked
  <2>3. QED
    BY <2>1, <2>2, StopsInv
<1>2. CASE IntrLooks(p)
  BY <1>2, IntrLooksInv
<1>3. QED
  BY <1>1, <1>2 DEF RoomIntr

LEMMA SetInv ==
    ASSUME Inv, NEW q \in Queues, Set(q)
    PROVE  Inv'
<1> DEFINE k == msgque[q]
<1>1. PICK b \in Limits[q] : msgque' = [msgque EXCEPT ![q].qbytes = b]
  BY DEF Set
<1>2. b \in Nat
  BY MessagesAssumption
<1>3. QueueOK(k) /\ k.wwait \in BOOLEAN /\ k.rwait \in BOOLEAN
  BY InvQueues, QueueFacts
<1> DEFINE n == Flags(k, k.rwait, k.wwait, b)
<1>4. msgque' = [msgque EXCEPT ![q] = n]
  <2>1. n = [k EXCEPT !.qbytes = b]
    BY <1>2, <1>3 DEF QueueOK, Flags
  <2> HIDE DEF n
  <2>2. QED
    BY <1>1, <2>1
<1>5. Flagged(k, n, k.rwait, k.wwait, b)
  <2>1. n = Flags(k, k.rwait, k.wwait, b)
    OBVIOUS
  <2> HIDE DEF k, n
  <2>2. QED
    BY <1>2, <1>3, <2>1, FlagsChange
<1>6. QueueOK(n) /\ RoomKept(k, n) /\ ReadersKept(k, n) /\ n.msgs = k.msgs
  <2> HIDE DEF k, n
  <2>1. QED
    BY <1>5 DEF Flagged
<1> HIDE DEF n
<1>7. UNCHANGED <<msglock, msgfp, msgmap, proc>> /\ q \notin msglock
  BY DEF Set
<1>8. Others({})
  BY <1>7, InvQueues, RousedSelf, NoChange
<1>9. Locks' /\ Uses' = Uses
  BY <1>7, <1>8, InvQueues, StayOutside
<1>10. \A o \in Holding : proc[o].req.q # q
  BY <1>7, HeldQueue
<1>11. PoolOf(msgmap', msgfp', [Lists EXCEPT ![q] = n.msgs], Uses')
  BY <1>6, <1>7, <1>9, InvQueues, SameLists
<1>12. SpaceKept(msgmap, msgmap') /\ msgfp' = msgfp
  BY <1>7, SpaceSelf
<1>13. QED
  BY <1>4, <1>6, <1>8, <1>9, <1>10, <1>11, <1>12, QueueStep

LEMMA MsggetInv ==
    ASSUME Inv, NEW q \in Queues, Msgget(q)
    PROVE  Inv'
<1> DEFINE k == msgque[q]
           n == [k EXCEPT !.alloc = TRUE, !.msgs = << >>, !.qbytes = MSGMNB]
<1>1. QueueOK(k) /\ ~k.alloc /\ k.msgs = << >> /\ k.cbytes = Promise!Bytes(Sent(k.msgs))
  BY InvQueues, QueueFacts DEF Msgget
<1>2. msgque' = [msgque EXCEPT ![q] = n]
  <2>1. k \in [alloc : BOOLEAN, seq : 0..MaxSeq, msgs : Seq(Message), cbytes : Nat,
               qbytes : Nat, rwait : BOOLEAN, wwait : BOOLEAN]
    BY <1>1 DEF QueueOK
  <2>2. msgque = [c \in Queues |-> msgque[c]]
    BY InvQueues
  <2>3. QED
    BY <2>1, <2>2 DEF Msgget
<1>3. QueueOK(n) /\ n.msgs = k.msgs
  <2>1. MSGMNB \in Nat
    BY MessagesAssumption
  <2>2. /\ n \in [alloc : BOOLEAN, seq : 0..MaxSeq, msgs : Seq(Message), cbytes : Nat,
                  qbytes : Nat, rwait : BOOLEAN, wwait : BOOLEAN]
        /\ n.alloc = TRUE /\ n.msgs = << >> /\ n.cbytes = k.cbytes
    BY <1>1, <2>1 DEF QueueOK
  <2> HIDE DEF n, k
  <2>3. QED
    BY <1>1, <2>2 DEF QueueOK
<1> HIDE DEF n
<1>4. UNCHANGED <<msglock, msgfp, msgmap, proc>>
  BY DEF Msgget
<1>5. Others({}) /\ Typed(proc)
  BY <1>4, InvQueues, RousedSelf, NoChange
<1>6. Locks' /\ Uses' = Uses
  BY <1>4, <1>5, InvQueues, StayOutside
<1>7. \A o \in Holding : proc[o].req.q # q
  <2>1. ASSUME NEW o \in Holding PROVE msgque[proc[o].req.q].alloc
    <3>1. CopyFor(proc[o], msgque[proc[o].req.q])
      BY DEF Inv, CopyOK
    <3>2. QED
      BY <3>1 DEF CopyFor
  <2>2. QED
    BY <1>1, <2>1
<1>8. Calm({}, "room", q) /\ Calm({}, "reader", q)
  <2>1. ASSUME NEW o \in Procs, proc[o].asleep, proc[o].req.q = q
        PROVE  proc[o].pc # "room" /\ proc[o].pc # "reader"
    <3>1. ReasonFor(proc[o], k, msgfp, msgmap)
      BY <2>1 DEF Inv, ReasonOK
    <3> HIDE DEF k
    <3>2. QED
      BY <1>1, <2>1, <3>1 DEF ReasonFor
  <2>2. QED
    BY <1>4, <2>1 DEF Calm
<1>9. PoolOf(msgmap', msgfp', [Lists EXCEPT ![q] = n.msgs], Uses')
  BY <1>3, <1>4, <1>6, InvQueues, SameLists
<1>10. SpaceKept(msgmap, msgmap') /\ msgfp' = msgfp
  BY <1>4, SpaceSelf
<1>11. QED
  BY <1>2, <1>3, <1>5, <1>6, <1>7, <1>8, <1>9, <1>10, QueueStep

LEMMA RmidInv ==
    ASSUME Inv, NEW q \in Queues, Rmid(q)
    PROVE  Inv'
<1> DEFINE k == msgque[q]
           n == [k EXCEPT !.alloc = FALSE, !.seq = @ + 1, !.msgs = << >>, !.cbytes = 0,
                          !.rwait = FALSE, !.wwait = FALSE]
           R == IF k.wwait THEN Wakeup(proc, "room", {q}) ELSE proc
           Q == MapWakes(R, msgmap')
           P == IF k.msgs # << >> THEN HeaderBack(Q, msgfp) ELSE Q
           N == Len(k.msgs)
<1>1. QueueOK(k) /\ k.msgs \in Seq(Message) /\ k.seq \in 0..MaxSeq /\ Typed(proc) /\ N \in Nat
  BY InvQueues, QueueFacts
<1>2. q \notin msglock /\ k.alloc /\ k.seq < MaxSeq
  BY DEF Rmid
<1>3. /\ msgmap' = TextsBack(msgmap, k.msgs) /\ msgfp' = msgfp + N
      /\ msgque' = [msgque EXCEPT ![q] = n] /\ msglock' = msglock
      /\ proc' = IF k.rwait THEN Wakeup(P, "reader", {q}) ELSE P
  BY DEF Rmid
<1>4. QueueOK(n) /\ n.msgs = << >>
  <2>1. k.seq + 1 \in 0..MaxSeq
    BY <1>1, <1>2, MessagesAssumption
  <2>2. << >> \in Seq(Message) /\ Sent(<< >>) = << >>
    <3>1. << >> \in Seq(Message) /\ Len(<< >>) = 0
      OBVIOUS
    <3>2. Sent(<< >>) \in Seq(Sizes) /\ Len(Sent(<< >>)) = 0
      BY <3>1, SentFacts
    <3>3. QED
      BY <3>1, <3>2
  <2>3. /\ n \in [alloc : BOOLEAN, seq : 0..MaxSeq, msgs : Seq(Message), cbytes : Nat,
                  qbytes : Nat, rwait : BOOLEAN, wwait : BOOLEAN]
        /\ n.alloc = FALSE /\ n.msgs = << >> /\ n.cbytes = 0
    BY <1>1, <2>1, <2>2 DEF QueueOK
  <2> HIDE DEF n
  <2>4. QED
    BY <2>2, <2>3, BytesNone DEF QueueOK
<1> HIDE DEF n
<1>5. PoolOf(msgmap, msgfp, Lists, Uses) /\ ListsOK(Lists) /\ Lists[q] = k.msgs
  BY InvQueues
<1>6. /\ GoodMap(msgmap) /\ msgfp \in Nat
      /\ \A i \in DOMAIN k.msgs :
            Text(k.msgs[i]) \subseteq 1..MSGSEG /\ Text(k.msgs[i]) \cap UnitsOf(msgmap.free) = {}
      /\ \A i, j \in DOMAIN k.msgs : i # j => Text(k.msgs[i]) \cap Text(k.msgs[j]) = {}
  <2> HIDE DEF k
  <2>1. GoodMap(msgmap) /\ msgfp \in Nat
    BY <1>5, PoolText
  <2>2. \A i \in DOMAIN Lists[q] :
            Text(Lists[q][i]) \subseteq 1..MSGSEG /\ Text(Lists[q][i]) \cap UnitsOf(msgmap.free) = {}
    BY <1>5, PoolText
  <2>3. \A i, j \in DOMAIN Lists[q] : i # j => Text(Lists[q][i]) \cap Text(Lists[q][j]) = {}
    BY <1>5, PoolText
  <2>4. QED
    BY <1>5, <2>1, <2>2, <2>3
<1> HIDE DEF k
<1>7. Back(msgmap, msgmap', TextsOf(k.msgs, N))
  <2>c. PICK C : /\ EnoughSlots => Pieces(C, UnitsOf(msgmap.free))
                 /\ \A c \in Queues : \A j \in DOMAIN Lists[c] : Continued(C, Text(Lists[c][j]))
    BY InvPieces
  <2>d. \A j \in DOMAIN k.msgs : Continued(C, Text(k.msgs[j]))
    BY <1>5, <2>c
  <2>1. Back(msgmap, TextsBack(msgmap, k.msgs), TextsOf(k.msgs, Len(k.msgs)))
    BY <1>1, <1>6, <2>c, <2>d, TextsBackFacts
  <2>2. QED
    BY <1>3, <2>1
<1>8. /\ Typed(proc') /\ Roused(proc, proc')
      /\ k.wwait => Quiet(proc', "room", {q})
      /\ msgmap.want /\ ~msgmap'.want => Quiet(proc', "space", Queues)
      /\ msgfp = 0 /\ k.msgs # << >> => Quiet(proc', "header", Queues)
      /\ k.rwait => Quiet(proc', "reader", {q})
  <2> DEFINE m2 == msgmap'
             P2 == proc'
  <2>1. Q = MapWakes(R, m2) /\ R = IF msgque[q].wwait THEN Wakeup(proc, "room", {q}) ELSE proc
    BY DEF k
  <2>2. P2 = IF k.rwait THEN Wakeup(P, "reader", {q}) ELSE P
    BY <1>3
  <2> HIDE DEF R, Q, P, m2, P2
  <2>3. Roused(Q, Q)
    <3>1. R = [o \in Procs |-> R[o]]
      <4>1. Typed(proc)
        BY <1>1
      <4>2. CASE msgque[q].wwait
        BY <2>1, <4>2 DEF Wakeup
      <4>3. CASE ~msgque[q].wwait
        BY ONLY <2>1, <4>1, <4>3 DEF Typed
      <4>4. QED
        BY <4>2, <4>3
    <3>2. Q = [o \in Procs |-> Q[o]]
      BY <2>1, <3>1 DEF MapWakes, Wakeup
    <3>3. QED
      BY <3>2 DEF Roused, Woke
  <2>4. Typed(Q)
    BY <2>1, <2>3, MsgfreeWakes
  <2>5. Roused(Q, P) /\ (msgfp = 0 /\ k.msgs # << >> => Quiet(P, "header", Queues))
    BY <2>4, HeaderBackFacts, RousedSelf DEF P
  <2>6. Typed(P)
    BY <2>4, <2>5, RousedTyped
  <2>7. Roused(P, P2) /\ (k.rwait => Quiet(P2, "reader", {q}))
    BY <2>2, <2>6, WakeupFacts, RousedSelf
  <2>8. Roused(Q, P2)
    BY <2>4, <2>5, <2>7, RousedTwice
  <2>9. Typed(P2)
    BY <2>6, <2>7, RousedTyped
  <2>10. Roused(proc, P2)
    BY <2>1, <2>8, MsgfreeWakes
  <2>11. msgque[q].wwait => Quiet(P2, "room", {q})
    BY <2>1, <2>8, MsgfreeWakes
  <2>12. msgmap.want /\ ~m2.want => Quiet(P2, "space", Queues)
    BY <2>1, <2>8, MsgfreeWakes
  <2>13. msgfp = 0 /\ k.msgs # << >> => Quiet(P2, "header", Queues)
    BY <2>5, <2>6, <2>7, QuietStays
  <2>14. QED
    BY <2>7, <2>9, <2>10, <2>11, <2>12, <2>13 DEF k, m2, P2
<1> HIDE DEF R, Q, P
<1>9. Others({}) /\ \A on, S : Quiet(proc', on, S) => \A c \in S : Calm({}, on, c)
  BY <1>1, <1>8, NoChange
<1>10. Locks' /\ Uses' = Uses
  BY <1>3, <1>9, InvQueues, StayOutside
<1>11. \A o \in Holding : proc[o].req.q # q
  BY <1>2, HeldQueue
<1>12. Calm({}, "room", q)
  <2>1. CASE k.wwait
    BY <1>8, <1>9, <2>1
  <2>2. CASE ~k.wwait
    BY <1>9, <2>2, Awake DEF k
  <2>3. QED
    BY <2>1, <2>2
<1>13. Calm({}, "reader", q)
  <2>1. CASE k.rwait
    BY <1>8, <1>9, <2>1
  <2>2. CASE ~k.rwait
    BY <1>9, <2>2, Awake DEF k
  <2>3. QED
    BY <2>1, <2>2
<1>14. (\A c \in Queues : Calm({}, "header", c)) \/ (msgfp = 0 => msgfp' = 0)
  <2>1. CASE k.msgs # << >>
    BY <1>8, <1>9, <2>1
  <2>2. CASE k.msgs = << >>
    BY <1>3, <2>2
  <2>3. QED
    BY <2>1, <2>2
<1>15. (\A c \in Queues : Calm({}, "space", c)) \/ SpaceKept(msgmap, msgmap')
  <2>1. CASE ~msgmap.want
    BY <1>9, <2>1, Awake
  <2>2. CASE msgmap.want /\ ~msgmap'.want
    BY <1>8, <1>9, <2>2
  <2>3. CASE msgmap'.want
    BY <1>7, <2>3, SpaceSelf DEF Back
  <2>4. QED
    BY <2>1, <2>2, <2>3
<1>16. PoolOf(msgmap', msgfp', [Lists EXCEPT ![q] = n.msgs], Uses')
  <2> DEFINE m2 == msgmap'
  <2>1. Back(msgmap, m2, TextsOf(Lists[q], Len(Lists[q]))) /\ N = Len(Lists[q])
    BY <1>5, <1>7
  <2> HIDE DEF m2, N
  <2>2. PoolOf(m2, msgfp + Len(Lists[q]), [Lists EXCEPT ![q] = << >>], Uses)
    BY ONLY <1>5, <2>1, q \in Queues, PoolRmid
  <2>3. QED
    BY <1>3, <1>4, <1>10, <2>1, <2>2 DEF m2
<1>17. QED
  BY <1>3, <1>4, <1>9, <1>10, <1>11, <1>12, <1>13, <1>14, <1>15, <1>16, QueueStep DEF k

-----------------------------------------------------------------------------
LEMMA GetresInv ==
    ASSUME Inv, NEW p, NEW r, NEW s, Ready(p, r, s), r.op = "snd", Getres(p, r, s)
    PROVE  Inv'
BY RefusesInv, WaitsInv, LinksEmptyInv, CopyinInv DEF Getres

LEMMA FindmsgInv ==
    ASSUME Inv, NEW p, NEW r, NEW s, Ready(p, r, s), Findmsg(p, r, s)
    PROVE  Inv'
BY CopyoutInv, AwaitsInv, Finds0Inv DEF Findmsg

(* A call has a request and a queue that is still the same. *)
LEMMA CallsReady ==
    ASSUME Inv, NEW p \in Procs, Calls(p)
    PROVE  \E r \in Requests : LET s == msgque[r.q].seq IN
              /\ Ready(p, r, s)
              /\ (r.op = "snd" /\ Getres(p, r, s)) \/ (r.op = "rcv" /\ Findmsg(p, r, s))
<1>1. PICK r \in Requests :
        /\ r.q \notin msglock /\ msgque[r.q].alloc
        /\ \/ r.op = "snd" /\ Getres(p, r, msgque[r.q].seq)
           \/ r.op = "rcv" /\ Findmsg(p, r, msgque[r.q].seq)
  BY DEF Calls
<1>2. p \notin Holding
  BY DEF Calls, Holding
<1>3. msgque[r.q].seq \in Nat
  <2>1. r.q \in Queues
    BY RequestFacts
  <2>2. msgque[r.q].seq \in 0..MaxSeq
    BY <2>1, InvQueues, QueueFacts
  <2>3. QED
    BY <2>2
<1>4. Ready(p, r, msgque[r.q].seq)
  BY <1>1, <1>2, <1>3 DEF Ready, Valid
<1>5. QED
  BY <1>1, <1>4

LEMMA AgainReady ==
    ASSUME Inv, NEW p \in Procs, Again(p), Valid(proc[p].req.q, proc[p].seq)
    PROVE  LET r == proc[p].req  s == proc[p].seq IN
              /\ Ready(p, r, s)
              /\ (r.op = "snd" /\ Getres(p, r, s)) \/ (r.op = "rcv" /\ Findmsg(p, r, s))
<1>1. ProcOK(proc[p]) /\ proc[p].pc \in Sleeps
  BY InvQueues DEF Again, Typed
<1>2. p \notin Holding /\ proc[p].pc # "user"
  BY <1>1 DEF Holding, Sleeps
<1>3. proc[p].req \in Requests /\ proc[p].seq \in Nat
  BY <1>1, <1>2, ProcFacts
<1>4. Ready(p, proc[p].req, proc[p].seq)
  BY <1>2, <1>3 DEF Ready, Again
<1>5. QED
  BY <1>4 DEF Again

LEMMA AgainInvalid ==
    ASSUME Inv, NEW p \in Procs, Again(p), ~Valid(proc[p].req.q, proc[p].seq)
    PROVE  /\ p \notin Holding /\ proc' = [proc EXCEPT ![p] = Idle]
           /\ UNCHANGED <<msgque, msglock, msgfp, msgmap>>
<1>1. proc[p].pc \in Sleeps
  BY DEF Again
<1>2. QED
  BY <1>1 DEF Again, Holding, Sleeps

LEMMA StutterInv ==
    ASSUME Inv, UNCHANGED vars
    PROVE  Inv'
<1>1. UNCHANGED <<msgque, msglock, msgfp, msgmap, proc>>
  BY DEF vars
<1>2. Others({})
  BY <1>1, InvQueues, RousedSelf, NoChange
<1>3. Locks' /\ Uses' = Uses
  BY <1>1, <1>2, InvQueues, StayOutside
<1>4. QED
  BY <1>1, <1>2, <1>3, QuietStep

LEMMA NextInv ==
    ASSUME Inv, [Next]_vars
    PROVE  Inv'
<1>1. ASSUME NEW p \in Procs, Calls(p) PROVE Inv'
  <2>1. PICK r \in Requests : LET s == msgque[r.q].seq IN
              /\ Ready(p, r, s)
              /\ (r.op = "snd" /\ Getres(p, r, s)) \/ (r.op = "rcv" /\ Findmsg(p, r, s))
    BY <1>1, CallsReady
  <2>2. QED
    BY <2>1, GetresInv, FindmsgInv
<1>2. ASSUME NEW p \in Procs, Again(p) PROVE Inv'
  <2>1. CASE Valid(proc[p].req.q, proc[p].seq)
    BY <1>2, <2>1, AgainReady, GetresInv, FindmsgInv
  <2>2. CASE ~Valid(proc[p].req.q, proc[p].seq)
    <3>1. /\ p \notin Holding /\ proc' = [proc EXCEPT ![p] = Idle]
          /\ UNCHANGED <<msgque, msglock, msgfp, msgmap>>
      BY <1>2, <2>2, AgainInvalid
    <3>2. QED
      BY <3>1, IdleFacts, StopsInv
  <2>3. QED
    BY <2>1, <2>2
<1>3. QED
  BY <1>1, <1>2, CopiedInInv, CopyinFailsInv, CopiedOutInv, CopyoutFailsInv, InterruptInv, RoomIntrInv,
     MsggetInv, RmidInv, SetInv, StutterInv DEF Next

LEMMA FreshMap ==
    /\ Map(Mfree(<< >>, MSGSEG, 1))
    /\ UnitsOf(Mfree(<< >>, MSGSEG, 1)) = 1..MSGSEG
<1> DEFINE m == << >>
<1>1. Len(m) = 0 /\ DOMAIN m = {} /\ m \in Seq(Span)
  OBVIOUS
<1>2. UnitsOf(m) = {} /\ Map(m)
  BY <1>1 DEF UnitsOf, Map, InOrder
<1>3. ~Overflows(m, MSGSEG, 1)
  BY <1>1, SlotsAssumption DEF Overflows
<1>4. MSGSEG \in Int /\ MSGSEG > 0 /\ 1 \in Int /\ 1 > 0
  BY MessagesAssumption
<1>5. Units(1, MSGSEG) = 1..MSGSEG
  BY <1>4 DEF Units
<1> HIDE DEF m
<1>6. Units(1, MSGSEG) \cap UnitsOf(m) = {}
  BY <1>2
<1>7. Adds(m, Mfree(m, MSGSEG, 1), MSGSEG, 1)
  BY <1>2, <1>3, <1>4, <1>6, MfreeFacts
<1>8. QED
  BY <1>2, <1>5, <1>7 DEF Adds, m

LEMMA InitInv == Init => Inv
<1> SUFFICES ASSUME Init PROVE Inv
  OBVIOUS
<1>1. Typed(proc) /\ Holding = {} /\ Copying = {} /\ \A p \in Procs : ReasonOK(p)
  <2>1. \A p \in Procs : proc[p] = Idle
    BY DEF Init
  <2>2. Typed(proc)
    BY <2>1, IdleFacts DEF Typed, Init
  <2>3. QED
    BY <2>1, <2>2, IdleFacts DEF Holding, Copying, ReasonOK, ReasonFor
<1>2. Locks
  BY <1>1 DEF Init, Locks
<1>3. ASSUME NEW q \in Queues PROVE QueueOK(msgque[q]) /\ msgque[q].msgs = << >>
  <2> DEFINE k == [alloc |-> FALSE, seq |-> 0, msgs |-> << >>,
                    cbytes |-> 0, qbytes |-> 0, rwait |-> FALSE, wwait |-> FALSE]
  <2>1. msgque[q] = k
    BY DEF Init
  <2>2. Sent(<< >>) = << >>
    <3>1. << >> \in Seq(Message) /\ Len(<< >>) = 0
      OBVIOUS
    <3>2. Sent(<< >>) \in Seq(Sizes) /\ Len(Sent(<< >>)) = 0
      BY <3>1, SentFacts
    <3>3. QED
      BY <3>1, <3>2
  <2>3. QueueOK(k)
    BY <2>2, BytesNone, MessagesAssumption DEF QueueOK
  <2>4. QED
    BY <2>1, <2>3
<1>4. msgque = [q \in Queues |-> msgque[q]]
  BY DEF Init
<1>5. PoolOf(msgmap, msgfp, Lists, Uses)
  <2> DEFINE H == Holders(Lists, Uses)
             T == [h \in H |-> Holds(Lists, Uses, h)]
             f == Mfree(<< >>, MSGSEG, 1)
  <2>1. H = {}
    <3>1. \A q \in Queues : DOMAIN Lists[q] = {}
      BY <1>3 DEF Lists
    <3>2. DOMAIN Uses = {}
      BY <1>1 DEF Uses
    <3>3. QED
      BY <3>1, <3>2, HoldersAre
  <2>2. Map(f) /\ UnitsOf(f) = 1..MSGSEG
    BY FreshMap
  <2> HIDE DEF f, H, T
  <2>3. f \in Seq(Span) /\ msgmap = [free |-> f, want |-> FALSE]
    BY <2>2 DEF Map, Init, f
  <2>4. GoodMap(msgmap) /\ UnitsOf(msgmap.free) = 1..MSGSEG
    BY <2>2, <2>3 DEF GoodMap, Maps
  <2>5. msgfp \in Nat /\ msgfp + 0 = MSGTQL
    BY MessagesAssumption DEF Init
  <2>6. IsFiniteSet(H) /\ Cardinality(H) = 0
    BY <2>1, FS_EmptySet
  <2>7. PoolFor(msgmap, msgfp, H, T)
    BY <2>1, <2>4, <2>5, <2>6 DEF PoolFor
  <2>8. QED
    BY <2>7 DEF PoolOf, H, T
<1>6. QED
  BY <1>1, <1>2, <1>3, <1>4, <1>5 DEF Inv

(* Inv holds in every state: processes, queues, locks and the pool of      *)
(* headers and segments stay as the parts of Inv say.                      *)
THEOREM Invariance == Spec => []Inv
<1>1. Inv /\ [Next]_vars => Inv'
  BY NextInv
<1>2. QED
  BY <1>1, InitInv, PTL DEF Spec

-----------------------------------------------------------------------------
(* What the runs check of every state. *)
LEMMA InvTypeOK == Inv => TypeOK
<1> SUFFICES ASSUME Inv PROVE TypeOK
  OBVIOUS
<1>1. msgfp \in Nat /\ InOrder(msgmap.free) /\ msgmap.want \in BOOLEAN
  BY DEF Inv, PoolOf, PoolFor, GoodMap, Maps, Map
<1>2. msgfp <= MSGTQL
  <2> DEFINE H == Holders(Lists, Uses)
  <2>1. IsFiniteSet(H) /\ msgfp + Cardinality(H) = MSGTQL
    BY DEF Inv, PoolOf, PoolFor
  <2>2. Cardinality(H) \in Nat
    BY <2>1, FS_CardinalityType
  <2> HIDE DEF H
  <2>3. QED
    BY <1>1, <2>1, <2>2
<1>3. msglock = {proc[p].req.q : p \in {x \in Procs : proc[x].pc \in {"copyin", "copyout"}}}
  BY DEF Inv, Locks, Holding
<1>4. \A q \in Queues : msgque[q].seq \in 0..MaxSeq /\ msgque[q].cbytes \in Nat
  BY InvQueues, QueueFacts
<1>5. ASSUME NEW p \in Procs
      PROVE  /\ proc[p].pc \in Sleeps \union {"user", "copyin", "copyout", "intr"}
             /\ proc[p].asleep => proc[p].pc \in Sleeps
  <2>1. ProcOK(proc[p])
    BY DEF Inv, Typed
  <2>2. QED
    BY <2>1 DEF ProcOK, Idle, Calling
<1>6. msgfp \in 0..MSGTQL
  BY <1>1, <1>2, MessagesAssumption
<1>7. QED
  BY <1>1, <1>3, <1>4, <1>5, <1>6 DEF TypeOK

(* Headers, marks and states stay in their ranges, a queue is locked       *)
(* exactly while a process copies from or to it, and the map is in order.  *)
THEOREM TypeCorrect == Spec => []TypeOK
BY Invariance, InvTypeOK, PTL

LEMMA InvSleepersBlocked == Inv => SleepersBlocked
<1> SUFFICES ASSUME Inv, NEW p \in Procs, proc[p].asleep
             PROVE  LET r == proc[p].req
                        k == msgque[r.q]
                    IN  CASE proc[p].pc = "room" ->
                                /\ Valid(r.q, proc[p].seq) /\ k.wwait
                                /\ r.cnt + k.cbytes > proc[p].at
                          [] proc[p].pc = "header" -> msgfp = 0
                          [] proc[p].pc = "space" ->
                                msgmap.want /\ Fits(msgmap.free, Btoq(r.cnt)) = {}
                          [] proc[p].pc = "reader" ->
                                /\ Valid(r.q, proc[p].seq) /\ k.rwait
                                /\ Wanted(k.msgs, r.typ) = {}
  BY DEF SleepersBlocked
<1> DEFINE r == proc[p].req
           k == msgque[r.q]
           c == proc[p].pc
<1>1. /\ c = "room" => k.alloc /\ k.seq = proc[p].seq /\ k.wwait /\ r.cnt + k.cbytes > proc[p].at
      /\ c = "header" => msgfp = 0
      /\ c = "space" => msgmap.want /\ Fits(msgmap.free, Btoq(r.cnt)) = {}
      /\ c = "reader" => k.alloc /\ k.seq = proc[p].seq /\ k.rwait /\ Wanted(k.msgs, r.typ) = {}
  BY DEF Inv, ReasonOK, ReasonFor
<1>2. c \in {"room", "header", "space", "reader"}
  BY DEF Inv, Typed, ProcOK, Sleeps
<1>3. Valid(r.q, proc[p].seq) <=> k.alloc /\ k.seq = proc[p].seq
  BY DEF Valid
<1> HIDE DEF k, r, c
<1>4. CASE c = "room"
  BY <1>1, <1>3, <1>4 DEF k, r, c
<1>5. CASE c = "header"
  BY <1>1, <1>3, <1>5 DEF k, r, c
<1>6. CASE c = "space"
  BY <1>1, <1>3, <1>6 DEF k, r, c
<1>7. CASE c = "reader"
  BY <1>1, <1>3, <1>7 DEF k, r, c
<1>8. QED
  BY <1>2, <1>4, <1>5, <1>6, <1>7

(* No wakeup is lost: whoever sleeps for room, a header, segments or a     *)
(* message lacks it, and the flag or the empty list that will wake him is  *)
(* set.                                                                    *)
THEOREM NoWakeupLost == Spec => []SleepersBlocked
BY Invariance, InvSleepersBlocked, PTL

-----------------------------------------------------------------------------
(* The places of messages in the queues. *)
Queued == UNION {{q} \X DOMAIN msgque[q].msgs : q \in Queues}
Segments(x) == Texts(x[1])[x[2]]
Copied(p) == Units(proc[p].at, Btoq(proc[p].req.cnt))

LEMMA QueuedAre ==
    ASSUME NEW x
    PROVE  x \in Queued <=> \E q \in Queues : \E i \in DOMAIN msgque[q].msgs : x = <<q, i>>
BY DEF Queued

LEMMA QueuedHolders ==
    ASSUME Inv
    PROVE  /\ \A x \in Queued : /\ <<"q", x[1], x[2]>> \in Holders(Lists, Uses)
                                /\ Holds(Lists, Uses, <<"q", x[1], x[2]>>) = Segments(x)
                                /\ x = <<x[1], x[2]>>
           /\ \A p \in Copying : /\ <<"p", p, 0>> \in Holders(Lists, Uses)
                                 /\ Holds(Lists, Uses, <<"p", p, 0>>) = Copied(p)
           /\ \A h \in Holders(Lists, Uses) :
                \/ \E x \in Queued : h = <<"q", x[1], x[2]>>
                \/ \E p \in Copying : h = <<"p", p, 0>>
<1>1. ASSUME NEW x \in Queued
      PROVE  /\ <<"q", x[1], x[2]>> \in Holders(Lists, Uses)
             /\ Holds(Lists, Uses, <<"q", x[1], x[2]>>) = Segments(x) /\ x = <<x[1], x[2]>>
  <2>0. PICK q \in Queues : \E i \in DOMAIN msgque[q].msgs : x = <<q, i>>
    BY QueuedAre
  <2>1. PICK i \in DOMAIN msgque[q].msgs : x = <<q, i>>
    BY <2>0
  <2>2. Lists[q] = msgque[q].msgs /\ x[1] = q /\ x[2] = i
    BY <2>1 DEF Lists
  <2>3. <<"q", q, i>> \in Holders(Lists, Uses) /\ Holds(Lists, Uses, <<"q", q, i>>) = Text(Lists[q][i])
    BY <2>2, QueueHolder
  <2>4. Segments(x) = Text(msgque[q].msgs[i])
    BY <2>2 DEF Segments, Texts, Text
  <2>5. QED
    BY <2>1, <2>2, <2>3, <2>4
<1>2. ASSUME NEW p \in Copying
      PROVE  /\ <<"p", p, 0>> \in Holders(Lists, Uses)
             /\ Holds(Lists, Uses, <<"p", p, 0>>) = Copied(p)
  <2>1. p \in DOMAIN Uses /\ Uses[p] = Copied(p)
    BY DEF Uses, Copied
  <2>2. QED
    BY <2>1, ProcHolder
<1>3. ASSUME NEW h \in Holders(Lists, Uses)
      PROVE  \/ \E x \in Queued : h = <<"q", x[1], x[2]>>
             \/ \E p \in Copying : h = <<"p", p, 0>>
  <2>1. CASE \E q \in Queues : \E i \in DOMAIN Lists[q] : h = <<"q", q, i>>
    <3>0. PICK q \in Queues : \E i \in DOMAIN Lists[q] : h = <<"q", q, i>>
      BY <2>1
    <3>1. PICK i \in DOMAIN Lists[q] : h = <<"q", q, i>>
      BY <3>0
    <3>2. <<q, i>> \in Queued
      BY QueuedAre DEF Lists
    <3>3. h = <<"q", <<q, i>>[1], <<q, i>>[2]>>
      BY <3>1
    <3>4. QED
      BY <3>2, <3>3
  <2>2. CASE \E p \in DOMAIN Uses : h = <<"p", p, 0>>
    BY <2>2 DEF Uses
  <2>3. QED
    BY <2>1, <2>2, HoldersAre
<1>4. QED
  BY <1>1, <1>2, <1>3

LEMMA HeadersCounted ==
    ASSUME Inv
    PROVE  msgfp + Cardinality(Queued) + Cardinality(Copying) = MSGTQL
<1> DEFINE H == Holders(Lists, Uses)
           A == {<<"q", x[1], x[2]>> : x \in Queued}
           B == {<<"p", p, 0>> : p \in Copying}
           f == [h \in A |-> <<h[2], h[3]>>]
           g == [h \in B |-> h[2]]
<1>1. H = A \cup B /\ A \cap B = {}
  <2>1. \A h \in A : h[1] = "q"
    OBVIOUS
  <2>2. \A h \in B : h[1] = "p"
    OBVIOUS
  <2>3. A \cap B = {}
    BY <2>1, <2>2
  <2>4. QED
    BY <2>3, QueuedHolders
<1>2. IsFiniteSet(H) /\ msgfp + Cardinality(H) = MSGTQL /\ msgfp \in Nat
  BY DEF Inv, PoolOf, PoolFor
<1>3. ExistsBijection(A, Queued)
  <2>1. \A x \in Queued : x = <<x[1], x[2]>>
    BY QueuedHolders
  <2>2. f \in [A -> Queued]
    BY <2>1
  <2>3. \A x \in Queued : <<"q", x[1], x[2]>> \in A /\ f[<<"q", x[1], x[2]>>] = x
    BY <2>1
  <2>4. \A h, d \in A : f[h] = f[d] => h = d
    <3>1. \A h \in A : h = <<"q", f[h][1], f[h][2]>>
      OBVIOUS
    <3> HIDE DEF A, f
    <3>2. QED
      BY <3>1
  <2> HIDE DEF A, f
  <2>5. f \in Bijection(A, Queued)
    BY <2>2, <2>3, <2>4 DEF Bijection, Injection, Surjection, IsInjective
  <2>6. QED
    BY <2>5 DEF ExistsBijection
<1>4. ExistsBijection(B, Copying)
  <2>1. g \in [B -> Copying]
    OBVIOUS
  <2>2. \A p \in Copying : <<"p", p, 0>> \in B /\ g[<<"p", p, 0>>] = p
    OBVIOUS
  <2>3. \A h, d \in B : g[h] = g[d] => h = d
    <3>1. \A h \in B : h = <<"p", g[h], 0>>
      OBVIOUS
    <3> HIDE DEF B, g
    <3>2. QED
      BY <3>1
  <2> HIDE DEF B, g
  <2>4. g \in Bijection(B, Copying)
    BY <2>1, <2>2, <2>3 DEF Bijection, Injection, Surjection, IsInjective
  <2>5. QED
    BY <2>4 DEF ExistsBijection
<1> HIDE DEF H, A, B, f, g
<1>5. IsFiniteSet(A) /\ IsFiniteSet(B)
  BY <1>1, <1>2, FS_Subset
<1>6. Cardinality(Queued) = Cardinality(A) /\ Cardinality(Copying) = Cardinality(B)
  BY <1>3, <1>4, <1>5, FS_Bijection
<1>7. Cardinality(H) = Cardinality(A) + Cardinality(B)
  <2>1. Cardinality(A \cap B) = 0
    BY <1>1, FS_EmptySet
  <2>2. Cardinality(A) \in Nat /\ Cardinality(B) \in Nat
    BY <1>5, FS_CardinalityType
  <2>3. Cardinality(A \cup B) = Cardinality(A) + Cardinality(B) - Cardinality(A \cap B)
    BY <1>5, FS_Union
  <2>4. QED
    BY <1>1, <2>1, <2>2, <2>3
<1>8. Cardinality(A) \in Nat /\ Cardinality(B) \in Nat /\ MSGTQL \in Nat
  BY <1>5, FS_CardinalityType, MessagesAssumption
<1>9. QED
  BY <1>2, <1>6, <1>7, <1>8

(* Headers counted; no segment free and in a text, or in two texts; the    *)
(* bytes of a queue are those of its messages.                             *)
NothingShared ==
    /\ msgfp + Cardinality(Queued) + Cardinality(Copying) = MSGTQL
    /\ UnitsOf(msgmap.free) \subseteq 1..MSGSEG
    /\ \A x \in Queued : Segments(x) \subseteq 1..MSGSEG \ UnitsOf(msgmap.free)
    /\ \A p \in Copying : Copied(p) \subseteq 1..MSGSEG \ UnitsOf(msgmap.free)
    /\ \A x, y \in Queued : x # y => Segments(x) \cap Segments(y) = {}
    /\ \A p \in Copying, x \in Queued : Copied(p) \cap Segments(x) = {}
    /\ \A p, o \in Copying : p # o => Copied(p) \cap Copied(o) = {}
    /\ \A q \in Queues : msgque[q].cbytes = Promise!Bytes(Sent(msgque[q].msgs))

LEMMA InvNothingShared == Inv => NothingShared
<1> SUFFICES ASSUME Inv PROVE NothingShared
  OBVIOUS
<1> DEFINE H == Holders(Lists, Uses)
           F == UnitsOf(msgmap.free)
           T == [h \in H |-> Holds(Lists, Uses, h)]
           q(x) == <<"q", x[1], x[2]>>
           c(p) == <<"p", p, 0>>
<1>1. /\ F \subseteq 1..MSGSEG
      /\ \A h \in H : T[h] \subseteq 1..MSGSEG /\ T[h] \cap F = {}
      /\ \A h, g \in H : h # g => T[h] \cap T[g] = {}
  BY DEF Inv, PoolOf, PoolFor, GoodMap
<1>2. /\ \A x \in Queued : q(x) \in H /\ T[q(x)] = Segments(x) /\ x = <<x[1], x[2]>>
      /\ \A p \in Copying : c(p) \in H /\ T[c(p)] = Copied(p)
  BY QueuedHolders
<1>3. \A x, y \in Queued : x # y => q(x) # q(y)
  <2>1. ASSUME NEW x \in Queued, NEW y \in Queued, q(x) = q(y) PROVE x = y
    <3>1. x[1] = y[1] /\ x[2] = y[2]
      BY <2>1
    <3>2. x = <<x[1], x[2]>> /\ y = <<y[1], y[2]>>
      BY <1>2
    <3>3. QED
      BY ONLY <3>1, <3>2
  <2>2. QED
    BY ONLY <2>1
<1>4. (\A p, o : p # o => c(p) # c(o)) /\ \A p, x : c(p) # q(x)
  OBVIOUS
<1> HIDE DEF H, T, F, q, c
<1>5. /\ \A x \in Queued : Segments(x) \subseteq 1..MSGSEG \ F
      /\ \A p \in Copying : Copied(p) \subseteq 1..MSGSEG \ F
  <2>1. \A h \in H : T[h] \subseteq 1..MSGSEG \ F
    BY <1>1
  <2>2. QED
    BY ONLY <1>2, <2>1
<1>6. \A x, y \in Queued : x # y => Segments(x) \cap Segments(y) = {}
  BY ONLY <1>1, <1>2, <1>3
<1>7. \A p \in Copying, x \in Queued : Copied(p) \cap Segments(x) = {}
  BY ONLY <1>1, <1>2, <1>4
<1>8. \A p, o \in Copying : p # o => Copied(p) \cap Copied(o) = {}
  BY ONLY <1>1, <1>2, <1>4
<1>9. \A a \in Queues : msgque[a].cbytes = Promise!Bytes(Sent(msgque[a].msgs))
  BY InvQueues, QueueFacts
<1>10. QED
  BY <1>1, <1>5, <1>6, <1>7, <1>8, <1>9, HeadersCounted DEF NothingShared, F

(* No header is lost and no segment is in two texts, whatever the size of  *)
(* the map: what mfree loses when the map overflows is only not used.      *)
THEOREM NoSegmentTwice == Spec => []NothingShared
BY Invariance, InvNothingShared, PTL

LEMMA InvPoolAccounted ==
    ASSUME EnoughSlots, Inv
    PROVE  PoolAccounted
<1> DEFINE H == Holders(Lists, Uses)
           T == [h \in H |-> Holds(Lists, Uses, h)]
           A == UNION {Segments(x) : x \in Queued}
           B == UNION {Copied(p) : p \in Copying}
<1>1. UnitsOf(msgmap.free) \cup UNION {T[h] : h \in H} = 1..MSGSEG
  BY DEF Inv, PoolOf, PoolFor
<1>2. UNION {T[h] : h \in H} = A \cup B
  <2>1. \A h \in H : (\E x \in Queued : T[h] = Segments(x)) \/ (\E p \in Copying : T[h] = Copied(p))
    <3>1. ASSUME NEW h \in H, NEW x \in Queued, h = <<"q", x[1], x[2]>> PROVE T[h] = Segments(x)
      BY <3>1, QueuedHolders
    <3>2. ASSUME NEW h \in H, NEW p \in Copying, h = <<"p", p, 0>> PROVE T[h] = Copied(p)
      BY <3>2, QueuedHolders
    <3>3. QED
      BY <3>1, <3>2, QueuedHolders
  <2>2. \A x \in Queued : \E h \in H : T[h] = Segments(x)
    <3>1. ASSUME NEW x \in Queued PROVE \E h \in H : T[h] = Segments(x)
      <4> DEFINE h == <<"q", x[1], x[2]>>
      <4>1. h \in H /\ T[h] = Segments(x)
        BY QueuedHolders
      <4> HIDE DEF h, T, H
      <4>2. QED
        BY <4>1
    <3>2. QED
      BY <3>1
  <2>3. \A p \in Copying : \E h \in H : T[h] = Copied(p)
    <3>1. ASSUME NEW p \in Copying PROVE \E h \in H : T[h] = Copied(p)
      <4> DEFINE h == <<"p", p, 0>>
      <4>1. h \in H /\ T[h] = Copied(p)
        BY QueuedHolders
      <4> HIDE DEF h, T, H
      <4>2. QED
        BY <4>1
    <3>2. QED
      BY <3>1
  <2> HIDE DEF H, T
  <2>4. QED
    BY ONLY <2>1, <2>2, <2>3
<1> HIDE DEF H, T
<1>3. UnitsOf(msgmap.free) \cup A \cup B = 1..MSGSEG
  BY <1>1, <1>2
<1>4. NothingShared
  BY InvNothingShared
<1>5. QED
  BY <1>3, <1>4 DEF NothingShared, PoolAccounted, Queued, Segments, Copied

(* With a slot for every header no segment is lost either.                 *)
THEOREM NoSegmentLost == ASSUME EnoughSlots PROVE Spec => []PoolAccounted
<1>1. Inv => PoolAccounted
  BY InvPoolAccounted
<1>2. QED
  BY <1>1, Invariance, PTL

-----------------------------------------------------------------------------
(* The queues as MessageQueues has them. *)
Count(k) == 2 * k.seq + (IF k.alloc THEN 1 ELSE 0)

QueueBar == [q \in Queues |-> Sent(msgque[q].msgs)]
MadeBar == [q \in Queues |-> Count(msgque[q])]
LimitBar == [q \in Queues |-> msgque[q].qbytes]
Mails == {[type |-> r.typ, size |-> r.cnt] : r \in Requests}
AllLimits == (UNION {Limits[q] : q \in Queues}) \union {0, MSGMNB}

LEMMA ChangedAt ==
    ASSUME NEW S, NEW f, NEW g, NEW q \in S, NEW v, f = [c \in S |-> f[c]], g = [c \in S |-> g[c]],
           g[q] = v, \A c \in S : c # q => g[c] = f[c]
    PROVE  g = [f EXCEPT ![q] = v]
OBVIOUS

LEMMA BarChange ==
    ASSUME Inv, NEW q \in Queues, NEW n, QueueOK(n), msgque' = [msgque EXCEPT ![q] = n]
    PROVE  /\ QueueBar' = [QueueBar EXCEPT ![q] = Sent(n.msgs)]
           /\ MadeBar' = [MadeBar EXCEPT ![q] = Count(n)]
           /\ LimitBar' = [LimitBar EXCEPT ![q] = n.qbytes]
<1>1. msgque'[q] = n /\ \A c \in Queues : c # q => msgque'[c] = msgque[c]
  BY QueueChange
<1> DEFINE g1 == QueueBar'
           g2 == MadeBar'
           g3 == LimitBar'
<1>2. /\ QueueBar = [c \in Queues |-> QueueBar[c]] /\ g1 = [c \in Queues |-> g1[c]]
      /\ MadeBar = [c \in Queues |-> MadeBar[c]] /\ g2 = [c \in Queues |-> g2[c]]
      /\ LimitBar = [c \in Queues |-> LimitBar[c]] /\ g3 = [c \in Queues |-> g3[c]]
  BY DEF QueueBar, MadeBar, LimitBar
<1>3. /\ g1[q] = Sent(n.msgs) /\ g2[q] = Count(n) /\ g3[q] = n.qbytes
  BY <1>1 DEF QueueBar, MadeBar, LimitBar
<1>4. \A c \in Queues : c # q => g1[c] = QueueBar[c]
  BY <1>1 DEF QueueBar
<1>5. \A c \in Queues : c # q => g2[c] = MadeBar[c]
  BY <1>1 DEF MadeBar
<1>6. \A c \in Queues : c # q => g3[c] = LimitBar[c]
  BY <1>1 DEF LimitBar
<1> HIDE DEF g1, g2, g3
<1>7. g1 = [QueueBar EXCEPT ![q] = Sent(n.msgs)]
  BY ONLY q \in Queues, <1>2, <1>3, <1>4, ChangedAt
<1>8. g2 = [MadeBar EXCEPT ![q] = Count(n)]
  BY ONLY q \in Queues, <1>2, <1>3, <1>5, ChangedAt
<1>9. g3 = [LimitBar EXCEPT ![q] = n.qbytes]
  BY ONLY q \in Queues, <1>2, <1>3, <1>6, ChangedAt
<1>10. QED
  BY <1>7, <1>8, <1>9 DEF g1, g2, g3

LEMMA BarValues ==
    ASSUME Inv, NEW q \in Queues
    PROVE  /\ QueueBar[q] = Sent(msgque[q].msgs) /\ MadeBar[q] = Count(msgque[q])
           /\ LimitBar[q] = msgque[q].qbytes
           /\ Promise!Bytes(QueueBar[q]) = msgque[q].cbytes
           /\ msgque[q].alloc <=> MadeBar[q] % 2 = 1
<1>1. QueueBar[q] = Sent(msgque[q].msgs) /\ MadeBar[q] = Count(msgque[q])
      /\ LimitBar[q] = msgque[q].qbytes
  BY DEF QueueBar, MadeBar, LimitBar
<1>2. msgque[q].cbytes = Promise!Bytes(Sent(msgque[q].msgs)) /\ msgque[q].seq \in 0..MaxSeq
      /\ msgque[q].alloc \in BOOLEAN
  BY InvQueues, QueueFacts
<1>3. \A n \in Nat : (2 * n + 1) % 2 = 1 /\ (2 * n + 0) % 2 = 0
  OBVIOUS
<1>4. msgque[q].alloc <=> Count(msgque[q]) % 2 = 1
  <2>1. msgque[q].seq \in Nat
    BY <1>2
  <2>2. CASE msgque[q].alloc
    BY <1>3, <2>1, <2>2 DEF Count
  <2>3. CASE ~msgque[q].alloc
    BY <1>3, <2>1, <2>3 DEF Count
  <2>4. QED
    BY <2>2, <2>3
<1>5. QED
  BY <1>1, <1>2, <1>4

(* Steps that callers do not see. *)
LEMMA BarSame ==
    ASSUME \A q \in Queues : /\ msgque'[q].alloc = msgque[q].alloc /\ msgque'[q].seq = msgque[q].seq
                             /\ msgque'[q].msgs = msgque[q].msgs /\ msgque'[q].qbytes = msgque[q].qbytes
    PROVE  UNCHANGED Promise!vars
<1>1. QueueBar' = QueueBar
  BY DEF QueueBar
<1>2. LimitBar' = LimitBar
  BY DEF LimitBar
<1>3. MadeBar' = MadeBar
  BY DEF MadeBar, Count
<1>4. QED
  BY <1>1, <1>2, <1>3 DEF Promise!vars, QueueBar, LimitBar, MadeBar, Count

LEMMA FlagSame ==
    ASSUME Inv, NEW q \in Queues, NEW x,
           \/ msgque' = [msgque EXCEPT ![q].wwait = x]
           \/ msgque' = [msgque EXCEPT ![q].rwait = x]
           \/ msgque' = msgque
    PROVE  UNCHANGED Promise!vars
<1>1. msgque = [c \in Queues |-> msgque[c]]
  BY InvQueues
<1>2. \A c \in Queues : msgque[c] \in [alloc : BOOLEAN, seq : 0..MaxSeq, msgs : Seq(Message), cbytes : Nat,
              qbytes : Nat, rwait : BOOLEAN, wwait : BOOLEAN]
  BY InvQueues DEF QueueOK
<1>3. ASSUME NEW c \in Queues
      PROVE  /\ msgque'[c].alloc = msgque[c].alloc /\ msgque'[c].seq = msgque[c].seq
             /\ msgque'[c].msgs = msgque[c].msgs /\ msgque'[c].qbytes = msgque[c].qbytes
  <2> DEFINE e == msgque[c]
             f == msgque'[c]
  <2>1. e \in [alloc : BOOLEAN, seq : 0..MaxSeq, msgs : Seq(Message), cbytes : Nat,
               qbytes : Nat, rwait : BOOLEAN, wwait : BOOLEAN]
    BY <1>2
  <2>2. f = e \/ f = [e EXCEPT !.wwait = x] \/ f = [e EXCEPT !.rwait = x]
    <3>1. CASE msgque' = [msgque EXCEPT ![q].wwait = x]
      BY <1>1, <3>1
    <3>2. CASE msgque' = [msgque EXCEPT ![q].rwait = x]
      BY <1>1, <3>2
    <3>3. CASE msgque' = msgque
      BY <3>3
    <3>4. QED
      BY <3>1, <3>2, <3>3
  <2> HIDE DEF e, f
  <2>3. f.alloc = e.alloc /\ f.seq = e.seq /\ f.msgs = e.msgs /\ f.qbytes = e.qbytes
    BY <2>1, <2>2
  <2>4. QED
    BY <2>3 DEF e, f
<1>4. QED
  BY <1>3, BarSame

(* What sending, receiving, removing, making and setting do there. *)
LEMMA SendMaps ==
    ASSUME Inv, NEW q \in Queues, NEW m \in Message, [type |-> m.type, size |-> m.ts] \in Mails,
           msgque[q].alloc, m.ts + msgque[q].cbytes <= msgque[q].qbytes,
           msgque' = [msgque EXCEPT ![q] = With(msgque[q], m)]
    PROVE  Promise!Send(q)
<1> DEFINE k == msgque[q]
           n == With(k, m)
           x == [type |-> m.type, size |-> m.ts]
<1>1. QueueOK(k) /\ k.msgs \in Seq(Message) /\ k.cbytes \in Nat /\ k.qbytes \in Nat
  BY InvQueues, QueueFacts
<1>2. QueueOK(n)
  <2> HIDE DEF k
  <2>1. k.alloc
    BY DEF k
  <2>2. QED
    BY <1>1, <2>1, Appended
<1>3. n.msgs = Append(k.msgs, m) /\ n.alloc = k.alloc /\ n.seq = k.seq /\ n.qbytes = k.qbytes
  BY <1>1 DEF With, QueueOK
<1>4. Sent(n.msgs) = Append(Sent(k.msgs), x)
  <2> HIDE DEF k, n
  <2>1. QED
    BY <1>1, <1>3, SentAppend
<1>5. x.size = m.ts /\ m.ts \in Nat
  BY DEF Message
<1> HIDE DEF n, x
<1>6. /\ QueueBar' = [QueueBar EXCEPT ![q] = Sent(n.msgs)]
      /\ MadeBar' = [MadeBar EXCEPT ![q] = Count(n)]
      /\ LimitBar' = [LimitBar EXCEPT ![q] = n.qbytes]
  BY <1>2, BarChange DEF n, k
<1>7. /\ QueueBar[q] = Sent(k.msgs) /\ MadeBar[q] = Count(k) /\ LimitBar[q] = k.qbytes
      /\ Promise!Bytes(QueueBar[q]) = k.cbytes /\ MadeBar[q] % 2 = 1
  BY BarValues
<1>8. QueueBar' = [QueueBar EXCEPT ![q] = Append(@, x)]
  BY <1>4, <1>6, <1>7
<1>9. MadeBar' = MadeBar /\ LimitBar' = LimitBar
  <2>1. Count(n) = MadeBar[q] /\ n.qbytes = LimitBar[q]
    BY <1>3, <1>7 DEF Count
  <2>2. QED
    BY <1>6, <2>1 DEF MadeBar, LimitBar
<1>10. x \in Mails /\ x.size <= LimitBar[q] - Promise!Bytes(QueueBar[q])
  <2>1. k.qbytes \in Nat /\ k.cbytes \in Nat /\ m.ts + k.cbytes <= k.qbytes /\ x \in Mails
    BY <1>1 DEF k, x
  <2> HIDE DEF k
  <2>2. x.size <= k.qbytes - k.cbytes
    BY <1>5, <2>1
  <2>3. QED
    BY <1>7, <2>1, <2>2
<1>11. QueueBar' \in {[QueueBar EXCEPT ![q] = Append(@, y)] :
                        y \in {z \in Mails : z.size <= LimitBar[q] - Promise!Bytes(QueueBar[q])}}
  BY <1>8, <1>10
<1>12. QED
  BY <1>7, <1>9, <1>11
     DEF Promise!Send, Promise!Exists, Promise!Room, QueueBar, MadeBar, LimitBar, Mails, Count

LEMMA ReceiveMaps ==
    ASSUME Inv, NEW q \in Queues, NEW i \in DOMAIN msgque[q].msgs,
           \A j \in 1..(i - 1) : msgque[q].msgs[j].type # msgque[q].msgs[i].type,
           msgque' = [msgque EXCEPT ![q] = Without(msgque[q], i)]
    PROVE  i \in DOMAIN QueueBar[q] /\ Promise!Receive(q, i)
<1> DEFINE k == msgque[q]
           s == k.msgs
           n == Without(k, i)
<1>1. QueueOK(k) /\ s \in Seq(Message)
  BY InvQueues, QueueFacts
<1>2. QueueOK(n) /\ n.msgs = RemoveAt(s, i)
  <2>1. n = Without(k, i) /\ i \in DOMAIN k.msgs
    OBVIOUS
  <2> HIDE DEF k, n
  <2>2. QED
    BY <1>1, <2>1, WithoutFacts
<1>3. n.alloc = k.alloc /\ n.seq = k.seq /\ n.qbytes = k.qbytes
  BY <1>1 DEF Without, QueueOK
<1>4. i \in DOMAIN s /\ \A j \in 1..(i - 1) : s[j].type # s[i].type
  OBVIOUS
<1> HIDE DEF n
<1>5. /\ QueueBar' = [QueueBar EXCEPT ![q] = Sent(n.msgs)]
      /\ MadeBar' = [MadeBar EXCEPT ![q] = Count(n)]
      /\ LimitBar' = [LimitBar EXCEPT ![q] = n.qbytes]
  BY <1>2, BarChange DEF n
<1>6. QueueBar[q] = Sent(s) /\ MadeBar[q] = Count(k) /\ LimitBar[q] = k.qbytes
  BY BarValues
<1> HIDE DEF s, k
<1>7. /\ DOMAIN Sent(s) = DOMAIN s /\ \A j \in DOMAIN s : Sent(s)[j] = [type |-> s[j].type, size |-> s[j].ts]
      /\ Sent(RemoveAt(s, i)) = RemoveAt(Sent(s), i) /\ Len(s) \in Nat /\ DOMAIN s = 1..Len(s)
  BY <1>1, <1>4, SentFacts, SentRemove
<1>8. \A j \in 1..(i - 1) : QueueBar[q][j].type # QueueBar[q][i].type
  <2>1. \A j \in 1..(i - 1) : j \in DOMAIN s
    BY <1>4, <1>7
  <2>2. \A j \in DOMAIN s : Sent(s)[j].type = s[j].type
    BY <1>7
  <2>3. QED
    BY <1>4, <1>6, <2>1, <2>2
<1>9. QueueBar' = [QueueBar EXCEPT ![q] = RemoveAt(@, i)]
  BY <1>2, <1>5, <1>6, <1>7
<1>10. MadeBar' = MadeBar /\ LimitBar' = LimitBar
  <2>1. Count(n) = MadeBar[q] /\ n.qbytes = LimitBar[q]
    BY <1>3, <1>6 DEF Count
  <2>2. QED
    BY <1>5, <2>1 DEF MadeBar, LimitBar
<1>11. i \in DOMAIN QueueBar[q]
  BY <1>4, <1>6, <1>7
<1>12. Promise!Receive(q, i)
  <2>1. \A x : Promise!RemoveAt(x, i) = RemoveAt(x, i)
    BY DEF Promise!RemoveAt, RemoveAt
  <2>2. QueueBar' = [QueueBar EXCEPT ![q] = Promise!RemoveAt(@, i)]
    BY <1>9, <2>1
  <2>3. QED
    BY <1>8, <1>10, <2>2 DEF Promise!Receive, QueueBar, MadeBar, LimitBar, Count
<1>13. QED
  BY <1>11, <1>12

LEMMA RmidMaps ==
    ASSUME Inv, NEW q \in Queues, Rmid(q)
    PROVE  Promise!Destroy(q)
<1> DEFINE k == msgque[q]
           n == [k EXCEPT !.alloc = FALSE, !.seq = @ + 1, !.msgs = << >>, !.cbytes = 0,
                          !.rwait = FALSE, !.wwait = FALSE]
<1>1. QueueOK(k) /\ k.seq \in 0..MaxSeq
  BY InvQueues, QueueFacts
<1>2. k.alloc /\ k.seq < MaxSeq /\ msgque' = [msgque EXCEPT ![q] = n]
  BY DEF Rmid
<1>3. /\ n.alloc = FALSE /\ n.seq = k.seq + 1 /\ n.msgs = << >> /\ n.qbytes = k.qbytes
      /\ n.cbytes = 0
      /\ n \in [alloc : BOOLEAN, seq : 0..MaxSeq, msgs : Seq(Message), cbytes : Nat,
                qbytes : Nat, rwait : BOOLEAN, wwait : BOOLEAN]
  <2>1. k.seq + 1 \in 0..MaxSeq
    BY <1>1, <1>2, MessagesAssumption
  <2>2. k \in [alloc : BOOLEAN, seq : 0..MaxSeq, msgs : Seq(Message), cbytes : Nat,
               qbytes : Nat, rwait : BOOLEAN, wwait : BOOLEAN]
    BY <1>1 DEF QueueOK
  <2>3. << >> \in Seq(Message)
    OBVIOUS
  <2> HIDE DEF k
  <2>4. QED
    BY ONLY <2>1, <2>2, <2>3
<1> HIDE DEF n
<1>4. Sent(<< >>) = << >>
  <2>1. << >> \in Seq(Message) /\ Len(<< >>) = 0
    OBVIOUS
  <2>2. Sent(<< >>) \in Seq(Sizes) /\ Len(Sent(<< >>)) = 0
    BY <2>1, SentFacts
  <2>3. QED
    BY <2>2
<1>5. QueueOK(n)
  BY <1>3, <1>4, BytesNone DEF QueueOK
<1>6. /\ QueueBar' = [QueueBar EXCEPT ![q] = << >>]
      /\ MadeBar' = [MadeBar EXCEPT ![q] = Count(n)]
      /\ LimitBar' = [LimitBar EXCEPT ![q] = n.qbytes]
  <2>1. /\ QueueBar' = [QueueBar EXCEPT ![q] = Sent(n.msgs)]
        /\ MadeBar' = [MadeBar EXCEPT ![q] = Count(n)]
        /\ LimitBar' = [LimitBar EXCEPT ![q] = n.qbytes]
    BY <1>2, <1>5, BarChange
  <2>2. Sent(n.msgs) = << >>
    BY <1>3, <1>4
  <2>3. QED
    BY <2>1, <2>2
<1>7. MadeBar[q] = Count(k) /\ LimitBar[q] = k.qbytes /\ MadeBar[q] % 2 = 1
  BY <1>2, BarValues
<1>8. Count(n) = MadeBar[q] + 1
  <2>1. k.seq \in Nat
    BY <1>1
  <2> HIDE DEF k
  <2>2. Count(k) = 2 * k.seq + 1
    BY <1>2 DEF Count
  <2>3. Count(n) = 2 * (k.seq + 1) + 0
    BY <1>3 DEF Count
  <2>4. QED
    BY <1>7, <2>1, <2>2, <2>3
<1>9. MadeBar' = [MadeBar EXCEPT ![q] = @ + 1]
  BY <1>6, <1>8
<1>10. LimitBar' = LimitBar
  BY <1>3, <1>6, <1>7 DEF LimitBar
<1>11. QED
  BY <1>6, <1>7, <1>9, <1>10 DEF Promise!Destroy, Promise!Exists, QueueBar, MadeBar, LimitBar, Count

LEMMA MsggetMaps ==
    ASSUME Inv, NEW q \in Queues, Msgget(q)
    PROVE  Promise!Make(q)
<1> DEFINE k == msgque[q]
           n == [k EXCEPT !.alloc = TRUE, !.msgs = << >>, !.qbytes = MSGMNB]
<1>1. QueueOK(k) /\ k.seq \in 0..MaxSeq /\ k.msgs = << >> /\ ~k.alloc
  BY InvQueues, QueueFacts DEF Msgget
<1>2. /\ n.alloc = TRUE /\ n.seq = k.seq /\ n.msgs = << >> /\ n.qbytes = MSGMNB
      /\ n.cbytes = k.cbytes
      /\ n \in [alloc : BOOLEAN, seq : 0..MaxSeq, msgs : Seq(Message), cbytes : Nat,
                  qbytes : Nat, rwait : BOOLEAN, wwait : BOOLEAN]
  BY <1>1, MessagesAssumption DEF QueueOK
<1>3. msgque' = [msgque EXCEPT ![q] = n]
  <2>1. k \in [alloc : BOOLEAN, seq : 0..MaxSeq, msgs : Seq(Message), cbytes : Nat,
               qbytes : Nat, rwait : BOOLEAN, wwait : BOOLEAN]
    BY <1>1 DEF QueueOK
  <2>2. msgque = [c \in Queues |-> msgque[c]]
    BY InvQueues
  <2>3. QED
    BY <2>1, <2>2 DEF Msgget
<1> HIDE DEF n
<1>4. QueueOK(n)
  <2>1. k.cbytes = Promise!Bytes(Sent(k.msgs))
    BY <1>1, QueueFacts
  <2> HIDE DEF k
  <2>2. QED
    BY <1>1, <1>2, <2>1 DEF QueueOK
<1>5. /\ QueueBar' = [QueueBar EXCEPT ![q] = Sent(n.msgs)]
      /\ MadeBar' = [MadeBar EXCEPT ![q] = Count(n)]
      /\ LimitBar' = [LimitBar EXCEPT ![q] = MSGMNB]
  <2>1. /\ QueueBar' = [QueueBar EXCEPT ![q] = Sent(n.msgs)]
        /\ MadeBar' = [MadeBar EXCEPT ![q] = Count(n)]
        /\ LimitBar' = [LimitBar EXCEPT ![q] = n.qbytes]
    BY <1>3, <1>4, BarChange
  <2>2. QED
    BY <1>2, <2>1
<1>6. QueueBar[q] = Sent(k.msgs) /\ MadeBar[q] = Count(k) /\ MadeBar[q] % 2 # 1
  BY <1>1, BarValues
<1>7. Count(n) = MadeBar[q] + 1
  <2>1. k.seq \in Nat
    BY <1>1
  <2> HIDE DEF k
  <2>2. Count(k) = 2 * k.seq + 0
    BY <1>1 DEF Count
  <2>3. Count(n) = 2 * k.seq + 1
    BY <1>2 DEF Count
  <2>4. QED
    BY <1>6, <2>1, <2>2, <2>3
<1>8. MadeBar' = [MadeBar EXCEPT ![q] = @ + 1]
  BY <1>5, <1>7
<1>9. QueueBar' = QueueBar
  BY <1>1, <1>2, <1>5, <1>6 DEF QueueBar
<1>10. LimitBar' \in {[LimitBar EXCEPT ![q] = b] : b \in AllLimits}
  <2>1. MSGMNB \in AllLimits
    BY DEF AllLimits
  <2>2. QED
    BY <1>5, <2>1
<1>11. QED
  BY <1>6, <1>8, <1>9, <1>10
     DEF Promise!Make, Promise!Exists, QueueBar, MadeBar, LimitBar, Count, AllLimits

LEMMA SetMaps ==
    ASSUME Inv, NEW q \in Queues, Set(q)
    PROVE  Promise!Limit(q)
<1> DEFINE k == msgque[q]
<1>1. PICK b \in Limits[q] : msgque' = [msgque EXCEPT ![q].qbytes = b]
  BY DEF Set
<1>2. b \in Nat /\ b \in AllLimits
  BY MessagesAssumption DEF AllLimits
<1>3. QueueOK(k) /\ k.alloc
  BY InvQueues DEF Set
<1> DEFINE n == [k EXCEPT !.qbytes = b]
<1>4. msgque' = [msgque EXCEPT ![q] = n]
  BY <1>1
<1>5. /\ n.alloc = k.alloc /\ n.seq = k.seq /\ n.msgs = k.msgs /\ n.qbytes = b
      /\ n.cbytes = k.cbytes
      /\ n \in [alloc : BOOLEAN, seq : 0..MaxSeq, msgs : Seq(Message), cbytes : Nat,
                  qbytes : Nat, rwait : BOOLEAN, wwait : BOOLEAN]
  BY <1>2, <1>3 DEF QueueOK
<1> HIDE DEF n
<1>6. QueueOK(n)
  <2>1. k.cbytes = Promise!Bytes(Sent(k.msgs))
    BY <1>3, QueueFacts
  <2> HIDE DEF k
  <2>2. QED
    BY <1>3, <1>5, <2>1 DEF QueueOK
<1>7. /\ QueueBar' = [QueueBar EXCEPT ![q] = Sent(k.msgs)]
      /\ MadeBar' = [MadeBar EXCEPT ![q] = Count(n)]
      /\ LimitBar' = [LimitBar EXCEPT ![q] = b]
  <2>1. /\ QueueBar' = [QueueBar EXCEPT ![q] = Sent(n.msgs)]
        /\ MadeBar' = [MadeBar EXCEPT ![q] = Count(n)]
        /\ LimitBar' = [LimitBar EXCEPT ![q] = n.qbytes]
    BY <1>4, <1>6, BarChange
  <2>2. QED
    BY <1>5, <2>1
<1>8. QueueBar[q] = Sent(k.msgs) /\ MadeBar[q] = Count(k) /\ MadeBar[q] % 2 = 1
  BY <1>3, BarValues
<1>9. Count(n) = Count(k)
  BY <1>5 DEF Count
<1>10. QueueBar' = QueueBar /\ MadeBar' = MadeBar
  BY <1>7, <1>8, <1>9 DEF QueueBar, MadeBar
<1>11. LimitBar' \in {[LimitBar EXCEPT ![q] = c] : c \in AllLimits}
  BY <1>2, <1>7
<1>12. QED
  BY <1>8, <1>10, <1>11
     DEF Promise!Limit, Promise!Exists, QueueBar, MadeBar, LimitBar, Count, AllLimits

(* The mail of a request is a message that may be sent. *)
LEMMA MailFacts ==
    ASSUME NEW r \in Requests, r.op = "snd", NEW a \in Nat
    PROVE  /\ Mail(r, a) \in Message /\ Mail(r, a).ts = r.cnt
           /\ [type |-> Mail(r, a).type, size |-> Mail(r, a).ts] \in Mails
<1>1. r.cnt \in Nat /\ r.typ \in Nat \ {0}
  BY RequestFacts
<1>2. Mail(r, a) = [type |-> r.typ, ts |-> r.cnt, spot |-> a]
  BY DEF Mail
<1>3. QED
  BY <1>1, <1>2 DEF Message, Mails

LEMMA LinksEmptyMaps ==
    ASSUME Inv, NEW p, NEW r, NEW s, Ready(p, r, s), r.op = "snd", LinksEmpty(p, r, s)
    PROVE  Promise!Send(r.q)
<1> DEFINE q == r.q
           m == Mail(r, 0)
<1>1. p \in Procs /\ r \in Requests /\ q \in Queues /\ msgque[q].alloc /\ QueueOK(msgque[q])
  BY ReadyFacts
<1>2. Linked(p, q, m)
  BY <1>1, LinkFacts DEF LinksEmpty
<1>3. m \in Message /\ m.ts = r.cnt /\ [type |-> m.type, size |-> m.ts] \in Mails
  BY <1>1, MailFacts
<1>4. r.cnt + msgque[q].cbytes <= msgque[q].qbytes
  <2>1. Lack(r) = "none"
    BY DEF LinksEmpty
  <2>2. ~(r.cnt + msgque[q].cbytes > msgque[q].qbytes)
    BY <2>1, LackFacts
  <2>3. r.cnt \in Nat /\ msgque[q].cbytes \in Nat /\ msgque[q].qbytes \in Nat
    BY <1>1, QueueFacts, RequestFacts
  <2>4. QED
    BY <2>2, <2>3
<1> HIDE DEF q, m
<1>5. msgque' = [msgque EXCEPT ![q] = With(msgque[q], m)]
  BY <1>2 DEF Linked
<1>6. Promise!Send(q)
  BY <1>1, <1>3, <1>4, <1>5, SendMaps
<1>7. QED
  BY <1>6 DEF q

LEMMA CopiedInMaps ==
    ASSUME Inv, NEW p \in Procs, CopiedIn(p)
    PROVE  \E q \in Queues : Promise!Send(q)
<1> DEFINE r == proc[p].req
           a == proc[p].at
           q == r.q
           m == Mail(r, a)
<1>1. p \in Holding /\ proc[p].pc = "copyin"
  BY DEF CopiedIn, Holding
<1>2. r \in Requests /\ a \in Nat /\ q \in Queues
  BY <1>1, HeldQueue, InvQueues, RequestFacts
<1>3. CopyFor(proc[p], msgque[q])
  BY <1>1 DEF Inv, CopyOK
<1>4. r.op = "snd" /\ msgque[q].alloc /\ r.cnt + msgque[q].cbytes <= msgque[q].qbytes
  BY <1>1, <1>3 DEF CopyFor
<1>5. Link(p, r, a)
  BY DEF CopiedIn
<1> HIDE DEF r, a
<1>6. Linked(p, q, m)
  BY <1>2, <1>4, <1>5, LinkFacts
<1>7. m \in Message /\ m.ts = r.cnt /\ [type |-> m.type, size |-> m.ts] \in Mails
  BY <1>2, <1>4, MailFacts
<1> HIDE DEF q, m
<1>8. msgque' = [msgque EXCEPT ![q] = With(msgque[q], m)]
  BY <1>6 DEF Linked
<1>9. Promise!Send(q)
  BY <1>2, <1>4, <1>7, <1>8, SendMaps
<1>10. QED
  BY <1>2, <1>9

LEMMA CopiedOutMaps ==
    ASSUME Inv, NEW p \in Procs, CopiedOut(p)
    PROVE  \E q \in Queues : \E i \in DOMAIN QueueBar[q] : Promise!Receive(q, i)
<1> DEFINE q == proc[p].req.q
           i == proc[p].at
           k == msgque[q]
           m == k.msgs[i]
           n == Without(k, i)
<1>1. p \in Holding /\ proc[p].pc = "copyout"
  BY DEF CopiedOut, Holding
<1>2. q \in Queues /\ QueueOK(k) /\ k.msgs \in Seq(Message)
  BY <1>1, HeldQueue, InvQueues, QueueFacts
<1>3. i \in DOMAIN k.msgs /\ \A j \in 1..(i - 1) : k.msgs[j].type # k.msgs[i].type
  <2>1. CopyFor(proc[p], k)
    BY <1>1 DEF Inv, CopyOK
  <2> HIDE DEF k
  <2>2. QED
    BY <1>1, <2>1 DEF CopyFor
<1>4. msgque' = [msgque EXCEPT ![q].msgs = RemoveAt(@, i), ![q].wwait = FALSE, ![q].cbytes = @ - m.ts]
  <2>1. Msgfree(p, q, i)
    BY DEF CopiedOut
  <2> HIDE DEF q, i
  <2>2. QED
    BY ONLY <2>1 DEF Msgfree
<1>5. msgque' = [msgque EXCEPT ![q] = n]
  <2>1. k \in [alloc : BOOLEAN, seq : 0..MaxSeq, msgs : Seq(Message), cbytes : Nat,
               qbytes : Nat, rwait : BOOLEAN, wwait : BOOLEAN]
    BY <1>2 DEF QueueOK
  <2>2. msgque = [c \in Queues |-> msgque[c]]
    BY InvQueues
  <2> HIDE DEF q, i
  <2>3. QED
    BY <1>2, <1>4, <2>1, <2>2 DEF Without
<1> HIDE DEF q, i
<1>6. i \in DOMAIN QueueBar[q] /\ Promise!Receive(q, i)
  BY <1>2, <1>3, <1>5, ReceiveMaps
<1>7. QED
  BY <1>2, <1>6

Abstractly == [Promise!Next]_(Promise!vars)

LEMMA AbstractSteps ==
    /\ \A q \in Queues : Promise!Send(q) \/ Promise!Destroy(q) \/ Promise!Make(q) \/ Promise!Limit(q)
                            => Abstractly
    /\ \A q \in Queues : \A i \in DOMAIN QueueBar[q] : Promise!Receive(q, i) => Abstractly
    /\ UNCHANGED Promise!vars => Abstractly
<1>1. ASSUME NEW q \in Queues, NEW i \in DOMAIN QueueBar[q], Promise!Receive(q, i) PROVE Abstractly
  BY <1>1 DEF Abstractly, Promise!Next, QueueBar
<1>2. ASSUME NEW q \in Queues, Promise!Send(q) \/ Promise!Destroy(q) \/ Promise!Make(q) \/ Promise!Limit(q)
      PROVE Abstractly
  BY <1>2 DEF Abstractly, Promise!Next
<1>3. UNCHANGED Promise!vars => Abstractly
  BY DEF Abstractly
<1>4. QED
  BY <1>1, <1>2, <1>3

(* The parts of msgsnd and msgrcv that wait, lock and copy are not seen. *)
LEMMA GetresMaps ==
    ASSUME Inv, NEW p, NEW r, NEW s, Ready(p, r, s), r.op = "snd", Getres(p, r, s)
    PROVE  Abstractly
<1>1. r.q \in Queues
  BY ReadyFacts
<1>2. CASE Refuses(p, r, s)
  BY <1>1, <1>2, FlagSame, AbstractSteps DEF Refuses
<1>3. CASE Waits(p, r, s)
  <2> DEFINE x == msgque[r.q].wwait \/ Lack(r) = "room"
  <2>1. msgque' = [msgque EXCEPT ![r.q].wwait = x]
    BY <1>3 DEF Waits
  <2> HIDE DEF x
  <2>2. QED
    BY <1>1, <2>1, FlagSame, AbstractSteps
<1>4. CASE LinksEmpty(p, r, s)
  BY <1>1, <1>4, LinksEmptyMaps, AbstractSteps
<1>5. CASE Copyin(p, r, s)
  BY <1>1, <1>5, FlagSame, AbstractSteps DEF Copyin
<1>6. QED
  BY <1>2, <1>3, <1>4, <1>5 DEF Getres

LEMMA FindmsgMaps ==
    ASSUME Inv, NEW p, NEW r, NEW s, Ready(p, r, s), Findmsg(p, r, s)
    PROVE  Abstractly
<1>1. r.q \in Queues
  BY ReadyFacts
<1>2. CASE Copyout(p, r, s)
  BY <1>1, <1>2, FlagSame, AbstractSteps DEF Copyout
<1>3. CASE Awaits(p, r, s)
  BY <1>1, <1>3, FlagSame, AbstractSteps DEF Awaits
<1>4. CASE Finds0(p, r, s)
  BY <1>1, <1>4, FlagSame, AbstractSteps DEF Finds0
<1>5. QED
  BY <1>2, <1>3, <1>4 DEF Findmsg

LEMMA QuietMaps ==
    ASSUME Inv, msgque' = msgque
    PROVE  Abstractly
<1>1. UNCHANGED Promise!vars
  BY BarSame
<1>2. QED
  BY <1>1, AbstractSteps

LEMMA NextMaps ==
    ASSUME Inv, [Next]_vars
    PROVE  Abstractly
<1>1. ASSUME NEW p \in Procs, Calls(p) PROVE Abstractly
  <2>1. PICK r \in Requests : LET s == msgque[r.q].seq IN
              /\ Ready(p, r, s)
              /\ (r.op = "snd" /\ Getres(p, r, s)) \/ (r.op = "rcv" /\ Findmsg(p, r, s))
    BY <1>1, CallsReady
  <2>2. QED
    BY <2>1, GetresMaps, FindmsgMaps
<1>2. ASSUME NEW p \in Procs, Again(p) PROVE Abstractly
  <2>1. CASE Valid(proc[p].req.q, proc[p].seq)
    BY <1>2, <2>1, AgainReady, GetresMaps, FindmsgMaps
  <2>2. CASE ~Valid(proc[p].req.q, proc[p].seq)
    BY <1>2, <2>2, AgainInvalid, QuietMaps
  <2>3. QED
    BY <2>1, <2>2
<1>3. ASSUME NEW p \in Procs, CopyinFails(p) \/ CopyoutFails(p) \/ Interrupt(p) PROVE Abstractly
  <2>1. msgque' = msgque
    BY <1>3 DEF CopyinFails, CopyoutFails, Interrupt
  <2>2. QED
    BY <2>1, QuietMaps
<1>10. ASSUME NEW p \in Procs, IntrLocked(p) PROVE Abstractly
  BY <1>10, QuietMaps DEF IntrLocked
<1>11. ASSUME NEW p \in Procs, RoomIntr(p), IntrLooks(p) PROVE Abstractly
  <2> DEFINE q == proc[p].req.q
             x == msgque[q].wwait /\ ~Valid(q, proc[p].seq)
  <2>1. msgque' = [msgque EXCEPT ![q].wwait = x]
    BY <1>11 DEF IntrLooks
  <2>2. q \in Queues
    <3>1. ProcOK(proc[p]) /\ proc[p].pc = "intr"
      BY <1>11, InvQueues DEF RoomIntr, Typed
    <3>2. proc[p].req \in Requests
      BY <3>1, ProcFacts
    <3>3. QED
      BY <3>2, RequestFacts
  <2> HIDE DEF q, x
  <2>3. UNCHANGED Promise!vars
    BY <2>1, <2>2, FlagSame
  <2>4. QED
    BY <2>3, AbstractSteps
<1>4. ASSUME NEW p \in Procs, RoomIntr(p) PROVE Abstractly
  BY <1>4, <1>10, <1>11 DEF RoomIntr
<1>5. ASSUME NEW p \in Procs, CopiedIn(p) PROVE Abstractly
  BY <1>5, CopiedInMaps, AbstractSteps
<1>6. ASSUME NEW p \in Procs, CopiedOut(p) PROVE Abstractly
  BY <1>6, CopiedOutMaps, AbstractSteps
<1>7. ASSUME NEW q \in Queues, Msgget(q) \/ Rmid(q) \/ Set(q) PROVE Abstractly
  BY <1>7, MsggetMaps, RmidMaps, SetMaps, AbstractSteps
<1>8. ASSUME UNCHANGED vars PROVE Abstractly
  BY <1>8, QuietMaps DEF vars
<1>9. QED
  BY <1>1, <1>2, <1>3, <1>4, <1>5, <1>6, <1>7, <1>8 DEF Next

LEMMA InitMaps == Init => Promise!Init
<1> SUFFICES ASSUME Init PROVE Promise!Init
  OBVIOUS
<1>1. \A q \in Queues : msgque[q].msgs = << >> /\ msgque[q].seq = 0 /\ msgque[q].alloc = FALSE
                        /\ msgque[q].qbytes = 0
  BY DEF Init
<1>2. Sent(<< >>) = << >>
  <2>1. << >> \in Seq(Message) /\ Len(<< >>) = 0
    OBVIOUS
  <2>2. Sent(<< >>) \in Seq(Sizes) /\ Len(Sent(<< >>)) = 0
    BY <2>1, SentFacts
  <2>3. QED
    BY <2>2
<1>3. QueueBar = [q \in Queues |-> << >>]
  BY <1>1, <1>2 DEF QueueBar
<1>4. MadeBar = [q \in Queues |-> 0]
  BY <1>1 DEF MadeBar, Count
<1>5. LimitBar \in [Queues -> AllLimits]
  BY <1>1 DEF LimitBar, AllLimits
<1>6. QED
  BY <1>3, <1>4, <1>5 DEF Promise!Init, QueueBar, MadeBar, LimitBar, AllLimits, Count

(* The queues are those of MessageQueues: whatever the interleaving of     *)
(* copying, sleeping, interrupts and removals, a queue changes only by a   *)
(* whole message that fits, the oldest of its type taken, or its removal.  *)
THEOREM QueuesImplemented == Spec => ImplementsMessageQueues
<1>1. Inv /\ [Next]_vars => [Promise!Next]_(Promise!vars)
  BY NextMaps DEF Abstractly
<1>2. QED
  BY <1>1, InitMaps, Invariance, PTL DEF Spec, ImplementsMessageQueues, Promise!Spec
================================================================================
