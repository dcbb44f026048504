------------------------------ MODULE SeqLemmas ------------------------------
(***************************************************************************)
(* Facts about sequences without repetition, which model the kernel's      *)
(* linked lists: adding at either end and unlinking in the middle.  Then   *)
(* induction on the natural numbers, for sets instead of predicates: that  *)
(* every n has a property is said by the set of those that have it.        *)
(***************************************************************************)
EXTENDS Integers, SequencesExt, SequenceTheorems, FiniteSetTheorems, TLAPS

(* Taking one place out of a sequence: what is left, and where. *)
LEMMA RemoveAtPlaces ==
    ASSUME NEW S, NEW s \in Seq(S), NEW i \in DOMAIN s
    PROVE  /\ RemoveAt(s, i) \in Seq(S) /\ Len(RemoveAt(s, i)) = Len(s) - 1
           /\ \A j \in 1..Len(RemoveAt(s, i)) :
                RemoveAt(s, i)[j] = IF j < i THEN s[j] ELSE s[j + 1]
<1> DEFINE r == RemoveAt(s, i)
           x == SubSeq(s, 1, i - 1)
           y == SubSeq(s, i + 1, Len(s))
<1>1. i \in 1..Len(s) /\ Len(s) \in Nat /\ DOMAIN s = 1..Len(s)
  OBVIOUS
<1>2. /\ x \in Seq(S) /\ Len(x) = i - 1
      /\ \A j \in 1..(i - 1) : x[j] = s[j]
  BY <1>1, SubSeqProperties
<1>3. /\ y \in Seq(S) /\ Len(y) = Len(s) - i
      /\ \A j \in 1..(Len(s) - i) : y[j] = s[i + j]
  BY <1>1, SubSeqProperties
<1>r. r = x \o y
  BY DEF RemoveAt
<1> HIDE DEF r, x, y
<1>4. /\ r \in Seq(S) /\ Len(r) = Len(s) - 1
      /\ \A j \in 1..Len(r) : r[j] = IF j < i THEN s[j] ELSE s[j + 1]
  <2>1. /\ r \in Seq(S) /\ Len(r) = Len(x) + Len(y)
        /\ \A j \in 1..(Len(x) + Len(y)) : r[j] = IF j <= Len(x) THEN x[j] ELSE y[j - Len(x)]
    BY <1>2, <1>3, <1>r, ConcatProperties
  <2>2. Len(r) = Len(s) - 1
    BY <1>1, <1>2, <1>3, <2>1
  <2>3. ASSUME NEW j \in 1..Len(r) PROVE r[j] = IF j < i THEN s[j] ELSE s[j + 1]
    <3>1. CASE j < i
      BY <1>1, <1>2, <1>3, <2>1, <2>2, <3>1
    <3>2. CASE ~(j < i)
      <4>1. j - Len(x) \in 1..(Len(s) - i) /\ i + (j - Len(x)) = j + 1
        BY <1>1, <1>2, <2>2, <3>2
      <4>2. r[j] = y[j - Len(x)]
        BY <1>1, <1>2, <1>3, <2>1, <2>2, <3>2
      <4>3. QED
        BY <1>3, <3>2, <4>1, <4>2
    <3>3. QED
      BY <3>1, <3>2
  <2>4. QED
    BY <2>1, <2>2, <2>3
<1>5. QED
  BY <1>4 DEF r

(* The same for a sequence without repetition. *)
LEMMA RemoveAtFacts ==
    ASSUME NEW S, NEW s \in Seq(S), IsInjective(s), NEW i \in DOMAIN s
    PROVE  /\ RemoveAt(s, i) \in Seq(S)
           /\ IsInjective(RemoveAt(s, i))
           /\ ToSet(RemoveAt(s, i)) = ToSet(s) \ {s[i]}
<1> DEFINE r == RemoveAt(s, i)
<1>1. i \in 1..Len(s) /\ Len(s) \in Nat /\ DOMAIN s = 1..Len(s)
  OBVIOUS
<1>4. /\ r \in Seq(S) /\ Len(r) = Len(s) - 1
      /\ \A j \in 1..Len(r) : r[j] = IF j < i THEN s[j] ELSE s[j + 1]
  BY RemoveAtPlaces
<1> HIDE DEF r
<1>5. IsInjective(r)
  <2>1. ASSUME NEW j \in 1..Len(r), NEW k \in 1..Len(r), r[j] = r[k] PROVE j = k
    <3>1. /\ (IF j < i THEN j ELSE j + 1) \in DOMAIN s
          /\ (IF k < i THEN k ELSE k + 1) \in DOMAIN s
      BY <1>1, <1>4
    <3>2. s[IF j < i THEN j ELSE j + 1] = s[IF k < i THEN k ELSE k + 1]
      BY <1>4, <2>1
    <3>3. (IF j < i THEN j ELSE j + 1) = (IF k < i THEN k ELSE k + 1)
      BY <3>1, <3>2 DEF IsInjective
    <3>4. QED
      BY <1>1, <1>4, <3>3
  <2>2. QED
    BY <1>4, <2>1 DEF IsInjective
<1>6. ToSet(r) = ToSet(s) \ {s[i]}
  <2>1. ASSUME NEW j \in DOMAIN r PROVE r[j] \in ToSet(s) \ {s[i]}
    BY <1>1, <1>4 DEF IsInjective, ToSet
  <2>2. ASSUME NEW j \in DOMAIN s, s[j] # s[i] PROVE s[j] \in ToSet(r)
    <3>1. CASE j < i
      BY <1>1, <1>4, <3>1 DEF ToSet
    <3>2. CASE j > i
      <4>1. j - 1 \in 1..Len(r) /\ r[j - 1] = s[j]
        BY <1>1, <1>4, <3>2
      <4>2. QED
        BY <1>4, <4>1 DEF ToSet
    <3>3. QED
      BY <1>1, <2>2, <3>1, <3>2
  <2>3. QED
    BY <2>1, <2>2 DEF ToSet
<1>7. QED
  BY <1>4, <1>5, <1>6 DEF r

(* Adding a new element at the end or at the head of such a sequence. *)
LEMMA AppendFacts ==
    ASSUME NEW S, NEW s \in Seq(S), NEW e \in S
    PROVE  /\ Append(s, e) \in Seq(S)
           /\ ToSet(Append(s, e)) = ToSet(s) \cup {e}
           /\ IsInjective(s) /\ e \notin ToSet(s) => IsInjective(Append(s, e))
  BY AppendProperties DEF ToSet, IsInjective

LEMMA ConsFacts ==
    ASSUME NEW S, NEW s \in Seq(S), NEW e \in S
    PROVE  /\ Cons(e, s) \in Seq(S)
           /\ ToSet(Cons(e, s)) = ToSet(s) \cup {e}
           /\ IsInjective(s) /\ e \notin ToSet(s) => IsInjective(Cons(e, s))
<1>1. /\ Cons(e, s) \in Seq(S) /\ Len(Cons(e, s)) = Len(s) + 1
      /\ \A j \in 1..(Len(s) + 1) : Cons(e, s)[j] = IF j = 1 THEN e ELSE s[j - 1]
  BY ConcatProperties DEF Cons
<1>2. ToSet(Cons(e, s)) = ToSet(s) \cup {e}
  <2>1. ASSUME NEW j \in 1..Len(s) PROVE s[j] = Cons(e, s)[j + 1] /\ j + 1 \in DOMAIN Cons(e, s)
    BY <1>1
  <2>2. e = Cons(e, s)[1] /\ 1 \in DOMAIN Cons(e, s)
    BY <1>1
  <2>3. ASSUME NEW j \in DOMAIN Cons(e, s), j # 1
        PROVE  Cons(e, s)[j] = s[j - 1] /\ j - 1 \in DOMAIN s
    BY <1>1, <2>3
  <2>4. DOMAIN s = 1..Len(s)
    OBVIOUS
  <2>5. QED
    BY <2>1, <2>2, <2>3, <2>4 DEF ToSet
<1>3. IsInjective(s) /\ e \notin ToSet(s) => IsInjective(Cons(e, s))
  BY <1>1 DEF IsInjective, ToSet
<1>4. QED
  BY <1>1, <1>2, <1>3

(* The rest of a non-empty sequence is the sequence without its first place. *)
LEMMA TailFacts ==
    ASSUME NEW S, NEW s \in Seq(S), s # << >>
    PROVE  Tail(s) \in Seq(S) /\ Head(s) \in S /\ Tail(s) = RemoveAt(s, 1)
           /\ Head(s) = s[1] /\ 1 \in DOMAIN s
<1>1. Len(s) \in Nat \ {0} /\ DOMAIN s = 1..Len(s)
  BY EmptySeq
<1>2. SubSeq(s, 1, 0) = << >> /\ SubSeq(s, 2, Len(s)) \in Seq(S)
  BY <1>1, SubSeqProperties
<1>3. Tail(s) = SubSeq(s, 2, Len(s))
  BY <1>1, SubSeqProperties, HeadTailProperties
<1>4. RemoveAt(s, 1) = SubSeq(s, 2, Len(s))
  BY <1>1, <1>2, ConcatEmptySeq DEF RemoveAt
<1>5. QED
  BY <1>1, <1>3, <1>4, HeadTailProperties
-----------------------------------------------------------------------------
(* A set that holds 0 and the successor of what it holds holds them all:   *)
(* of the numbers it lacks one would be the least, by the well-foundedness *)
(* of the inclusion of finite sets.                                        *)
LEMMA SetInduction ==
    ASSUME NEW S, 0 \in S, \A n \in S \cap Nat : n + 1 \in S
    PROVE  Nat \subseteq S
<1> SUFFICES ASSUME NEW m \in Nat \ S PROVE FALSE
  OBVIOUS
<1> DEFINE T == {0..k : k \in Nat \ S}
<1>1. PICK t \in T : \A u \in T : ~(<<u, t>> \in StrictSubsetOrdering(Nat))
  <2>1. IsWellFoundedOn(StrictSubsetOrdering(Nat), FiniteSubsetsOf(Nat))
    BY FS_StrictSubsetOrderingWellFounded
  <2>2. T \subseteq FiniteSubsetsOf(Nat)
    <3>1. ASSUME NEW k \in Nat PROVE IsFiniteSet(0..k) /\ 0..k \subseteq Nat
      BY FS_Interval
    <3>2. QED
      BY <3>1 DEF FiniteSubsetsOf
  <2>3. T # {}
    OBVIOUS
  <2> HIDE DEF T
  <2>4. QED
    BY ONLY <2>1, <2>2, <2>3, WFMin
<1>2. PICK k \in Nat \ S : t = 0..k
  OBVIOUS
<1>3. k # 0 /\ k - 1 \in Nat
  BY <1>2
<1>4. k - 1 \notin S
  <2>1. (k - 1) + 1 = k
    BY <1>2, <1>3
  <2>2. QED
    BY <1>2, <1>3, <2>1
<1>5. 0..(k - 1) \in T
  BY <1>3, <1>4
<1>6. <<0..(k - 1), t>> \in StrictSubsetOrdering(Nat)
  <2>1. k \notin 0..(k - 1) /\ k \in 0..k /\ 0..(k - 1) \subseteq 0..k /\ 0..k \subseteq Nat
    BY <1>2, <1>3
  <2>2. QED
    BY <1>2, <2>1 DEF StrictSubsetOrdering
<1>7. QED
  BY <1>1, <1>5, <1>6

(* The same for the numbers up to a bound. *)
LEMMA UpTo ==
    ASSUME NEW S, NEW m \in Nat, 0 \in S,
           \A n \in Nat : n < m /\ n \in S => n + 1 \in S
    PROVE  \A n \in 0..m : n \in S
<1> DEFINE T == S \cup {n \in Nat : n > m}
<1>1. 0 \in T
  OBVIOUS
<1>2. ASSUME NEW n \in T \cap Nat PROVE n + 1 \in T
  BY <1>2
<1>3. Nat \subseteq T
  <2> HIDE DEF T
  <2> QED
    BY <1>1, <1>2, SetInduction
<1>4. QED
  BY <1>3

(* A set of natural numbers has a least one. *)
LEMMA LeastFacts ==
    ASSUME NEW S \in SUBSET Nat, S # {}
    PROVE  Min(S) \in S /\ \A y \in S : Min(S) <= y
<1>1. \E x \in S : \A y \in S : x <= y
  <2> SUFFICES ASSUME \A x \in S : \E y \in S : ~(x <= y) PROVE FALSE
    OBVIOUS
  <2> DEFINE T == {n \in Nat : \A y \in S : n <= y}
  <2>1. 0 \in T
    OBVIOUS
  <2>2. ASSUME NEW n \in T \cap Nat PROVE n + 1 \in T
    <3>1. n \notin S
      BY <2>2
    <3>2. ASSUME NEW y \in S PROVE n + 1 <= y
      <4>1. n <= y /\ n # y /\ y \in Nat
        BY <2>2, <3>1
      <4>2. QED
        BY <4>1
    <3>3. QED
      BY <3>2
  <2>3. Nat \subseteq T
    <3> HIDE DEF T
    <3> QED
      BY <2>1, <2>2, SetInduction
  <2>4. PICK y \in S : TRUE
    OBVIOUS
  <2>5. y + 1 \in T
    BY <2>3
  <2>6. QED
    BY <2>4, <2>5
<1>2. QED
  BY <1>1 DEF Min

(* A recursive function exists: G[i] makes the i-th value from the one     *)
(* before.                                                                 *)
LEMMA IterationExists ==
    ASSUME NEW T, NEW x \in T, NEW m \in Nat, NEW G \in [1..m -> [T -> T]]
    PROVE  \E f \in [0..m -> T] : f[0] = x /\ \A i \in 1..m : f[i] = G[i][f[i - 1]]
<1> DEFINE Upto(n, f) == f[0] = x /\ \A i \in 1..n : f[i] = G[i][f[i - 1]]
           S == {n \in Nat : n <= m => \E f \in [0..n -> T] : Upto(n, f)}
<1>1. 0 \in S
  <2>1. [i \in 0..0 |-> x] \in [0..0 -> T]
    OBVIOUS
  <2>2. Upto(0, [i \in 0..0 |-> x])
    OBVIOUS
  <2>3. QED
    BY <2>1, <2>2
<1>2. ASSUME NEW n \in Nat, n < m, n \in S PROVE n + 1 \in S
  <2>1. PICK f \in [0..n -> T] : Upto(n, f)
    BY <1>2
  <2> DEFINE g == [i \in 0..(n + 1) |-> IF i <= n THEN f[i] ELSE G[n + 1][f[n]]]
  <2>2. G[n + 1] \in [T -> T] /\ f[n] \in T
    BY <1>2
  <2>3. g \in [0..(n + 1) -> T]
    BY <2>2
  <2>4. Upto(n + 1, g)
    <3>1. g[0] = x
      BY <2>1
    <3>2. ASSUME NEW i \in 1..(n + 1) PROVE g[i] = G[i][g[i - 1]]
      <4>1. CASE i <= n
        BY <2>1, <4>1
      <4>2. CASE i = n + 1
        BY <4>2
      <4>3. QED
        BY <4>1, <4>2
    <3>3. QED
      BY <3>1, <3>2
  <2> HIDE DEF g, Upto
  <2>5. \E h \in [0..(n + 1) -> T] : Upto(n + 1, h)
    BY <2>3, <2>4
  <2>6. QED
    BY <2>5
<1>3. m \in S
  <2> HIDE DEF S
  <2>1. \A n \in 0..m : n \in S
    BY <1>1, <1>2, UpTo
  <2>2. QED
    BY <2>1
<1>4. QED
  BY <1>3

(* A sequence without repetition is no longer than the set it is from. *)
LEMMA InjectiveLength ==
    ASSUME NEW S, IsFiniteSet(S), NEW s \in Seq(S), IsInjective(s)
    PROVE  Len(s) <= Cardinality(S) /\ Cardinality(S) \in Nat
<1>1. s \in Injection(1..Len(s), S) /\ Len(s) \in Nat
  BY DEF Injection
<1>2. Cardinality(1..Len(s)) <= Cardinality(S)
  BY <1>1, FS_Injection
<1>3. Cardinality(1..Len(s)) = Len(s)
  <2>1. Cardinality(1..Len(s)) = IF 1 > Len(s) THEN 0 ELSE Len(s) - 1 + 1
    BY <1>1, FS_Interval
  <2>2. QED
    BY <1>1, <2>1
<1>4. QED
  BY <1>2, <1>3, FS_CardinalityType
=============================================================================
