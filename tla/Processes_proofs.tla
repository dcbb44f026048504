--------------------------- MODULE Processes_proofs ---------------------------
(***************************************************************************)
(* Proofs about Processes: types, the family in its pointers, and that no  *)
(* process sleeps through a signal or misses a dead child.                 *)
(***************************************************************************)
EXTENDS Processes, SeqLemmas

(* What is at place i of a list, and behind its end. *)
At(s, i) == IF i \in DOMAIN s THEN s[i] ELSE Nobody

(* The children of p that its pointers lead to are s, one after the other. *)
Linked(P, p, s) ==
    /\ s \in Seq(Slot) /\ IsInjective(s)
    /\ P[p].child = At(s, 1)
    /\ \A i \in DOMAIN s : P[s[i]].parent = p /\ P[s[i]].sibling = At(s, i + 1)

-----------------------------------------------------------------------------
(* What an entry of the table is. *)
Entry ==
    [stat : {"none", "idl", "run", "sleep", "zomb"},
     sig : SUBSET Sig, hold : SUBSET (Sig \ {"KILL"}), chold : SUBSET (Sig \ {"KILL"}),
     wchan : Slot \cup {"u", "event", Nowhere}, snwake : BOOLEAN,
     parent : Slot \cup {Nobody}, child : Slot \cup {Nobody}, sibling : Slot \cup {Nobody}]

EntryOK(e) ==
    /\ (e.stat = "sleep") <=> (e.wchan # Nowhere)
    /\ e.snwake => e.stat = "sleep"
    /\ e.stat = "none" => e = Unused

Table(P) == P \in [Slot -> Entry] /\ \A q \in Slot : EntryOK(P[q])

(* The chains hold children only, and all of them, but those of proc[1] if *)
(* its forks may fail.                                                     *)
Family(P) ==
    /\ \A p \in Slot : Linked(P, p, Chain(P, p))
    /\ \A p \in Slot, q \in Slot :
        (p = InitProc => InitProc \notin MayFail) /\ P[q].parent = p => q \in Range(Chain(P, p))

(* Parents are there, proc[1] always, which nothing but SIGCLD is sent to. *)
Parents(P) ==
    /\ \A q \in Slot \ {InitProc} :
        P[q].stat # "none" =>
            P[q].parent \in Slot /\ P[P[q].parent].stat \in {"run", "sleep"}
    /\ P[InitProc].stat \in {"run", "sleep"} /\ P[InitProc].parent = Nobody
    /\ P[InitProc].sig \subseteq {"CLD"}
    /\ \A q \in Slot : P[q].parent # q

(* A child that is being made is on its parent's chain, at the head unless *)
(* proc[1] has adopted since, and there is one at a time.                  *)
Newborn(P) ==
    \A q \in Slot : P[q].stat = "idl" =>
        /\ q \in Range(Chain(P, P[q].parent))
        /\ P[q].parent # InitProc => P[P[q].parent].child = q
        /\ \A r \in Slot : P[r].stat = "idl" /\ P[r].parent = P[q].parent => r = q

(* What holds of q, which is not running, at place k of its program.       *)
Settled(P, q, k) ==
    /\ P[q].stat = "sleep" /\ ~P[q].snwake =>
        /\ P[q].sig \subseteq P[q].hold
        /\ k \in {"wait", "pause"}
        /\ k = "wait" => Zombies(P, q) = {} \/ "CLD" \in P[q].hold
    /\ P[q].snwake => k \in {"fork", "exit"}
    /\ k = "exit" => q # InitProc
    /\ k # "user" => P[q].stat \in {"run", "sleep"}
    /\ (k = "fork") <=> (\E r \in Slot : P[r].stat = "idl" /\ P[r].parent = q)

Wellformed(P) == Table(P) /\ Family(P) /\ Parents(P) /\ Newborn(P)

(* The same, but for dead children it has not been told of. *)
Placed(P, q, k) ==
    /\ P[q].stat = "sleep" /\ ~P[q].snwake => P[q].sig \subseteq P[q].hold /\ k \in {"wait", "pause"}
    /\ P[q].snwake => k \in {"fork", "exit"}
    /\ k = "exit" => q # InitProc
    /\ k # "user" => P[q].stat \in {"run", "sleep"}
    /\ (k = "fork") <=> (\E r \in Slot : P[r].stat = "idl" /\ P[r].parent = q)

Acting ==
    /\ u_signal \in [Slot -> [Sig -> Disposition]]
    /\ init_at \in {"main", "childeath", "reaped", "spawning"}

Inv ==
    /\ Acting
    /\ pc \in [Slot -> {"user", "trap", "fork", "wait", "pause", "exit"}]
    /\ Wellformed(proc)
    /\ \A q \in Slot : Settled(proc, q, pc[q])

LEMMA ChainIs ==
    ASSUME NEW P, NEW p \in Slot, NEW s, Linked(P, p, s)
    PROVE  Chain(P, p) = s
<1> DEFINE N == Cardinality(Slot)
           Step(c) == [i \in 0..N |->
                          IF i = 0 THEN P[p].child
                          ELSE IF c[i - 1] = Nobody THEN Nobody ELSE P[c[i - 1]].sibling]
           c == CHOOSE c : c = Step(c)
           g == [i \in 0..N |-> At(s, i + 1)]
<1>1. /\ s \in Seq(Slot) /\ Len(s) \in Nat /\ DOMAIN s = 1..Len(s)
      /\ Len(s) <= N /\ N \in Nat /\ Nobody \notin Slot
  BY InjectiveLength, ProcAssumption DEF Linked
<1>2. g = Step(g)
  <2>1. ASSUME NEW i \in 0..N PROVE g[i] = Step(g)[i]
    <3>1. CASE i = 0
      BY <1>1, <3>1 DEF Linked
    <3>2. CASE i # 0
      <4>1. i - 1 \in 0..N /\ g[i - 1] = At(s, i) /\ g[i] = At(s, i + 1)
        BY <1>1, <3>2
      <4>2. CASE i \in DOMAIN s
        <5>1. s[i] \in Slot /\ P[s[i]].sibling = At(s, i + 1)
          BY <1>1, <4>2 DEF Linked
        <5>2. g[i - 1] = s[i] /\ s[i] # Nobody
          BY <1>1, <4>1, <4>2, <5>1 DEF At
        <5>3. QED
          BY <3>2, <4>1, <5>1, <5>2
      <4>3. CASE i \notin DOMAIN s
        <5>1. g[i - 1] = Nobody /\ At(s, i + 1) = Nobody
          BY <1>1, <3>2, <4>1, <4>3 DEF At
        <5>2. QED
          BY <3>2, <4>1, <5>1
      <4>4. QED
        BY <4>2, <4>3
    <3>3. QED
      BY <3>1, <3>2
  <2>2. QED
    BY <2>1
<1>3. c = Step(c)
  <2> HIDE DEF g, Step
  <2> QED
    BY <1>2
<1> HIDE DEF c
<1>e. /\ \A i \in 0..N : c[i] = Step(c)[i]
      /\ \A i \in 0..N : g[i] = Step(g)[i]
  <2> HIDE DEF Step, g
  <2> QED
    BY <1>2, <1>3
<1>4. \A i \in 0..N : c[i] = g[i]
  <2> DEFINE S == {i \in Nat : i <= N => c[i] = g[i]}
  <2>1. 0 \in S
    <3>1. 0 \in 0..N
      BY <1>1
    <3>2. c[0] = Step(c)[0] /\ g[0] = Step(g)[0]
      BY ONLY <1>e, <3>1
    <3>3. QED
      BY <3>1, <3>2
  <2>2. ASSUME NEW i \in Nat, i < N, i \in S PROVE i + 1 \in S
    <3>1. i + 1 \in 0..N
      BY <1>1, <2>2
    <3>2. c[i + 1] = Step(c)[i + 1] /\ g[i + 1] = Step(g)[i + 1]
      BY ONLY <1>e, <3>1
    <3>3. c[i] = g[i]
      BY <1>1, <2>2
    <3> HIDE DEF g
    <3>4. c[i + 1] = g[i + 1]
      BY <3>1, <3>2, <3>3
    <3>5. QED
      BY <3>4
  <2>3. \A i \in 0..N : i \in S
    <3> HIDE DEF S
    <3> QED
      BY <1>1, <2>1, <2>2, UpTo
  <2>4. QED
    BY <1>1, <2>3
<1>5. {i \in 0..N : c[i] # Nobody} = 0..(Len(s) - 1)
  BY <1>1, <1>4 DEF At
<1>6. Cardinality(0..(Len(s) - 1)) = Len(s)
  <2>1. 0 \in Int /\ Len(s) - 1 \in Int
    BY <1>1
  <2>2. Cardinality(0..(Len(s) - 1)) = IF 0 > Len(s) - 1 THEN 0 ELSE (Len(s) - 1) - 0 + 1
    BY ONLY <2>1, FS_Interval
  <2>3. QED
    BY <1>1, <2>2
<1>7. [i \in 1..Len(s) |-> c[i - 1]] = s
  BY <1>1, <1>4 DEF At
<1>8. Chain(P, p) = [i \in 1..Cardinality({i \in 0..N : c[i] # Nobody}) |-> c[i - 1]]
  BY DEF Chain, c
<1>9. QED
  BY <1>5, <1>6, <1>7, <1>8

LEMMA ChainFacts ==
    ASSUME NEW P, Family(P), NEW p \in Slot
    PROVE  /\ Linked(P, p, Chain(P, p))
           /\ Chain(P, p) \in Seq(Slot) /\ IsInjective(Chain(P, p))
           /\ \A q \in Range(Chain(P, p)) : q \in Slot /\ P[q].parent = p
           /\ P[p].child = Nobody => Chain(P, p) = << >>
           /\ P[p].child # Nobody => P[p].child \in Range(Chain(P, p))
<1> DEFINE s == Chain(P, p)
<1>1. Linked(P, p, s)
  BY DEF Family
<1> HIDE DEF s
<1>2. s \in Seq(Slot) /\ IsInjective(s) /\ DOMAIN s = 1..Len(s) /\ Len(s) \in Nat
  BY <1>1 DEF Linked
<1>3. \A q \in Range(s) : q \in Slot /\ P[q].parent = p
  BY <1>1, <1>2 DEF Linked, Range
<1>4. P[p].child = Nobody => s = << >>
  <2> SUFFICES ASSUME s # << >> PROVE P[p].child # Nobody
    OBVIOUS
  <2>1. 1 \in DOMAIN s /\ s[1] \in Slot
    BY <1>2, EmptySeq
  <2>2. QED
    BY <1>1, <2>1, ProcAssumption DEF Linked, At
<1>5. P[p].child # Nobody => P[p].child \in Range(s)
  BY <1>1 DEF Linked, At, Range
<1>6. QED
  BY <1>1, <1>2, <1>3, <1>4, <1>5 DEF s

(* Who neither runs nor sleeps has no children. *)
LEMMA Childless ==
    ASSUME NEW P, Wellformed(P), NEW q \in Slot, P[q].stat \notin {"run", "sleep"}
    PROVE  /\ q # InitProc /\ Chain(P, q) = << >> /\ P[q].child = Nobody
           /\ \A r \in Slot : P[r].parent # q
<1>1. q # InitProc
  BY DEF Wellformed, Parents
<1>2. ASSUME NEW r \in Slot, P[r].parent = q PROVE FALSE
  <2>1. r # InitProc
    BY <1>2, ProcAssumption DEF Wellformed, Parents
  <2>2. P[r].stat # "none"
    <3>1. EntryOK(P[r])
      BY DEF Wellformed, Table
    <3>2. Unused.parent = Nobody
      BY DEF Unused
    <3>3. QED
      BY <1>2, <3>1, <3>2, ProcAssumption DEF EntryOK
  <2>3. QED
    BY <1>2, <2>1, <2>2 DEF Wellformed, Parents
<1>3. P[q].child = Nobody
  BY <1>2, ChainFacts DEF Wellformed
<1>4. QED
  BY <1>1, <1>2, <1>3, ChainFacts DEF Wellformed

(* What is linked stays so when the pointers that link it do. *)
LEMMA LinkedStays ==
    ASSUME NEW P, NEW Q, NEW p, NEW s, Linked(P, p, s), Q[p].child = P[p].child,
           \A q \in Range(s) : Q[q].parent = P[q].parent /\ Q[q].sibling = P[q].sibling
    PROVE  Linked(Q, p, s)
  BY DEF Linked, Range

LEMMA SamePointers ==
    ASSUME NEW P, NEW Q, Family(P),
           \A q \in Slot : /\ Q[q].parent = P[q].parent /\ Q[q].child = P[q].child
                           /\ Q[q].sibling = P[q].sibling
    PROVE  Family(Q) /\ \A p \in Slot : Chain(Q, p) = Chain(P, p)
<1>1. ASSUME NEW p \in Slot PROVE Linked(Q, p, Chain(P, p)) /\ Chain(Q, p) = Chain(P, p)
  <2>1. Linked(Q, p, Chain(P, p))
    BY ChainFacts, LinkedStays
  <2>2. QED
    BY <2>1, ChainIs
<1>2. QED
  BY <1>1 DEF Family

LEMMA FirstDeadFacts ==
    ASSUME NEW P, Family(P), NEW p \in Slot, Zombies(P, p) # {}
    PROVE  FirstDead(P, p) \in Zombies(P, p)
<1> DEFINE s == Chain(P, p)
           D == {i \in DOMAIN s : s[i] \in Zombies(P, p)}
<1>1. s \in Seq(Slot) /\ DOMAIN s = 1..Len(s) /\ Len(s) \in Nat
  BY ChainFacts
<1>2. D \in SUBSET Nat /\ D # {}
  BY <1>1 DEF Zombies, Range
<1>3. Min(D) \in D
  <2> HIDE DEF D
  <2> QED
    BY <1>2, LeastFacts
<1>4. QED
  BY <1>3 DEF FirstDead

(* Two entries differ in their pointers to the child and the sibling only. *)
SameButLinks(e, f) ==
    /\ e.stat = f.stat /\ e.sig = f.sig /\ e.hold = f.hold /\ e.chold = f.chold
    /\ e.wchan = f.wchan /\ e.snwake = f.snwake /\ e.parent = f.parent

(* freeproc() of the i-th child of p: what becomes of the entries. *)
LEMMA FreeprocIs ==
    ASSUME NEW P, Wellformed(P), NEW p \in Slot, NEW i \in DOMAIN Chain(P, p)
    PROVE  LET s == Chain(P, p)
               q == s[i]
               Q == Freeproc(P, q)
           IN  /\ q \in Slot /\ P[q].parent = p
               /\ Q \in [Slot -> Entry] /\ Q[q] = Unused
               /\ \A r \in Slot \ {q} :
                    /\ SameButLinks(Q[r], P[r])
                    /\ Q[r].child = IF i = 1 /\ r = p THEN P[q].sibling ELSE P[r].child
                    /\ Q[r].sibling = IF i # 1 /\ r = s[i - 1] THEN P[q].sibling
                                      ELSE P[r].sibling
<1> DEFINE s == Chain(P, p)
           q == s[i]
           Q == Freeproc(P, q)
           before == CHOOSE x \in Range(s) : P[x].sibling = q
<1>1. /\ s \in Seq(Slot) /\ IsInjective(s) /\ Linked(P, p, s)
      /\ DOMAIN s = 1..Len(s) /\ Len(s) \in Nat
      /\ P \in [Slot -> Entry] /\ Nobody \notin Slot
  BY ChainFacts, ProcAssumption DEF Wellformed, Table
<1> HIDE DEF s
<1>2. q \in Slot /\ P[q].parent = p /\ (P[p].child = q <=> i = 1)
  <2>1. q \in Slot /\ P[q].parent = p /\ 1 \in DOMAIN s
    BY <1>1 DEF Linked, s
  <2>2. P[p].child = s[1]
    BY <1>1, <2>1 DEF Linked, At
  <2>3. QED
    BY <1>1, <2>1, <2>2 DEF IsInjective, s
<1>3. CASE i = 1
  <2>1. Q = [P EXCEPT ![p].child = P[q].sibling, ![q] = Unused]
    BY <1>2, <1>3 DEF Freeproc
  <2>2. Unused \in Entry /\ P[q].sibling \in Slot \cup {Nobody}
    BY <1>1, <1>2 DEF Unused, Entry
  <2> HIDE DEF Q, q
  <2>3. Q \in [Slot -> Entry] /\ Q[q] = Unused
    BY <1>1, <1>2, <2>1, <2>2 DEF Entry
  <2>4. ASSUME NEW r \in Slot \ {q}
        PROVE  /\ SameButLinks(Q[r], P[r]) /\ Q[r].sibling = P[r].sibling
               /\ Q[r].child = IF r = p THEN P[q].sibling ELSE P[r].child
    BY <1>1, <1>2, <2>1 DEF Entry, SameButLinks
  <2>5. QED
    BY <1>2, <1>3, <2>3, <2>4 DEF s, q, Q
<1>4. CASE i # 1
  <2>1. i - 1 \in DOMAIN s /\ P[s[i - 1]].sibling = q /\ s[i - 1] \in Range(s)
    BY <1>1, <1>4 DEF Linked, At, Range, s
  <2>2. ASSUME NEW x \in Range(s), P[x].sibling = q PROVE x = s[i - 1]
    <3>1. PICK j \in DOMAIN s : x = s[j]
      BY DEF Range
    <3>2. At(s, j + 1) = q
      BY <1>1, <2>2, <3>1 DEF Linked
    <3>3. j + 1 \in DOMAIN s
      BY <1>1, <1>2, <3>2 DEF At
    <3>4. j + 1 = i
      BY <1>1, <3>2, <3>3 DEF At, IsInjective, s
    <3>5. QED
      BY <1>1, <3>1, <3>4
  <2>3. before = s[i - 1]
    BY <2>1, <2>2
  <2>4. Q = [P EXCEPT ![before].sibling = P[q].sibling, ![q] = Unused]
    BY <1>2, <1>4 DEF Freeproc, s
  <2>5. Unused \in Entry /\ P[q].sibling \in Slot \cup {Nobody}
    BY <1>1, <1>2 DEF Unused, Entry
  <2> HIDE DEF Q, q, before
  <2>6. before \in Slot
    BY <1>1, <2>1, <2>3
  <2>7. Q \in [Slot -> Entry] /\ Q[q] = Unused
    BY <1>1, <1>2, <2>4, <2>5, <2>6 DEF Entry
  <2>8. ASSUME NEW r \in Slot \ {q}
        PROVE  /\ SameButLinks(Q[r], P[r]) /\ Q[r].child = P[r].child
               /\ Q[r].sibling = IF r = before THEN P[q].sibling ELSE P[r].sibling
    BY <1>1, <1>2, <2>4, <2>6 DEF Entry, SameButLinks
  <2>9. QED
    BY <1>2, <1>4, <2>3, <2>7, <2>8 DEF s, q, Q
<1>5. QED
  BY <1>3, <1>4

(* It takes the child out of the chain, and nothing else changes. *)
LEMMA FreeprocFacts ==
    ASSUME NEW P, Wellformed(P), NEW p \in Slot, NEW q \in Zombies(P, p),
           NEW Q, Q = Freeproc(P, q)
    PROVE  /\ Wellformed(Q) /\ Q[q] = Unused
           /\ \A r \in Slot \ {q} : SameButLinks(Q[r], P[r])
           /\ \A r \in Slot \ {p} : Chain(Q, r) = Chain(P, r)
           /\ Range(Chain(Q, p)) = Range(Chain(P, p)) \ {q}
<1> DEFINE s == Chain(P, p)
<1>1. /\ s \in Seq(Slot) /\ IsInjective(s) /\ Linked(P, p, s)
      /\ DOMAIN s = 1..Len(s) /\ Len(s) \in Nat
      /\ P \in [Slot -> Entry] /\ Nobody \notin Slot
  BY ChainFacts, ProcAssumption DEF Wellformed, Table
<1>2. PICK i \in DOMAIN s : s[i] = q
  BY DEF Zombies, Range
<1>3. q \in Slot /\ P[q].parent = p /\ P[q].stat = "zomb" /\ q # p
  <2>1. q \in Slot /\ P[q].parent = p /\ P[q].stat = "zomb"
    BY FreeprocIs, <1>2 DEF Zombies
  <2>2. \A r \in Slot : P[r].parent # q
    BY <2>1, Childless
  <2>3. QED
    BY <2>1, <2>2
<1>4. /\ Q \in [Slot -> Entry] /\ Q[q] = Unused
      /\ \A r \in Slot \ {q} :
           /\ SameButLinks(Q[r], P[r])
           /\ Q[r].child = IF i = 1 /\ r = p THEN P[q].sibling ELSE P[r].child
           /\ Q[r].sibling = IF i # 1 /\ r = s[i - 1] THEN P[q].sibling ELSE P[r].sibling
  BY FreeprocIs, <1>2
<1> DEFINE t == RemoveAt(s, i)
<1> HIDE DEF s
<1>5. /\ t \in Seq(Slot) /\ Len(t) = Len(s) - 1
      /\ \A j \in 1..Len(t) : t[j] = IF j < i THEN s[j] ELSE s[j + 1]
  BY <1>1, RemoveAtPlaces
<1>6. IsInjective(t) /\ Range(t) = Range(s) \ {q}
  BY <1>1, <1>2, RemoveAtFacts DEF ToSet, Range
<1> HIDE DEF t
<1>7. \A j \in Nat \ {0} : At(t, j) = IF j < i THEN At(s, j) ELSE At(s, j + 1)
  BY <1>1, <1>5 DEF At
<1>8. P[p].child = At(s, 1) /\ P[q].sibling = At(s, i + 1)
  BY <1>1, <1>2 DEF Linked
<1>9. Linked(Q, p, t)
  <2>1. Q[p].child = At(t, 1)
    <3>1. Q[p].child = IF i = 1 THEN At(s, 2) ELSE At(s, 1)
      BY <1>3, <1>4, <1>8
    <3>2. At(t, 1) = IF 1 < i THEN At(s, 1) ELSE At(s, 2)
      BY <1>7
    <3>3. QED
      BY <1>1, <3>1, <3>2
  <2>2. ASSUME NEW j \in DOMAIN t PROVE Q[t[j]].parent = p /\ Q[t[j]].sibling = At(t, j + 1)
    <3>0. j \in 1..Len(t) /\ j \in Nat \ {0} /\ t[j] \in Slot /\ t[j] \in Range(t)
      BY <1>5 DEF Range
    <3>1. /\ t[j] \in Range(s) /\ t[j] # q /\ j \in Nat \ {0} /\ t[j] \in Slot
          /\ t[j] = IF j < i THEN s[j] ELSE s[j + 1]
      BY <1>5, <1>6, <3>0
    <3>2. Q[t[j]].parent = p
      <4>1. P[t[j]].parent = p
        BY <1>1, <3>1 DEF Linked, Range
      <4>2. QED
        BY <1>4, <3>1, <4>1 DEF SameButLinks
    <3>3. At(t, j + 1) = IF j + 1 < i THEN At(s, j + 1) ELSE At(s, j + 2)
      BY <1>7, <3>1
    <3>4. CASE j < i
      <4>1. t[j] = s[j] /\ j \in DOMAIN s /\ P[s[j]].sibling = At(s, j + 1)
        BY <1>1, <3>1, <3>4 DEF Linked
      <4>2. i # 1 /\ i - 1 \in DOMAIN s /\ (s[j] = s[i - 1] <=> j = i - 1)
        BY <1>1, <3>1, <3>4, <4>1 DEF IsInjective
      <4>3. Q[t[j]].sibling = IF j = i - 1 THEN At(s, i + 1) ELSE At(s, j + 1)
        BY <1>4, <1>8, <3>1, <4>1, <4>2
      <4>4. Q[t[j]].sibling = At(t, j + 1)
        <5>1. CASE j = i - 1
          <6>1. ~(j + 1 < i) /\ j + 2 = i + 1
            BY <1>1, <5>1
          <6>2. QED
            BY <3>3, <4>3, <5>1, <6>1
        <5>2. CASE j # i - 1
          <6>1. j + 1 < i
            BY <1>1, <3>1, <3>4, <5>2
          <6>2. QED
            BY <3>3, <4>3, <5>2, <6>1
        <5>3. QED
          BY <5>1, <5>2
      <4>5. QED
        BY <3>2, <4>4
    <3>5. CASE ~(j < i)
      <4>1. t[j] = s[j + 1] /\ j + 1 \in DOMAIN s /\ P[s[j + 1]].sibling = At(s, j + 2)
        BY <1>1, <1>5, <3>1, <3>5 DEF Linked
      <4>2. i # 1 => i - 1 \in DOMAIN s /\ s[j + 1] # s[i - 1]
        BY <1>1, <3>1, <3>5, <4>1 DEF IsInjective
      <4>3. Q[t[j]].sibling = At(s, j + 2)
        BY <1>4, <3>1, <4>1, <4>2
      <4>4. ~(j + 1 < i)
        BY <1>1, <3>1, <3>5
      <4>5. QED
        BY <3>2, <3>3, <4>3, <4>4
    <3>6. QED
      BY <3>2, <3>4, <3>5
  <2>3. QED
    BY <1>5, <1>6, <2>1, <2>2 DEF Linked
<1>10. Chain(Q, p) = t
  BY <1>9, ChainIs
<1>11. ASSUME NEW r \in Slot \ {p} PROVE Linked(Q, r, Chain(P, r)) /\ Chain(Q, r) = Chain(P, r)
  <2>1. Linked(Q, r, Chain(P, r))
    <3>1. Linked(P, r, Chain(P, r)) /\ \A x \in Range(Chain(P, r)) : x \in Slot /\ P[x].parent = r
      BY ChainFacts DEF Wellformed
    <3>2. ASSUME NEW x \in Range(Chain(P, r))
          PROVE  Q[x].parent = P[x].parent /\ Q[x].sibling = P[x].sibling
      <4>1. x \in Slot \ {q}
        BY <1>3, <3>1
      <4>2. i # 1 => P[s[i - 1]].parent = p
        BY <1>1 DEF Linked
      <4>3. QED
        BY <1>4, <3>1, <4>1, <4>2 DEF SameButLinks
    <3>3. Q[r].child = P[r].child
      <4>1. CASE r = q
        <5>1. P[q].child = Nobody
          BY <1>3, Childless
        <5>2. QED
          BY <1>4, <4>1, <5>1 DEF Unused
      <4>2. CASE r # q
        BY <1>4, <4>2
      <4>3. QED
        BY <4>1, <4>2
    <3>4. QED
      BY <3>1, <3>2, <3>3, LinkedStays
  <2>2. QED
    BY <2>1, ChainIs
<1>12. Range(Chain(Q, p)) = Range(Chain(P, p)) \ {q}
  BY <1>6, <1>10 DEF s
<1>13. Table(Q)
  <2>1. ASSUME NEW r \in Slot PROVE EntryOK(Q[r])
    <3>1. EntryOK(P[r])
      BY DEF Wellformed, Table
    <3>2. CASE r = q
      BY <1>4, <3>2 DEF EntryOK, Unused
    <3>3. CASE r # q
      <4>1. Q[r] \in Entry /\ P[r] \in Entry /\ SameButLinks(Q[r], P[r])
        BY <1>1, <1>4, <3>3
      <4>2. P[r].stat = "none" => Q[r].child = P[r].child /\ Q[r].sibling = P[r].sibling
        <5> SUFFICES ASSUME P[r].stat = "none"
                     PROVE  Q[r].child = P[r].child /\ Q[r].sibling = P[r].sibling
          OBVIOUS
        <5>1. P[r].parent = Nobody
          BY <3>1 DEF EntryOK, Unused
        <5>2. r # p
          BY <1>3, Childless
        <5>3. i # 1 => r # s[i - 1]
          BY <1>1, <5>1, ProcAssumption DEF Linked
        <5>4. QED
          BY <1>4, <3>3, <5>2, <5>3
      <4>3. QED
        BY <3>1, <4>1, <4>2 DEF EntryOK, SameButLinks, Unused, Entry
    <3>4. QED
      BY <3>2, <3>3
  <2>2. QED
    BY <1>4, <2>1 DEF Table
<1>14. Family(Q)
  <2>1. ASSUME NEW r \in Slot PROVE Linked(Q, r, Chain(Q, r))
    BY <1>9, <1>10, <1>11
  <2>2. ASSUME NEW r \in Slot, NEW x \in Slot, r = InitProc => InitProc \notin MayFail,
               Q[x].parent = r
        PROVE  x \in Range(Chain(Q, r))
    <3>1. x # q /\ P[x].parent = r
      BY <1>4, <2>2, ProcAssumption DEF SameButLinks, Unused
    <3>2. x \in Range(Chain(P, r))
      BY <2>2, <3>1 DEF Wellformed, Family
    <3>3. QED
      BY <1>11, <1>12, <3>1, <3>2
  <2>3. QED
    BY <2>1, <2>2 DEF Family
<1>15. Parents(Q)
  <2>1. \A r \in Slot \ {q} : Q[r].stat = P[r].stat /\ Q[r].parent = P[r].parent /\ Q[r].sig = P[r].sig
    BY <1>4 DEF SameButLinks
  <2>2. /\ InitProc # q /\ Q[q].stat = "none" /\ Q[q].parent = Nobody
        /\ \A r \in Slot : P[r].parent # q
    BY <1>3, <1>4, Childless DEF Unused
  <2>3. Parents(P)
    BY DEF Wellformed
  <2>4. \A r \in Slot : Q[r].parent # r
    BY <1>3, <2>1, <2>2, <2>3, ProcAssumption DEF Parents
  <2>5. QED
    BY <2>1, <2>2, <2>3, <2>4, ProcAssumption DEF Parents
<1>16. Newborn(Q)
  <2> SUFFICES ASSUME NEW x \in Slot, Q[x].stat = "idl"
               PROVE  /\ x \in Range(Chain(Q, Q[x].parent))
                      /\ Q[x].parent # InitProc => Q[Q[x].parent].child = x
                      /\ \A r \in Slot : Q[r].stat = "idl" /\ Q[r].parent = Q[x].parent => r = x
    BY DEF Newborn
  <2>1. x # q /\ P[x].stat = "idl" /\ Q[x].parent = P[x].parent
    BY <1>4 DEF SameButLinks, Unused
  <2>2. /\ x \in Range(Chain(P, P[x].parent))
        /\ P[x].parent # InitProc => P[P[x].parent].child = x
        /\ \A r \in Slot : P[r].stat = "idl" /\ P[r].parent = P[x].parent => r = x
    BY <2>1 DEF Wellformed, Newborn
  <2>3. P[x].parent \in Slot /\ P[x].parent # q
    <3>1. x # InitProc
      BY <2>1 DEF Wellformed, Parents
    <3>2. P[x].parent \in Slot
      BY <2>1, <3>1 DEF Wellformed, Parents
    <3>3. QED
      BY <1>3, <3>2, Childless
  <2>4. x \in Range(Chain(Q, P[x].parent))
    BY <1>11, <1>12, <2>1, <2>2, <2>3
  <2>5. P[x].parent # InitProc => Q[P[x].parent].child = x
    <3> SUFFICES ASSUME P[x].parent # InitProc PROVE Q[P[x].parent].child = x
      OBVIOUS
    <3>1. i = 1 => P[p].child = q
      BY <1>1, <1>2, <1>8 DEF At
    <3>2. QED
      BY <1>4, <2>1, <2>2, <2>3, <3>1
  <2>6. \A r \in Slot : Q[r].stat = "idl" /\ Q[r].parent = P[x].parent => r = x
    BY <1>4, <2>2 DEF SameButLinks, Unused
  <2>7. QED
    BY <2>1, <2>4, <2>5, <2>6
<1>17. QED
  BY <1>4, <1>11, <1>12, <1>13, <1>14, <1>15, <1>16 DEF Wellformed

LEMMA ZombiesFinite ==
    ASSUME NEW P, Family(P), NEW p \in Slot
    PROVE  /\ Zombies(P, p) \subseteq Slot /\ IsFiniteSet(Zombies(P, p))
           /\ Cardinality(Zombies(P, p)) \in Nat
           /\ Cardinality(Zombies(P, p)) = 0 <=> Zombies(P, p) = {}
<1>1. Zombies(P, p) \subseteq Slot
  BY ChainFacts DEF Zombies
<1>2. IsFiniteSet(Zombies(P, p))
  BY <1>1, FS_Subset, ProcAssumption
<1>3. QED
  BY <1>1, <1>2, FS_CardinalityType, FS_EmptySet

(* Some of the dead children of p have been given back. *)
Freed(P, Q, p) ==
    /\ \A r \in Slot : \/ SameButLinks(Q[r], P[r])
                       \/ r \in Zombies(P, p) /\ Q[r] = Unused
    /\ \A r \in Slot \ {p} : Chain(Q, r) = Chain(P, r)
    /\ Range(Chain(Q, p)) \subseteq Range(Chain(P, p))

LEMMA FreedMore ==
    ASSUME NEW P, Family(P), NEW p \in Slot, NEW Q, Wellformed(Q), Freed(P, Q, p),
           NEW q \in Zombies(Q, p)
    PROVE  /\ Wellformed(Freeproc(Q, q)) /\ Freed(P, Freeproc(Q, q), p)
           /\ Zombies(Freeproc(Q, q), p) = Zombies(Q, p) \ {q}
<1> DEFINE R == Freeproc(Q, q)
<1>1. /\ Wellformed(R) /\ R[q] = Unused
      /\ \A r \in Slot \ {q} : SameButLinks(R[r], Q[r])
      /\ \A r \in Slot \ {p} : Chain(R, r) = Chain(Q, r)
      /\ Range(Chain(R, p)) = Range(Chain(Q, p)) \ {q}
  BY FreeprocFacts
<1> HIDE DEF R
<1>2. q \in Slot /\ q \in Range(Chain(Q, p)) /\ Q[q].stat = "zomb" /\ Family(Q)
  BY ChainFacts DEF Zombies, Wellformed
<1>3. q \in Zombies(P, p)
  BY <1>2, ProcAssumption DEF Freed, Zombies, SameButLinks, Unused
<1>4. \A r \in Slot : SameButLinks(R[r], P[r]) \/ (r \in Zombies(P, p) /\ R[r] = Unused)
  <2> SUFFICES ASSUME NEW r \in Slot, r # q
               PROVE  SameButLinks(R[r], P[r]) \/ (r \in Zombies(P, p) /\ R[r] = Unused)
    BY <1>1, <1>3
  <2>1. SameButLinks(R[r], Q[r])
    BY <1>1
  <2>2. CASE SameButLinks(Q[r], P[r])
    BY <2>1, <2>2 DEF SameButLinks
  <2>3. CASE r \in Zombies(P, p) /\ Q[r] = Unused
    <3>1. R[r].stat = "none"
      BY <2>1, <2>3 DEF SameButLinks, Unused
    <3>2. R[r] = Unused
      BY <1>1, <3>1 DEF Wellformed, Table, EntryOK
    <3>3. QED
      BY <2>3, <3>2
  <2>4. QED
    BY <2>2, <2>3 DEF Freed
<1>5. \A r \in Range(Chain(Q, p)) : r \in Slot
  BY <1>2, ChainFacts
<1>6. Zombies(R, p) = Zombies(Q, p) \ {q}
  BY <1>1, <1>5 DEF Zombies, SameButLinks
<1>7. QED
  BY <1>1, <1>4, <1>6 DEF Freed, R

(* What the loop of issig() leaves: every dead child of p is given back.   *)
LEMMA FreeprocAllFacts ==
    ASSUME NEW P, Wellformed(P), NEW p \in Slot
    PROVE  /\ Wellformed(FreeprocAll(P, p)) /\ Freed(P, FreeprocAll(P, p), p)
           /\ Zombies(FreeprocAll(P, p), p) = {}
<1> DEFINE n == Cardinality(Zombies(P, p))
           T == [Slot -> Entry]
           G == [R \in T |-> IF Wellformed(R) /\ Zombies(R, p) # {}
                             THEN Freeproc(R, FirstDead(R, p)) ELSE R]
           Step(f) == [i \in 0..n |-> IF i = 0 THEN P
                                      ELSE Freeproc(f[i - 1], FirstDead(f[i - 1], p))]
           Done(R, i) == Wellformed(R) /\ Freed(P, R, p) /\ Cardinality(Zombies(R, p)) = n - i
<1>1. Family(P) /\ P \in T /\ n \in Nat
  BY ZombiesFinite DEF Wellformed, Table
<1>2. ASSUME NEW R \in T, Wellformed(R), Zombies(R, p) # {}
      PROVE  /\ FirstDead(R, p) \in Zombies(R, p) /\ G[R] = Freeproc(R, FirstDead(R, p))
             /\ Wellformed(Freeproc(R, FirstDead(R, p)))
  <2>1. FirstDead(R, p) \in Zombies(R, p)
    BY <1>2, FirstDeadFacts DEF Wellformed
  <2>2. Wellformed(Freeproc(R, FirstDead(R, p)))
    BY <1>2, <2>1, FreeprocFacts
  <2>3. QED
    BY <1>2, <2>1, <2>2
<1>3. G \in [T -> T]
  <2> SUFFICES ASSUME NEW R \in T PROVE G[R] \in T
    OBVIOUS
  <2>1. CASE Wellformed(R) /\ Zombies(R, p) # {}
    <3>1. G[R] = Freeproc(R, FirstDead(R, p)) /\ Wellformed(Freeproc(R, FirstDead(R, p)))
      BY <1>2, <2>1
    <3> HIDE DEF G
    <3>2. QED
      BY <3>1 DEF Wellformed, Table
  <2>2. CASE ~(Wellformed(R) /\ Zombies(R, p) # {})
    BY <2>2
  <2>3. QED
    BY <2>1, <2>2
<1> HIDE DEF G
<1>4. PICK g \in [0..n -> T] : g[0] = P /\ \A i \in 1..n : g[i] = G[g[i - 1]]
  <2> DEFINE H == [i \in 1..n |-> G]
  <2>1. H \in [1..n -> [T -> T]]
    BY <1>3
  <2>2. \A i \in 1..n : H[i] = G
    OBVIOUS
  <2> HIDE DEF H, T, n
  <2>3. \E g \in [0..n -> T] : g[0] = P /\ \A i \in 1..n : g[i] = H[i][g[i - 1]]
    BY <1>1, <2>1, IterationExists
  <2>4. QED
    BY <2>2, <2>3
<1> HIDE DEF n
<1>5. ASSUME NEW i \in Nat, i < n, Done(g[i], i)
      PROVE  Done(g[i + 1], i + 1) /\ g[i + 1] = Freeproc(g[i], FirstDead(g[i], p))
  <2>1. i + 1 \in 1..n /\ (i + 1) - 1 = i /\ i \in 0..n
    BY <1>1, <1>5
  <2>2. g[i] \in T /\ g[i + 1] = G[g[i]]
    <3>1. g[i + 1] = G[g[(i + 1) - 1]]
      BY ONLY <1>4, <2>1
    <3>2. QED
      BY <1>4, <2>1, <3>1
  <2>3. Zombies(g[i], p) # {} /\ IsFiniteSet(Zombies(g[i], p))
    <3>1. n - i # 0
      BY <1>1, <1>5
    <3>2. QED
      BY <1>5, <3>1, ZombiesFinite DEF Wellformed
  <2> DEFINE q == FirstDead(g[i], p)
  <2>4. q \in Zombies(g[i], p) /\ g[i + 1] = Freeproc(g[i], q)
    BY <1>2, <1>5, <2>2, <2>3
  <2> HIDE DEF q
  <2>5. /\ Wellformed(g[i + 1]) /\ Freed(P, g[i + 1], p)
        /\ Zombies(g[i + 1], p) = Zombies(g[i], p) \ {q}
    BY <1>1, <1>5, <2>4, FreedMore
  <2>6. Cardinality(Zombies(g[i + 1], p)) = (n - i) - 1
    BY <1>5, <2>3, <2>4, <2>5, FS_RemoveElement
  <2>7. (n - i) - 1 = n - (i + 1)
    BY <1>1, <1>5
  <2>8. QED
    BY <2>4, <2>5, <2>6, <2>7 DEF q
<1>6. Done(g[0], 0)
  <2>1. Freed(P, P, p)
    BY DEF Freed, SameButLinks
  <2>2. Cardinality(Zombies(P, p)) = n - 0
    BY <1>1 DEF n
  <2>3. QED
    BY <1>4, <2>1, <2>2
<1>7. \A i \in 0..n : Done(g[i], i)
  <2> DEFINE S == {i \in Nat : Done(g[i], i)}
  <2> HIDE DEF Done
  <2>1. 0 \in S /\ \A i \in Nat : i < n /\ i \in S => i + 1 \in S
    BY <1>5, <1>6
  <2>2. \A i \in 0..n : i \in S
    <3> HIDE DEF S
    <3> QED
      BY <1>1, <2>1, UpTo
  <2>3. QED
    BY <2>2
<1>8. g = Step(g)
  <2>1. ASSUME NEW i \in 0..n PROVE g[i] = Step(g)[i]
    <3>1. CASE i = 0
      BY <1>4, <3>1
    <3>2. CASE i # 0
      <4>1. i - 1 \in Nat /\ i - 1 < n /\ i - 1 \in 0..n /\ (i - 1) + 1 = i
        BY <1>1, <3>2
      <4>2. g[(i - 1) + 1] = Freeproc(g[i - 1], FirstDead(g[i - 1], p))
        BY <1>5, <1>7, <4>1
      <4>3. QED
        BY <3>2, <4>1, <4>2
    <3>3. QED
      BY <3>1, <3>2
  <2>2. QED
    BY <1>4, <2>1
<1> DEFINE f == CHOOSE f : f = Step(f)
<1>9. f = Step(f)
  <2> HIDE DEF Step
  <2> QED
    BY <1>8
<1> HIDE DEF f
<1>10. \A i \in 0..n : f[i] = g[i]
  <2>1. /\ \A i \in 0..n : f[i] = Step(f)[i]
        /\ \A i \in 0..n : g[i] = Step(g)[i]
    <3> HIDE DEF Step
    <3> QED
      BY <1>8, <1>9
  <2> DEFINE S == {i \in Nat : f[i] = g[i]}
  <2>2. 0 \in S
    <3>1. 0 \in 0..n
      BY <1>1
    <3>2. f[0] = Step(f)[0] /\ g[0] = Step(g)[0]
      BY ONLY <2>1, <3>1
    <3>3. QED
      BY <3>1, <3>2
  <2>3. ASSUME NEW i \in Nat, i < n, i \in S PROVE i + 1 \in S
    <3>1. i + 1 \in 0..n /\ i + 1 # 0 /\ (i + 1) - 1 = i
      BY <1>1, <2>3
    <3>2. f[i + 1] = Step(f)[i + 1] /\ g[i + 1] = Step(g)[i + 1]
      BY ONLY <2>1, <3>1
    <3>3. f[i] = g[i]
      BY <2>3
    <3>4. f[i + 1] = g[i + 1]
      BY <3>1, <3>2, <3>3
    <3>5. QED
      BY <3>4
  <2>4. \A i \in 0..n : i \in S
    <3> HIDE DEF S
    <3> QED
      BY <1>1, <2>2, <2>3, UpTo
  <2>5. QED
    BY <2>4
<1>11. FreeprocAll(P, p) = f[n]
  BY DEF FreeprocAll, f, n
<1>12. n \in 0..n /\ Done(g[n], n)
  BY <1>1, <1>7
<1>13. Zombies(g[n], p) = {}
  <2>1. Cardinality(Zombies(g[n], p)) = 0
    BY <1>1, <1>12
  <2>2. QED
    BY <1>12, <2>1, ZombiesFinite DEF Wellformed
<1>14. QED
  BY <1>10, <1>11, <1>12, <1>13
-----------------------------------------------------------------------------
(* Between two sleeps: p runs and is not making a child, and the others    *)
(* are settled where they are.                                             *)
Good(P, p) ==
    /\ Wellformed(P)
    /\ P[p].stat = "run"
    /\ \A r \in Slot : ~(P[r].stat = "idl" /\ P[r].parent = p)
    /\ \A q \in Slot \ {p} : Settled(P, q, pc[q])

(* A process stays settled when nothing that counts for it changes.        *)
LEMMA SettledStays ==
    ASSUME NEW P, NEW Q, NEW q \in Slot, NEW k, Settled(P, q, k),
           Q[q].stat = P[q].stat, Q[q].snwake = P[q].snwake,
           Q[q].sig = P[q].sig, Q[q].hold = P[q].hold,
           Zombies(Q, q) \subseteq Zombies(P, q),
           \A r \in Slot : (Q[r].stat = "idl" /\ Q[r].parent = q)
                           <=> (P[r].stat = "idl" /\ P[r].parent = q)
    PROVE  Settled(Q, q, k)
  BY DEF Settled

(* Signals of p that are cleared, held or released. *)
LEMMA GoodLocal ==
    ASSUME NEW p \in Slot, NEW P, Good(P, p), NEW Q \in [Slot -> Entry],
           \A r \in Slot \ {p} : Q[r] = P[r],
           Q[p].stat = P[p].stat, Q[p].wchan = P[p].wchan, Q[p].snwake = P[p].snwake,
           Q[p].parent = P[p].parent, Q[p].child = P[p].child, Q[p].sibling = P[p].sibling,
           p = InitProc => Q[p].sig \subseteq {"CLD"}
    PROVE  Good(Q, p) /\ \A q \in Slot : Zombies(Q, q) = Zombies(P, q)
<1>1. \A r \in Slot : /\ Q[r].stat = P[r].stat /\ Q[r].parent = P[r].parent
                      /\ Q[r].child = P[r].child /\ Q[r].sibling = P[r].sibling
  OBVIOUS
<1>2. Family(Q) /\ \A q \in Slot : Chain(Q, q) = Chain(P, q)
  <2>1. Family(P)
    BY DEF Good, Wellformed
  <2>2. \A q \in Slot : /\ Q[q].parent = P[q].parent /\ Q[q].child = P[q].child
                        /\ Q[q].sibling = P[q].sibling
    BY ONLY <1>1
  <2>3. QED
    BY ONLY <2>1, <2>2, SamePointers
<1>3. ASSUME NEW q \in Slot PROVE Zombies(Q, q) = Zombies(P, q)
  <2>1. \A r \in Range(Chain(P, q)) : r \in Slot
    BY ChainFacts DEF Good, Wellformed
  <2>2. QED
    BY <1>1, <1>2, <2>1 DEF Zombies
<1>4. Table(Q)
  <2>1. EntryOK(Q[p])
    BY DEF Good, Wellformed, Table, EntryOK
  <2>2. QED
    BY <2>1 DEF Good, Wellformed, Table
<1>5. Parents(Q)
  BY <1>1, ProcAssumption DEF Good, Wellformed, Parents
<1>6. Newborn(Q)
  <2> SUFFICES ASSUME NEW x \in Slot, Q[x].stat = "idl"
               PROVE  /\ x \in Range(Chain(Q, Q[x].parent))
                      /\ Q[x].parent # InitProc => Q[Q[x].parent].child = x
                      /\ \A r \in Slot : Q[r].stat = "idl" /\ Q[r].parent = Q[x].parent => r = x
    BY DEF Newborn
  <2>1. P[x].stat = "idl" /\ Q[x].parent = P[x].parent /\ Q[x].parent \in Slot
    BY <1>1 DEF Good, Wellformed, Parents
  <2>2. QED
    BY <1>1, <1>2, <2>1 DEF Good, Wellformed, Newborn
<1>7. ASSUME NEW q \in Slot \ {p} PROVE Settled(Q, q, pc[q])
  <2>1. Settled(P, q, pc[q])
    BY DEF Good
  <2>2. QED
    BY <1>1, <1>3, <2>1, SettledStays
<1>8. QED
  BY <1>1, <1>2, <1>3, <1>4, <1>5, <1>6, <1>7 DEF Good, Wellformed

(* Dead children of p that are given back. *)
LEMMA GoodFreed ==
    ASSUME NEW p \in Slot, NEW P, Good(P, p), NEW Q, Wellformed(Q), Freed(P, Q, p)
    PROVE  Good(Q, p) /\ SameButLinks(Q[p], P[p])
<1>1. \A r \in Slot : P[r].stat # "zomb" => SameButLinks(Q[r], P[r])
  BY DEF Freed, Zombies
<1>2. SameButLinks(Q[p], P[p]) /\ Q[p].stat = "run"
  BY <1>1 DEF Good, SameButLinks
<1>3. ASSUME NEW q, NEW r \in Slot
      PROVE  (Q[r].stat = "idl" /\ Q[r].parent = q) <=> (P[r].stat = "idl" /\ P[r].parent = q)
  <2>1. CASE P[r].stat = "zomb"
    BY <2>1 DEF Freed, SameButLinks, Unused
  <2>2. CASE P[r].stat # "zomb"
    BY <1>1, <2>2 DEF SameButLinks
  <2>3. QED
    BY <2>1, <2>2
<1>4. ASSUME NEW q \in Slot \ {p} PROVE Settled(Q, q, pc[q])
  <2>1. Settled(P, q, pc[q])
    BY DEF Good
  <2>2. CASE SameButLinks(Q[q], P[q])
    <3>1. Zombies(Q, q) \subseteq Zombies(P, q)
      <4>1. Chain(Q, q) = Chain(P, q) /\ \A r \in Range(Chain(P, q)) : r \in Slot
        BY ChainFacts DEF Freed, Good, Wellformed
      <4>2. \A r \in Slot : Q[r].stat = "zomb" => P[r].stat = "zomb"
        BY DEF Freed, SameButLinks, Unused
      <4>3. QED
        BY <4>1, <4>2 DEF Zombies
    <3>2. QED
      BY <1>3, <2>1, <2>2, <3>1, SettledStays DEF SameButLinks
  <2>3. CASE q \in Zombies(P, p) /\ Q[q] = Unused
    <3>1. P[q].stat = "zomb" /\ Q[q].stat = "none" /\ ~Q[q].snwake
      BY <2>3 DEF Zombies, Unused
    <3>2. pc[q] = "user"
      BY <2>1, <3>1 DEF Settled
    <3>3. \A r \in Slot : ~(Q[r].stat = "idl" /\ Q[r].parent = q)
      BY <1>3, <2>1, <3>2 DEF Settled
    <3>4. QED
      BY <3>1, <3>2, <3>3 DEF Settled
  <2>4. QED
    BY <2>2, <2>3 DEF Freed
<1>5. QED
  BY <1>2, <1>3, <1>4 DEF Good

(* issig() leaves a good table, without the signals it has passed over.  It *)
(* tells of no signal only if none is left that is not held.               *)
LEMMA IssigFacts ==
    ASSUME NEW p \in Slot, NEW P, Good(P, p), NEW r, r = Issig(P, p)
    PROVE  /\ Good(r.proc, p)
           /\ r.proc[p].hold = P[p].hold /\ r.proc[p].sig \subseteq P[p].sig
           /\ r.proc[p].chold = P[p].chold
           /\ Zombies(P, p) = {} => Zombies(r.proc, p) = {}
           /\ r.sig = "none" => r.proc[p].sig \subseteq r.proc[p].hold
           /\ r.sig # "none" => r.sig \in P[p].sig \ P[p].hold /\ Acts(p, r.sig)
<1> DEFINE pending == {i \in DOMAIN Signals : Signals[i] \in P[p].sig \ P[p].hold}
           acting == {i \in pending : Acts(p, Signals[i])}
           first == IF acting = {} THEN "none" ELSE Signals[Min(acting)]
           passed == {Signals[i] : i \in {k \in pending : \A j \in acting : k < j}}
           N == [P EXCEPT ![p].sig = @ \ passed]
           Q == IF "CLD" \in passed /\ u_signal[p]["CLD"] = "ign" THEN FreeprocAll(N, p) ELSE N
<1>1. r = [sig |-> first, proc |-> Q]
  BY DEF Issig
<1>2. /\ \A i \in DOMAIN Signals : Signals[i] # "none" /\ i \in Nat
      /\ Sig = Range(Signals)
  BY ProcAssumption DEF Sig
<1>3. P \in [Slot -> Entry] /\ P[p] \in Entry /\ P[p].sig \subseteq Sig
  BY DEF Good, Wellformed, Table, Entry
<1>4. first = "none" => P[p].sig \ passed \subseteq P[p].hold
  <2> SUFFICES ASSUME first = "none", NEW s \in P[p].sig, s \notin P[p].hold PROVE s \in passed
    BY DEF passed
  <2>1. PICK i \in DOMAIN Signals : Signals[i] = s
    BY <1>2, <1>3 DEF Range
  <2>2. acting = {}
    <3> SUFFICES ASSUME acting # {} PROVE FALSE
      OBVIOUS
    <3>1. acting \in SUBSET Nat
      BY <1>2
    <3>2. Min(acting) \in acting
      <4> HIDE DEF acting
      <4> QED
        BY <3>1, LeastFacts
    <3>3. first # "none"
      BY <1>2, <3>2
    <3>4. QED
      BY <3>3
  <2>3. QED
    BY <2>1, <2>2
<1>5. first # "none" => first \in P[p].sig \ P[p].hold /\ Acts(p, first)
  <2> SUFFICES ASSUME first # "none" PROVE first \in P[p].sig \ P[p].hold /\ Acts(p, first)
    OBVIOUS
  <2>1. acting \in SUBSET Nat /\ acting # {} /\ first = Signals[Min(acting)]
    BY <1>2
  <2>2. Min(acting) \in acting
    <3> HIDE DEF acting
    <3> QED
      BY <2>1, LeastFacts
  <2>3. QED
    BY <2>1, <2>2
<1> HIDE DEF first, passed
<1>6. /\ N \in [Slot -> Entry] /\ N[p].sig = P[p].sig \ passed
      /\ N[p].hold = P[p].hold /\ N[p].chold = P[p].chold
      /\ Good(N, p) /\ \A q \in Slot : Zombies(N, q) = Zombies(P, q)
  <2>1. N \in [Slot -> Entry]
    BY <1>3 DEF Entry
  <2>2. /\ \A q \in Slot \ {p} : N[q] = P[q]
        /\ N[p].stat = P[p].stat /\ N[p].wchan = P[p].wchan /\ N[p].snwake = P[p].snwake
        /\ N[p].parent = P[p].parent /\ N[p].child = P[p].child /\ N[p].sibling = P[p].sibling
        /\ N[p].sig = P[p].sig \ passed /\ N[p].hold = P[p].hold /\ N[p].chold = P[p].chold
    BY <1>3 DEF Entry
  <2>3. p = InitProc => N[p].sig \subseteq {"CLD"}
    BY <2>2 DEF Good, Wellformed, Parents
  <2> HIDE DEF N
  <2>4. Good(N, p) /\ \A q \in Slot : Zombies(N, q) = Zombies(P, q)
    BY <2>1, <2>2, <2>3, GoodLocal
  <2>5. QED
    BY <2>1, <2>2, <2>4
<1> HIDE DEF N
<1>7. /\ Good(Q, p) /\ SameButLinks(Q[p], N[p])
      /\ Zombies(N, p) = {} => Zombies(Q, p) = {}
  <2>1. CASE Q = N
    BY <1>6, <2>1 DEF SameButLinks
  <2>2. CASE Q = FreeprocAll(N, p)
    <3>1. Wellformed(N)
      BY <1>6 DEF Good
    <3>2. Wellformed(Q) /\ Freed(N, Q, p) /\ Zombies(Q, p) = {}
      BY <2>2, <3>1, FreeprocAllFacts
    <3>3. QED
      BY <1>6, <3>2, GoodFreed
  <2>3. QED
    BY <2>1, <2>2
<1>8. r.proc = Q /\ r.sig = first
  BY <1>1
<1> HIDE DEF Q
<1>9. QED
  BY <1>4, <1>5, <1>6, <1>7, <1>8 DEF SameButLinks
-----------------------------------------------------------------------------
(* The steps.  What p does from a good table, and the place it goes to.    *)
LEMMA ReturnsToInv ==
    ASSUME Inv, Acting', NEW p \in Slot, NEW P, Good(P, p),
           NEW k \in {"user", "trap"}, Goes(p, P, k)
    PROVE  Inv'
<1>1. proc' = P /\ pc' = [pc EXCEPT ![p] = k]
  BY DEF Goes
<1>2. pc' \in [Slot -> {"user", "trap", "fork", "wait", "pause", "exit"}]
  BY <1>1 DEF Inv
<1>3. Settled(P, p, k)
  BY DEF Good, Settled, Wellformed, Table, EntryOK
<1>4. ASSUME NEW q \in Slot PROVE Settled(P, q, pc'[q])
  BY <1>1, <1>3 DEF Good, Inv
<1>5. (\A q \in Slot : Settled(proc, q, pc[q]))'
  BY <1>1, <1>4 DEF Settled
<1>6. Wellformed(proc)'
  BY <1>1 DEF Good
<1>7. QED
  BY <1>2, <1>5, <1>6 DEF Inv

(* A table with the same pointers, where who was alive is alive. *)
LEMMA SameFamily ==
    ASSUME NEW P, NEW Q, Wellformed(P), Table(Q), Q[InitProc].sig \subseteq {"CLD"},
           \A r \in Slot : /\ Q[r].parent = P[r].parent /\ Q[r].child = P[r].child
                           /\ Q[r].sibling = P[r].sibling
                           /\ \/ Q[r].stat = P[r].stat
                              \/ {Q[r].stat, P[r].stat} \subseteq {"run", "sleep"}
    PROVE  /\ Wellformed(Q)
           /\ \A q \in Slot : Chain(Q, q) = Chain(P, q) /\ Zombies(Q, q) = Zombies(P, q)
<1>1. \A r \in Slot : Q[r].parent = P[r].parent /\ Q[r].child = P[r].child
                      /\ Q[r].sibling = P[r].sibling
  OBVIOUS
<1>2. \A r \in Slot : \/ Q[r].stat = P[r].stat
                      \/ Q[r].stat \in {"run", "sleep"} /\ P[r].stat \in {"run", "sleep"}
  OBVIOUS
<1>3. Family(Q) /\ \A q \in Slot : Chain(Q, q) = Chain(P, q)
  <2>1. Family(P)
    BY DEF Wellformed
  <2>2. QED
    BY ONLY <2>1, <1>1, SamePointers
<1>4. ASSUME NEW q \in Slot PROVE Zombies(Q, q) = Zombies(P, q)
  <2>1. \A r \in Range(Chain(P, q)) : r \in Slot
    BY ChainFacts DEF Wellformed
  <2>2. \A r \in Slot : Q[r].stat = "zomb" <=> P[r].stat = "zomb"
    BY <1>2
  <2>3. QED
    BY <1>3, <2>1, <2>2 DEF Zombies
<1>5. Parents(Q)
  <2>1. \A r \in Slot : /\ Q[r].stat = "none" <=> P[r].stat = "none"
                        /\ Q[r].stat \in {"run", "sleep"} <=> P[r].stat \in {"run", "sleep"}
    BY <1>2
  <2>2. Parents(P)
    BY DEF Wellformed
  <2>3. QED
    BY <1>1, <2>1, <2>2, ProcAssumption DEF Parents
<1>6. Newborn(Q)
  <2> SUFFICES ASSUME NEW x \in Slot, Q[x].stat = "idl"
               PROVE  /\ x \in Range(Chain(Q, Q[x].parent))
                      /\ Q[x].parent # InitProc => Q[Q[x].parent].child = x
                      /\ \A r \in Slot : Q[r].stat = "idl" /\ Q[r].parent = Q[x].parent => r = x
    BY DEF Newborn
  <2>1. P[x].stat = "idl" /\ Q[x].parent = P[x].parent
    BY <1>1, <1>2
  <2>2. P[x].parent \in Slot
    BY <2>1 DEF Wellformed, Parents
  <2>3. \A r \in Slot : Q[r].stat = "idl" => P[r].stat = "idl"
    BY <1>2
  <2>4. QED
    BY <1>1, <1>3, <2>1, <2>2, <2>3 DEF Wellformed, Newborn
<1>7. QED
  BY <1>3, <1>4, <1>5, <1>6 DEF Wellformed

(* The same for one entry, of a process that runs or sleeps.  The others   *)
(* stay settled.                                                           *)
LEMMA OneEntry ==
    ASSUME NEW P, Wellformed(P), NEW p \in Slot, NEW Q \in [Slot -> Entry],
           \A r \in Slot \ {p} : Q[r] = P[r],
           Q[p].parent = P[p].parent, Q[p].child = P[p].child, Q[p].sibling = P[p].sibling,
           \/ Q[p].stat = P[p].stat
           \/ Q[p].stat \in {"run", "sleep"} /\ P[p].stat \in {"run", "sleep"},
           EntryOK(Q[p]), p = InitProc => Q[p].sig \subseteq {"CLD"}
    PROVE  /\ Wellformed(Q)
           /\ \A q \in Slot : Chain(Q, q) = Chain(P, q) /\ Zombies(Q, q) = Zombies(P, q)
           /\ \A q \in Slot, r \in Slot :
                (Q[r].stat = "idl" /\ Q[r].parent = q) <=> (P[r].stat = "idl" /\ P[r].parent = q)
           /\ \A q \in Slot \ {p} : \A k : Settled(P, q, k) => Settled(Q, q, k)
<1>1. Table(Q)
  BY DEF Wellformed, Table
<1>2. Q[InitProc].sig \subseteq {"CLD"}
  BY ProcAssumption DEF Wellformed, Parents
<1>3. \A r \in Slot : /\ Q[r].parent = P[r].parent /\ Q[r].child = P[r].child
                      /\ Q[r].sibling = P[r].sibling
                      /\ \/ Q[r].stat = P[r].stat
                         \/ {Q[r].stat, P[r].stat} \subseteq {"run", "sleep"}
  OBVIOUS
<1>4. /\ Wellformed(Q)
      /\ \A q \in Slot : Chain(Q, q) = Chain(P, q) /\ Zombies(Q, q) = Zombies(P, q)
  BY ONLY Wellformed(P), <1>1, <1>2, <1>3, SameFamily
<1>5. \A q \in Slot, r \in Slot :
        (Q[r].stat = "idl" /\ Q[r].parent = q) <=> (P[r].stat = "idl" /\ P[r].parent = q)
  BY <1>3
<1>6. ASSUME NEW q \in Slot \ {p}, NEW k, Settled(P, q, k) PROVE Settled(Q, q, k)
  BY <1>4, <1>5, <1>6, SettledStays
<1>7. QED
  BY <1>4, <1>5, <1>6

(* p goes to a place where it is settled. *)
LEMMA GoesToInv ==
    ASSUME Inv, Acting', NEW p \in Slot, NEW Q, Wellformed(Q),
           NEW k \in {"user", "trap", "fork", "wait", "pause", "exit"}, Goes(p, Q, k),
           Settled(Q, p, k), \A q \in Slot \ {p} : Settled(Q, q, pc[q])
    PROVE  Inv'
<1>1. proc' = Q /\ pc' = [pc EXCEPT ![p] = k]
  BY DEF Goes
<1>2. pc' \in [Slot -> {"user", "trap", "fork", "wait", "pause", "exit"}]
  BY <1>1 DEF Inv
<1>3. ASSUME NEW q \in Slot PROVE Settled(Q, q, pc'[q])
  BY <1>1 DEF Inv
<1>4. (\A q \in Slot : Settled(proc, q, pc[q]))'
  BY <1>1, <1>3 DEF Settled
<1>5. QED
  BY <1>1, <1>2, <1>4 DEF Inv

LEMMA SleepToInv ==
    ASSUME Inv, Acting', NEW p \in Slot, NEW P, Good(P, p),
           NEW k \in {"wait", "pause"}, NEW ch \in Slot \cup {"u"},
           k = "wait" => Zombies(P, p) = {}, Sleep(p, P, ch, k)
    PROVE  Inv'
<1> DEFINE r == Issig(P, p)
           Q == Asleep(r.proc, p, ch)
<1>1. /\ Good(r.proc, p) /\ r.proc[p].hold = P[p].hold
      /\ Zombies(P, p) = {} => Zombies(r.proc, p) = {}
      /\ r.sig = "none" => r.proc[p].sig \subseteq r.proc[p].hold
  BY IssigFacts
<1> HIDE DEF r
<1>2. CASE r.sig # "none"
  BY <1>1, <1>2, ReturnsToInv DEF Sleep, r
<1>3. CASE r.sig = "none"
  <2>1. Goes(p, Q, k)
    BY <1>3 DEF Sleep, r
  <2>2. /\ r.proc \in [Slot -> Entry] /\ Wellformed(r.proc) /\ r.proc[p].stat = "run"
        /\ ~r.proc[p].snwake /\ \A q \in Slot \ {p} : Settled(r.proc, q, pc[q])
    BY <1>1 DEF Good, Wellformed, Table, EntryOK
  <2>3. /\ Q \in [Slot -> Entry] /\ \A q \in Slot \ {p} : Q[q] = r.proc[q]
        /\ Q[p].parent = r.proc[p].parent /\ Q[p].child = r.proc[p].child
        /\ Q[p].sibling = r.proc[p].sibling /\ Q[p].sig = r.proc[p].sig
        /\ Q[p].hold = r.proc[p].hold /\ ~Q[p].snwake
        /\ Q[p].stat = "sleep" /\ Q[p].wchan = ch /\ ch # Nowhere
    <3> DEFINE R == r.proc
    <3>1. R \in [Slot -> Entry] /\ ~R[p].snwake
      BY <2>2
    <3>2. Q = [R EXCEPT ![p].stat = "sleep", ![p].wchan = ch]
      BY DEF Asleep
    <3>3. ch # Nowhere
      BY ProcAssumption
    <3> HIDE DEF R, Q
    <3>4. R[p] \in Entry
      BY <3>1
    <3>5. Q[p] = [R[p] EXCEPT !.stat = "sleep", !.wchan = ch]
      BY <3>1, <3>2
    <3>6. Q[p] \in Entry
      BY <3>4, <3>5 DEF Entry
    <3>7. Q \in [Slot -> Entry] /\ \A q \in Slot \ {p} : Q[q] = R[q]
      BY <3>1, <3>2, <3>6
    <3>8. QED
      BY <3>1, <3>3, <3>4, <3>5, <3>7 DEF R, Entry
  <2> HIDE DEF Q
  <2>4. EntryOK(Q[p]) /\ (p = InitProc => Q[p].sig \subseteq {"CLD"})
    BY <2>2, <2>3 DEF EntryOK, Wellformed, Parents
  <2>5. /\ Wellformed(Q) /\ Zombies(Q, p) = Zombies(r.proc, p)
        /\ \A x \in Slot : (Q[x].stat = "idl" /\ Q[x].parent = p)
                           <=> (r.proc[x].stat = "idl" /\ r.proc[x].parent = p)
        /\ \A q \in Slot \ {p} : \A n : Settled(r.proc, q, n) => Settled(Q, q, n)
    BY <2>2, <2>3, <2>4, OneEntry
  <2>6. Settled(Q, p, k)
    BY <1>1, <1>3, <2>3, <2>5 DEF Settled, Good
  <2>7. QED
    BY <2>1, <2>2, <2>5, <2>6, GoesToInv
<1>4. QED
  BY <1>2, <1>3

(* psignal(): nothing but the one entry changes, and a process that is told *)
(* of a dead child is settled.                                             *)
LEMMA PsignalFacts ==
    ASSUME NEW P, Wellformed(P), NEW q \in Slot, NEW s \in Sig,
           P[q].stat # "none", q = InitProc => s = "CLD", NEW Q, Q = Psignal(P, q, s)
    PROVE  /\ Wellformed(Q) /\ \A r \in Slot \ {q} : Q[r] = P[r]
           /\ Q[q].parent = P[q].parent /\ Q[q].child = P[q].child
           /\ Q[q].stat = P[q].stat \/ {Q[q].stat, P[q].stat} \subseteq {"run", "sleep"}
           /\ P[q].stat = "run" => Q[q].stat = "run"
           /\ \A r \in Slot : Chain(Q, r) = Chain(P, r) /\ Zombies(Q, r) = Zombies(P, r)
           /\ \A r \in Slot, x \in Slot :
                (Q[x].stat = "idl" /\ Q[x].parent = r) <=> (P[x].stat = "idl" /\ P[x].parent = r)
           /\ \A r \in Slot \ {q} : \A k : Settled(P, r, k) => Settled(Q, r, k)
           /\ \A k : Settled(P, q, k) => Settled(Q, q, k)
           /\ \A k : s = "CLD" /\ Placed(P, q, k) => Settled(Q, q, k)
<1> DEFINE N == [P EXCEPT ![q].sig = @ \cup {s}]
           wakes == P[q].stat = "sleep" /\ ~P[q].snwake /\ s \notin P[q].hold
<1>1. P \in [Slot -> Entry] /\ P[q] \in Entry /\ EntryOK(P[q])
  BY DEF Wellformed, Table
<1>2. /\ N \in [Slot -> Entry] /\ \A r \in Slot \ {q} : N[r] = P[r]
      /\ N[q] = [P[q] EXCEPT !.sig = @ \cup {s}]
  <2>1. [P[q] EXCEPT !.sig = @ \cup {s}] \in Entry
    BY <1>1 DEF Entry
  <2>2. QED
    BY <1>1, <2>1
<1> HIDE DEF N
<1>3. N[q].stat = P[q].stat /\ N[q].snwake = P[q].snwake /\ N[q].hold = P[q].hold
  BY <1>1, <1>2 DEF Entry
<1>4. Q = IF wakes THEN [N EXCEPT ![q].stat = "run", ![q].wchan = Nowhere] ELSE N
  BY <1>3 DEF Psignal, Setrun, N
<1>5. /\ Q \in [Slot -> Entry] /\ \A r \in Slot \ {q} : Q[r] = P[r]
      /\ Q[q].parent = P[q].parent /\ Q[q].child = P[q].child /\ Q[q].sibling = P[q].sibling
      /\ Q[q].sig = P[q].sig \cup {s} /\ Q[q].hold = P[q].hold /\ Q[q].snwake = P[q].snwake
      /\ Q[q].stat = IF wakes THEN "run" ELSE P[q].stat
      /\ Q[q].wchan = IF wakes THEN Nowhere ELSE P[q].wchan
  <2>1. CASE wakes
    <3>1. Q[q] = [N[q] EXCEPT !.stat = "run", !.wchan = Nowhere]
      BY <1>2, <1>4, <2>1
    <3>a. N[q] \in Entry
      BY <1>2
    <3>2. N[q] \in Entry /\ Q[q] \in Entry
      BY <3>1, <3>a DEF Entry
    <3>3. Q \in [Slot -> Entry] /\ \A r \in Slot \ {q} : Q[r] = P[r]
      BY <1>2, <1>4, <2>1, <3>2
    <3>4. QED
      BY <1>1, <1>2, <2>1, <3>1, <3>2, <3>3 DEF Entry
  <2>2. CASE ~wakes
    BY <1>1, <1>2, <1>4, <2>2 DEF Entry
  <2>3. QED
    BY <2>1, <2>2
<1>6. EntryOK(Q[q])
  BY <1>1, <1>5 DEF EntryOK
<1>7. q = InitProc => Q[q].sig \subseteq {"CLD"}
  BY <1>5 DEF Wellformed, Parents
<1>8. \/ Q[q].stat = P[q].stat
      \/ Q[q].stat \in {"run", "sleep"} /\ P[q].stat \in {"run", "sleep"}
  BY <1>5
<1>9. /\ Wellformed(Q)
      /\ \A r \in Slot : Chain(Q, r) = Chain(P, r) /\ Zombies(Q, r) = Zombies(P, r)
      /\ \A r \in Slot, x \in Slot :
           (Q[x].stat = "idl" /\ Q[x].parent = r) <=> (P[x].stat = "idl" /\ P[x].parent = r)
      /\ \A r \in Slot \ {q} : \A k : Settled(P, r, k) => Settled(Q, r, k)
  BY <1>5, <1>6, <1>7, <1>8, OneEntry
<1>10. ASSUME NEW k, Settled(P, q, k) PROVE Settled(Q, q, k)
  <2>1. Zombies(Q, q) = Zombies(P, q)
    BY <1>9
  <2>2. QED
    BY <1>5, <1>8, <1>9, <1>10, <2>1 DEF Settled
<1>11. ASSUME NEW k, s = "CLD", Placed(P, q, k) PROVE Settled(Q, q, k)
  BY <1>5, <1>8, <1>9, <1>11 DEF Settled, Placed
<1>12. QED
  BY <1>5, <1>8, <1>9, <1>10, <1>11

(* p runs: in user mode, or after a sleep. *)
LEMMA GoodWhen ==
    ASSUME Inv, NEW p \in Slot, proc[p].stat = "run", pc[p] # "fork"
    PROVE  Good(proc, p)
  BY DEF Inv, Good, Settled

LEMMA WaitScanToInv ==
    ASSUME Inv, Acting', NEW p \in Slot, NEW P, Good(P, p), WaitScan(p, P)
    PROVE  Inv'
<1>1. Family(P) /\ Wellformed(P)
  BY DEF Good, Wellformed
<1>2. CASE Zombies(P, p) # {}
  <2> DEFINE q == FirstDead(P, p)
             Q == Freeproc(P, q)
  <2>1. q \in Zombies(P, p)
    BY <1>1, <1>2, FirstDeadFacts
  <2>2. Freed(P, P, p)
    BY DEF Freed, SameButLinks
  <2>3. Wellformed(Q) /\ Freed(P, Q, p)
    BY <1>1, <2>1, <2>2, FreedMore
  <2>4. Good(Q, p)
    BY <2>3, GoodFreed
  <2>5. Goes(p, Q, Back(Q, p)) /\ Back(Q, p) \in {"user", "trap"}
    BY <1>2 DEF WaitScan, Returns, Back
  <2> HIDE DEF Q
  <2>6. QED
    BY <2>4, <2>5, ReturnsToInv
<1>3. CASE Zombies(P, p) = {} /\ P[p].child # Nobody
  BY <1>3, SleepToInv DEF WaitScan
<1>4. CASE Zombies(P, p) = {} /\ P[p].child = Nobody
  <2>1. Goes(p, P, Back(P, p)) /\ Back(P, p) \in {"user", "trap"}
    BY <1>4 DEF WaitScan, Returns, Back
  <2>2. QED
    BY <2>1, ReturnsToInv
<1>5. QED
  BY <1>2, <1>3, <1>4

LEMMA WaitStep ==
    ASSUME Inv, NEW p \in Slot, Wait(p) \/ WaitReturns(p)
    PROVE  Inv'
<1>1. Acting'
  BY DEF Wait, WaitReturns, Inv, Acting
<1>2. proc[p].stat = "run" /\ pc[p] # "fork"
  BY DEF Wait, WaitReturns, InUser, Resumes
<1>3. Good(proc, p)
  BY <1>2, GoodWhen
<1>4. CASE Wait(p)
  BY <1>1, <1>3, <1>4, WaitScanToInv DEF Wait
<1>5. CASE WaitReturns(p)
  <2> DEFINE r == Issig(proc, p)
  <2>1. Good(r.proc, p)
    BY <1>3, IssigFacts
  <2>2. IF r.sig # "none" THEN Goes(p, r.proc, "trap") ELSE WaitScan(p, r.proc)
    BY <1>5 DEF WaitReturns
  <2> HIDE DEF r
  <2>3. QED
    BY <1>1, <2>1, <2>2, ReturnsToInv, WaitScanToInv
<1>6. QED
  BY <1>4, <1>5

LEMMA PauseStep ==
    ASSUME Inv, NEW p \in Slot, Pause(p) \/ PauseReturns(p)
    PROVE  Inv'
<1>1. UNCHANGED u_signal /\ Acting'
  BY DEF Pause, PauseReturns, Inv, Acting
<1>2. proc[p].stat = "run" /\ pc[p] # "fork"
  BY DEF Pause, PauseReturns, InUser, Resumes
<1>3. Good(proc, p) /\ Good(Issig(proc, p).proc, p)
  BY <1>2, GoodWhen, IssigFacts
<1>4. Sleep(p, proc, "u", "pause") \/ Sleep(p, Issig(proc, p).proc, "u", "pause")
  BY DEF Pause, PauseReturns
<1>5. QED
  BY <1>1, <1>3, <1>4, SleepToInv

(* Post and Event change one entry. *)
LEMMA EntryStep ==
    ASSUME Inv, NEW p \in Slot, Event(p) \/ \E s \in Sig : Post(p, s)
    PROVE  Inv'
<1>1. UNCHANGED <<u_signal, pc>> /\ Acting'
  BY DEF Event, Post, Inv, Acting
<1>2. Wellformed(proc) /\ \A q \in Slot : Settled(proc, q, pc[q])
  BY DEF Inv
<1>3. Wellformed(proc') /\ \A q \in Slot : Settled(proc', q, pc[q])
  <2>1. CASE Event(p)
    <3> DEFINE Q == proc'
    <3>1. proc \in [Slot -> Entry] /\ proc[p] \in Entry /\ EntryOK(proc[p])
      BY <1>2 DEF Wellformed, Table
    <3>2. Q = [proc EXCEPT ![p] = [@ EXCEPT !.stat = "run", !.wchan = Nowhere, !.snwake = FALSE]]
      <4>1. Setrun(proc, p) = [proc EXCEPT ![p] = [@ EXCEPT !.stat = "run", !.wchan = Nowhere]]
        BY <2>1, <3>1 DEF Event, Setrun, Entry
      <4>2. QED
        BY <2>1, <3>1, <4>1 DEF Event
    <3>3. proc[p].stat = "sleep" /\ proc[p].snwake
      BY <2>1 DEF Event
    <3> HIDE DEF Q
    <3>4. /\ Q \in [Slot -> Entry] /\ \A r \in Slot \ {p} : Q[r] = proc[r]
          /\ Q[p].parent = proc[p].parent /\ Q[p].child = proc[p].child
          /\ Q[p].sibling = proc[p].sibling /\ Q[p].sig = proc[p].sig
          /\ ~Q[p].snwake /\ Q[p].stat = "run" /\ Q[p].wchan = Nowhere
      <4>1. Q[p] = [proc[p] EXCEPT !.stat = "run", !.wchan = Nowhere, !.snwake = FALSE]
        BY <3>1, <3>2
      <4>2. Q[p] \in Entry
        BY <3>1, <4>1 DEF Entry
      <4>3. QED
        BY <3>1, <3>2, <4>1, <4>2 DEF Entry
    <3>5. EntryOK(Q[p]) /\ (p = InitProc => Q[p].sig \subseteq {"CLD"})
      BY <1>2, <3>4 DEF EntryOK, Wellformed, Parents
    <3>6. /\ Wellformed(Q)
          /\ \A q \in Slot, r \in Slot :
               (Q[r].stat = "idl" /\ Q[r].parent = q) <=> (proc[r].stat = "idl" /\ proc[r].parent = q)
          /\ \A q \in Slot \ {p} : \A k : Settled(proc, q, k) => Settled(Q, q, k)
      BY <1>2, <3>3, <3>4, <3>5, OneEntry
    <3>7. Settled(Q, p, pc[p])
      BY <1>2, <3>3, <3>4, <3>6 DEF Settled
    <3>8. QED
      BY <1>2, <3>6, <3>7 DEF Q
  <2>2. CASE \E s \in Sig : Post(p, s)
    <3>1. PICK s \in Sig : Post(p, s)
      BY <2>2
    <3> DEFINE Q == proc'
    <3>2. Q = Psignal(proc, p, s) /\ proc[p].stat # "none" /\ (p = InitProc => s = "CLD")
      BY <3>1 DEF Post, Live
    <3> HIDE DEF Q
    <3>3. /\ Wellformed(Q)
          /\ \A r \in Slot \ {p} : \A k : Settled(proc, r, k) => Settled(Q, r, k)
          /\ \A k : Settled(proc, p, k) => Settled(Q, p, k)
      BY <1>2, <3>2, PsignalFacts
    <3>4. QED
      BY <1>2, <3>3 DEF Q
  <2>3. QED
    BY <2>1, <2>2
<1>4. (\A q \in Slot : Settled(proc, q, pc[q]))'
  BY <1>1, <1>3 DEF Settled
<1>5. QED
  BY <1>1, <1>3, <1>4 DEF Inv

(* ssig() and exec, from user mode. *)
LEMMA LocalEntry ==
    ASSUME NEW p \in Slot, NEW P, Good(P, p), NEW sg \in SUBSET P[p].sig,
           NEW h \in SUBSET (Sig \ {"KILL"}), NEW c \in SUBSET (Sig \ {"KILL"}),
           NEW Q, Q = [P EXCEPT ![p] = [@ EXCEPT !.sig = sg, !.hold = h, !.chold = c]]
    PROVE  Good(Q, p) /\ \A q \in Slot : Zombies(Q, q) = Zombies(P, q)
<1>1. P \in [Slot -> Entry] /\ P[p] \in Entry
  BY DEF Good, Wellformed, Table
<1>2. /\ Q[p] = [P[p] EXCEPT !.sig = sg, !.hold = h, !.chold = c]
      /\ \A r \in Slot \ {p} : Q[r] = P[r]
  BY <1>1
<1>3. sg \in SUBSET Sig
  BY <1>1 DEF Entry
<1>4. Q[p] \in Entry
  BY <1>1, <1>2, <1>3 DEF Entry
<1>5. Q \in [Slot -> Entry]
  BY <1>1, <1>4
<1>6. /\ Q[p].stat = P[p].stat /\ Q[p].wchan = P[p].wchan /\ Q[p].snwake = P[p].snwake
      /\ Q[p].parent = P[p].parent /\ Q[p].child = P[p].child /\ Q[p].sibling = P[p].sibling
      /\ Q[p].sig = sg
  BY <1>1, <1>2 DEF Entry
<1>7. p = InitProc => Q[p].sig \subseteq {"CLD"}
  BY <1>6 DEF Good, Wellformed, Parents
<1>8. \A r \in Slot \ {p} : Q[r] = P[r]
  BY <1>2
<1>9. QED
  BY ONLY p \in Slot, Good(P, p), <1>5, <1>6, <1>7, <1>8, GoodLocal

LEMMA RetellGood ==
    ASSUME NEW p \in Slot, NEW P, Good(P, p), NEW s \in Sig
    PROVE  Good(Retell(P, p, s), p)
<1> DEFINE Q == Psignal(P, p, "CLD")
<1>1. CASE Retell(P, p, s) = P
  BY <1>1
<1>2. CASE Retell(P, p, s) = Q
  <2>1. "CLD" \in Sig /\ P[p].stat = "run"
    BY ProcAssumption DEF Good
  <2>2. /\ Wellformed(Q) /\ Q[p].stat = "run"
        /\ \A r \in Slot, x \in Slot :
             (Q[x].stat = "idl" /\ Q[x].parent = r) <=> (P[x].stat = "idl" /\ P[x].parent = r)
        /\ \A r \in Slot \ {p} : \A k : Settled(P, r, k) => Settled(Q, r, k)
    BY <2>1, PsignalFacts DEF Good
  <2> HIDE DEF Q
  <2>3. Good(Q, p)
    BY <2>2 DEF Good
  <2>4. QED
    BY <1>2, <2>3
<1>3. QED
  BY <1>1, <1>2 DEF Retell

LEMMA ReturnsAnyToInv ==
    ASSUME Inv, Acting', NEW p \in Slot, NEW P, Good(P, p), Returns(p, P)
    PROVE  Inv'
<1>1. Goes(p, P, Back(P, p)) /\ Back(P, p) \in {"user", "trap"}
  BY DEF Returns, Back
<1>2. QED
  BY <1>1, ReturnsToInv

(* signal(), of a handler or of init. *)
LEMMA SignalStep ==
    ASSUME Inv, NEW p \in Slot, NEW s \in Sig, NEW d \in Disposition, InUser(p),
           Signal(p, s, d), init_at' \in {init_at, "main", "spawning"}
    PROVE  Inv'
<1> DEFINE e == proc[p]
           Q == [proc EXCEPT ![p].chold = @ \ {s}, ![p].sig = @ \ {s}]
<1>1. proc[p].stat = "run" /\ Good(proc, p)
  BY GoodWhen DEF InUser
<1>2. proc \in [Slot -> Entry] /\ e \in Entry
  BY <1>1 DEF Good, Wellformed, Table
<1>3. Q = [proc EXCEPT ![p] = [@ EXCEPT !.sig = e.sig \ {s}, !.hold = e.hold, !.chold = e.chold \ {s}]]
  BY <1>2 DEF Entry
<1>4. /\ e.hold \subseteq Sig \ {"KILL"} /\ e.chold \ {s} \subseteq Sig \ {"KILL"}
      /\ e.sig \ {s} \subseteq e.sig
  BY <1>2 DEF Entry
<1>5. Returns(p, Retell(Q, p, s)) /\ u_signal' = [u_signal EXCEPT ![p][s] = d]
  BY DEF Signal
<1> HIDE DEF Q
<1>6. Good(Q, p)
  BY <1>1, <1>3, <1>4, LocalEntry
<1>7. Acting'
  <2>1. u_signal \in [Slot -> [Sig -> Disposition]]
    BY DEF Inv, Acting
  <2>2. u_signal' = [u_signal EXCEPT ![p] = [u_signal[p] EXCEPT ![s] = d]]
    BY <1>5, <2>1
  <2>3. [u_signal[p] EXCEPT ![s] = d] \in [Sig -> Disposition]
    BY <2>1
  <2>4. QED
    BY <2>1, <2>2, <2>3 DEF Acting, Inv
<1>8. QED
  BY <1>5, <1>6, <1>7, RetellGood, ReturnsAnyToInv

(* init catches SIGCLD, or does not while it forks. *)
LEMMA ArmStep ==
    ASSUME Inv, Arm \/ Disarm
    PROVE  Inv'
<1>1. InitProc \in Slot /\ "CLD" \in Sig /\ {"catch", "dfl"} \subseteq Disposition
  BY ProcAssumption DEF Disposition
<1>2. CASE Arm
  BY <1>1, <1>2, SignalStep DEF Arm
<1>3. CASE Disarm
  BY <1>1, <1>3, SignalStep DEF Disarm
<1>4. QED
  BY <1>2, <1>3

LEMMA SsigStep ==
    ASSUME Inv, NEW p \in Slot, NEW s \in Sig, Ssig(p, s)
    PROVE  Inv'
<1>0. InUser(p) /\ UNCHANGED init_at
  BY DEF Ssig
<1>1. /\ proc[p].stat = "run" /\ pc[p] # "fork" /\ p # InitProc /\ s # "KILL"
      /\ Good(proc, p)
  <2>1. proc[p].stat = "run" /\ pc[p] # "fork" /\ p # InitProc /\ s # "KILL"
    BY ProcAssumption DEF Ssig, InUser
  <2>2. QED
    BY <2>1, GoodWhen
<1> DEFINE e == proc[p]
<1>2. proc \in [Slot -> Entry] /\ e \in Entry
  BY <1>1 DEF Good, Wellformed, Table
<1>3. /\ e.sig \subseteq Sig /\ e.hold \subseteq Sig \ {"KILL"} /\ e.chold \subseteq Sig \ {"KILL"}
  BY <1>2 DEF Entry
<1>4. ASSUME NEW sg \in SUBSET e.sig, NEW h \in SUBSET (Sig \ {"KILL"}),
             NEW c \in SUBSET (Sig \ {"KILL"})
      PROVE  Good([proc EXCEPT ![p] = [@ EXCEPT !.sig = sg, !.hold = h, !.chold = c]], p)
  BY <1>1, <1>4, LocalEntry
<1>5. /\ u_signal \in [Slot -> [Sig -> Disposition]]
      /\ init_at' \in {"main", "childeath", "reaped", "spawning"}
  BY <1>0 DEF Inv, Acting
<1>6. ASSUME UNCHANGED u_signal PROVE Acting'
  BY <1>5, <1>6 DEF Acting
<1>7. ASSUME NEW d \in Disposition, u_signal' = [u_signal EXCEPT ![p][s] = d] PROVE Acting'
  <2>1. u_signal[p] \in [Sig -> Disposition]
    BY <1>5
  <2>2. [u_signal[p] EXCEPT ![s] = d] \in [Sig -> Disposition]
    BY <2>1
  <2>3. u_signal' = [u_signal EXCEPT ![p] = [u_signal[p] EXCEPT ![s] = d]]
    BY <1>5, <1>7
  <2>4. QED
    BY <1>1, <1>5, <2>2, <2>3, ProcAssumption DEF Acting
<1>17. Good([proc EXCEPT ![p].hold = @ \cup {s}], p)
  <2>1. [proc EXCEPT ![p].hold = @ \cup {s}]
        = [proc EXCEPT ![p] = [@ EXCEPT !.sig = e.sig, !.hold = e.hold \cup {s}, !.chold = e.chold]]
    BY <1>2 DEF Entry
  <2>2. e.hold \cup {s} \subseteq Sig \ {"KILL"}
    BY <1>1, <1>3
  <2>3. QED
    BY <1>3, <1>4, <2>1, <2>2
<1>8. CASE Sighold(p, s)
  BY <1>6, <1>8, <1>17, ReturnsAnyToInv DEF Sighold
<1> DEFINE R == [proc EXCEPT ![p].hold = @ \ {s}]
<1>9. Good(R, p)
  <2>1. R = [proc EXCEPT ![p] = [@ EXCEPT !.sig = e.sig, !.hold = e.hold \ {s}, !.chold = e.chold]]
    BY <1>2 DEF Entry
  <2>2. e.hold \ {s} \subseteq Sig \ {"KILL"}
    BY <1>3
  <2>3. QED
    BY <1>3, <1>4, <2>1, <2>2
<1>10. CASE Sigrelse(p, s)
  BY <1>6, <1>9, <1>10, ReturnsAnyToInv DEF Sigrelse
<1>11. CASE Sigignore(p, s)
  <2> DEFINE Q == [proc EXCEPT ![p].hold = @ \ {s}, ![p].sig = @ \ {s}]
  <2>1. Q = [proc EXCEPT ![p] = [@ EXCEPT !.sig = e.sig \ {s}, !.hold = e.hold \ {s}, !.chold = e.chold]]
    BY <1>2 DEF Entry
  <2>2. e.hold \ {s} \subseteq Sig \ {"KILL"} /\ e.sig \ {s} \subseteq e.sig
    BY <1>3
  <2>3. Good(Q, p)
    BY <1>3, <1>4, <2>1, <2>2
  <2>4. Acting' /\ Returns(p, Q)
    BY <1>7, <1>11 DEF Sigignore, Disposition
  <2> HIDE DEF Q
  <2>5. QED
    BY <2>3, <2>4, ReturnsAnyToInv
<1>12. CASE Sigpause(p, s)
  <2>1. Acting' /\ Sleep(p, R, "u", "pause")
    BY <1>6, <1>12 DEF Sigpause
  <2> HIDE DEF R
  <2>2. QED
    BY <1>9, <2>1, SleepToInv
<1>13. CASE \E d \in Disposition : Sigset(p, s, d)
  <2>1. PICK d \in Disposition : Sigset(p, s, d)
    BY <1>13
  <2> DEFINE c == IF d = "catch" THEN e.chold \cup {s} ELSE e.chold
             Q == [proc EXCEPT ![p].hold = @ \ {s},
                              ![p].chold = IF d = "catch" THEN @ \cup {s} ELSE @]
  <2>2. Q = [proc EXCEPT ![p] = [@ EXCEPT !.sig = e.sig, !.hold = e.hold \ {s}, !.chold = c]]
    BY <1>2 DEF Entry
  <2>3. e.hold \ {s} \subseteq Sig \ {"KILL"} /\ c \subseteq Sig \ {"KILL"}
    BY <1>1, <1>3
  <2> HIDE DEF c
  <2>4. Good(Q, p)
    BY <1>3, <1>4, <2>2, <2>3
  <2>5. Acting' /\ Returns(p, Retell(Q, p, s))
    BY <1>7, <2>1 DEF Sigset
  <2> HIDE DEF Q
  <2>6. QED
    BY <1>1, <2>4, <2>5, RetellGood, ReturnsAnyToInv
<1>14. CASE \E d \in Disposition : Signal(p, s, d)
  BY <1>0, <1>14, SignalStep
<1>16. CASE SigsetHold(p, s)
  <2> DEFINE Q == [proc EXCEPT ![p].hold = @ \cup {s}]
  <2>1. Acting' /\ Returns(p, Retell(Q, p, s)) /\ Good(Q, p)
    BY <1>6, <1>16, <1>17 DEF SigsetHold
  <2> HIDE DEF Q
  <2>2. QED
    BY <2>1, RetellGood, ReturnsAnyToInv
<1>15. QED
  BY <1>8, <1>10, <1>11, <1>12, <1>13, <1>14, <1>16 DEF Ssig

LEMMA ExecStep ==
    ASSUME Inv, NEW p \in Slot, Exec(p)
    PROVE  Inv'
<1> DEFINE e == proc[p]
           Q == [proc EXCEPT ![p].chold = {}]
<1>1. /\ proc[p].stat = "run" /\ p # InitProc /\ Good(proc, p)
  BY GoodWhen DEF Exec, InUser
<1>2. proc \in [Slot -> Entry] /\ e \in Entry
  BY <1>1 DEF Good, Wellformed, Table
<1>3. Q = [proc EXCEPT ![p] = [@ EXCEPT !.sig = e.sig, !.hold = e.hold, !.chold = {}]]
  BY <1>2 DEF Entry
<1>4. e.hold \subseteq Sig \ {"KILL"}
  BY <1>2 DEF Entry
<1>5. Returns(p, Q)
  BY DEF Exec
<1> HIDE DEF Q
<1>6. Good(Q, p)
  BY <1>1, <1>3, <1>4, LocalEntry
<1>7. Acting'
  <2>1. u_signal \in [Slot -> [Sig -> Disposition]]
    BY DEF Inv, Acting
  <2> DEFINE us == [s \in Sig |-> IF u_signal[p][s] = "catch" THEN "dfl" ELSE u_signal[p][s]]
  <2>2. us \in [Sig -> Disposition]
    BY <2>1 DEF Disposition
  <2>3. u_signal' = [u_signal EXCEPT ![p] = us]
    BY <2>1 DEF Exec
  <2>4. QED
    BY <2>1, <2>2, <2>3 DEF Acting, Inv, Exec
<1>8. QED
  BY <1>5, <1>6, <1>7, ReturnsAnyToInv
-----------------------------------------------------------------------------
(* exit().  The children of p go to proc[1], ahead of its own. *)
LEMMA AdoptFacts ==
    ASSUME NEW p \in Slot \ {InitProc}, NEW P, Good(P, p), P[p].child # Nobody,
           NEW A, A = Adopt(P, p)
    PROVE  /\ Wellformed(A) /\ A[p].child = Nobody
           /\ \A r \in Slot : /\ A[r].stat = P[r].stat /\ A[r].snwake = P[r].snwake
                              /\ A[r].sig = P[r].sig /\ A[r].hold = P[r].hold
           /\ Zombies(A, InitProc) = Zombies(P, InitProc) \cup Zombies(P, p)
           /\ \A r \in Slot \ {InitProc} : Zombies(A, r) \subseteq Zombies(P, r)
           /\ \A r, x \in Slot : (A[x].stat = "idl" /\ A[x].parent = r)
                                 <=> (P[x].stat = "idl" /\ P[x].parent = r)
<1> DEFINE s == Chain(P, p)
           t == Chain(P, InitProc)
           u == s \o t
<1>1. /\ s \in Seq(Slot) /\ IsInjective(s) /\ Linked(P, p, s)
      /\ t \in Seq(Slot) /\ IsInjective(t) /\ Linked(P, InitProc, t)
      /\ DOMAIN s = 1..Len(s) /\ Len(s) \in Nat /\ DOMAIN t = 1..Len(t) /\ Len(t) \in Nat
      /\ \A q \in Range(s) : q \in Slot /\ P[q].parent = p
      /\ \A q \in Range(t) : q \in Slot /\ P[q].parent = InitProc
  <2>1. Family(P) /\ InitProc \in Slot /\ p \in Slot
    BY ProcAssumption DEF Good, Wellformed
  <2>2. QED
    BY <2>1, ChainFacts
<1>2. /\ P \in [Slot -> Entry] /\ Nobody \notin Slot /\ InitProc \in Slot
      /\ P[InitProc].parent = Nobody /\ \A q \in Slot : P[q].parent # q
      /\ p \notin Range(s) /\ InitProc \notin Range(s)
  <2>1. /\ P \in [Slot -> Entry] /\ Nobody \notin Slot /\ InitProc \in Slot
        /\ P[InitProc].parent = Nobody /\ \A q \in Slot : P[q].parent # q
    BY ProcAssumption DEF Good, Wellformed, Table, Parents
  <2>2. QED
    BY <1>1, <2>1
<1> HIDE DEF s, t
<1>3. A = [q \in Slot |->
            CASE q = p -> [P[q] EXCEPT !.child = Nobody]
              [] q = InitProc -> [P[q] EXCEPT !.child = P[p].child]
              [] q \in Range(s) -> [P[q] EXCEPT !.parent = InitProc,
                                      !.sibling = IF @ = Nobody THEN P[InitProc].child ELSE @]
              [] OTHER -> P[q]]
  BY DEF Adopt, s
<1>4. \A q \in Slot : P[q] \in Entry
  BY <1>2
<1>5. A[p] = [P[p] EXCEPT !.child = Nobody] /\ A[p] \in Entry
  <2>1. A[p] = [P[p] EXCEPT !.child = Nobody]
    BY <1>2, <1>3
  <2>2. P[p] \in Entry
    BY <1>4
  <2>3. QED
    BY <2>1, <2>2 DEF Entry
<1>6. A[InitProc] = [P[InitProc] EXCEPT !.child = P[p].child] /\ A[InitProc] \in Entry
  <2>1. A[InitProc] = [P[InitProc] EXCEPT !.child = P[p].child]
    BY <1>2, <1>3
  <2>2. P[InitProc] \in Entry /\ P[p] \in Entry
    BY <1>2, <1>4
  <2>3. P[p].child \in Slot \cup {Nobody}
    BY <2>2 DEF Entry
  <2>4. QED
    BY <2>1, <2>2, <2>3 DEF Entry
<1>7. ASSUME NEW q \in Range(s)
      PROVE  /\ A[q] = [P[q] EXCEPT !.parent = InitProc,
                          !.sibling = IF @ = Nobody THEN P[InitProc].child ELSE @]
             /\ A[q] \in Entry
  <2>1. q \in Slot /\ q # p /\ q # InitProc
    BY <1>1, <1>2
  <2>2. A[q] = [P[q] EXCEPT !.parent = InitProc,
                  !.sibling = IF @ = Nobody THEN P[InitProc].child ELSE @]
    BY <1>3, <2>1
  <2>3. P[InitProc].child \in Slot \cup {Nobody} /\ P[q] \in Entry
    BY <1>2, <1>4, <2>1 DEF Entry
  <2>4. QED
    BY <1>2, <2>2, <2>3 DEF Entry
<1>8. ASSUME NEW q \in Slot, q # p, q # InitProc, q \notin Range(s) PROVE A[q] = P[q]
  BY <1>3, <1>8
<1>9. A \in [Slot -> Entry]
  <2>1. \A q \in Slot : A[q] \in Entry
    BY <1>4, <1>5, <1>6, <1>7, <1>8
  <2>2. QED
    BY <1>3, <2>1
<1>10. ASSUME NEW r \in Slot
       PROVE  /\ A[r].stat = P[r].stat /\ A[r].snwake = P[r].snwake
              /\ A[r].sig = P[r].sig /\ A[r].hold = P[r].hold
              /\ A[r].chold = P[r].chold /\ A[r].wchan = P[r].wchan
              /\ A[r].parent = IF r \in Range(s) THEN InitProc ELSE P[r].parent
              /\ A[r].child = IF r = p THEN Nobody ELSE IF r = InitProc THEN P[p].child ELSE P[r].child
              /\ A[r].sibling = IF r \in Range(s) /\ P[r].sibling = Nobody THEN P[InitProc].child
                                ELSE P[r].sibling
  <2>1. CASE r = p
    BY <1>2, <1>4, <1>5, <2>1 DEF Entry
  <2>2. CASE r = InitProc
    BY <1>2, <1>4, <1>6, <2>2 DEF Entry
  <2>3. CASE r \in Range(s)
    <3>1. A[r] = [P[r] EXCEPT !.parent = InitProc,
                    !.sibling = IF @ = Nobody THEN P[InitProc].child ELSE @]
      BY <1>7, <2>3
    <3>2. r # p /\ r # InitProc /\ P[r] \in Entry
      BY <1>2, <1>4, <2>3
    <3>3. QED
      BY <2>3, <3>1, <3>2 DEF Entry
  <2>4. CASE r # p /\ r # InitProc /\ r \notin Range(s)
    BY <1>8, <2>4
  <2>5. QED
    BY <2>1, <2>2, <2>3, <2>4
<1> HIDE DEF u
<1>11. /\ u \in Seq(Slot) /\ Len(u) = Len(s) + Len(t) /\ DOMAIN u = 1..Len(u)
       /\ \A i \in 1..Len(u) : u[i] = IF i <= Len(s) THEN s[i] ELSE t[i - Len(s)]
  BY <1>1, ConcatProperties DEF u
<1>12. Range(u) = Range(s) \cup Range(t)
  <2>1. ASSUME NEW i \in DOMAIN s PROVE s[i] = u[i] /\ i \in DOMAIN u
    BY <1>1, <1>11
  <2>2. ASSUME NEW i \in DOMAIN t PROVE t[i] = u[Len(s) + i] /\ Len(s) + i \in DOMAIN u
    BY <1>1, <1>11
  <2>3. ASSUME NEW i \in DOMAIN u PROVE u[i] \in Range(s) \cup Range(t)
    <3>1. CASE i <= Len(s)
      BY <1>1, <1>11, <3>1 DEF Range
    <3>2. CASE ~(i <= Len(s))
      <4>1. i - Len(s) \in DOMAIN t /\ u[i] = t[i - Len(s)]
        BY <1>1, <1>11, <3>2
      <4>2. QED
        BY <4>1 DEF Range
    <3>3. QED
      BY <3>1, <3>2
  <2>4. QED
    BY <2>1, <2>2, <2>3 DEF Range
<1>13. IsInjective(u)
  <2> SUFFICES ASSUME NEW i \in DOMAIN u, NEW j \in DOMAIN u, u[i] = u[j] PROVE i = j
    BY DEF IsInjective
  <2>1. CASE i <= Len(s) /\ j <= Len(s)
    <3>1. i \in DOMAIN s /\ j \in DOMAIN s /\ s[i] = s[j]
      BY <1>1, <1>11, <2>1
    <3>2. QED
      BY <1>1, <3>1 DEF IsInjective
  <2>2. CASE ~(i <= Len(s)) /\ ~(j <= Len(s))
    <3>1. i - Len(s) \in DOMAIN t /\ j - Len(s) \in DOMAIN t /\ t[i - Len(s)] = t[j - Len(s)]
      BY <1>1, <1>11, <2>2
    <3>2. i - Len(s) = j - Len(s)
      BY <1>1, <3>1 DEF IsInjective
    <3>3. QED
      BY <1>1, <1>11, <3>2
  <2>3. ASSUME NEW x \in Range(s), NEW y \in Range(t) PROVE x # y
    BY <1>1
  <2>4. CASE i <= Len(s) /\ ~(j <= Len(s))
    <3>1. i \in DOMAIN s /\ j - Len(s) \in DOMAIN t /\ s[i] = t[j - Len(s)]
      BY <1>1, <1>11, <2>4
    <3>2. QED
      BY <2>3, <3>1 DEF Range
  <2>5. CASE ~(i <= Len(s)) /\ j <= Len(s)
    <3>1. j \in DOMAIN s /\ i - Len(s) \in DOMAIN t /\ s[j] = t[i - Len(s)]
      BY <1>1, <1>11, <2>5
    <3>2. QED
      BY <2>3, <3>1 DEF Range
  <2>6. QED
    BY <2>1, <2>2, <2>4, <2>5
<1>14. Linked(A, InitProc, u)
  <2>1. A[InitProc].child = At(u, 1)
    <3>1. 1 \in DOMAIN s /\ P[p].child = s[1]
      BY <1>1 DEF Linked, At
    <3>2. 1 \in DOMAIN u /\ u[1] = s[1]
      BY <1>1, <1>11, <3>1
    <3>3. QED
      BY <1>2, <1>10, <3>1, <3>2 DEF At
  <2>2. ASSUME NEW i \in DOMAIN u PROVE A[u[i]].parent = InitProc /\ A[u[i]].sibling = At(u, i + 1)
    <3>1. CASE i <= Len(s)
      <4>1. i \in DOMAIN s /\ u[i] = s[i] /\ s[i] \in Range(s) /\ P[s[i]].sibling = At(s, i + 1)
        BY <1>1, <1>11, <3>1 DEF Linked, Range
      <4>2. s[i] \in Slot /\ A[u[i]].parent = InitProc
        BY <1>1, <1>10, <4>1
      <4>3. CASE i < Len(s)
        <5>1. i + 1 \in DOMAIN s /\ i + 1 \in DOMAIN u /\ u[i + 1] = s[i + 1] /\ s[i + 1] \in Slot
          BY <1>1, <1>11, <4>3
        <5>2. A[u[i]].sibling = s[i + 1]
          BY <1>2, <1>10, <4>1, <4>2, <5>1 DEF At
        <5>3. QED
          BY <4>2, <5>1, <5>2 DEF At
      <4>4. CASE i = Len(s)
        <5>1. At(s, i + 1) = Nobody
          BY <1>1, <4>4 DEF At
        <5>2. A[u[i]].sibling = P[InitProc].child
          BY <1>10, <4>1, <4>2, <5>1
        <5>3. P[InitProc].child = At(t, 1)
          BY <1>1 DEF Linked
        <5>4. At(u, i + 1) = At(t, 1)
          <6>1. (i + 1 \in DOMAIN u <=> 1 \in DOMAIN t) /\ (i + 1) - Len(s) = 1 /\ ~(i + 1 <= Len(s))
            BY <1>1, <1>11, <4>4
          <6>2. QED
            BY <1>11, <6>1 DEF At
        <5>5. QED
          BY <4>2, <5>2, <5>3, <5>4
      <4>5. QED
        BY <1>1, <3>1, <4>1, <4>3, <4>4
    <3>2. CASE ~(i <= Len(s))
      <4> DEFINE j == i - Len(s)
      <4>1. j \in DOMAIN t /\ u[i] = t[j]
        BY <1>1, <1>11, <3>2
      <4>2. t[j] \in Range(t) /\ t[j] \in Slot /\ P[t[j]].parent = InitProc /\ t[j] \notin Range(s)
        BY <1>1, <4>1 DEF Range
      <4>3. P[t[j]].sibling = At(t, j + 1)
        BY <1>1, <4>1 DEF Linked
      <4>4. At(u, i + 1) = At(t, j + 1)
        <5>1. (i + 1 \in DOMAIN u <=> j + 1 \in DOMAIN t) /\ (i + 1) - Len(s) = j + 1 /\ ~(i + 1 <= Len(s))
          BY <1>1, <1>11, <3>2
        <5> HIDE DEF j
        <5>2. QED
          BY <1>11, <5>1 DEF At
      <4> HIDE DEF j
      <4>5. QED
        BY <1>10, <4>1, <4>2, <4>3, <4>4
    <3>3. QED
      BY <3>1, <3>2
  <2>3. QED
    BY <1>11, <1>13, <2>1, <2>2 DEF Linked
<1>15. Chain(A, InitProc) = u
  BY <1>2, <1>14, ChainIs
<1>16. Linked(A, p, << >>) /\ Chain(A, p) = << >>
  <2>1. Linked(A, p, << >>)
    BY <1>10 DEF Linked, At, IsInjective
  <2>2. QED
    BY <2>1, ChainIs
<1>17. ASSUME NEW r \in Slot, r # p, r # InitProc
       PROVE  Linked(A, r, Chain(P, r)) /\ Chain(A, r) = Chain(P, r)
  <2>1. Linked(P, r, Chain(P, r)) /\ \A x \in Range(Chain(P, r)) : x \in Slot /\ P[x].parent = r
    BY ChainFacts DEF Good, Wellformed
  <2>2. ASSUME NEW x \in Range(Chain(P, r))
        PROVE  A[x].parent = P[x].parent /\ A[x].sibling = P[x].sibling
    <3>1. x \in Slot /\ x \notin Range(s)
      BY <1>1, <1>17, <2>1
    <3>2. QED
      BY <1>10, <3>1
  <2>3. A[r].child = P[r].child
    BY <1>10, <1>17
  <2>4. Linked(A, r, Chain(P, r))
    BY <2>1, <2>2, <2>3, LinkedStays
  <2>5. QED
    BY <2>4, ChainIs
<1>18. Table(A)
  <2>1. ASSUME NEW r \in Slot PROVE EntryOK(A[r])
    <3>1. EntryOK(P[r])
      BY DEF Good, Wellformed, Table
    <3>2. CASE r # p /\ r # InitProc /\ r \notin Range(s)
      BY <1>8, <3>1, <3>2
    <3>3. CASE r = p \/ r = InitProc \/ r \in Range(s)
      <4>1. P[r].stat # "none"
        <5>1. CASE r \in Range(s)
          BY <1>1, <1>2, <3>1, <5>1 DEF EntryOK, Unused
        <5>2. CASE r = p \/ r = InitProc
          BY <5>2 DEF Good, Wellformed, Parents
        <5>3. QED
          BY <3>3, <5>1, <5>2
      <4>2. QED
        BY <1>10, <3>1, <4>1 DEF EntryOK
    <3>4. QED
      BY <3>2, <3>3
  <2>2. QED
    BY <1>9, <2>1 DEF Table
<1>19. Family(A)
  <2>1. ASSUME NEW r \in Slot PROVE Linked(A, r, Chain(A, r))
    BY <1>14, <1>15, <1>16, <1>17
  <2>2. ASSUME NEW r \in Slot, NEW x \in Slot, r = InitProc => InitProc \notin MayFail,
               A[x].parent = r
        PROVE  x \in Range(Chain(A, r))
    <3>1. CASE x \in Range(s)
      BY <1>10, <1>12, <1>15, <2>2, <3>1
    <3>2. CASE x \notin Range(s)
      <4>1. P[x].parent = r
        BY <1>10, <2>2, <3>2
      <4>2. x \in Range(Chain(P, r))
        BY <2>2, <4>1 DEF Good, Wellformed, Family
      <4>3. r # p
        BY <3>2, <4>2 DEF s
      <4>4. QED
        BY <1>12, <1>15, <1>17, <4>2, <4>3 DEF t
    <3>3. QED
      BY <3>1, <3>2
  <2>3. QED
    BY <2>1, <2>2 DEF Family
<1>20. Parents(A)
  <2>1. Parents(P)
    BY DEF Good, Wellformed
  <2>2. ASSUME NEW q \in Slot \ {InitProc}, A[q].stat # "none"
        PROVE  A[q].parent \in Slot /\ A[A[q].parent].stat \in {"run", "sleep"}
    <3>1. CASE q \in Range(s)
      BY <1>2, <1>10, <2>1, <3>1 DEF Parents
    <3>2. CASE q \notin Range(s)
      <4>1. A[q].parent = P[q].parent /\ P[q].stat # "none"
        BY <1>10, <2>2, <3>2
      <4>2. P[q].parent \in Slot /\ P[P[q].parent].stat \in {"run", "sleep"}
        BY <2>1, <4>1 DEF Parents
      <4>3. QED
        BY <1>10, <4>1, <4>2
    <3>3. QED
      BY <3>1, <3>2
  <2>3. \A q \in Slot : A[q].parent # q
    BY <1>2, <1>10
  <2>4. QED
    BY <1>2, <1>10, <2>1, <2>2, <2>3 DEF Parents
<1>21. ASSUME NEW r, NEW x \in Slot
       PROVE  (A[x].stat = "idl" /\ A[x].parent = r) <=> (P[x].stat = "idl" /\ P[x].parent = r)
  <2>1. CASE P[x].stat = "idl"
    <3>1. P[x].parent # p
      BY <2>1 DEF Good
    <3>2. x \notin Range(s)
      BY <1>1, <3>1
    <3>3. QED
      BY <1>10, <3>2
  <2>2. CASE P[x].stat # "idl"
    BY <1>10, <2>2
  <2>3. QED
    BY <2>1, <2>2
<1>22. Newborn(A)
  <2> SUFFICES ASSUME NEW x \in Slot, A[x].stat = "idl"
               PROVE  /\ x \in Range(Chain(A, A[x].parent))
                      /\ A[x].parent # InitProc => A[A[x].parent].child = x
                      /\ \A r \in Slot : A[r].stat = "idl" /\ A[r].parent = A[x].parent => r = x
    BY DEF Newborn
  <2> DEFINE y == P[x].parent
  <2>1. P[x].stat = "idl" /\ A[x].parent = y
    BY <1>21
  <2>2. y \in Slot /\ y # p
    BY <2>1 DEF Good, Wellformed, Parents
  <2>3. /\ x \in Range(Chain(P, y)) /\ (y # InitProc => P[y].child = x)
        /\ \A r \in Slot : P[r].stat = "idl" /\ P[r].parent = y => r = x
    BY <2>1 DEF Good, Wellformed, Newborn
  <2> HIDE DEF y
  <2>4. x \in Range(Chain(A, y))
    BY <1>12, <1>15, <1>17, <2>2, <2>3 DEF t
  <2>5. y # InitProc => A[y].child = x
    BY <1>10, <2>2, <2>3
  <2>6. QED
    BY <1>21, <2>1, <2>3, <2>4, <2>5
<1>23. Zombies(A, InitProc) = Zombies(P, InitProc) \cup Zombies(P, p)
  BY <1>1, <1>10, <1>12, <1>15 DEF Zombies, s, t
<1>24. ASSUME NEW r \in Slot \ {InitProc} PROVE Zombies(A, r) \subseteq Zombies(P, r)
  <2>1. CASE r = p
    BY <1>16, <2>1 DEF Zombies, Range
  <2>2. CASE r # p
    <3>1. Chain(A, r) = Chain(P, r) /\ \A x \in Range(Chain(P, r)) : x \in Slot
      BY <1>17, <2>2, ChainFacts DEF Good, Wellformed
    <3>2. QED
      BY <1>10, <3>1 DEF Zombies
  <2>3. QED
    BY <2>1, <2>2
<1>25. QED
  BY <1>10, <1>18, <1>19, <1>20, <1>21, <1>22, <1>23, <1>24 DEF Wellformed

(* proc[1] has learned of the dead among them. *)
LEMMA InheritsFacts ==
    ASSUME NEW p \in Slot \ {InitProc}, NEW P, Good(P, p), P[p].child # Nobody,
           NEW N, N = Inherits(P, p)
    PROVE  Good(N, p) /\ N[p].child = Nobody
<1> DEFINE A == Adopt(P, p)
<1>1. /\ Wellformed(A) /\ A[p].child = Nobody
      /\ \A r \in Slot : /\ A[r].stat = P[r].stat /\ A[r].snwake = P[r].snwake
                         /\ A[r].sig = P[r].sig /\ A[r].hold = P[r].hold
      /\ Zombies(A, InitProc) = Zombies(P, InitProc) \cup Zombies(P, p)
      /\ \A r \in Slot \ {InitProc} : Zombies(A, r) \subseteq Zombies(P, r)
      /\ \A r, x \in Slot : (A[x].stat = "idl" /\ A[x].parent = r)
                            <=> (P[x].stat = "idl" /\ P[x].parent = r)
  BY AdoptFacts
<1>2. InitProc \in Slot /\ "CLD" \in Sig
  BY ProcAssumption
<1> HIDE DEF A
<1>3. A[p].stat = "run" /\ \A x \in Slot : ~(A[x].stat = "idl" /\ A[x].parent = p)
  BY <1>1 DEF Good
<1>4. ASSUME NEW q \in Slot \ {p, InitProc} PROVE Settled(A, q, pc[q])
  <2>1. Settled(P, q, pc[q])
    BY DEF Good
  <2>2. QED
    BY <1>1, <2>1, SettledStays
<1>5. CASE Zombies(P, p) = {}
  <2>1. N = A
    BY <1>5 DEF Inherits, A
  <2>2. Settled(P, InitProc, pc[InitProc]) /\ Zombies(A, InitProc) \subseteq Zombies(P, InitProc)
    BY <1>1, <1>2, <1>5 DEF Good
  <2>3. Settled(A, InitProc, pc[InitProc])
    BY <1>1, <1>2, <2>2, SettledStays
  <2>4. QED
    BY <1>1, <1>3, <1>4, <2>1, <2>3 DEF Good
<1>6. CASE Zombies(P, p) # {}
  <2>1. N = Psignal(A, InitProc, "CLD")
    BY <1>6 DEF Inherits, A
  <2>2. A[InitProc].stat # "none"
    BY <1>1 DEF Wellformed, Parents
  <2>3. /\ Wellformed(N) /\ \A r \in Slot \ {InitProc} : N[r] = A[r]
        /\ \A r \in Slot, x \in Slot :
             (N[x].stat = "idl" /\ N[x].parent = r) <=> (A[x].stat = "idl" /\ A[x].parent = r)
        /\ \A r \in Slot \ {InitProc} : \A k : Settled(A, r, k) => Settled(N, r, k)
        /\ \A k : Placed(A, InitProc, k) => Settled(N, InitProc, k)
    BY <1>1, <1>2, <2>1, <2>2, PsignalFacts
  <2>4. Placed(A, InitProc, pc[InitProc])
    <3>1. Settled(P, InitProc, pc[InitProc])
      BY <1>2 DEF Good
    <3>2. QED
      BY <1>1, <1>2, <3>1 DEF Settled, Placed
  <2>5. N[p] = A[p] /\ \A x \in Slot : ~(N[x].stat = "idl" /\ N[x].parent = p)
    BY <1>3, <2>3
  <2>6. \A q \in Slot \ {p} : Settled(N, q, pc[q])
    BY <1>4, <2>3, <2>4
  <2>7. QED
    BY <1>1, <1>3, <2>3, <2>5, <2>6 DEF Good
<1>7. QED
  BY <1>5, <1>6

(* Without children p is dead: all are settled, but for its parent, which  *)
(* has not been told.                                                      *)
LEMMA DeadFacts ==
    ASSUME Inv, NEW p \in Slot \ {InitProc}, NEW N, Good(N, p), N[p].child = Nobody,
           NEW D, D = Dead(N, p)
    PROVE  LET r == N[p].parent
           IN  /\ r \in Slot \ {p} /\ Wellformed(D) /\ D[r].stat \in {"run", "sleep"}
               /\ Placed(D, r, pc[r]) /\ Settled(D, p, "user")
               /\ \A q \in Slot \ {p, r} : Settled(D, q, pc[q])
<1> DEFINE r == N[p].parent
<1>1. /\ N \in [Slot -> Entry] /\ N[p] \in Entry /\ EntryOK(N[p]) /\ N[p].stat = "run"
      /\ ~N[p].snwake /\ N[p].wchan = Nowhere
  BY DEF Good, Wellformed, Table, EntryOK
<1>2. /\ r \in Slot \ {p} /\ N[r].stat \in {"run", "sleep"}
  BY <1>1 DEF Good, Wellformed, Parents
<1>3. Chain(N, p) = << >> /\ \A q \in Slot : N[q].parent # p
  <2>1. Family(N)
    BY DEF Good, Wellformed
  <2>2. Chain(N, p) = << >>
    BY <2>1, ChainFacts
  <2>3. QED
    BY <2>1, <2>2 DEF Family, Range
<1> HIDE DEF r
<1>4. /\ D \in [Slot -> Entry] /\ \A q \in Slot \ {p} : D[q] = N[q]
      /\ D[p].stat = "zomb" /\ ~D[p].snwake /\ D[p].wchan = Nowhere
      /\ D[p].parent = N[p].parent /\ D[p].child = N[p].child /\ D[p].sibling = N[p].sibling
      /\ D[p].sig = {} /\ D[p].hold = {}
  <2>1. D = [N EXCEPT ![p].stat = "zomb", ![p].sig = {}, ![p].hold = {}, ![p].chold = {}]
    BY DEF Dead
  <2>2. D[p] = [N[p] EXCEPT !.stat = "zomb", !.sig = {}, !.hold = {}, !.chold = {}]
    BY <1>1, <2>1
  <2>3. D[p] \in Entry
    BY <1>1, <2>2 DEF Entry
  <2>4. D \in [Slot -> Entry] /\ \A q \in Slot \ {p} : D[q] = N[q]
    BY <1>1, <2>1, <2>3
  <2>5. QED
    BY <1>1, <2>2, <2>4 DEF Entry
<1>5. Family(D) /\ \A q \in Slot : Chain(D, q) = Chain(N, q)
  <2>1. \A q \in Slot : /\ D[q].parent = N[q].parent /\ D[q].child = N[q].child
                        /\ D[q].sibling = N[q].sibling
    BY <1>4
  <2>2. Family(N)
    BY DEF Good, Wellformed
  <2>3. QED
    BY <2>1, <2>2, SamePointers
<1>6. Table(D)
  BY <1>4 DEF Good, Wellformed, Table, EntryOK
<1>7. Parents(D)
  <2>1. Parents(N)
    BY DEF Good, Wellformed
  <2>2. ASSUME NEW q \in Slot \ {InitProc}, D[q].stat # "none"
        PROVE  D[q].parent \in Slot /\ D[D[q].parent].stat \in {"run", "sleep"}
    <3>1. D[q].parent = N[q].parent /\ N[q].stat # "none"
      BY <1>1, <1>4, <2>2
    <3>2. D[q].parent \in Slot \ {p} /\ N[N[q].parent].stat \in {"run", "sleep"}
      BY <1>3, <2>1, <3>1 DEF Parents
    <3>3. QED
      BY <1>4, <3>1, <3>2
  <2>3. D[InitProc] = N[InitProc] /\ \A q \in Slot : D[q].parent # q
    BY <1>4, <2>1, ProcAssumption DEF Parents
  <2>4. QED
    BY <2>1, <2>2, <2>3 DEF Parents
<1>8. ASSUME NEW x, NEW y \in Slot
      PROVE  (D[y].stat = "idl" /\ D[y].parent = x) <=> (N[y].stat = "idl" /\ N[y].parent = x)
  BY <1>1, <1>4
<1>9. Newborn(D)
  <2> SUFFICES ASSUME NEW x \in Slot, D[x].stat = "idl"
               PROVE  /\ x \in Range(Chain(D, D[x].parent))
                      /\ D[x].parent # InitProc => D[D[x].parent].child = x
                      /\ \A y \in Slot : D[y].stat = "idl" /\ D[y].parent = D[x].parent => y = x
    BY DEF Newborn
  <2> DEFINE z == N[x].parent
  <2>1. N[x].stat = "idl" /\ D[x].parent = z
    BY <1>8
  <2>2. z \in Slot \ {p}
    BY <1>3, <2>1 DEF Good, Wellformed, Parents
  <2>3. /\ x \in Range(Chain(N, z)) /\ (z # InitProc => N[z].child = x)
        /\ \A y \in Slot : N[y].stat = "idl" /\ N[y].parent = z => y = x
    BY <2>1 DEF Good, Wellformed, Newborn
  <2> HIDE DEF z
  <2>4. QED
    BY <1>4, <1>5, <1>8, <2>1, <2>2, <2>3
<1>10. ASSUME NEW q \in Slot \ {p, r} PROVE Settled(D, q, pc[q])
  <2>1. Settled(N, q, pc[q])
    BY DEF Good
  <2>2. Zombies(D, q) \subseteq Zombies(N, q)
    <3>1. p \notin Range(Chain(N, q)) /\ \A x \in Range(Chain(N, q)) : x \in Slot
      BY ChainFacts DEF Good, Wellformed, r
    <3>2. QED
      BY <1>4, <1>5, <3>1 DEF Zombies
  <2>3. D[q] = N[q]
    BY <1>4
  <2>4. QED
    BY <1>8, <2>1, <2>2, <2>3, SettledStays
<1>11. Placed(D, r, pc[r])
  <2>1. Settled(N, r, pc[r]) /\ D[r] = N[r]
    BY <1>2, <1>4 DEF Good
  <2>2. QED
    BY <1>2, <1>8, <2>1 DEF Settled, Placed
<1>12. Settled(D, p, "user")
  <2>1. \A y \in Slot : ~(D[y].stat = "idl" /\ D[y].parent = p)
    BY <1>3, <1>8
  <2>2. QED
    BY <1>4, <2>1 DEF Settled
<1>13. QED
  BY <1>2, <1>4, <1>5, <1>6, <1>7, <1>9, <1>10, <1>11, <1>12 DEF Wellformed, r

LEMMA ExitedToInv ==
    ASSUME Inv, Acting', NEW p \in Slot \ {InitProc}, NEW P, Good(P, p), Exited(p, P)
    PROVE  Inv'
<1> DEFINE N == IF P[p].child = Nobody THEN P ELSE Inherits(P, p)
           D == Dead(N, p)
           r == N[p].parent
           Q == Psignal(D, r, "CLD")
<1>1. Goes(p, Q, "user")
  BY DEF Exited
<1>2. Good(N, p) /\ N[p].child = Nobody
  BY InheritsFacts
<1> HIDE DEF N
<1>3. /\ r \in Slot \ {p} /\ Wellformed(D) /\ D[r].stat \in {"run", "sleep"}
      /\ Placed(D, r, pc[r]) /\ Settled(D, p, "user")
      /\ \A q \in Slot \ {p, r} : Settled(D, q, pc[q])
  BY <1>2, DeadFacts
<1> HIDE DEF D, r
<1>4. "CLD" \in Sig /\ D[r].stat # "none" /\ r \in Slot
  BY <1>3, ProcAssumption
<1>5. /\ Wellformed(Q)
      /\ \A q \in Slot \ {r} : \A k : Settled(D, q, k) => Settled(Q, q, k)
      /\ \A k : Placed(D, r, k) => Settled(Q, r, k)
  BY <1>3, <1>4, PsignalFacts
<1> HIDE DEF Q
<1>6. Settled(Q, p, "user") /\ \A q \in Slot \ {p} : Settled(Q, q, pc[q])
  BY <1>3, <1>5
<1>7. QED
  BY <1>1, <1>5, <1>6, GoesToInv

(* A sleep no signal ends: in fork, with a child half made, or in exit. *)
LEMMA SleepThroughToInv ==
    ASSUME Inv, Acting', NEW p \in Slot, NEW P, Wellformed(P), P[p].stat = "run",
           \A q \in Slot \ {p} : Settled(P, q, pc[q]),
           NEW k \in {"fork", "exit"}, k = "exit" => p # InitProc,
           (k = "fork") <=> (\E r \in Slot : P[r].stat = "idl" /\ P[r].parent = p),
           SleepThrough(p, P, k)
    PROVE  Inv'
<1> DEFINE Q == [Asleep(P, p, "event") EXCEPT ![p].snwake = TRUE]
<1>1. Goes(p, Q, k)
  BY DEF SleepThrough
<1>2. P \in [Slot -> Entry] /\ P[p] \in Entry
  BY DEF Wellformed, Table
<1>3. "event" # Nowhere
  BY ProcAssumption
<1>4. /\ Q \in [Slot -> Entry] /\ \A q \in Slot \ {p} : Q[q] = P[q]
      /\ Q[p].parent = P[p].parent /\ Q[p].child = P[p].child
      /\ Q[p].sibling = P[p].sibling /\ Q[p].sig = P[p].sig
      /\ Q[p].hold = P[p].hold /\ Q[p].snwake
      /\ Q[p].stat = "sleep" /\ Q[p].wchan = "event"
  <2>1. Q = [P EXCEPT ![p].stat = "sleep", ![p].wchan = "event", ![p].snwake = TRUE]
    BY <1>2 DEF Asleep
  <2> HIDE DEF Q
  <2>2. Q[p] = [P[p] EXCEPT !.stat = "sleep", !.wchan = "event", !.snwake = TRUE]
    BY <1>2, <2>1
  <2>3. Q[p] \in Entry
    BY <1>2, <2>2 DEF Entry
  <2>4. Q \in [Slot -> Entry] /\ \A q \in Slot \ {p} : Q[q] = P[q]
    BY <1>2, <2>1, <2>3
  <2>5. QED
    BY <1>2, <2>2, <2>4 DEF Entry
<1> HIDE DEF Q
<1>5. EntryOK(Q[p]) /\ (p = InitProc => Q[p].sig \subseteq {"CLD"})
  BY <1>3, <1>4 DEF EntryOK, Wellformed, Parents
<1>6. /\ Wellformed(Q)
      /\ \A x \in Slot : (Q[x].stat = "idl" /\ Q[x].parent = p)
                         <=> (P[x].stat = "idl" /\ P[x].parent = p)
      /\ \A q \in Slot \ {p} : \A n : Settled(P, q, n) => Settled(Q, q, n)
  BY <1>4, <1>5, OneEntry
<1>7. Settled(Q, p, k)
  BY <1>4, <1>6 DEF Settled
<1>8. QED
  BY <1>1, <1>6, <1>7, GoesToInv

LEMMA ExitingToInv ==
    ASSUME Inv, NEW p \in Slot \ {InitProc}, NEW P, Good(P, p), Exiting(p, P),
           UNCHANGED init_at
    PROVE  Inv'
<1>1. Acting'
  <2> DEFINE us == [s \in Sig |-> "ign"]
  <2>1. u_signal \in [Slot -> [Sig -> Disposition]]
    BY DEF Inv, Acting
  <2>2. us \in [Sig -> Disposition]
    BY DEF Disposition
  <2>3. u_signal' = [u_signal EXCEPT ![p] = us]
    BY DEF Exiting
  <2>4. QED
    BY <2>1, <2>2, <2>3 DEF Acting, Inv
<1>2. CASE Exited(p, P)
  BY <1>1, <1>2, ExitedToInv
<1>3. CASE SleepThrough(p, P, "exit")
  BY <1>1, <1>3, SleepThroughToInv DEF Good
<1>4. QED
  BY <1>2, <1>3 DEF Exiting

LEMMA ExitStep ==
    ASSUME Inv, NEW p \in Slot, Exit(p) \/ ExitReturns(p)
    PROVE  Inv'
<1>1. CASE Exit(p)
  <2>1. p # InitProc /\ Good(proc, p) /\ Exiting(p, proc) /\ UNCHANGED init_at
    BY <1>1, GoodWhen DEF Exit, InUser
  <2>2. QED
    BY <2>1, ExitingToInv
<1>2. CASE ExitReturns(p)
  <2>1. Good(proc, p) /\ Exited(p, proc) /\ UNCHANGED <<u_signal, init_at>>
    BY <1>2, GoodWhen DEF ExitReturns, Resumes
  <2>2. Acting'
    BY <2>1 DEF Inv, Acting
  <2>3. p # InitProc
    BY <1>2 DEF ExitReturns, Resumes, Inv, Settled
  <2>4. QED
    BY <2>1, <2>2, <2>3, ExitedToInv
<1>3. QED
  BY <1>1, <1>2

(* psig() *)
LEMMA PsigStep ==
    ASSUME Inv, NEW p \in Slot, Psig(p)
    PROVE  Inv'
<1> DEFINE r == Issig(proc, p)
           s == r.sig
           R == r.proc
<1>1. Good(proc, p)
  BY GoodWhen DEF Psig, InUser, Resumes
<1>2. /\ Good(R, p) /\ R[p].hold = proc[p].hold /\ R[p].sig \subseteq proc[p].sig
      /\ R[p].chold = proc[p].chold
      /\ s # "none" => s \in proc[p].sig \ proc[p].hold /\ Acts(p, s)
  BY <1>1, IssigFacts
<1>3. \/ s = "none" /\ Goes(p, R, "user") /\ UNCHANGED <<u_signal, init_at>>
      \/ /\ s # "none" /\ u_signal[p][s] = "dfl"
         /\ Exiting(p, [R EXCEPT ![p].sig = @ \ {s}]) /\ UNCHANGED init_at
      \/ /\ s # "none" /\ u_signal[p][s] = "catch"
         /\ Goes(p, [R EXCEPT ![p].sig = @ \ {s},
                      ![p].hold = IF s \in proc[p].chold THEN @ \cup {s} ELSE @], "user")
         /\ IF s \in proc[p].chold THEN UNCHANGED u_signal
            ELSE u_signal' = [u_signal EXCEPT ![p][s] = "dfl"]
         /\ init_at' \in {init_at, "childeath"}
  BY DEF Psig
<1> HIDE DEF r
<1>4. proc[p] \in Entry /\ R \in [Slot -> Entry] /\ R[p] \in Entry
  BY <1>1, <1>2 DEF Good, Wellformed, Table
<1>5. /\ proc[p].sig \subseteq Sig /\ proc[p].chold \subseteq Sig \ {"KILL"}
      /\ R[p].hold \subseteq Sig \ {"KILL"} /\ R[p].chold \subseteq Sig \ {"KILL"}
  BY <1>4 DEF Entry
<1>6. s # "none" /\ u_signal[p][s] = "dfl" => p # InitProc
  <2> SUFFICES ASSUME s # "none", u_signal[p][s] = "dfl", p = InitProc PROVE FALSE
    OBVIOUS
  <2>1. s = "CLD"
    BY <1>1, <1>2 DEF Good, Wellformed, Parents
  <2>2. QED
    BY <1>2, <2>1 DEF Acts
<1> DEFINE Out(h) == [R EXCEPT ![p] = [@ EXCEPT !.sig = R[p].sig \ {s}, !.hold = h,
                                         !.chold = R[p].chold]]
<1>7. ASSUME NEW h \in SUBSET (Sig \ {"KILL"}) PROVE Good(Out(h), p)
  <2>1. R[p].sig \ {s} \subseteq R[p].sig
    OBVIOUS
  <2>2. QED
    BY <1>2, <1>5, <2>1, LocalEntry
<1>8. CASE s = "none" /\ Goes(p, R, "user") /\ UNCHANGED <<u_signal, init_at>>
  <2>1. Acting'
    BY <1>8 DEF Inv, Acting
  <2>2. QED
    BY <1>2, <1>8, <2>1, ReturnsToInv
<1>9. CASE /\ s # "none" /\ u_signal[p][s] = "dfl"
           /\ Exiting(p, [R EXCEPT ![p].sig = @ \ {s}]) /\ UNCHANGED init_at
  <2>1. [R EXCEPT ![p].sig = @ \ {s}] = Out(R[p].hold)
    BY <1>4 DEF Entry
  <2>2. p \in Slot \ {InitProc} /\ Good(Out(R[p].hold), p)
    BY <1>5, <1>6, <1>7, <1>9
  <2> HIDE DEF Out
  <2>3. QED
    BY <1>9, <2>1, <2>2, ExitingToInv
<1>10. CASE /\ s # "none"
            /\ Goes(p, [R EXCEPT ![p].sig = @ \ {s},
                          ![p].hold = IF s \in proc[p].chold THEN @ \cup {s} ELSE @], "user")
            /\ IF s \in proc[p].chold THEN UNCHANGED u_signal
               ELSE u_signal' = [u_signal EXCEPT ![p][s] = "dfl"]
            /\ init_at' \in {init_at, "childeath"}
  <2> DEFINE h == IF s \in proc[p].chold THEN R[p].hold \cup {s} ELSE R[p].hold
  <2>1. [R EXCEPT ![p].sig = @ \ {s},
                  ![p].hold = IF s \in proc[p].chold THEN @ \cup {s} ELSE @] = Out(h)
    BY <1>4 DEF Entry
  <2>2. h \subseteq Sig \ {"KILL"}
    BY <1>5
  <2>3. s \in Sig
    BY <1>2, <1>5, <1>10
  <2>4. Acting'
    <3>1. u_signal \in [Slot -> [Sig -> Disposition]]
      BY DEF Inv, Acting
    <3> HIDE DEF s
    <3>4. init_at' \in {"main", "childeath", "reaped", "spawning"}
      BY <1>10 DEF Inv, Acting
    <3>2. CASE s \in proc[p].chold
      BY <1>10, <3>1, <3>2, <3>4 DEF Acting
    <3>3. CASE s \notin proc[p].chold
      <4> DEFINE us == [u_signal[p] EXCEPT ![s] = "dfl"]
      <4>1. us \in [Sig -> Disposition]
        BY <3>1 DEF Disposition
      <4>2. u_signal' = [u_signal EXCEPT ![p] = us]
        BY <1>10, <3>1, <3>3
      <4>3. QED
        BY <3>1, <3>4, <4>1, <4>2 DEF Acting
    <3>5. QED
      BY <3>2, <3>3
  <2>5. Good(Out(h), p)
    BY <1>7, <2>2
  <2> HIDE DEF Out, h
  <2>6. QED
    BY <1>10, <2>1, <2>4, <2>5, ReturnsToInv
<1>11. QED
  BY <1>3, <1>8, <1>9, <1>10
-----------------------------------------------------------------------------
(* fork().  p runs and its child q is half made; all others are settled.   *)
HalfMade(P, p, q) ==
    /\ Wellformed(P) /\ P[p].stat = "run" /\ P[q].stat = "idl" /\ P[q].parent = p
    /\ \A r \in Slot \ {p} : Settled(P, r, pc[r])

LEMMA NewprocFacts ==
    ASSUME NEW p \in Slot, NEW q \in Slot, Good(proc, p), proc[q].stat = "none",
           NEW N, N = Newproc(p, q)
    PROVE  HalfMade(N, p, q)
<1> DEFINE s == Chain(proc, p)
           u == << q >> \o s
<1>1. /\ proc \in [Slot -> Entry] /\ proc[p] \in Entry /\ proc[q] = Unused
      /\ Nobody \notin Slot /\ p # q /\ q # InitProc /\ Family(proc)
  <2>1. Table(proc) /\ Parents(proc) /\ Family(proc) /\ proc[p].stat = "run"
    BY DEF Good, Wellformed
  <2>2. EntryOK(proc[q]) /\ proc \in [Slot -> Entry]
    BY <2>1 DEF Table
  <2>3. QED
    BY <2>1, <2>2, ProcAssumption DEF Parents, EntryOK
<1>2. /\ s \in Seq(Slot) /\ IsInjective(s) /\ Linked(proc, p, s)
      /\ DOMAIN s = 1..Len(s) /\ Len(s) \in Nat
      /\ \A x \in Range(s) : x \in Slot /\ proc[x].parent = p
  BY <1>1, ChainFacts
<1>3. Chain(proc, q) = << >> /\ \A x \in Slot : proc[x].parent # q
  BY Childless DEF Good
<1>4. q \notin Range(s)
  BY <1>1, <1>2 DEF Unused
<1> HIDE DEF s
<1>5. /\ N \in [Slot -> Entry] /\ \A x \in Slot \ {p, q} : N[x] = proc[x]
      /\ N[p] = [proc[p] EXCEPT !.child = q]
      /\ N[q] = [Unused EXCEPT !.stat = "idl", !.sig = proc[p].sig, !.hold = proc[p].hold,
                    !.chold = proc[p].chold, !.parent = p, !.sibling = proc[p].child]
  <2> DEFINE e == [Unused EXCEPT !.stat = "idl", !.sig = proc[p].sig, !.hold = proc[p].hold,
                      !.chold = proc[p].chold, !.parent = p, !.sibling = proc[p].child]
  <2>1. e \in Entry
    BY <1>1 DEF Entry, Unused
  <2>2. [proc[p] EXCEPT !.child = q] \in Entry
    BY <1>1 DEF Entry
  <2>3. N = [proc EXCEPT ![q] = e, ![p].child = q]
    BY DEF Newproc
  <2> HIDE DEF e
  <2>4. /\ N \in [Slot -> Entry] /\ \A x \in Slot \ {p, q} : N[x] = proc[x]
        /\ N[p] = [proc[p] EXCEPT !.child = q] /\ N[q] = e
    BY <1>1, <2>1, <2>2, <2>3
  <2>5. QED
    BY <2>4 DEF e
<1>6. /\ N[p].stat = proc[p].stat /\ N[p].sig = proc[p].sig /\ N[p].hold = proc[p].hold
      /\ N[p].wchan = proc[p].wchan /\ N[p].snwake = proc[p].snwake
      /\ N[p].parent = proc[p].parent /\ N[p].sibling = proc[p].sibling /\ N[p].child = q
  BY <1>1, <1>5 DEF Entry
<1>7. /\ N[q].stat = "idl" /\ N[q].parent = p /\ N[q].sibling = proc[p].child
      /\ N[q].child = Nobody /\ ~N[q].snwake /\ N[q].wchan = Nowhere
  BY <1>5 DEF Unused
<1>8. /\ u \in Seq(Slot) /\ DOMAIN u = 1..(Len(s) + 1) /\ u[1] = q
      /\ \A i \in 1..Len(s) : u[i + 1] = s[i]
  <2>1. << q >> \in Seq(Slot) /\ Len(<< q >>) = 1 /\ << q >>[1] = q
    OBVIOUS
  <2>2. QED
    BY <1>2, <2>1, ConcatProperties
<1> HIDE DEF u
<1>9. Linked(N, p, u)
  <2>1. \A i \in DOMAIN u : i = 1 \/ (i - 1 \in DOMAIN s /\ u[i] = s[i - 1] /\ s[i - 1] \in Range(s))
    <3>1. ASSUME NEW i \in DOMAIN u, i # 1 PROVE i - 1 \in DOMAIN s /\ u[i] = s[i - 1]
      <4>1. i - 1 \in 1..Len(s) /\ (i - 1) + 1 = i
        BY <1>2, <1>8, <3>1
      <4>2. QED
        BY <1>2, <1>8, <4>1
    <3>2. QED
      BY <3>1 DEF Range
  <2>2. IsInjective(u)
    <3> SUFFICES ASSUME NEW i \in DOMAIN u, NEW j \in DOMAIN u, u[i] = u[j] PROVE i = j
      BY DEF IsInjective
    <3>1. CASE i = 1 \/ j = 1
      BY <1>4, <1>8, <2>1, <3>1
    <3>2. CASE i # 1 /\ j # 1
      <4>1. i - 1 = j - 1
        BY <1>2, <2>1, <3>2 DEF IsInjective
      <4>2. QED
        BY <1>8, <1>2, <4>1
    <3>3. QED
      BY <3>1, <3>2
  <2>3. \A i \in DOMAIN s : At(u, i + 1) = At(s, i)
    BY <1>2, <1>8 DEF At
  <2>4. At(u, 1) = q /\ At(u, 2) = At(s, 1) /\ At(u, Len(s) + 2) = At(s, Len(s) + 1)
    <3>1. At(u, 1) = q
      BY <1>2, <1>8 DEF At
    <3>2. At(u, Len(s) + 2) = Nobody /\ At(s, Len(s) + 1) = Nobody
      BY <1>2, <1>8 DEF At
    <3>3. At(u, 2) = At(s, 1)
      <4>1. CASE Len(s) = 0
        BY <1>2, <1>8, <4>1 DEF At
      <4>2. CASE Len(s) # 0
        <5>1. 1 \in DOMAIN s /\ 1 + 1 = 2
          BY <1>2, <4>2
        <5>2. QED
          BY <2>3, <5>1
      <4>3. QED
        BY <4>1, <4>2
    <3>4. QED
      BY <3>1, <3>2, <3>3
  <2>5. ASSUME NEW i \in DOMAIN u PROVE N[u[i]].parent = p /\ N[u[i]].sibling = At(u, i + 1)
    <3>1. CASE i = 1
      <4>1. proc[p].child = At(s, 1) /\ i + 1 = 2
        BY <1>2, <3>1 DEF Linked
      <4>2. QED
        BY <1>7, <1>8, <2>4, <3>1, <4>1
    <3>2. CASE i # 1
      <4> DEFINE j == i - 1
      <4>1. j \in DOMAIN s /\ u[i] = s[j] /\ s[j] \in Range(s) /\ s[j] # q /\ j + 1 = i
        BY <1>2, <1>4, <1>8, <2>1, <3>2
      <4>2. proc[s[j]].parent = p /\ proc[s[j]].sibling = At(s, j + 1) /\ s[j] \in Slot
        BY <1>2, <4>1 DEF Linked
      <4>3. At(s, j + 1) = At(u, i + 1)
        <5>1. CASE j = Len(s)
          <6>1. i + 1 = Len(s) + 2 /\ j + 1 = Len(s) + 1
            BY <4>1, <5>1
          <6>2. QED
            BY <2>4, <6>1
        <5>2. CASE j # Len(s)
          <6>1. j + 1 \in DOMAIN s /\ (j + 1) + 1 = i + 1
            BY <1>2, <4>1, <5>2
          <6>2. QED
            BY <2>3, <6>1
        <5>3. QED
          BY <5>1, <5>2
      <4> HIDE DEF j
      <4>4. N[s[j]].parent = proc[s[j]].parent /\ N[s[j]].sibling = proc[s[j]].sibling
        BY <1>5, <1>6, <4>1, <4>2
      <4>5. QED
        BY <4>1, <4>2, <4>3, <4>4
    <3>3. QED
      BY <3>1, <3>2
  <2>6. N[p].child = At(u, 1)
    BY <1>6, <2>4
  <2>7. QED
    BY <1>8, <2>2, <2>5, <2>6 DEF Linked
<1>10. Chain(N, p) = u /\ Range(u) = Range(s) \cup {q}
  <2>1. Chain(N, p) = u
    BY <1>9, ChainIs
  <2>2. \A i \in DOMAIN s : i + 1 \in DOMAIN u /\ u[i + 1] = s[i]
    BY <1>2, <1>8
  <2>3. 1 \in DOMAIN u
    BY <1>2, <1>8
  <2>4. \A i \in DOMAIN u : i = 1 \/ (i - 1 \in DOMAIN s /\ u[i] = s[i - 1])
    <3>1. ASSUME NEW i \in DOMAIN u, i # 1 PROVE i - 1 \in DOMAIN s /\ u[i] = s[i - 1]
      <4>1. i - 1 \in 1..Len(s) /\ (i - 1) + 1 = i
        BY <1>2, <1>8, <3>1
      <4>2. QED
        BY <1>2, <1>8, <4>1
    <3>2. QED
      BY <3>1
  <2>5. Range(s) \cup {q} \subseteq Range(u)
    BY <1>8, <2>2, <2>3 DEF Range
  <2>6. Range(u) \subseteq Range(s) \cup {q}
    BY <1>8, <2>4 DEF Range
  <2>7. QED
    BY <2>1, <2>5, <2>6
<1>11. ASSUME NEW r \in Slot \ {p}
       PROVE  Linked(N, r, Chain(proc, r)) /\ Chain(N, r) = Chain(proc, r)
  <2>1. /\ Linked(proc, r, Chain(proc, r))
        /\ \A x \in Range(Chain(proc, r)) : x \in Slot /\ proc[x].parent = r
    BY <1>1, ChainFacts
  <2>2. ASSUME NEW x \in Range(Chain(proc, r))
        PROVE  N[x].parent = proc[x].parent /\ N[x].sibling = proc[x].sibling
    <3>1. x \in Slot /\ x # q
      BY <1>1, <2>1 DEF Unused
    <3>2. QED
      BY <1>5, <1>6, <3>1
  <2>3. N[r].child = proc[r].child
    <3>1. CASE r = q
      BY <1>1, <1>7, <3>1 DEF Unused
    <3>2. CASE r # q
      BY <1>5, <3>2
    <3>3. QED
      BY <3>1, <3>2
  <2>4. Linked(N, r, Chain(proc, r))
    BY <2>1, <2>2, <2>3, LinkedStays
  <2>5. QED
    BY <2>4, ChainIs
<1>12. Table(N)
  <2>1. ASSUME NEW x \in Slot PROVE EntryOK(N[x])
    <3>1. EntryOK(proc[x])
      BY DEF Good, Wellformed, Table
    <3>2. CASE x = q
      BY <1>7, <3>2 DEF EntryOK
    <3>3. CASE x = p
      BY <1>6, <3>1, <3>3 DEF EntryOK, Good
    <3>4. CASE x # p /\ x # q
      BY <1>5, <3>1, <3>4
    <3>5. QED
      BY <3>2, <3>3, <3>4
  <2>2. QED
    BY <1>5, <2>1 DEF Table
<1>13. ASSUME NEW x \in Slot \ {q}
       PROVE  N[x].stat = proc[x].stat /\ N[x].parent = proc[x].parent /\ N[x].sig = proc[x].sig
  BY <1>5, <1>6
<1>14. Family(N)
  <2>1. \A r \in Slot : Linked(N, r, Chain(N, r))
    BY <1>9, <1>10, <1>11
  <2>2. ASSUME NEW r \in Slot, NEW x \in Slot, r = InitProc => InitProc \notin MayFail,
               N[x].parent = r
        PROVE  x \in Range(Chain(N, r))
    <3>1. CASE x = q
      BY <1>7, <1>10, <2>2, <3>1
    <3>2. CASE x # q
      <4>1. proc[x].parent = r
        BY <1>13, <2>2, <3>2
      <4>2. x \in Range(Chain(proc, r))
        BY <1>1, <2>2, <4>1 DEF Family
      <4>3. QED
        BY <1>10, <1>11, <4>2 DEF s
    <3>3. QED
      BY <3>1, <3>2
  <2>3. QED
    BY <2>1, <2>2 DEF Family
<1>15. Parents(N)
  <2>1. Parents(proc) /\ proc[p].stat = "run"
    BY DEF Good, Wellformed
  <2>2. ASSUME NEW x \in Slot \ {InitProc}, N[x].stat # "none"
        PROVE  N[x].parent \in Slot /\ N[N[x].parent].stat \in {"run", "sleep"}
    <3>1. CASE x = q
      BY <1>6, <1>7, <2>1, <3>1
    <3>2. CASE x # q
      <4>1. proc[x].stat # "none" /\ N[x].parent = proc[x].parent
        BY <1>13, <2>2, <3>2
      <4>2. N[x].parent \in Slot \ {q} /\ proc[proc[x].parent].stat \in {"run", "sleep"}
        BY <1>3, <2>1, <4>1 DEF Parents
      <4>3. QED
        BY <1>13, <4>1, <4>2
    <3>3. QED
      BY <3>1, <3>2
  <2>3. \A x \in Slot : N[x].parent # x
    BY <1>1, <1>7, <1>13, <2>1 DEF Parents
  <2>4. N[InitProc].stat \in {"run", "sleep"} /\ N[InitProc].parent = Nobody
        /\ N[InitProc].sig \subseteq {"CLD"}
    BY <1>1, <1>13, <2>1, ProcAssumption DEF Parents
  <2>5. QED
    BY <2>2, <2>3, <2>4 DEF Parents
<1>16. \A y \in Slot : proc[y].stat = "idl" => proc[y].parent \in Slot \ {p} /\ y # q
  <2>1. \A y \in Slot : proc[y].stat = "idl" => proc[y].parent \in Slot /\ y # q
    BY <1>1 DEF Good, Wellformed, Parents, Unused
  <2>2. QED
    BY <2>1 DEF Good
<1>17. ASSUME NEW r \in Slot \ {p}, NEW y \in Slot
       PROVE  (N[y].stat = "idl" /\ N[y].parent = r) <=> (proc[y].stat = "idl" /\ proc[y].parent = r)
  BY <1>7, <1>13, <1>16
<1>18. Newborn(N)
  <2> SUFFICES ASSUME NEW x \in Slot, N[x].stat = "idl"
               PROVE  /\ x \in Range(Chain(N, N[x].parent))
                      /\ N[x].parent # InitProc => N[N[x].parent].child = x
                      /\ \A y \in Slot : N[y].stat = "idl" /\ N[y].parent = N[x].parent => y = x
    BY DEF Newborn
  <2>1. CASE x = q
    <3>1. N[x].parent = p /\ x \in Range(Chain(N, p)) /\ N[p].child = x
      BY <1>6, <1>7, <1>10, <2>1
    <3>2. \A y \in Slot \ {q} : ~(N[y].stat = "idl" /\ N[y].parent = p)
      BY <1>13 DEF Good
    <3>3. QED
      BY <2>1, <3>1, <3>2
  <2>2. CASE x # q
    <3> DEFINE z == proc[x].parent
    <3>1. proc[x].stat = "idl" /\ N[x].parent = z
      BY <1>13, <2>2
    <3>2. z \in Slot \ {p}
      BY <1>16, <3>1
    <3>3. /\ x \in Range(Chain(proc, z)) /\ (z # InitProc => proc[z].child = x)
          /\ \A y \in Slot : proc[y].stat = "idl" /\ proc[y].parent = z => y = x
      BY <3>1 DEF Good, Wellformed, Newborn
    <3>4. z # q
      BY <1>3, <3>1
    <3> HIDE DEF z
    <3>5. Chain(N, z) = Chain(proc, z) /\ N[z] = proc[z]
      BY <1>5, <1>11, <3>2, <3>4
    <3>6. QED
      BY <1>17, <3>1, <3>2, <3>3, <3>5
  <2>3. QED
    BY <2>1, <2>2
<1>19. ASSUME NEW r \in Slot \ {p} PROVE Settled(N, r, pc[r])
  <2>1. Settled(proc, r, pc[r])
    BY DEF Good
  <2>2. CASE r = q
    <3>1. pc[r] = "user"
      BY <1>1, <2>1, <2>2 DEF Settled, Unused
    <3>2. ~(\E y \in Slot : N[y].stat = "idl" /\ N[y].parent = q)
      BY <1>1, <1>3, <1>17, <2>2
    <3>3. QED
      BY <1>7, <2>2, <3>1, <3>2 DEF Settled
  <2>3. CASE r # q
    <3>1. N[r] = proc[r]
      BY <1>5, <2>3
    <3>2. Zombies(N, r) \subseteq Zombies(proc, r)
      <4>1. /\ Chain(N, r) = Chain(proc, r)
            /\ \A x \in Range(Chain(proc, r)) : x \in Slot /\ proc[x].parent = r
        BY <1>1, <1>11, ChainFacts
      <4>2. \A x \in Slot : N[x].stat = "zomb" => proc[x].stat = "zomb"
        BY <1>7, <1>13
      <4>3. QED
        BY <4>1, <4>2 DEF Zombies
    <3>3. QED
      BY <1>17, <2>1, <3>1, <3>2, SettledStays
  <2>4. QED
    BY <2>2, <2>3
<1>20. QED
  BY <1>6, <1>7, <1>12, <1>14, <1>15, <1>18, <1>19 DEF HalfMade, Wellformed, Good

LEMMA HalfMadeFacts ==
    ASSUME NEW P, NEW p \in Slot, NEW q \in Slot, HalfMade(P, p, q)
    PROVE  /\ q # p /\ q # InitProc /\ pc[q] = "user"
           /\ P[q].child = Nobody /\ Chain(P, q) = << >>
           /\ \A x \in Slot : P[x].parent # q
           /\ \A x \in Slot : P[x].stat = "idl" /\ P[x].parent = p => x = q
           /\ P \in [Slot -> Entry] /\ P[p] \in Entry /\ P[q] \in Entry
           /\ P[q].wchan = Nowhere /\ ~P[q].snwake
<1>1. Wellformed(P) /\ P[p].stat = "run" /\ P[q].stat = "idl" /\ P[q].parent = p
  BY DEF HalfMade
<1>2. q # p /\ Settled(P, q, pc[q])
  BY <1>1 DEF HalfMade
<1>3. pc[q] = "user"
  BY <1>1, <1>2 DEF Settled
<1>4. /\ q # InitProc /\ P[q].child = Nobody /\ Chain(P, q) = << >>
      /\ \A x \in Slot : P[x].parent # q
  BY <1>1, Childless
<1>5. \A x \in Slot : P[x].stat = "idl" /\ P[x].parent = p => x = q
  BY <1>1 DEF Wellformed, Newborn
<1>6. P \in [Slot -> Entry] /\ P[q].wchan = Nowhere /\ ~P[q].snwake
  BY <1>1 DEF Wellformed, Table, EntryOK, Entry
<1>7. QED
  BY <1>2, <1>3, <1>4, <1>5, <1>6

LEMMA ForkedToInv ==
    ASSUME Inv, NEW p \in Slot, NEW q \in Slot, NEW P, HalfMade(P, p, q), Forked(p, P, q),
           UNCHANGED init_at
    PROVE  Inv'
<1> DEFINE Q == [P EXCEPT ![q].stat = "run"]
           kp == Back(P, p)
           kq == Back(P, q)
<1>1. /\ Wellformed(P) /\ P[p].stat = "run" /\ P[q].stat = "idl" /\ P[q].parent = p
      /\ \A r \in Slot \ {p} : Settled(P, r, pc[r])
  BY DEF HalfMade
<1>2. /\ q # p /\ q # InitProc /\ pc[q] = "user"
      /\ P[q].child = Nobody /\ Chain(P, q) = << >>
      /\ \A x \in Slot : P[x].parent # q
      /\ \A x \in Slot : P[x].stat = "idl" /\ P[x].parent = p => x = q
      /\ P \in [Slot -> Entry] /\ P[p] \in Entry /\ P[q] \in Entry
      /\ P[q].wchan = Nowhere /\ ~P[q].snwake
  BY HalfMadeFacts
<1>3. proc' = Q /\ pc' = [pc EXCEPT ![p] = kp, ![q] = kq]
      /\ u_signal' = [u_signal EXCEPT ![q] = u_signal[p]]
  BY DEF Forked
<1>4. kp \in {"user", "trap"} /\ kq \in {"user", "trap"}
  BY DEF Back
<1> HIDE DEF kp, kq
<1>5. Acting'
  <2>1. u_signal \in [Slot -> [Sig -> Disposition]]
    BY DEF Inv, Acting
  <2>2. QED
    BY <1>2, <1>3, <2>1 DEF Acting, Inv
<1>6. /\ Q \in [Slot -> Entry] /\ \A x \in Slot \ {q} : Q[x] = P[x]
      /\ Q[q].stat = "run" /\ Q[q].parent = P[q].parent /\ Q[q].child = P[q].child
      /\ Q[q].sibling = P[q].sibling /\ Q[q].wchan = Nowhere /\ ~Q[q].snwake
  <2> HIDE DEF Q
  <2>0. Q = [P EXCEPT ![q].stat = "run"]
    BY DEF Q
  <2>1. Q[q] = [P[q] EXCEPT !.stat = "run"]
    BY <1>2, <2>0
  <2>2. Q[q] \in Entry
    BY <1>2, <2>1 DEF Entry
  <2>3. Q \in [Slot -> Entry] /\ \A x \in Slot \ {q} : Q[x] = P[x]
    BY <1>2, <2>0, <2>2
  <2>4. QED
    BY <1>2, <2>1, <2>3 DEF Entry
<1> HIDE DEF Q
<1>7. Table(Q)
  BY <1>1, <1>6 DEF Wellformed, Table, EntryOK
<1>8. Family(Q) /\ \A x \in Slot : Chain(Q, x) = Chain(P, x)
  <2>1. \A x \in Slot : /\ Q[x].parent = P[x].parent /\ Q[x].child = P[x].child
                        /\ Q[x].sibling = P[x].sibling
    BY <1>6
  <2>2. Family(P)
    BY <1>1 DEF Wellformed
  <2>3. QED
    BY <2>1, <2>2, SamePointers
<1>9. Parents(Q)
  <2>1. Parents(P)
    BY <1>1 DEF Wellformed
  <2>2. \A x \in Slot : /\ Q[x].parent = P[x].parent
                        /\ Q[x].stat # "none" => P[x].stat # "none"
                        /\ P[x].stat \in {"run", "sleep"} => Q[x].stat \in {"run", "sleep"}
    BY <1>1, <1>6
  <2>3. Q[InitProc] = P[InitProc]
    BY <1>2, <1>6, ProcAssumption
  <2>4. QED
    BY <2>1, <2>2, <2>3 DEF Parents
<1>10. \A x \in Slot : Q[x].parent = P[x].parent /\ (Q[x].stat = "idl" <=> P[x].stat = "idl" /\ x # q)
  BY <1>1, <1>6
<1>11. Newborn(Q)
  <2> SUFFICES ASSUME NEW x \in Slot, Q[x].stat = "idl"
               PROVE  /\ x \in Range(Chain(Q, Q[x].parent))
                      /\ Q[x].parent # InitProc => Q[Q[x].parent].child = x
                      /\ \A y \in Slot : Q[y].stat = "idl" /\ Q[y].parent = Q[x].parent => y = x
    BY DEF Newborn
  <2> DEFINE z == P[x].parent
  <2>1. P[x].stat = "idl" /\ Q[x].parent = z
    BY <1>10
  <2>2. z \in Slot /\ z # q
    BY <1>1, <1>2, <2>1 DEF Wellformed, Parents
  <2>3. /\ x \in Range(Chain(P, z)) /\ (z # InitProc => P[z].child = x)
        /\ \A y \in Slot : P[y].stat = "idl" /\ P[y].parent = z => y = x
    BY <1>1, <2>1 DEF Wellformed, Newborn
  <2> HIDE DEF z
  <2>4. QED
    BY <1>6, <1>8, <1>10, <2>1, <2>2, <2>3
<1>12. Wellformed(Q)
  BY <1>7, <1>8, <1>9, <1>11 DEF Wellformed
<1>13. ASSUME NEW r \in Slot \ {p, q} PROVE Settled(Q, r, pc[r])
  <2>1. Settled(P, r, pc[r]) /\ Q[r] = P[r]
    BY <1>1, <1>6
  <2>2. Zombies(Q, r) \subseteq Zombies(P, r)
    <3>1. \A x \in Range(Chain(P, r)) : x \in Slot
      BY <1>1, ChainFacts DEF Wellformed
    <3>2. \A x \in Slot : Q[x].stat = "zomb" => P[x].stat = "zomb"
      BY <1>6
    <3>3. QED
      BY <1>8, <3>1, <3>2 DEF Zombies
  <2>3. \A y \in Slot : (Q[y].stat = "idl" /\ Q[y].parent = r) <=> (P[y].stat = "idl" /\ P[y].parent = r)
    BY <1>1, <1>10
  <2>4. QED
    BY <2>1, <2>2, <2>3, SettledStays
<1>14. ASSUME NEW r \in {p, q}, NEW k \in {"user", "trap"} PROVE Settled(Q, r, k)
  <2>1. Q[r].stat = "run" /\ ~Q[r].snwake
    BY <1>1, <1>2, <1>6 DEF Wellformed, Table, EntryOK
  <2>2. \A y \in Slot : ~(Q[y].stat = "idl" /\ Q[y].parent = r)
    BY <1>2, <1>10
  <2>3. QED
    BY <2>1, <2>2 DEF Settled
<1>15. pc' \in [Slot -> {"user", "trap", "fork", "wait", "pause", "exit"}]
  BY <1>3, <1>4 DEF Inv
<1>16. ASSUME NEW r \in Slot PROVE Settled(Q, r, pc'[r])
  <2>1. pc'[r] = IF r = q THEN kq ELSE IF r = p THEN kp ELSE pc[r]
    BY <1>2, <1>3 DEF Inv
  <2>2. QED
    BY <1>4, <1>13, <1>14, <2>1
<1>17. (\A r \in Slot : Settled(proc, r, pc[r]))'
  BY <1>3, <1>16 DEF Settled
<1>18. QED
  BY <1>3, <1>5, <1>12, <1>15, <1>17 DEF Inv

(* The child that failed is the i-th of its parent; what was ahead of it,  *)
(* which only proc[1] may have, is no longer on the chain.                 *)
LEMMA ForkFailsFacts ==
    ASSUME NEW p \in MayFail, NEW q \in Slot, NEW P, HalfMade(P, p, q),
           NEW Q, Q = [P EXCEPT ![p].child = P[q].sibling, ![q] = Unused]
    PROVE  Good(Q, p)
<1> DEFINE u == Chain(P, p)
<1>0. p \in Slot
  BY ProcAssumption
<1>1. /\ Wellformed(P) /\ Family(P) /\ Parents(P) /\ P[p].stat = "run" /\ P[q].stat = "idl" /\ P[q].parent = p
      /\ \A r \in Slot \ {p} : Settled(P, r, pc[r])
  BY DEF HalfMade, Wellformed
<1>2. /\ q # p /\ q # InitProc /\ pc[q] = "user"
      /\ P[q].child = Nobody /\ Chain(P, q) = << >>
      /\ \A x \in Slot : P[x].parent # q
      /\ \A x \in Slot : P[x].stat = "idl" /\ P[x].parent = p => x = q
      /\ P \in [Slot -> Entry] /\ P[p] \in Entry /\ P[q] \in Entry
      /\ P[q].wchan = Nowhere /\ ~P[q].snwake
  BY <1>0, HalfMadeFacts
<1>3. /\ u \in Seq(Slot) /\ IsInjective(u) /\ Linked(P, p, u)
      /\ DOMAIN u = 1..Len(u) /\ Len(u) \in Nat
      /\ \A x \in Range(u) : x \in Slot /\ P[x].parent = p
  BY <1>0, <1>1, ChainFacts
<1>4. q \in Range(u) /\ (p # InitProc => P[p].child = q)
  BY <1>1 DEF Wellformed, Newborn
<1> HIDE DEF u
<1>5. PICK i \in DOMAIN u : u[i] = q
  BY <1>4 DEF Range
<1>6. p # InitProc => i = 1
  <2> SUFFICES ASSUME p # InitProc PROVE i = 1
    OBVIOUS
  <2>1. At(u, 1) = u[i]
    BY <1>3, <1>4, <1>5 DEF Linked
  <2>2. 1 \in DOMAIN u
    BY <1>3
  <2>3. QED
    BY <1>3, <2>1, <2>2 DEF At, IsInjective
<1>7. /\ Q \in [Slot -> Entry] /\ Q[q] = Unused /\ \A x \in Slot \ {p, q} : Q[x] = P[x]
      /\ SameButLinks(Q[p], P[p]) /\ Q[p].sibling = P[p].sibling /\ Q[p].child = P[q].sibling
  <2> DEFINE a == P[q].sibling
  <2>1. a \in Slot \cup {Nobody} /\ Unused \in Entry
    BY <1>2 DEF Entry, Unused
  <2>2. Q = [P EXCEPT ![p].child = a, ![q] = Unused]
    OBVIOUS
  <2> HIDE DEF a
  <2>3. Q[p] = [P[p] EXCEPT !.child = a] /\ Q[q] = Unused
    BY <1>0, <1>2, <2>2
  <2>a. P[p] \in Entry
    BY <1>2
  <2>4. Q[p] \in Entry
    BY ONLY <2>1, <2>3, <2>a DEF Entry
  <2>5. Q \in [Slot -> Entry] /\ \A x \in Slot \ {p, q} : Q[x] = P[x]
    BY <1>0, <1>2, <2>1, <2>2, <2>3, <2>4
  <2>6. /\ SameButLinks(Q[p], P[p]) /\ Q[p].sibling = P[p].sibling /\ Q[p].child = a
    BY ONLY <2>3, <2>a DEF Entry, SameButLinks
  <2>7. QED
    BY <2>3, <2>5, <2>6 DEF a
<1> DEFINE n == Len(u) - i
           t == [j \in 1..n |-> u[i + j]]
<1>8. /\ n \in Nat /\ t \in Seq(Slot) /\ Len(t) = n /\ DOMAIN t = 1..n
      /\ \A j \in 1..n : i + j \in DOMAIN u /\ t[j] = u[i + j] /\ t[j] \in Range(u) /\ t[j] # q
  <2>1. n \in Nat /\ \A j \in 1..n : i + j \in DOMAIN u /\ u[i + j] \in Slot
    BY <1>3
  <2>2. \A j \in 1..n : u[i + j] # q /\ u[i + j] \in Range(u)
    BY <1>3, <1>5, <2>1 DEF IsInjective, Range
  <2> HIDE DEF n
  <2>3. t \in [1..n -> Slot]
    BY <2>1
  <2>4. t \in Seq(Slot) /\ Len(t) = n /\ DOMAIN t = 1..n
    BY <2>1, <2>3
  <2>5. QED
    BY <2>1, <2>2, <2>4
<1>9. \A j \in 0..n : At(t, j + 1) = At(u, i + j + 1)
  <2>0. i \in Nat /\ n \in Nat /\ i + n = Len(u)
    BY <1>3, <1>8
  <2> HIDE DEF n, t
  <2>1. ASSUME NEW j \in 0..n PROVE At(t, j + 1) = At(u, i + j + 1)
    <3>1. CASE j = n
      <4>1. j + 1 \notin DOMAIN t /\ i + j + 1 \notin DOMAIN u
        BY <1>3, <1>8, <2>0, <3>1
      <4>2. QED
        BY <4>1 DEF At
    <3>2. CASE j # n
      <4>1. j + 1 \in 1..n /\ i + (j + 1) = i + j + 1
        BY <2>0, <3>2
      <4>2. QED
        BY <1>8, <4>1 DEF At
    <3>3. QED
      BY <3>1, <3>2
  <2>2. QED
    BY <2>1
<1> HIDE DEF t
<1>10. Linked(Q, p, t)
  <2>1. IsInjective(t)
    <3> SUFFICES ASSUME NEW j \in 1..n, NEW k \in 1..n, t[j] = t[k] PROVE j = k
      BY <1>8 DEF IsInjective
    <3>1. i + j = i + k
      BY <1>3, <1>8 DEF IsInjective
    <3>2. QED
      BY <1>3, <1>8, <3>1
  <2>2. Q[p].child = At(t, 1)
    <3>1. P[q].sibling = At(u, i + 1)
      BY <1>3, <1>5 DEF Linked
    <3>2. 0 \in 0..n /\ 0 + 1 = 1 /\ i + 0 + 1 = i + 1
      BY <1>3, <1>8
    <3>3. QED
      BY <1>7, <1>9, <3>1, <3>2
  <2>3. ASSUME NEW j \in 1..n PROVE Q[t[j]].parent = p /\ Q[t[j]].sibling = At(t, j + 1)
    <3>1. i + j \in DOMAIN u /\ t[j] = u[i + j] /\ t[j] # q /\ t[j] \in Slot /\ t[j] # p
      BY <1>1, <1>3, <1>8 DEF Parents
    <3>2. P[t[j]].parent = p /\ P[t[j]].sibling = At(u, i + j + 1)
      BY <1>3, <3>1 DEF Linked
    <3>3. j \in 0..n
      BY <1>8
    <3>4. QED
      BY <1>7, <1>9, <3>1, <3>2, <3>3
  <2>4. QED
    BY <1>8, <2>1, <2>2, <2>3 DEF Linked
<1>11. Chain(Q, p) = t
  BY <1>0, <1>10, ChainIs
<1>12. p # InitProc => Range(t) = Range(u) \ {q}
  <2> SUFFICES ASSUME p # InitProc PROVE Range(t) = Range(u) \ {q}
    OBVIOUS
  <2>1. i = 1
    BY <1>6
  <2>2. Range(t) \subseteq Range(u) \ {q}
    BY <1>8 DEF Range
  <2>3. ASSUME NEW k \in DOMAIN u, u[k] # q PROVE u[k] \in Range(t)
    <3>1. k - 1 \in 1..n /\ i + (k - 1) = k
      BY <1>3, <1>5, <2>1, <2>3
    <3>2. t[k - 1] = u[k] /\ k - 1 \in DOMAIN t
      BY <1>8, <3>1
    <3>3. QED
      BY <3>2 DEF Range
  <2>4. QED
    BY <2>2, <2>3 DEF Range
<1>13. ASSUME NEW r \in Slot \ {p}
       PROVE  Linked(Q, r, Chain(P, r)) /\ Chain(Q, r) = Chain(P, r)
  <2>1. /\ Linked(P, r, Chain(P, r))
        /\ \A x \in Range(Chain(P, r)) : x \in Slot /\ P[x].parent = r
    BY <1>1, ChainFacts
  <2>2. ASSUME NEW x \in Range(Chain(P, r))
        PROVE  Q[x].parent = P[x].parent /\ Q[x].sibling = P[x].sibling
    <3>1. x \in Slot /\ x # q
      BY <1>1, <2>1
    <3>2. QED
      BY <1>7, <3>1 DEF SameButLinks
  <2>3. Q[r].child = P[r].child
    <3>1. CASE r = q
      BY <1>2, <1>7, <3>1 DEF Unused
    <3>2. CASE r # q
      BY <1>7, <3>2
    <3>3. QED
      BY <3>1, <3>2
  <2>4. Linked(Q, r, Chain(P, r))
    BY <2>1, <2>2, <2>3, LinkedStays
  <2>5. QED
    BY <2>4, ChainIs
<1>14. \A x \in Slot \ {q} : SameButLinks(Q[x], P[x])
  BY <1>7 DEF SameButLinks
<1>15. Table(Q)
  <2>1. ASSUME NEW x \in Slot PROVE EntryOK(Q[x])
    <3>1. EntryOK(P[x])
      BY <1>1 DEF Wellformed, Table
    <3>2. CASE x = q
      BY <1>7, <3>2, ProcAssumption DEF EntryOK, Unused
    <3>3. CASE x = p
      BY <1>1, <1>2, <1>14, <3>1, <3>3 DEF EntryOK, SameButLinks
    <3>4. CASE x # p /\ x # q
      BY <1>7, <3>1, <3>4
    <3>5. QED
      BY <3>2, <3>3, <3>4
  <2>2. QED
    BY <1>7, <2>1 DEF Table
<1>16. Family(Q)
  <2>1. \A r \in Slot : Linked(Q, r, Chain(Q, r))
    BY <1>10, <1>11, <1>13
  <2>2. ASSUME NEW r \in Slot, NEW x \in Slot, r = InitProc => InitProc \notin MayFail,
               Q[x].parent = r
        PROVE  x \in Range(Chain(Q, r))
    <3>1. x # q
      BY <1>7, <2>2, ProcAssumption DEF Unused
    <3>2. P[x].parent = r
      BY <1>14, <2>2, <3>1 DEF SameButLinks
    <3>3. x \in Range(Chain(P, r))
      BY <1>1, <2>2, <3>2 DEF Family
    <3>4. r = p => p # InitProc
      BY <2>2
    <3>5. QED
      BY <1>11, <1>12, <1>13, <3>1, <3>3, <3>4 DEF u
  <2>3. QED
    BY <2>1, <2>2 DEF Family
<1>17. Parents(Q)
  <2>1. ASSUME NEW x \in Slot \ {InitProc}, Q[x].stat # "none"
        PROVE  Q[x].parent \in Slot /\ Q[Q[x].parent].stat \in {"run", "sleep"}
    <3>1. x # q
      BY <1>7, <2>1 DEF Unused
    <3>2. P[x].stat # "none" /\ Q[x].parent = P[x].parent
      BY <1>14, <2>1, <3>1 DEF SameButLinks
    <3>3. P[x].parent \in Slot \ {q} /\ P[P[x].parent].stat \in {"run", "sleep"}
      BY <1>1, <1>2, <3>2 DEF Parents
    <3>4. QED
      BY <1>14, <3>2, <3>3 DEF SameButLinks
  <2>2. ASSUME NEW x \in Slot PROVE Q[x].parent # x
    <3>1. CASE x = q
      BY <1>7, <3>1, ProcAssumption DEF Unused
    <3>2. CASE x # q
      BY <1>1, <1>14, <3>2 DEF Parents, SameButLinks
    <3>3. QED
      BY <3>1, <3>2
  <2>3. Q[InitProc].stat \in {"run", "sleep"} /\ Q[InitProc].parent = Nobody
        /\ Q[InitProc].sig \subseteq {"CLD"}
    BY <1>1, <1>2, <1>14, ProcAssumption DEF Parents, SameButLinks
  <2>4. QED
    BY <2>1, <2>2, <2>3 DEF Parents
<1>18. ASSUME NEW r \in Slot, NEW y \in Slot
       PROVE  /\ r # p => ((Q[y].stat = "idl" /\ Q[y].parent = r)
                           <=> (P[y].stat = "idl" /\ P[y].parent = r))
              /\ Q[y].stat = "idl" => P[y].stat = "idl" /\ Q[y].parent = P[y].parent
                                      /\ P[y].parent # p
  <2>1. CASE y = q
    BY <1>1, <1>7, <2>1 DEF Unused
  <2>2. CASE y # q
    BY <1>2, <1>14, <2>2 DEF SameButLinks
  <2>3. QED
    BY <2>1, <2>2
<1>19. Newborn(Q)
  <2> SUFFICES ASSUME NEW x \in Slot, Q[x].stat = "idl"
               PROVE  /\ x \in Range(Chain(Q, Q[x].parent))
                      /\ Q[x].parent # InitProc => Q[Q[x].parent].child = x
                      /\ \A y \in Slot : Q[y].stat = "idl" /\ Q[y].parent = Q[x].parent => y = x
    BY DEF Newborn
  <2> DEFINE z == P[x].parent
  <2>1. P[x].stat = "idl" /\ Q[x].parent = z /\ z # p
    BY <1>0, <1>18
  <2>2. z \in Slot \ {p, q}
    BY <1>1, <1>2, <2>1 DEF Parents
  <2>3. /\ x \in Range(Chain(P, z)) /\ (z # InitProc => P[z].child = x)
        /\ \A y \in Slot : P[y].stat = "idl" /\ P[y].parent = z => y = x
    BY <1>1, <2>1 DEF Wellformed, Newborn
  <2> HIDE DEF z
  <2>4. Chain(Q, z) = Chain(P, z) /\ Q[z] = P[z]
    BY <1>7, <1>13, <2>2
  <2>5. QED
    BY <1>18, <2>1, <2>2, <2>3, <2>4
<1>20. ASSUME NEW r \in Slot \ {p} PROVE Settled(Q, r, pc[r])
  <2>1. Settled(P, r, pc[r])
    BY <1>1
  <2>2. CASE r = q
    <3>1. \A y \in Slot : ~(Q[y].stat = "idl" /\ Q[y].parent = q)
      BY <1>2, <1>18
    <3>2. QED
      BY <1>2, <1>7, <2>2, <3>1 DEF Settled, Unused
  <2>3. CASE r # q
    <3>1. Q[r] = P[r]
      BY <1>7, <2>3
    <3>2. Zombies(Q, r) \subseteq Zombies(P, r)
      <4>0. Chain(Q, r) = Chain(P, r)
        BY <1>13
      <4>1. \A x \in Range(Chain(P, r)) : x \in Slot /\ P[x].parent = r
        BY <1>1, ChainFacts
      <4>2. \A x \in Slot \ {q} : Q[x].stat = "zomb" => P[x].stat = "zomb"
        BY <1>14 DEF SameButLinks
      <4>3. q \notin Range(Chain(P, r)) /\ r # p
        BY <1>1, <4>1
      <4>4. QED
        BY <4>0, <4>1, <4>2, <4>3 DEF Zombies
    <3>3. \A y \in Slot : (Q[y].stat = "idl" /\ Q[y].parent = r)
                           <=> (P[y].stat = "idl" /\ P[y].parent = r)
      BY <1>18
    <3>4. r \in Slot
      OBVIOUS
    <3>5. QED
      BY ONLY <2>1, <3>1, <3>2, <3>3, <3>4, SettledStays
  <2>4. QED
    BY <2>2, <2>3
<1>21. Q[p].stat = "run" /\ \A y \in Slot : ~(Q[y].stat = "idl" /\ Q[y].parent = p)
  BY <1>0, <1>1, <1>7, <1>18 DEF SameButLinks
<1>22. QED
  BY <1>15, <1>16, <1>17, <1>19, <1>20, <1>21 DEF Good, Wellformed

LEMMA ForkFailsToInv ==
    ASSUME Inv, NEW p \in Slot, NEW q \in Slot, NEW P, HalfMade(P, p, q), ForkFails(p, P, q),
           UNCHANGED init_at
    PROVE  Inv'
<1> DEFINE Q == [P EXCEPT ![p].child = P[q].sibling, ![q] = Unused]
<1>1. p \in MayFail /\ Returns(p, Q) /\ UNCHANGED u_signal
  BY DEF ForkFails
<1>2. Good(Q, p)
  BY <1>1, ForkFailsFacts
<1> HIDE DEF Q
<1>3. Acting'
  BY <1>1 DEF Inv, Acting
<1>4. QED
  BY <1>1, <1>2, <1>3, ReturnsAnyToInv

LEMMA ForkStep ==
    ASSUME Inv, NEW p \in Slot, Fork(p) \/ ForkReturns(p)
    PROVE  Inv'
<1>0. UNCHANGED init_at
  BY DEF Fork, ForkReturns
<1>1. CASE Fork(p)
  <2>1. Good(proc, p)
    BY <1>1, GoodWhen DEF Fork, InUser
  <2>2. PICK q \in Slot :
          /\ proc[q].stat = "none"
          /\ \/ Forked(p, Newproc(p, q), q)
             \/ ForkFails(p, Newproc(p, q), q)
             \/ SleepThrough(p, Newproc(p, q), "fork") /\ UNCHANGED u_signal
    BY <1>1 DEF Fork
  <2> DEFINE N == Newproc(p, q)
  <2>3. HalfMade(N, p, q)
    BY <2>1, <2>2, NewprocFacts
  <2>4. Forked(p, N, q) \/ ForkFails(p, N, q) \/ (SleepThrough(p, N, "fork") /\ UNCHANGED u_signal)
    BY <2>2
  <2> HIDE DEF N
  <2>5. ASSUME SleepThrough(p, N, "fork"), UNCHANGED u_signal PROVE Inv'
    <3>1. Acting'
      BY <1>0, <2>5 DEF Inv, Acting
    <3>2. \E r \in Slot : N[r].stat = "idl" /\ N[r].parent = p
      BY <2>3 DEF HalfMade
    <3>3. QED
      BY <2>3, <2>5, <3>1, <3>2, SleepThroughToInv DEF HalfMade
  <2>6. QED
    BY <1>0, <2>3, <2>4, <2>5, ForkedToInv, ForkFailsToInv
<1>2. CASE ForkReturns(p)
  <2> DEFINE q == Child(p)
  <2>1. pc[p] = "fork" /\ proc[p].stat = "run" /\ (Forked(p, proc, q) \/ ForkFails(p, proc, q))
    BY <1>2 DEF ForkReturns, Resumes
  <2>2. \E r \in Slot : proc[r].stat = "idl" /\ proc[r].parent = p
    BY <2>1 DEF Inv, Settled
  <2>3. q \in Slot /\ proc[q].stat = "idl" /\ proc[q].parent = p
    BY <2>2 DEF Child
  <2> HIDE DEF q
  <2>4. HalfMade(proc, p, q)
    BY <2>1, <2>3 DEF HalfMade, Inv
  <2>5. QED
    BY <1>0, <2>1, <2>3, <2>4, ForkedToInv, ForkFailsToInv
<1>3. QED
  BY <1>1, <1>2
-----------------------------------------------------------------------------
LEMMA InitInv == Init => Inv
<1> SUFFICES ASSUME Init PROVE Inv
  OBVIOUS
<1> DEFINE P == proc
<1>1. /\ P \in [Slot -> Entry]
      /\ \A q \in Slot : /\ P[q].child = Nobody /\ P[q].parent = Nobody /\ P[q].sig = {}
                         /\ ~P[q].snwake /\ P[q].wchan = Nowhere
                         /\ P[q].stat = IF q = InitProc THEN "run" ELSE "none"
                         /\ q # InitProc => P[q] = Unused
  <2> DEFINE e == [Unused EXCEPT !.stat = "run"]
  <2>1. Unused \in Entry /\ e \in Entry
    BY DEF Unused, Entry
  <2>2. /\ e.child = Nobody /\ e.parent = Nobody /\ e.sig = {} /\ ~e.snwake /\ e.wchan = Nowhere
        /\ e.stat = "run"
    BY DEF Unused
  <2>3. P = [q \in Slot |-> IF q = InitProc THEN e ELSE Unused]
    BY DEF Init
  <2>4. /\ Unused.child = Nobody /\ Unused.parent = Nobody /\ Unused.sig = {} /\ ~Unused.snwake
        /\ Unused.wchan = Nowhere /\ Unused.stat = "none"
    BY DEF Unused
  <2> HIDE DEF e
  <2>5. QED
    BY <2>1, <2>2, <2>3, <2>4
<1>2. /\ pc = [q \in Slot |-> "user"] /\ init_at = "main"
      /\ u_signal = [q \in Slot |-> [s \in Sig |->
                       IF q = InitProc /\ s = "CLD" THEN "catch" ELSE "dfl"]]
  BY DEF Init
<1>3. Nobody \notin Slot /\ InitProc \in Slot
  BY ProcAssumption
<1> HIDE DEF P
<1>4. Table(P)
  BY <1>1 DEF Table, EntryOK
<1>5. ASSUME NEW p \in Slot PROVE Linked(P, p, << >>) /\ Chain(P, p) = << >>
  <2>1. Linked(P, p, << >>)
    BY <1>1 DEF Linked, At, IsInjective
  <2>2. QED
    BY <2>1, ChainIs
<1>6. Family(P)
  BY <1>1, <1>3, <1>5 DEF Family
<1>7. Parents(P)
  BY <1>1, <1>3 DEF Parents
<1>8. Newborn(P)
  BY <1>1 DEF Newborn
<1>9. Acting
  BY <1>2, <1>3 DEF Acting, Disposition
<1>10. ASSUME NEW q \in Slot PROVE Settled(P, q, pc[q])
  BY <1>1, <1>2 DEF Settled
<1>11. QED
  BY <1>2, <1>4, <1>6, <1>7, <1>8, <1>9, <1>10 DEF Inv, Wellformed, P

LEMMA NextInv == Inv /\ [Next]_vars => Inv'
<1> SUFFICES ASSUME Inv, [Next]_vars PROVE Inv'
  OBVIOUS
<1>1. CASE UNCHANGED vars
  BY <1>1 DEF vars, Inv, Acting, Settled
<1>2. ASSUME NEW p \in Slot, Fork(p) \/ ForkReturns(p) PROVE Inv'
  BY <1>2, ForkStep
<1>3. ASSUME NEW p \in Slot, Wait(p) \/ WaitReturns(p) PROVE Inv'
  BY <1>3, WaitStep
<1>4. ASSUME NEW p \in Slot, Pause(p) \/ PauseReturns(p) PROVE Inv'
  BY <1>4, PauseStep
<1>5. ASSUME NEW p \in Slot, Exit(p) \/ ExitReturns(p) PROVE Inv'
  BY <1>5, ExitStep
<1>6. ASSUME NEW p \in Slot, Psig(p) PROVE Inv'
  BY <1>6, PsigStep
<1>7. ASSUME NEW p \in Slot, Event(p) \/ \E s \in Sig : Post(p, s) PROVE Inv'
  BY <1>7, EntryStep
<1>8. ASSUME NEW p \in Slot, Exec(p) PROVE Inv'
  BY <1>8, ExecStep
<1>9. ASSUME NEW p \in Slot, NEW s \in Sig, Ssig(p, s) PROVE Inv'
  BY <1>9, SsigStep
<1>10. CASE Arm \/ Disarm
  BY <1>10, ArmStep
<1>11. QED
  BY <1>1, <1>2, <1>3, <1>4, <1>5, <1>6, <1>7, <1>8, <1>9, <1>10 DEF Next

(* The invariant of the process table: every chain of children is linked,  *)
(* parents live, a child being made has one parent in fork, and who sleeps *)
(* has nothing to wake for (newproc, exit, wait, freeproc, psignal, issig).*)
THEOREM Invariance == Spec => []Inv
<1>1. Init => Inv
  BY InitInv
<1>2. Inv /\ [Next]_vars => Inv'
  BY NextInv
<1>3. QED
  BY <1>1, <1>2, PTL DEF Spec

(* The entries of the table and what processes do with signals keep their  *)
(* types: an entry on a channel sleeps, an unused one is cleared.          *)
THEOREM TypeCorrect == Spec => []TypeOK
<1>1. Inv => TypeOK
  <2> SUFFICES ASSUME Inv PROVE TypeOK
    OBVIOUS
  <2>1. proc \in [Slot -> Entry] /\ \A q \in Slot : EntryOK(proc[q])
    BY DEF Inv, Wellformed, Table
  <2>2. ASSUME NEW q \in Slot
        PROVE  /\ proc[q].stat \in {"none", "idl", "run", "sleep", "zomb"}
               /\ proc[q].sig \subseteq Sig /\ proc[q].hold \subseteq Sig \ {"KILL"}
               /\ proc[q].chold \subseteq Sig \ {"KILL"}
               /\ {proc[q].parent, proc[q].child, proc[q].sibling} \subseteq Slot \cup {Nobody}
    <3>1. proc[q] \in Entry
      BY <2>1
    <3>2. QED
      BY <3>1 DEF Entry
  <2>3. QED
    BY <2>1, <2>2 DEF TypeOK, EntryOK, Inv, Acting
<1>2. QED
  BY <1>1, Invariance, PTL

(* sleep() looks for a signal before it switches and psignal() ends a      *)
(* sleep that has begun: nobody sleeps through a signal it does not hold.  *)
THEOREM SignalsEndSleep == Spec => []NoSignalSlept
<1>1. Inv => NoSignalSlept
  BY DEF Inv, Settled, NoSignalSlept
<1>2. QED
  BY <1>1, Invariance, PTL

(* Who sleeps in wait() has no dead child, its own or adopted, unless it   *)
(* holds SIGCLD: exit() of a child and of its parent tell it, and wait     *)
(* looks at the whole chain before it sleeps.                              *)
THEOREM DeadChildrenSeen == Spec => []NoZombieMissed
<1>1. Inv => NoZombieMissed
  <2> SUFFICES ASSUME Inv, NEW q \in Slot, pc[q] = "wait", proc[q].stat = "sleep"
               PROVE  Zombies(proc, q) = {} \/ "CLD" \in proc[q].hold
    BY DEF NoZombieMissed
  <2>1. Settled(proc, q, "wait")
    BY DEF Inv
  <2>2. QED
    BY <2>1 DEF Settled
<1>2. QED
  BY <1>1, Invariance, PTL

(* The pointers p_child, p_sibling and p_parent form a tree of the         *)
(* processes in use, when newproc() does not fail for proc[1], which the   *)
(* taking off of a child relies on ("nobody else could be diddling").      *)
THEOREM TreeKept ==
    ASSUME InitProc \notin MayFail
    PROVE  Spec => []FamilyTree
<1>1. Inv => FamilyTree
  <2> SUFFICES ASSUME Inv PROVE FamilyTree
    OBVIOUS
  <2>1. Family(proc) /\ Parents(proc) /\ Newborn(proc)
    BY DEF Inv, Wellformed
  <2>2. ASSUME NEW p \in Slot
        PROVE  /\ Range(Chain(proc, p)) = {q \in Slot : proc[q].parent = p}
               /\ IsInjective(Chain(proc, p))
    <3>1. /\ IsInjective(Chain(proc, p))
          /\ \A q \in Range(Chain(proc, p)) : q \in Slot /\ proc[q].parent = p
      BY <2>1, ChainFacts
    <3>2. ASSUME NEW q \in Slot, proc[q].parent = p PROVE q \in Range(Chain(proc, p))
      BY <2>1, <3>2 DEF Family
    <3>3. QED
      BY <3>1, <3>2
  <2>3. ASSUME NEW q \in Slot \ {InitProc}, proc[q].stat # "none"
        PROVE  proc[q].parent \in Slot /\ Live(proc[q].parent)
    BY <2>1, <2>3 DEF Parents, Live
  <2>4. QED
    BY <2>2, <2>3 DEF FamilyTree
<1>2. QED
  BY <1>1, Invariance, PTL
=============================================================================
