--------------------------- MODULE InodeTable_proofs ---------------------------
(***************************************************************************)
(* The inode table holds an inode at most once, counts the references to   *)
(* it and locks it for one process at a time, implements a list of inodes, *)
(* hands out free inodes only and strands no sleeper, for any number of    *)
(* processes, entries and inodes.                                          *)
(***************************************************************************)
EXTENDS InodeTable, SeqLemmas, FiniteSetTheorems

(* Where a process has no inode at all, and where it has the only reference *)
(* to the one it has locked.                                               *)
NoInode == {"iget", "ialloc", "asleep", "apop", "scan", "nospace"}
Alone == {"iread", "itrunc", "ifree", "fsleep", "fupdate", "update", "put"}

Modes == {"free", "file"}
EntryState ==
    [number : 0..NIno, hashed : BOOLEAN, ilock : BOOLEAN, iwant : BOOLEAN, count : Nat,
     changed : BOOLEAN, fsptr : BOOLEAN, mode : Modes, nlink : 0..MAXLINK]
ProcState ==
    [pc : Labels, ip : Slot \cup {None}, ino : 0..(NIno + INOPB),
     by : {"user", "ialloc"}, u_error : BOOLEAN]

(* The types, but for the bounds of i_count and s_tinode. *)
Shape ==
    /\ inode \in [Slot -> EntryState]
    /\ ifreelist \in Seq(Slot) /\ IsInjective(ifreelist)
    /\ dinode \in [Ino -> [mode : Modes, nlink : 0..MAXLINK]]
    /\ s_inode \in [0..(NICINOD - 1) -> 0..NIno]
    /\ s_ninode \in 0..NICINOD /\ s_tinode \in Nat /\ s_ilock \in BOOLEAN
    /\ f_inode \in Slot \cup {None}
    /\ proc \in [Procs -> ProcState]
    /\ curproc \in Procs \cup {Nobody}

(* What a process at its place relies on. *)
ProcOK(p) ==
    /\ proc[p].pc \in NoInode => proc[p].ip = None
    /\ proc[p].pc \notin NoInode \cup {"user"} => proc[p].ip \in Slot
    /\ proc[p].pc \in Alone => Entry(p).count = 1
    /\ proc[p].pc \in {"itrunc", "ifree", "fsleep"} => Entry(p).mode = "file" /\ Entry(p).nlink = 0
    /\ proc[p].pc \in {"itrunc", "ifree", "fsleep", "fupdate"} => Entry(p).changed
    /\ proc[p].pc \in {"iread", "put"} => ~Entry(p).changed

Reads(p, s) == proc[p].ip = s /\ proc[p].pc = "iread"
Refs(s) == {p \in Procs : Refers(p, s)}
One(b) == IF b THEN 1 ELSE 0

(* The entry in s agrees with the processes, the free list and the medium. *)
SlotOK(s) ==
    /\ inode[s].hashed => inode[s].number \in Ino
    /\ inode[s].count # 0 => inode[s].hashed
    /\ inode[s].count = 0 => ~inode[s].changed
    /\ inode[s].count = Cardinality(Refs(s)) + One(f_inode = s)
    /\ inode[s].ilock <=> \E p \in Procs : Locks(p, s)
    /\ \A p, q \in Procs : Locks(p, s) /\ Locks(q, s) => p = q
    /\ inode[s].count = 0 <=> s \in ToSet(ifreelist)
    /\ inode[s].hashed /\ ~inode[s].changed /\ (\A p \in Procs : ~Reads(p, s)) =>
         dinode[inode[s].number] = [mode |-> inode[s].mode, nlink |-> inode[s].nlink]

IInv ==
    /\ Shape
    /\ \A p \in Procs : ProcOK(p)
    /\ \A s \in Slot : SlotOK(s)
    /\ OneInode
--------------------------------------------------------------------------------
(* Sleepers and wakeups. *)

(* y is x, or x awake. *)
Woke(x, y) ==
    \/ y = x
    \/ x.pc = "isleep" /\ y = [x EXCEPT !.pc = "iget", !.ip = None]
    \/ x.pc = "psleep" /\ y = [x EXCEPT !.pc = "plock"]
    \/ x.pc = "asleep" /\ y = [x EXCEPT !.pc = "ialloc"]
    \/ x.pc = "fsleep" /\ y = [x EXCEPT !.pc = "ifree"]

Others(p) == \A q \in Procs \ {p} : Woke(proc[q], proc'[q])

(* The entry in s is as it was, but for IWANT. *)
Same(s) == \E w \in BOOLEAN : inode'[s] = [inode[s] EXCEPT !.iwant = w]

LEMMA Wakeups ==
    ASSUME NEW P \in [Procs -> ProcState], NEW s \in Slot
    PROVE  /\ WakeInode(P, s) \in [Procs -> ProcState]
           /\ WakeIlock(P) \in [Procs -> ProcState]
           /\ Awakened(P, s) \in [Procs -> ProcState]
           /\ WakeIlock(Awakened(P, s)) \in [Procs -> ProcState]
           /\ \A q \in Procs :
               /\ Woke(P[q], WakeIlock(P)[q]) /\ Woke(P[q], Awakened(P, s)[q])
               /\ Woke(P[q], WakeIlock(Awakened(P, s))[q])
               /\ P[q].pc \notin {"isleep", "psleep", "asleep", "fsleep"} =>
                    /\ WakeIlock(P)[q] = P[q] /\ Awakened(P, s)[q] = P[q]
                    /\ WakeIlock(Awakened(P, s))[q] = P[q]
<1>1. ASSUME NEW x \in ProcState
      PROVE  /\ [x EXCEPT !.pc = "iget", !.ip = None] \in ProcState
             /\ [x EXCEPT !.pc = "plock"] \in ProcState
             /\ [x EXCEPT !.pc = "ialloc"] \in ProcState
             /\ [x EXCEPT !.pc = "ifree"] \in ProcState
             /\ [x EXCEPT !.pc = "iget", !.ip = None].pc = "iget"
             /\ [x EXCEPT !.pc = "plock"].pc = "plock"
  BY DEF ProcState, Labels
<1>2. ASSUME NEW R \in [Procs -> ProcState]
      PROVE  /\ WakeIlock(R) \in [Procs -> ProcState]
             /\ \A q \in Procs : Woke(R[q], WakeIlock(R)[q])
             /\ \A q \in Procs : R[q].pc \notin {"asleep", "fsleep"} => WakeIlock(R)[q] = R[q]
  BY <1>1 DEF WakeIlock, Woke
<1>3. /\ WakeInode(P, s) \in [Procs -> ProcState]
      /\ \A q \in Procs : Woke(P[q], WakeInode(P, s)[q])
      /\ \A q \in Procs : P[q].pc \notin {"isleep", "psleep"} => WakeInode(P, s)[q] = P[q]
      /\ \A q \in Procs : P[q].pc \in {"isleep", "psleep"} =>
           WakeInode(P, s)[q] = P[q] \/ WakeInode(P, s)[q].pc \in {"iget", "plock"}
  BY <1>1 DEF WakeInode, Woke
<1>4. /\ Awakened(P, s) \in [Procs -> ProcState]
      /\ \A q \in Procs : Woke(P[q], Awakened(P, s)[q])
      /\ \A q \in Procs : P[q].pc \notin {"isleep", "psleep"} => Awakened(P, s)[q] = P[q]
      /\ \A q \in Procs : P[q].pc \in {"isleep", "psleep"} =>
           Awakened(P, s)[q] = P[q] \/ Awakened(P, s)[q].pc \in {"iget", "plock"}
  BY <1>3 DEF Awakened, Woke
<1>5. \A q \in Procs : Woke(P[q], WakeIlock(Awakened(P, s))[q])
  <2> SUFFICES ASSUME NEW q \in Procs PROVE Woke(P[q], WakeIlock(Awakened(P, s))[q])
    OBVIOUS
  <2>1. CASE P[q].pc \in {"isleep", "psleep"}
    <3>1. Awakened(P, s)[q].pc \notin {"asleep", "fsleep"}
      BY <1>4, <2>1
    <3>2. WakeIlock(Awakened(P, s))[q] = Awakened(P, s)[q]
      BY <1>2, <1>4, <3>1
    <3>3. QED
      BY <1>4, <3>2
  <2>2. CASE P[q].pc \notin {"isleep", "psleep"}
    BY <1>2, <1>4, <2>2
  <2>3. QED
    BY <2>1, <2>2
<1>6. QED
  BY <1>2, <1>3, <1>4, <1>5

LEMMA SameFields ==
    ASSUME NEW t \in Slot, inode[t] \in EntryState, Same(t)
    PROVE  /\ inode'[t].hashed <=> inode[t].hashed
           /\ inode'[t].number = inode[t].number
           /\ inode'[t].count = inode[t].count
           /\ inode'[t].changed <=> inode[t].changed
           /\ inode'[t].ilock <=> inode[t].ilock
           /\ inode'[t].mode = inode[t].mode /\ inode'[t].nlink = inode[t].nlink
  BY DEF Same, EntryState

(* A process that is at most woken keeps what it has and relies on.        *)
LEMMA OthersKept ==
    ASSUME Shape, Shape', NEW q \in Procs, ProcOK(q), Woke(proc[q], proc'[q]),
           Locks(q, proc[q].ip) /\ proc[q].ip \in Slot => Same(proc[q].ip)
    PROVE  /\ ProcOK(q)'
           /\ \A t \in Slot : /\ Refers(q, t)' <=> Refers(q, t)
                              /\ Locks(q, t)' <=> Locks(q, t)
                              /\ Reads(q, t)' <=> Reads(q, t)
<1>1. proc[q] \in ProcState /\ proc'[q] \in ProcState /\ None \notin Slot
  BY DEF Shape, Slot, None
<1>2. \A t \in Slot : /\ Refers(q, t)' <=> Refers(q, t)
                      /\ Locks(q, t)' <=> Locks(q, t)
                      /\ Reads(q, t)' <=> Reads(q, t)
  BY <1>1 DEF Woke, ProcState, Refers, Locks, Reads, ProcOK, NoInode
<1>3. ProcOK(q)'
  <2>1. CASE Locks(q, proc[q].ip) /\ proc[q].ip \in Slot
    <3>1. inode'[proc[q].ip].count = inode[proc[q].ip].count
          /\ inode'[proc[q].ip].mode = inode[proc[q].ip].mode
          /\ inode'[proc[q].ip].nlink = inode[proc[q].ip].nlink
          /\ inode'[proc[q].ip].changed = inode[proc[q].ip].changed
      BY <2>1 DEF Same, Shape, EntryState
    <3>2. /\ proc'[q].ip = proc[q].ip
          /\ proc'[q].pc = proc[q].pc \/ (proc[q].pc = "fsleep" /\ proc'[q].pc = "ifree")
             \/ (proc[q].pc = "asleep" /\ proc'[q].pc = "ialloc")
      BY <1>1, <2>1 DEF Woke, Locks, Refers, ProcState
    <3>3. QED
      BY <2>1, <3>1, <3>2 DEF ProcOK, Entry, NoInode, Alone
  <2>2. CASE ~(Locks(q, proc[q].ip) /\ proc[q].ip \in Slot)
    <3>1. proc[q].pc \in NoInode \cup {"user", "isleep", "plock", "psleep"}
      BY <1>1, <2>2 DEF Locks, Refers, ProcOK
    <3>2. proc'[q].pc \in NoInode \cup {"user", "isleep", "plock", "psleep"}
          /\ (proc'[q].pc \in NoInode => proc'[q].ip = None)
          /\ (proc'[q].pc \notin NoInode \cup {"user"} => proc'[q].ip \in Slot)
      BY <1>1, <3>1 DEF Woke, ProcOK, ProcState, NoInode
    <3>3. QED
      BY <3>2 DEF ProcOK, NoInode, Alone
  <2>3. QED
    BY <2>1, <2>2
<1>4. QED
  BY <1>2, <1>3
--------------------------------------------------------------------------------
(* Counting the references. *)

LEMMA RefsFinite == \A s \in Slot : IsFiniteSet(Refs(s)) /\ Cardinality(Refs(s)) \in Nat
  BY TableAssumption, FS_Subset, FS_CardinalityType DEF Refs

(* One process gets a reference, gives it up, or neither. *)
LEMMA RefsChange ==
    ASSUME NEW p \in Procs, NEW s \in Slot,
           \A q \in Procs \ {p} : Refers(q, s)' <=> Refers(q, s)
    PROVE  Cardinality(Refs(s)') + One(Refers(p, s)) = Cardinality(Refs(s)) + One(Refers(p, s)')
<1>1. IsFiniteSet(Refs(s)) /\ Cardinality(Refs(s)) \in Nat
  BY RefsFinite
<1>2. CASE Refers(p, s)' <=> Refers(p, s)
  <2>1. Refs(s)' = Refs(s)
    BY <1>2 DEF Refs
  <2>2. QED
    BY <1>1, <1>2, <2>1 DEF One
<1>3. CASE Refers(p, s)' /\ ~Refers(p, s)
  <2>1. Refs(s)' = Refs(s) \cup {p} /\ p \notin Refs(s)
    BY <1>3 DEF Refs
  <2>2. Cardinality(Refs(s)') = Cardinality(Refs(s)) + 1
    BY <1>1, <2>1, FS_AddElement
  <2>3. QED
    BY <1>1, <1>3, <2>2 DEF One
<1>4. CASE ~Refers(p, s)' /\ Refers(p, s)
  <2>1. Refs(s)' = Refs(s) \ {p} /\ p \in Refs(s)
    BY <1>4 DEF Refs
  <2>2. Cardinality(Refs(s)') = Cardinality(Refs(s)) - 1
    BY <1>1, <2>1, FS_RemoveElement
  <2>3. QED
    BY <1>1, <1>4, <2>2 DEF One
<1>5. QED
  BY <1>2, <1>3, <1>4

(* What the count says of the references. *)
LEMMA CountSays ==
    ASSUME Shape, NEW s \in Slot, SlotOK(s)
    PROVE  /\ inode[s].count = 0 => f_inode # s /\ \A p \in Procs : ~Refers(p, s)
           /\ inode[s].count = 1 =>
                \A p \in Procs : Refers(p, s) =>
                    f_inode # s /\ \A q \in Procs : Refers(q, s) => q = p
<1>1. IsFiniteSet(Refs(s)) /\ Cardinality(Refs(s)) \in Nat
      /\ inode[s].count = Cardinality(Refs(s)) + One(f_inode = s)
  BY RefsFinite DEF SlotOK
<1>2. Cardinality(Refs(s)) = 0 => \A p \in Procs : ~Refers(p, s)
  BY <1>1, FS_EmptySet DEF Refs
<1>3. ASSUME Cardinality(Refs(s)) = 1, NEW p \in Procs, Refers(p, s), NEW q \in Procs, Refers(q, s)
      PROVE  q = p
  <2>1. \E x : Refs(s) = {x}
    BY <1>1, <1>3, FS_Singleton
  <2>2. QED
    BY <1>3, <2>1 DEF Refs
<1>4. QED
  BY <1>1, <1>2, <1>3 DEF One

(* A referenced inode is on a hash chain, and the count is not zero. *)
LEMMA Referenced ==
    ASSUME Shape, NEW s \in Slot, SlotOK(s)
    PROVE  (f_inode = s \/ \E p \in Procs : Refers(p, s)) =>
               inode[s].count > 0 /\ inode[s].hashed /\ inode[s].number \in Ino
<1>1. inode[s].count \in Nat
  BY DEF Shape, EntryState
<1>2. QED
  BY <1>1, CountSays DEF SlotOK
--------------------------------------------------------------------------------
(* A step of p that touches the entry in s, and no other.                  *)
LEMMA StepKeeps ==
    ASSUME IInv, Shape', NEW p \in Procs, NEW s \in Slot, Others(p),
           \A t \in Slot \ {s} :
               /\ Same(t)
               /\ Refers(p, t)' <=> Refers(p, t)
               /\ Locks(p, t)' <=> Locks(p, t)
               /\ Reads(p, t)' <=> Reads(p, t)
               /\ f_inode' = t <=> f_inode = t
               /\ t \in ToSet(ifreelist') <=> t \in ToSet(ifreelist),
           \A n \in Ino : dinode'[n] = dinode[n] \/ (inode[s].hashed /\ inode[s].number = n),
           (\E q \in Procs \ {p} : Locks(q, s)) => Same(s),
           ProcOK(p)',
           inode'[s].count + One(Refers(p, s)) + One(f_inode = s) =
               inode[s].count + One(Refers(p, s)') + One(f_inode' = s),
           Locks(p, s)' => inode'[s].ilock /\ (Locks(p, s) \/ ~inode[s].ilock),
           ~Locks(p, s)' => (inode'[s].ilock <=> inode[s].ilock /\ ~Locks(p, s)),
           s \in ToSet(ifreelist') <=> inode'[s].count = 0,
           inode'[s].hashed =>
               inode'[s].number \in Ino /\
               (Cached(inode'[s].number) = {} \/
                   (inode[s].hashed /\ inode'[s].number = inode[s].number)),
           inode'[s].count # 0 => inode'[s].hashed,
           inode'[s].count = 0 => ~inode'[s].changed,
           inode'[s].hashed /\ ~inode'[s].changed /\ ~Reads(p, s)' =>
               \/ dinode'[inode'[s].number] = [mode |-> inode'[s].mode, nlink |-> inode'[s].nlink]
               \/ Same(s) /\ dinode' = dinode /\ ~Reads(p, s)
    PROVE  IInv'
<1>1. \A q \in Procs \ {p} :
        /\ ProcOK(q)'
        /\ \A t \in Slot : /\ Refers(q, t)' <=> Refers(q, t)
                           /\ Locks(q, t)' <=> Locks(q, t)
                           /\ Reads(q, t)' <=> Reads(q, t)
  BY OthersKept DEF IInv, Others
<1>2. \A t \in Slot : inode[t] \in EntryState /\ inode'[t] \in EntryState
  BY DEF IInv, Shape
<1>3. ASSUME NEW t \in Slot \ {s} PROVE SlotOK(t)'
  <2>1. /\ inode'[t].hashed <=> inode[t].hashed
        /\ inode'[t].number = inode[t].number
        /\ inode'[t].count = inode[t].count
        /\ inode'[t].changed <=> inode[t].changed
        /\ inode'[t].ilock <=> inode[t].ilock
        /\ inode'[t].mode = inode[t].mode /\ inode'[t].nlink = inode[t].nlink
    BY <1>2, SameFields
  <2>2. \A q \in Procs : /\ Refers(q, t)' <=> Refers(q, t)
                         /\ Locks(q, t)' <=> Locks(q, t)
                         /\ Reads(q, t)' <=> Reads(q, t)
    BY <1>1
  <2>3. Refs(t)' = Refs(t)
    BY <2>2 DEF Refs
  <2>4. inode[t].hashed => dinode'[inode[t].number] = dinode[inode[t].number]
    BY DEF IInv, SlotOK, OneInode
  <2>5. SlotOK(t)
    BY DEF IInv
  <2>6. QED
    BY <2>1, <2>2, <2>3, <2>4, <2>5 DEF SlotOK
<1>4. SlotOK(s)'
  <2>1. SlotOK(s) /\ Cardinality(Refs(s)) \in Nat
    BY RefsFinite DEF IInv
  <2>2. Cardinality(Refs(s)') + One(Refers(p, s)) = Cardinality(Refs(s)) + One(Refers(p, s)')
    BY <1>1, RefsChange
  <2>3. inode'[s].count = Cardinality(Refs(s)') + One(f_inode' = s)
    <3>1. Cardinality(Refs(s)') \in Nat
      BY TableAssumption, FS_Subset, FS_CardinalityType DEF Refs
    <3>2. inode[s].count \in Nat /\ inode'[s].count \in Nat
      BY <1>2 DEF EntryState
    <3>3. QED
      BY <2>1, <2>2, <3>1, <3>2 DEF SlotOK, One
  <2>4. \A q, r \in Procs : Locks(q, s)' /\ Locks(r, s)' => q = r
    BY <1>1, <2>1 DEF SlotOK
  <2>5. inode'[s].ilock <=> \E q \in Procs : Locks(q, s)'
    BY <1>1, <2>1 DEF SlotOK
  <2>6. ASSUME inode'[s].hashed, ~inode'[s].changed, \A q \in Procs : ~Reads(q, s)'
        PROVE  dinode'[inode'[s].number] = [mode |-> inode'[s].mode, nlink |-> inode'[s].nlink]
    <3>1. CASE Same(s) /\ dinode' = dinode /\ ~Reads(p, s)
      <4>1. /\ inode'[s].hashed <=> inode[s].hashed
            /\ inode'[s].number = inode[s].number
            /\ inode'[s].changed <=> inode[s].changed
            /\ inode'[s].mode = inode[s].mode /\ inode'[s].nlink = inode[s].nlink
        BY <1>2, <3>1, SameFields
      <4>2. \A q \in Procs : ~Reads(q, s)
        BY <1>1, <2>6, <3>1
      <4>3. QED
        BY <2>1, <2>6, <3>1, <4>1, <4>2 DEF SlotOK
    <3>2. QED
      BY <2>6, <3>1
  <2>7. QED
    BY <2>3, <2>4, <2>5, <2>6 DEF SlotOK
<1>5. OneInode'
  <2>1. \A t \in Slot \ {s} :
          (inode'[t].hashed <=> inode[t].hashed) /\ inode'[t].number = inode[t].number
    BY <1>2, SameFields
  <2>2. \A t \in Slot \ {s} : inode'[s].hashed /\ inode[t].hashed => inode'[s].number # inode[t].number
    BY DEF IInv, OneInode, Cached
  <2>3. QED
    BY <2>1, <2>2 DEF IInv, OneInode
<1>6. QED
  BY <1>1, <1>3, <1>4, <1>5 DEF IInv
--------------------------------------------------------------------------------
(* What an action does, by kind: to the process p, to the entry in s, and  *)
(* to nothing else.                                                        *)

AsBefore(p, t) ==
    /\ Same(t)
    /\ Refers(p, t)' <=> Refers(p, t)
    /\ Locks(p, t)' <=> Locks(p, t)
    /\ Reads(p, t)' <=> Reads(p, t)

Touches(p, s) ==
    /\ Shape' /\ Others(p) /\ ProcOK(p)'
    /\ \A t \in Slot \ {s} : AsBefore(p, t)

(* p moves, and keeps what it has. *)
Quiet(p) ==
    /\ Shape' /\ Others(p) /\ ProcOK(p)'
    /\ \A t \in Slot : AsBefore(p, t)
    /\ UNCHANGED <<ifreelist, dinode, f_inode>>

(* p changes the inode it has locked, or writes it to its block. *)
Works(p, s) ==
    /\ Touches(p, s) /\ UNCHANGED <<ifreelist, f_inode>>
    /\ Locks(p, s) /\ Locks(p, s)' /\ ~Reads(p, s) /\ ~Reads(p, s)'
    /\ inode'[s].number = inode[s].number /\ inode'[s].hashed /\ inode'[s].ilock
    /\ inode'[s].count = inode[s].count
    /\ \/ dinode' = dinode /\ inode'[s].changed
       \/ dinode' = [dinode EXCEPT ![inode[s].number] =
                        [mode |-> inode'[s].mode, nlink |-> inode'[s].nlink]]

(* p gets a reference to an inode in core, which it locks ... *)
Takes(p, s) ==
    /\ Touches(p, s) /\ UNCHANGED <<dinode, f_inode>>
    /\ \A t \in Slot : t \in ToSet(ifreelist') <=> t \in ToSet(ifreelist) \ {s}
    /\ ~Refers(p, s) /\ Locks(p, s)' /\ ~Reads(p, s)'
    /\ inode[s].hashed /\ ~inode[s].ilock
    /\ inode'[s] = [inode[s] EXCEPT !.ilock = TRUE, !.count = @ + 1]

(* ... gives it up ... *)
Puts(p, s) ==
    /\ Touches(p, s) /\ UNCHANGED <<dinode, f_inode>>
    /\ Locks(p, s) /\ ~Reads(p, s) /\ ~Refers(p, s)'
    /\ inode'[s] = Released([inode[s] EXCEPT !.count = @ - 1])
    /\ IF inode[s].count = 1
       THEN /\ ~inode[s].changed
            /\ \A t \in Slot : t \in ToSet(ifreelist') <=> t \in ToSet(ifreelist) \cup {s}
       ELSE ifreelist' = ifreelist

(* ... or keeps it and unlocks the inode, or locks it again. *)
Unlocks(p, s) ==
    /\ Touches(p, s) /\ UNCHANGED <<ifreelist, dinode, f_inode>>
    /\ Locks(p, s) /\ ~Reads(p, s) /\ Refers(p, s)' /\ ~Locks(p, s)'
    /\ inode'[s] = Released(inode[s])

Relocks(p, s) ==
    /\ Touches(p, s) /\ UNCHANGED <<ifreelist, dinode, f_inode>>
    /\ Refers(p, s) /\ ~Locks(p, s) /\ Locks(p, s)' /\ ~Reads(p, s)'
    /\ ~inode[s].ilock /\ inode'[s] = [inode[s] EXCEPT !.ilock = TRUE]

LEMMA Implied ==
    ASSUME NEW p \in Procs, NEW s \in Slot
    PROVE  (Locks(p, s) => Refers(p, s)) /\ (Reads(p, s) => Locks(p, s))
  BY DEF Locks, Refers, Reads

LEMMA QuietKeeps ==
    ASSUME IInv, NEW p \in Procs, Quiet(p)
    PROVE  IInv'
<1>1. 1 \in Slot
  BY TableAssumption DEF Slot
<1>2. inode[1] \in EntryState /\ inode'[1] \in EntryState
  BY <1>1 DEF IInv, Quiet, Shape
<1>3. /\ inode'[1].hashed <=> inode[1].hashed
      /\ inode'[1].number = inode[1].number
      /\ inode'[1].count = inode[1].count
      /\ inode'[1].changed <=> inode[1].changed
      /\ inode'[1].ilock <=> inode[1].ilock
  BY <1>1, <1>2, SameFields DEF Quiet, AsBefore
<1>4. SlotOK(1)
  BY <1>1 DEF IInv
<1>5. /\ inode'[1].count + One(Refers(p, 1)) + One(f_inode = 1) =
             inode[1].count + One(Refers(p, 1)') + One(f_inode' = 1)
      /\ Locks(p, 1)' => inode'[1].ilock /\ (Locks(p, 1) \/ ~inode[1].ilock)
      /\ ~Locks(p, 1)' => (inode'[1].ilock <=> inode[1].ilock /\ ~Locks(p, 1))
      /\ 1 \in ToSet(ifreelist') <=> inode'[1].count = 0
  BY <1>1, <1>3, <1>4 DEF Quiet, AsBefore, SlotOK, One
<1>6. /\ inode'[1].hashed => inode'[1].number \in Ino /\
             (Cached(inode'[1].number) = {} \/
                 (inode[1].hashed /\ inode'[1].number = inode[1].number))
      /\ inode'[1].count # 0 => inode'[1].hashed
      /\ inode'[1].count = 0 => ~inode'[1].changed
  BY <1>1, <1>3, <1>4 DEF SlotOK
<1>7. QED
  BY <1>1, <1>5, <1>6, StepKeeps DEF Quiet, AsBefore

LEMMA WorksKeeps ==
    ASSUME IInv, NEW p \in Procs, NEW s \in Slot, Works(p, s)
    PROVE  IInv'
<1>1. SlotOK(s) /\ Refers(p, s) /\ Refers(p, s)' /\ inode[s].number \in Ino
      /\ inode[s].count > 0 /\ inode[s].hashed
  BY Implied, Referenced DEF IInv, Works, Locks
<1>2. \A q \in Procs \ {p} : ~Locks(q, s)
  BY <1>1 DEF SlotOK, Works
<1>3. inode'[s].count + One(Refers(p, s)) + One(f_inode = s) =
          inode[s].count + One(Refers(p, s)') + One(f_inode' = s)
  BY <1>1 DEF Works, One
<1>4. s \in ToSet(ifreelist') <=> inode'[s].count = 0
  BY <1>1 DEF Works, SlotOK
<1>5. \A n \in Ino : dinode'[n] = dinode[n] \/ (inode[s].hashed /\ inode[s].number = n)
  BY <1>1 DEF Works, IInv, Shape
<1>6. inode'[s].hashed /\ ~inode'[s].changed =>
          dinode'[inode'[s].number] = [mode |-> inode'[s].mode, nlink |-> inode'[s].nlink]
  BY <1>1 DEF Works, IInv, Shape
<1>7. /\ inode'[s].hashed => inode'[s].number \in Ino /\
             (Cached(inode'[s].number) = {} \/
                 (inode[s].hashed /\ inode'[s].number = inode[s].number))
      /\ inode'[s].count # 0 => inode'[s].hashed
      /\ inode'[s].count = 0 => ~inode'[s].changed
      /\ Locks(p, s)' => inode'[s].ilock /\ (Locks(p, s) \/ ~inode[s].ilock)
      /\ ~Locks(p, s)' => (inode'[s].ilock <=> inode[s].ilock /\ ~Locks(p, s))
  BY <1>1 DEF Works
<1>8. /\ Shape' /\ Others(p) /\ ProcOK(p)'
      /\ \A t \in Slot \ {s} :
            /\ AsBefore(p, t)
            /\ f_inode' = t <=> f_inode = t
            /\ t \in ToSet(ifreelist') <=> t \in ToSet(ifreelist)
  BY DEF Works, Touches
<1>9. QED
  BY <1>2, <1>3, <1>4, <1>5, <1>6, <1>7, <1>8, StepKeeps DEF AsBefore

LEMMA TakesKeeps ==
    ASSUME IInv, NEW p \in Procs, NEW s \in Slot, Takes(p, s)
    PROVE  IInv'
<1>1. SlotOK(s) /\ inode[s] \in EntryState /\ inode[s].number \in Ino
  BY DEF IInv, Shape, Takes, SlotOK
<1>2. /\ inode'[s].hashed /\ inode'[s].number = inode[s].number
      /\ inode'[s].count = inode[s].count + 1 /\ inode'[s].ilock
      /\ inode'[s].changed <=> inode[s].changed
      /\ inode'[s].mode = inode[s].mode /\ inode'[s].nlink = inode[s].nlink
  BY <1>1 DEF Takes, EntryState
<1>3. \A q \in Procs : ~Locks(q, s)
  BY <1>1 DEF SlotOK, Takes
<1>4. /\ Refers(p, s)' /\ ~Locks(p, s)
      /\ inode'[s].count + One(Refers(p, s)) + One(f_inode = s) =
             inode[s].count + One(Refers(p, s)') + One(f_inode' = s)
  <2>1. Refers(p, s)'
    BY DEF Takes, Locks
  <2>2. QED
    BY <1>1, <1>2, <1>3, <2>1 DEF Takes, One, EntryState
<1>5. inode[s].count \in Nat /\ inode'[s].count # 0
  BY <1>1, <1>2 DEF EntryState
<1>6. \A t \in Slot : t \in ToSet(ifreelist') <=> t \in ToSet(ifreelist) \ {s}
  BY DEF Takes
<1>7. inode'[s].hashed /\ ~inode'[s].changed /\ ~Reads(p, s)' =>
          dinode'[inode'[s].number] = [mode |-> inode'[s].mode, nlink |-> inode'[s].nlink]
  <2>1. \A q \in Procs : ~Reads(q, s)
    BY <1>3, Implied
  <2>2. QED
    BY <1>1, <1>2, <2>1 DEF Takes, SlotOK
<1>8. /\ Shape' /\ Others(p) /\ ProcOK(p)' /\ dinode' = dinode
      /\ \A t \in Slot \ {s} :
            /\ AsBefore(p, t)
            /\ f_inode' = t <=> f_inode = t
            /\ t \in ToSet(ifreelist') <=> t \in ToSet(ifreelist)
      /\ Locks(p, s)' /\ ~inode[s].ilock /\ inode[s].hashed
  BY <1>6 DEF Takes, Touches
<1>9. QED
  BY <1>1, <1>2, <1>3, <1>4, <1>5, <1>6, <1>7, <1>8, StepKeeps DEF AsBefore

LEMMA PutsKeeps ==
    ASSUME IInv, NEW p \in Procs, NEW s \in Slot, Puts(p, s)
    PROVE  IInv'
<1>1. SlotOK(s) /\ inode[s] \in EntryState /\ Refers(p, s)
      /\ inode[s].count > 0 /\ inode[s].hashed /\ inode[s].number \in Ino
  BY Implied, Referenced DEF IInv, Shape, Puts, Locks
<1>2. /\ inode'[s].hashed /\ inode'[s].number = inode[s].number
      /\ inode'[s].count = inode[s].count - 1 /\ ~inode'[s].ilock
      /\ inode'[s].changed <=> inode[s].changed
      /\ inode'[s].mode = inode[s].mode /\ inode'[s].nlink = inode[s].nlink
  BY <1>1 DEF Puts, EntryState, Released
<1>3. \A q \in Procs \ {p} : ~Locks(q, s)
  BY <1>1 DEF SlotOK, Puts
<1>4. /\ ~Locks(p, s)'
      /\ inode'[s].count + One(Refers(p, s)) + One(f_inode = s) =
             inode[s].count + One(Refers(p, s)') + One(f_inode' = s)
  <2>1. ~Locks(p, s)'
    BY DEF Puts, Locks
  <2>2. QED
    BY <1>1, <1>2, <2>1 DEF Puts, One, EntryState
<1>5. /\ \A t \in Slot \ {s} : t \in ToSet(ifreelist') <=> t \in ToSet(ifreelist)
      /\ s \in ToSet(ifreelist') <=> inode'[s].count = 0
      /\ inode'[s].count = 0 => ~inode'[s].changed
  <2>1. inode[s].count \in Nat
    BY <1>1 DEF EntryState
  <2>2. CASE inode[s].count = 1
    BY <1>2, <2>2 DEF Puts
  <2>3. CASE inode[s].count # 1
    BY <1>1, <1>2, <2>1, <2>3 DEF Puts, SlotOK
  <2>4. QED
    BY <2>2, <2>3
<1>6. inode'[s].hashed /\ ~inode'[s].changed /\ ~Reads(p, s)' =>
          dinode'[inode'[s].number] = [mode |-> inode'[s].mode, nlink |-> inode'[s].nlink]
  <2>1. \A q \in Procs : ~Reads(q, s)
    BY <1>3, Implied DEF Puts
  <2>2. QED
    BY <1>1, <1>2, <2>1 DEF Puts, SlotOK
<1>7. /\ Shape' /\ Others(p) /\ ProcOK(p)' /\ dinode' = dinode
      /\ \A t \in Slot \ {s} : AsBefore(p, t) /\ (f_inode' = t <=> f_inode = t)
      /\ Locks(p, s)
  BY DEF Puts, Touches
<1>8. QED
  BY <1>1, <1>2, <1>3, <1>4, <1>5, <1>6, <1>7, StepKeeps DEF AsBefore

LEMMA UnlocksKeeps ==
    ASSUME IInv, NEW p \in Procs, NEW s \in Slot, Unlocks(p, s) \/ Relocks(p, s)
    PROVE  IInv'
<1>1. SlotOK(s) /\ inode[s] \in EntryState /\ Refers(p, s) /\ Refers(p, s)'
      /\ inode[s].count > 0 /\ inode[s].hashed /\ inode[s].number \in Ino
  BY Implied, Referenced DEF IInv, Shape, Unlocks, Relocks, Locks
<1>2. /\ inode'[s].hashed /\ inode'[s].number = inode[s].number
      /\ inode'[s].count = inode[s].count
      /\ inode'[s].changed <=> inode[s].changed
      /\ inode'[s].mode = inode[s].mode /\ inode'[s].nlink = inode[s].nlink
      /\ Unlocks(p, s) => ~inode'[s].ilock
      /\ Relocks(p, s) => inode'[s].ilock
  BY <1>1 DEF Unlocks, Relocks, EntryState, Released
<1>3. (\A q \in Procs \ {p} : ~Locks(q, s)) /\ (\A q \in Procs : ~Reads(q, s))
  <2>1. \A q \in Procs \ {p} : ~Locks(q, s)
    BY <1>1 DEF SlotOK, Unlocks, Relocks
  <2>2. ~Reads(p, s)
    BY Implied DEF Unlocks, Relocks
  <2>3. QED
    BY <2>1, <2>2, Implied
<1>4. /\ Shape' /\ Others(p) /\ ProcOK(p)' /\ dinode' = dinode
      /\ ifreelist' = ifreelist /\ f_inode' = f_inode
      /\ \A t \in Slot \ {s} : AsBefore(p, t)
  BY DEF Unlocks, Relocks, Touches
<1>5. inode'[s].count + One(Refers(p, s)) + One(f_inode = s) =
          inode[s].count + One(Refers(p, s)') + One(f_inode' = s)
  BY <1>1, <1>2, <1>4 DEF One
<1>6. /\ Locks(p, s)' => inode'[s].ilock /\ (Locks(p, s) \/ ~inode[s].ilock)
      /\ ~Locks(p, s)' => (inode'[s].ilock <=> inode[s].ilock /\ ~Locks(p, s))
      /\ s \in ToSet(ifreelist') <=> inode'[s].count = 0
  BY <1>1, <1>2, <1>4 DEF Unlocks, Relocks, SlotOK
<1>7. inode'[s].hashed /\ ~inode'[s].changed /\ ~Reads(p, s)' =>
          dinode'[inode'[s].number] = [mode |-> inode'[s].mode, nlink |-> inode'[s].nlink]
  BY <1>1, <1>2, <1>3, <1>4 DEF SlotOK
<1>8. /\ inode'[s].hashed => inode'[s].number \in Ino /\
             (Cached(inode'[s].number) = {} \/
                 (inode[s].hashed /\ inode'[s].number = inode[s].number))
      /\ inode'[s].count # 0 => inode'[s].hashed
      /\ inode'[s].count = 0 => ~inode'[s].changed
  BY <1>1, <1>2
<1>9. QED
  BY <1>3, <1>4, <1>5, <1>6, <1>7, <1>8, StepKeeps DEF AsBefore

(* An entry nobody refers to becomes that of another inode, to be read ... *)
Fetches(p, s) ==
    /\ Touches(p, s) /\ UNCHANGED <<dinode, f_inode>>
    /\ inode[s].count = 0 /\ ~Refers(p, s) /\ Reads(p, s)'
    /\ \A t \in Slot : t \in ToSet(ifreelist') <=> t \in ToSet(ifreelist) \ {s}
    /\ inode'[s].number \in Ino /\ Cached(inode'[s].number) = {}
    /\ inode'[s].hashed /\ inode'[s].ilock /\ inode'[s].count = 1 /\ ~inode'[s].changed

(* ... it has been read ... *)
Fills(p, s) ==
    /\ Touches(p, s) /\ UNCHANGED <<ifreelist, dinode, f_inode>>
    /\ Reads(p, s) /\ ~Reads(p, s)' /\ Locks(p, s)'
    /\ inode'[s] = [inode[s] EXCEPT !.fsptr = TRUE, !.mode = dinode[inode[s].number].mode,
                                    !.nlink = dinode[inode[s].number].nlink]

(* ... or the read failed. *)
Drops(p, s) ==
    /\ Touches(p, s) /\ UNCHANGED <<dinode, f_inode>>
    /\ Reads(p, s) /\ ~Refers(p, s)'
    /\ inode'[s] = Vacant
    /\ \A t \in Slot : t \in ToSet(ifreelist') <=> t \in ToSet(ifreelist) \cup {s}

(* A reference goes from p to the open file, or back. *)
Hands(p, s) ==
    /\ Touches(p, s) /\ UNCHANGED <<inode, ifreelist, dinode>>
    /\ ~Locks(p, s) /\ ~Locks(p, s)'
    /\ \/ Refers(p, s) /\ ~Refers(p, s)' /\ f_inode = None /\ f_inode' = s
       \/ ~Refers(p, s) /\ Refers(p, s)' /\ f_inode = s /\ f_inode' = None

LEMMA FetchesKeeps ==
    ASSUME IInv, NEW p \in Procs, NEW s \in Slot, Fetches(p, s)
    PROVE  IInv'
<1>1. SlotOK(s) /\ inode[s] \in EntryState /\ \A q \in Procs : ~Refers(q, s) /\ ~Locks(q, s)
  BY CountSays, Implied DEF IInv, Shape, Fetches
<1>2. Refers(p, s)' /\ Locks(p, s)' /\ ~inode[s].ilock
  BY <1>1 DEF Fetches, Reads, Refers, Locks, SlotOK
<1>3. /\ inode'[s].count + One(Refers(p, s)) + One(f_inode = s) =
             inode[s].count + One(Refers(p, s)') + One(f_inode' = s)
      /\ s \in ToSet(ifreelist') <=> inode'[s].count = 0
  BY <1>2 DEF Fetches, One
<1>4. /\ Shape' /\ Others(p) /\ ProcOK(p)' /\ dinode' = dinode
      /\ \A t \in Slot \ {s} :
            /\ AsBefore(p, t)
            /\ f_inode' = t <=> f_inode = t
            /\ t \in ToSet(ifreelist') <=> t \in ToSet(ifreelist)
  BY DEF Fetches, Touches
<1>5. /\ inode'[s].hashed => inode'[s].number \in Ino /\
             (Cached(inode'[s].number) = {} \/
                 (inode[s].hashed /\ inode'[s].number = inode[s].number))
      /\ inode'[s].count # 0 => inode'[s].hashed
      /\ inode'[s].count = 0 => ~inode'[s].changed
      /\ inode'[s].ilock /\ Reads(p, s)'
  BY DEF Fetches
<1>6. QED
  BY <1>1, <1>2, <1>3, <1>4, <1>5, StepKeeps DEF AsBefore

LEMMA FillsKeeps ==
    ASSUME IInv, NEW p \in Procs, NEW s \in Slot, Fills(p, s)
    PROVE  IInv'
<1>1. SlotOK(s) /\ inode[s] \in EntryState /\ Refers(p, s) /\ Locks(p, s) /\ Refers(p, s)'
      /\ inode[s].count > 0 /\ inode[s].hashed /\ inode[s].number \in Ino
  BY Implied, Referenced DEF IInv, Shape, Fills, Reads, Locks
<1>2. /\ inode'[s].hashed /\ inode'[s].number = inode[s].number
      /\ inode'[s].count = inode[s].count
      /\ inode'[s].ilock <=> inode[s].ilock
      /\ inode'[s].mode = dinode[inode[s].number].mode
      /\ inode'[s].nlink = dinode[inode[s].number].nlink
  BY <1>1 DEF Fills, EntryState
<1>3. dinode[inode[s].number] = [mode |-> inode'[s].mode, nlink |-> inode'[s].nlink]
  BY <1>1, <1>2 DEF IInv, Shape
<1>4. (\A q \in Procs \ {p} : ~Locks(q, s)) /\ inode[s].ilock
  BY <1>1 DEF SlotOK
<1>5. /\ Shape' /\ Others(p) /\ ProcOK(p)' /\ dinode' = dinode
      /\ ifreelist' = ifreelist /\ f_inode' = f_inode
      /\ \A t \in Slot \ {s} : AsBefore(p, t)
      /\ Locks(p, s)'
  BY DEF Fills, Touches
<1>6. /\ inode'[s].count + One(Refers(p, s)) + One(f_inode = s) =
             inode[s].count + One(Refers(p, s)') + One(f_inode' = s)
      /\ s \in ToSet(ifreelist') <=> inode'[s].count = 0
  BY <1>1, <1>2, <1>5 DEF One, SlotOK
<1>7. /\ inode'[s].hashed => inode'[s].number \in Ino /\
             (Cached(inode'[s].number) = {} \/
                 (inode[s].hashed /\ inode'[s].number = inode[s].number))
      /\ inode'[s].count # 0 => inode'[s].hashed
      /\ inode'[s].count = 0 => ~inode'[s].changed
  BY <1>1, <1>2
<1>8. QED
  BY <1>1, <1>2, <1>3, <1>4, <1>5, <1>6, <1>7, StepKeeps DEF AsBefore

LEMMA DropsKeeps ==
    ASSUME IInv, NEW p \in Procs, NEW s \in Slot, Drops(p, s)
    PROVE  IInv'
<1>1. SlotOK(s) /\ Refers(p, s) /\ Locks(p, s) /\ inode[s].count = 1
  <2>1. proc[p].ip = s /\ proc[p].pc = "iread" /\ ProcOK(p) /\ SlotOK(s)
    BY DEF Drops, Reads, IInv
  <2>2. QED
    BY <2>1 DEF ProcOK, Alone, Entry, Refers, Locks
<1>2. /\ ~inode'[s].hashed /\ inode'[s].count = 0 /\ ~inode'[s].ilock /\ ~inode'[s].changed
  BY DEF Drops, Vacant
<1>3. f_inode # s /\ \A q \in Procs \ {p} : ~Locks(q, s)
  BY <1>1, CountSays DEF IInv, SlotOK
<1>4. /\ Shape' /\ Others(p) /\ ProcOK(p)' /\ dinode' = dinode /\ f_inode' = f_inode
      /\ \A t \in Slot \ {s} :
            /\ AsBefore(p, t)
            /\ t \in ToSet(ifreelist') <=> t \in ToSet(ifreelist)
      /\ s \in ToSet(ifreelist') /\ ~Refers(p, s)' /\ ~Locks(p, s)'
  BY DEF Drops, Touches, Locks
<1>5. inode'[s].count + One(Refers(p, s)) + One(f_inode = s) =
          inode[s].count + One(Refers(p, s)') + One(f_inode' = s)
  BY <1>1, <1>2, <1>3, <1>4 DEF One
<1>6. QED
  BY <1>1, <1>2, <1>3, <1>4, <1>5, StepKeeps DEF AsBefore

LEMMA HandsKeeps ==
    ASSUME IInv, NEW p \in Procs, NEW s \in Slot, Hands(p, s)
    PROVE  IInv'
<1>1. SlotOK(s) /\ inode[s] \in EntryState
  BY DEF IInv, Shape
<1>2. inode' = inode /\ ifreelist' = ifreelist /\ dinode' = dinode /\ Same(s)
  <2>1. inode[s] = [inode[s] EXCEPT !.iwant = inode[s].iwant] /\ inode[s].iwant \in BOOLEAN
    BY <1>1 DEF EntryState
  <2>2. QED
    BY <2>1 DEF Hands, Same
<1>3. None # s
  BY DEF None, Slot
<1>4. inode'[s].count + One(Refers(p, s)) + One(f_inode = s) =
          inode[s].count + One(Refers(p, s)') + One(f_inode' = s)
  BY <1>1, <1>2, <1>3 DEF Hands, One, EntryState
<1>5. /\ Shape' /\ Others(p) /\ ProcOK(p)'
      /\ \A t \in Slot \ {s} : AsBefore(p, t) /\ (f_inode' = t <=> f_inode = t)
      /\ ~Locks(p, s) /\ ~Locks(p, s)' /\ ~Reads(p, s)
  BY Implied DEF Hands, Touches, Slot, None
<1>6. /\ inode[s].hashed => inode[s].number \in Ino
      /\ inode[s].count # 0 => inode[s].hashed
      /\ inode[s].count = 0 => ~inode[s].changed
      /\ s \in ToSet(ifreelist) <=> inode[s].count = 0
  BY <1>1 DEF SlotOK
<1>7. QED
  BY <1>2, <1>4, <1>5, <1>6, StepKeeps DEF AsBefore

(* iflush takes entries without references off their hash chains. *)
LEMMA IflushKeeps ==
    ASSUME IInv, NEW k \in Slot, Iflush(k)
    PROVE  /\ IInv'
           /\ \A s \in Slot : inode[s].count # 0 => inode'[s] = inode[s]
           /\ \A s \in Slot : inode'[s] = inode[s] \/ (inode[s].count = 0 /\ ~inode'[s].hashed)
<1>1. \A s \in Slot :
        inode'[s] = IF s <= k THEN [Vacant EXCEPT !.fsptr = inode[s].fsptr] ELSE inode[s]
  BY DEF Iflush
<1>2. \A s \in Slot : s <= k => inode[s].count = 0 /\ ~inode[s].ilock
  BY DEF Iflush, Slot
<1>3. \A s \in Slot : inode[s] \in EntryState /\ SlotOK(s)
  BY DEF IInv, Shape
<1>4. \A s \in Slot : s <= k =>
        /\ inode'[s] \in EntryState /\ ~inode'[s].hashed /\ inode'[s].count = 0
        /\ ~inode'[s].ilock /\ ~inode'[s].changed
  <2> SUFFICES ASSUME NEW s \in Slot, s <= k
               PROVE  /\ inode'[s] \in EntryState /\ ~inode'[s].hashed /\ inode'[s].count = 0
                      /\ ~inode'[s].ilock /\ ~inode'[s].changed
    OBVIOUS
  <2>1. Vacant \in EntryState /\ inode[s].fsptr \in BOOLEAN
    BY <1>3, TableAssumption DEF EntryState, Vacant, Modes
  <2>2. inode'[s] = [Vacant EXCEPT !.fsptr = inode[s].fsptr]
    BY <1>1
  <2>3. QED
    BY <2>1, <2>2 DEF EntryState, Vacant
<1>5. /\ \A s \in Slot : inode[s].count # 0 => inode'[s] = inode[s]
      /\ \A s \in Slot : inode'[s] = inode[s] \/ (inode[s].count = 0 /\ ~inode'[s].hashed)
  BY <1>1, <1>2, <1>4
<1>6. UNCHANGED <<ifreelist, s5free, dinode, super, proc, curproc, f_inode>>
  BY DEF Iflush
<1>7. inode' \in [Slot -> EntryState]
  <2>1. \E f : inode' = [s \in Slot |-> f[s]]
    <3>1. inode' = [s \in Slot |-> IF s <= k THEN [Vacant EXCEPT !.fsptr = inode[s].fsptr] ELSE inode[s]]
      BY DEF Iflush
    <3>2. inode' = [s \in Slot |-> inode'[s]]
      BY <3>1
    <3>3. QED
      BY <3>2
  <2>2. \A s \in Slot : inode'[s] \in EntryState
    BY <1>1, <1>3, <1>4
  <2>3. QED
    BY <2>1, <2>2
<1>8. Shape'
  BY <1>6, <1>7 DEF IInv, Shape, super
<1>9. \A p \in Procs, s \in Slot : /\ Refers(p, s)' <=> Refers(p, s)
                                   /\ Locks(p, s)' <=> Locks(p, s)
                                   /\ Reads(p, s)' <=> Reads(p, s)
  BY <1>6 DEF Refers, Locks, Reads
<1>10. ASSUME NEW p \in Procs PROVE ProcOK(p)'
  <2>1. ProcOK(p)
    BY DEF IInv
  <2>2. CASE proc[p].pc \in Alone \cup {"itrunc", "ifree", "fsleep", "fupdate", "iread", "put"}
    <3>1. proc[p].ip \in Slot /\ inode[proc[p].ip].count = 1
      BY <2>1, <2>2 DEF ProcOK, Alone, NoInode, Entry
    <3>2. inode'[proc[p].ip] = inode[proc[p].ip]
      BY <1>5, <3>1
    <3>3. QED
      BY <1>6, <2>1, <3>2 DEF ProcOK, Entry
  <2>3. CASE proc[p].pc \notin Alone \cup {"itrunc", "ifree", "fsleep", "fupdate", "iread", "put"}
    BY <1>6, <2>1, <2>3 DEF ProcOK
  <2>4. QED
    BY <2>2, <2>3
<1>11. ASSUME NEW s \in Slot PROVE SlotOK(s)'
  <2>1. Refs(s)' = Refs(s)
    BY <1>9 DEF Refs
  <2>2. CASE s <= k
    <3>1. \A p \in Procs : ~Locks(p, s)
      BY <1>2, <1>3, <2>2 DEF SlotOK
    <3>2. QED
      BY <1>2, <1>3, <1>4, <1>6, <1>9, <2>1, <2>2, <3>1 DEF SlotOK
  <2>3. CASE ~(s <= k)
    BY <1>1, <1>3, <1>6, <1>9, <2>1, <2>3 DEF SlotOK
  <2>4. QED
    BY <2>2, <2>3
<1>12. OneInode'
  <2>1. \A s \in Slot : inode'[s].hashed => inode'[s] = inode[s]
    BY <1>5
  <2>2. QED
    BY <2>1 DEF IInv, OneInode
<1>13. QED
  BY <1>5, <1>8, <1>10, <1>11, <1>12 DEF IInv
--------------------------------------------------------------------------------
(* Where p is and what it has. *)

Idles == NoInode \cup {"user", "isleep"}
Waits == {"plock", "psleep"}

LEMMA Holder ==
    ASSUME IInv, NEW p \in Procs, proc[p].pc \notin Idles
    PROVE  /\ proc[p] \in ProcState /\ proc[p].ip \in Slot
           /\ Refers(p, proc[p].ip) /\ SlotOK(proc[p].ip) /\ Entry(p) \in EntryState
           /\ Entry(p).count > 0 /\ Entry(p).hashed /\ Entry(p).number \in Ino
           /\ proc[p].pc \notin Waits => Locks(p, proc[p].ip) /\ Entry(p).ilock
<1>1. proc[p] \in ProcState /\ proc[p].ip \in Slot
  BY DEF IInv, Shape, ProcOK, Idles
<1>2. Refers(p, proc[p].ip) /\ SlotOK(proc[p].ip) /\ Entry(p) \in EntryState
  BY <1>1 DEF Refers, Idles, IInv, Shape, Entry
<1>3. proc[p].pc \notin Waits => Locks(p, proc[p].ip)
  BY <1>2 DEF Locks, Idles, Waits
<1>4. QED
  BY <1>1, <1>2, <1>3, Referenced DEF IInv, SlotOK, Entry

LEMMA Moves ==
    ASSUME IInv, NEW p \in Procs, NEW l \in Labels, proc' = [proc EXCEPT ![p].pc = l]
    PROVE  /\ proc' \in [Procs -> ProcState] /\ Others(p)
           /\ proc'[p].pc = l /\ proc'[p].ip = proc[p].ip
  BY DEF IInv, Shape, ProcState, Others, Woke

LEMMA TouchesOne ==
    ASSUME IInv, Shape', NEW p \in Procs, NEW s \in Slot, Others(p), ProcOK(p)',
           \A t \in Slot \ {s} : inode'[t] = inode[t],
           proc[p].ip \in {s, None}, proc'[p].ip \in {s, None}
    PROVE  Touches(p, s)
<1>1. ASSUME NEW t \in Slot \ {s} PROVE AsBefore(p, t)
  <2>1. inode[t] = [inode[t] EXCEPT !.iwant = inode[t].iwant] /\ inode[t].iwant \in BOOLEAN
    BY DEF IInv, Shape, EntryState
  <2>2. Same(t)
    BY <2>1 DEF Same
  <2>3. t # None
    BY DEF None, Slot
  <2>4. QED
    BY <2>2, <2>3 DEF AsBefore, Refers, Locks, Reads
<1>2. QED
  BY <1>1 DEF Touches
--------------------------------------------------------------------------------
(* The actions, by kind: who works on an inode he has locked.              *)

LEMMA WorksAs ==
    ASSUME IInv, NEW p \in Procs, proc[p].pc \notin Idles \cup Waits \cup {"iread"},
           NEW l \in Labels \ (Idles \cup Waits \cup {"iread"}),
           proc' \in [Procs -> ProcState], Others(p), proc'[p].pc = l, proc'[p].ip = proc[p].ip,
           NEW e \in EntryState, inode' = [inode EXCEPT ![proc[p].ip] = e],
           e.number = Entry(p).number, e.hashed, e.ilock, e.count = Entry(p).count,
           \/ dinode' = dinode /\ e.changed
           \/ dinode' = [dinode EXCEPT ![Entry(p).number] = [mode |-> e.mode, nlink |-> e.nlink]],
           UNCHANGED <<ifreelist, f_inode>>,
           s_inode' = s_inode \/ s_inode' \in [0..(NICINOD - 1) -> 0..NIno],
           s_ninode' \in 0..NICINOD, s_tinode' \in Nat, s_ilock' \in BOOLEAN, curproc' \in Procs \cup {Nobody},
           l \in Alone => e.count = 1,
           l \in {"itrunc", "ifree", "fsleep"} => e.mode = "file" /\ e.nlink = 0,
           l \in {"itrunc", "ifree", "fsleep", "fupdate"} => e.changed,
           l = "put" => ~e.changed
    PROVE  \E s \in Slot : s = proc[p].ip /\ Works(p, s)
<1>0. PICK s \in Slot : s = proc[p].ip
  BY Holder
<1>1. s \in Slot /\ Locks(p, s) /\ inode[s].number \in Ino /\ inode \in [Slot -> EntryState]
      /\ proc[p].ip = s
  BY <1>0, Holder DEF IInv, Shape, Entry
<1>2. inode' \in [Slot -> EntryState] /\ inode'[s] = e /\ \A t \in Slot \ {s} : inode'[t] = inode[t]
  BY <1>1
<1>3. Shape'
  <2>1. dinode' \in [Ino -> [mode : Modes, nlink : 0..MAXLINK]]
    <3>1. [mode |-> e.mode, nlink |-> e.nlink] \in [mode : Modes, nlink : 0..MAXLINK]
      BY DEF EntryState
    <3>2. QED
      BY <3>1 DEF IInv, Shape
  <2>2. QED
    BY <1>2, <2>1 DEF IInv, Shape
<1>4. ProcOK(p)'
  BY <1>1, <1>2 DEF ProcOK, Entry, Idles, NoInode
<1>5. Touches(p, s)
  BY <1>1, <1>2, <1>3, <1>4, TouchesOne
<1>6. Locks(p, s)' /\ ~Reads(p, s) /\ ~Reads(p, s)'
  BY <1>1 DEF Locks, Refers, Reads, Idles, Waits
<1>7. QED
  BY <1>1, <1>2, <1>5, <1>6 DEF Works, Entry

LEMMA LinksWork ==
    ASSUME IInv, NEW p \in Procs, Link(p) \/ Linked(p) \/ Unlink(p)
    PROVE  \E s \in Slot : s = proc[p].ip /\ Works(p, s)
<1>1. proc[p].pc \in {"locked", "linked"} /\ proc[p].pc \notin Idles \cup Waits \cup {"iread"}
      /\ curproc \in {p, Nobody}
  BY DEF Link, Linked, Unlink, At, Idles, Waits, NoInode
<1>2. /\ Entry(p) \in EntryState /\ Entry(p).hashed /\ Entry(p).ilock
      /\ proc[p].ip \in Slot /\ inode \in [Slot -> EntryState]
      /\ Entry(p) = inode[proc[p].ip]
      /\ s_ninode \in 0..NICINOD /\ s_tinode \in Nat /\ s_ilock \in BOOLEAN
  BY <1>1, Holder DEF IInv, Shape, Entry
<1>3. {"locked", "linked"} \subseteq Labels \ (Idles \cup Waits \cup {"iread"})
      /\ {"locked", "linked"} \cap Alone = {}
  BY DEF Labels, Idles, Waits, NoInode, Alone
<1>4. CASE Link(p)
  <2> DEFINE e == [Entry(p) EXCEPT !.nlink = @ + 1, !.changed = TRUE]
  <2>1. e \in EntryState /\ e.changed /\ e.hashed /\ e.ilock /\ e.number = Entry(p).number
        /\ e.count = Entry(p).count
    <3>1. Entry(p).nlink < MAXLINK /\ MAXLINK \in Nat
      BY <1>4, TableAssumption DEF Link
    <3>2. Entry(p).nlink + 1 \in 0..MAXLINK
      BY <1>2, <3>1 DEF EntryState
    <3>3. QED
      BY <1>2, <3>2 DEF EntryState
  <2>2. inode' = [inode EXCEPT ![proc[p].ip] = e]
    BY <1>2, <1>4 DEF Link
  <2>3. /\ proc' = [proc EXCEPT ![p].pc = "linked"] /\ curproc' = Nobody /\ dinode' = dinode
        /\ UNCHANGED <<ifreelist, s_inode, s_ninode, s_tinode, s_ilock, f_inode>>
    BY <1>4 DEF Link, SleepsTo, super
  <2> HIDE DEF e
  <2>4. /\ proc' \in [Procs -> ProcState] /\ Others(p)
        /\ proc'[p].pc = "linked" /\ proc'[p].ip = proc[p].ip
    BY <1>3, <2>3, Moves
  <2>5. QED
    BY <1>1, <1>2, <1>3, <2>1, <2>2, <2>3, <2>4, WorksAs
<1>5. CASE Linked(p)
  <2> DEFINE e == [Entry(p) EXCEPT !.changed = FALSE]
  <2>1. e \in EntryState /\ e.hashed /\ e.ilock /\ e.number = Entry(p).number
        /\ e.count = Entry(p).count /\ e.mode = Entry(p).mode /\ e.nlink = Entry(p).nlink
    BY <1>2 DEF EntryState
  <2>2. inode' = [inode EXCEPT ![proc[p].ip] = e]
    BY <1>2, <1>5 DEF Linked
  <2>3. /\ proc' = [proc EXCEPT ![p].pc = "locked"] /\ curproc' = Nobody
        /\ dinode' = [dinode EXCEPT ![Entry(p).number] = [mode |-> e.mode, nlink |-> e.nlink]]
        /\ UNCHANGED <<ifreelist, s_inode, s_ninode, s_tinode, s_ilock, f_inode>>
    BY <1>5, <2>1 DEF Linked, SleepsTo, super, Iupdat
  <2> HIDE DEF e
  <2>4. /\ proc' \in [Procs -> ProcState] /\ Others(p)
        /\ proc'[p].pc = "locked" /\ proc'[p].ip = proc[p].ip
    BY <1>3, <2>3, Moves
  <2>5. QED
    BY <1>1, <1>2, <1>3, <2>1, <2>2, <2>3, <2>4, WorksAs
<1>6. CASE Unlink(p)
  <2> DEFINE e == [Entry(p) EXCEPT !.nlink = @ - 1, !.changed = TRUE]
  <2>1. e \in EntryState /\ e.changed /\ e.hashed /\ e.ilock /\ e.number = Entry(p).number
        /\ e.count = Entry(p).count
    <3>1. Entry(p).nlink > 0 /\ MAXLINK \in Nat
      BY <1>6, TableAssumption DEF Unlink
    <3>2. Entry(p).nlink - 1 \in 0..MAXLINK
      BY <1>2, <3>1 DEF EntryState
    <3>3. QED
      BY <1>2, <3>2 DEF EntryState
  <2>2. inode' = [inode EXCEPT ![proc[p].ip] = e]
    BY <1>2, <1>6 DEF Unlink
  <2>3. /\ proc' = [proc EXCEPT ![p].pc = "locked"] /\ curproc' = curproc /\ dinode' = dinode
        /\ UNCHANGED <<ifreelist, s_inode, s_ninode, s_tinode, s_ilock, f_inode>>
    <3>1. proc = [proc EXCEPT ![p].pc = "locked"]
      BY <1>6 DEF Unlink, At, IInv, Shape, ProcState
    <3>2. QED
      BY <1>6, <3>1 DEF Unlink, super
  <2> HIDE DEF e
  <2>4. /\ proc' \in [Procs -> ProcState] /\ Others(p)
        /\ proc'[p].pc = "locked" /\ proc'[p].ip = proc[p].ip
    BY <1>3, <2>3, Moves
  <2>5. QED
    BY <1>1, <1>2, <1>3, <2>1, <2>2, <2>3, <2>4, WorksAs
<1>7. QED
  BY <1>4, <1>5, <1>6

LEMMA UpdatesWork ==
    ASSUME IInv, NEW p \in Procs,
           Updates(p, "sync", "iput") \/ Updates(p, "update", "put") \/ Updates(p, "ataken", "iput")
    PROVE  \E s \in Slot : s = proc[p].ip /\ Works(p, s)
<1> DEFINE e == [Entry(p) EXCEPT !.changed = FALSE]
<1>1. PICK from, to :
        /\ Updates(p, from, to)
        /\ <<from, to>> \in {<<"sync", "iput">>, <<"update", "put">>, <<"ataken", "iput">>}
  OBVIOUS
<1>2. /\ proc[p].pc = from /\ from \notin Idles \cup Waits \cup {"iread"}
      /\ to \in Labels \ (Idles \cup Waits \cup {"iread"})
      /\ to \in Alone => from \in Alone /\ to = "put"
  BY <1>1 DEF Updates, At, Idles, Waits, NoInode, Labels, Alone
<1>3. /\ Entry(p) \in EntryState /\ Entry(p).hashed /\ Entry(p).ilock
      /\ proc[p].ip \in Slot /\ inode \in [Slot -> EntryState]
      /\ Entry(p) = inode[proc[p].ip]
      /\ s_ninode \in 0..NICINOD /\ s_tinode \in Nat /\ s_ilock \in BOOLEAN
      /\ from \in Alone => Entry(p).count = 1
  BY <1>2, Holder DEF IInv, Shape, Entry, ProcOK
<1>4. e \in EntryState /\ e.hashed /\ e.ilock /\ e.number = Entry(p).number /\ ~e.changed
      /\ e.count = Entry(p).count /\ e.mode = Entry(p).mode /\ e.nlink = Entry(p).nlink
  BY <1>3 DEF EntryState
<1>5. inode' = [inode EXCEPT ![proc[p].ip] = e]
  BY <1>1, <1>3 DEF Updates
<1>6. /\ proc' = [proc EXCEPT ![p].pc = to] /\ curproc' = p
      /\ dinode' = [dinode EXCEPT ![Entry(p).number] = [mode |-> e.mode, nlink |-> e.nlink]]
      /\ UNCHANGED <<ifreelist, s_inode, s_ninode, s_tinode, s_ilock, f_inode>>
  BY <1>1, <1>4 DEF Updates, RunsOn, super, Iupdat
<1> HIDE DEF e
<1>7. to \notin {"itrunc", "ifree", "fsleep", "fupdate"}
  BY <1>1
<1>8. QED
  BY <1>2, <1>3, <1>4, <1>5, <1>6, <1>7, Moves, WorksAs

(* Where WorksAs finds p, and the places it may go to. *)
LEMMA WorkPlace ==
    ASSUME IInv, NEW p \in Procs, curproc \in {p, Nobody},
           proc[p].pc \notin Idles \cup Waits \cup {"iread"}
    PROVE  /\ Entry(p) \in EntryState /\ Entry(p).hashed /\ Entry(p).ilock
           /\ proc[p].ip \in Slot /\ inode \in [Slot -> EntryState]
           /\ Entry(p) = inode[proc[p].ip] /\ ProcOK(p)
           /\ s_ninode \in 0..NICINOD /\ s_tinode \in Nat /\ s_ilock \in BOOLEAN
           /\ inode = [inode EXCEPT ![proc[p].ip] = Entry(p)]
           /\ dinode' = [dinode EXCEPT ![Entry(p).number] =
                            [mode |-> Entry(p).mode, nlink |-> Entry(p).nlink]] <=> Iupdat(p)
  BY Holder DEF IInv, Shape, Entry, Iupdat

LEMMA TruncatesWork ==
    ASSUME IInv, NEW p \in Procs, IputTruncates(p) \/ Truncated(p) \/ IputFreed(p)
    PROVE  \E s \in Slot : s = proc[p].ip /\ Works(p, s)
<1>1. /\ proc[p].pc \in {"iput", "locked", "itrunc"} /\ curproc \in {p, Nobody}
      /\ proc[p].pc \notin Idles \cup Waits \cup {"iread"}
      /\ {"itrunc", "ifree", "update"} \subseteq Labels \ (Idles \cup Waits \cup {"iread"})
  BY DEF IputTruncates, Truncated, IputFreed, LastRef, Iputs, At, Idles, Waits, NoInode, Labels
<1>2. /\ Entry(p) \in EntryState /\ Entry(p).hashed /\ Entry(p).ilock
      /\ proc[p].ip \in Slot /\ inode \in [Slot -> EntryState]
      /\ Entry(p) = inode[proc[p].ip] /\ ProcOK(p)
      /\ s_ninode \in 0..NICINOD /\ s_tinode \in Nat /\ s_ilock \in BOOLEAN
      /\ inode = [inode EXCEPT ![proc[p].ip] = Entry(p)]
      /\ dinode' = [dinode EXCEPT ![Entry(p).number] =
                       [mode |-> Entry(p).mode, nlink |-> Entry(p).nlink]] <=> Iupdat(p)
  BY <1>1, WorkPlace
<1>3. CASE IputTruncates(p) \/ IputFreed(p)
  <2> DEFINE e == [Entry(p) EXCEPT !.changed = TRUE]
             l == IF IputTruncates(p) THEN "itrunc" ELSE "update"
  <2>1. e \in EntryState /\ e.changed /\ e.hashed /\ e.ilock /\ e.number = Entry(p).number
        /\ e.count = Entry(p).count /\ e.mode = Entry(p).mode /\ e.nlink = Entry(p).nlink
    BY <1>2 DEF EntryState
  <2>2. inode' = [inode EXCEPT ![proc[p].ip] = e]
    BY <1>2, <1>3 DEF IputTruncates, IputFreed
  <2>3. e.count = 1 /\ (l = "itrunc" => e.mode = "file" /\ e.nlink = 0)
        /\ l \in {"itrunc", "update"}
    BY <1>3, <2>1 DEF IputTruncates, IputFreed, LastRef
  <2>4. /\ proc' = [proc EXCEPT ![p].pc = l] /\ curproc' = Nobody /\ dinode' = dinode
        /\ UNCHANGED <<ifreelist, s_inode, s_ninode, s_tinode, s_ilock, f_inode>>
    BY <1>3 DEF IputTruncates, IputFreed, SleepsTo, super
  <2> HIDE DEF e, l
  <2>5. /\ proc' \in [Procs -> ProcState] /\ Others(p)
        /\ proc'[p].pc = l /\ proc'[p].ip = proc[p].ip
    BY <1>1, <2>3, <2>4, Moves
  <2>6. QED
    BY <1>1, <1>2, <2>1, <2>2, <2>3, <2>4, <2>5, WorksAs
<1>4. CASE Truncated(p)
  <2>1. /\ proc' = [proc EXCEPT ![p].pc = "ifree"] /\ curproc' = Nobody
        /\ dinode' = [dinode EXCEPT ![Entry(p).number] =
                         [mode |-> Entry(p).mode, nlink |-> Entry(p).nlink]]
        /\ inode' = [inode EXCEPT ![proc[p].ip] = Entry(p)]
        /\ UNCHANGED <<ifreelist, s_inode, s_ninode, s_tinode, s_ilock, f_inode>>
    BY <1>2, <1>4 DEF Truncated, SleepsTo, super, table
  <2>2. proc[p].pc = "itrunc" /\ Entry(p).count = 1 /\ Entry(p).mode = "file"
        /\ Entry(p).nlink = 0 /\ Entry(p).changed
    BY <1>2, <1>4 DEF Truncated, At, ProcOK, Alone
  <2>3. /\ proc' \in [Procs -> ProcState] /\ Others(p)
        /\ proc'[p].pc = "ifree" /\ proc'[p].ip = proc[p].ip
    BY <1>1, <2>1, Moves
  <2>4. QED
    BY <1>1, <1>2, <2>1, <2>2, <2>3, WorksAs
<1>5. QED
  BY <1>3, <1>4

LEMMA FreeingWorks ==
    ASSUME IInv, NEW p \in Procs, FreeLocks(p) \/ Freed(p)
    PROVE  \E s \in Slot : s = proc[p].ip /\ Works(p, s)
<1>1. /\ proc[p].pc \in {"ifree", "fupdate"} /\ curproc \in {p, Nobody}
      /\ proc[p].pc \notin Idles \cup Waits \cup {"iread"}
      /\ {"fupdate", "put"} \subseteq Labels \ (Idles \cup Waits \cup {"iread"})
  BY DEF FreeLocks, Freed, At, Idles, Waits, NoInode, Labels
<1>2. /\ Entry(p) \in EntryState /\ Entry(p).hashed /\ Entry(p).ilock
      /\ proc[p].ip \in Slot /\ inode \in [Slot -> EntryState]
      /\ Entry(p) = inode[proc[p].ip] /\ ProcOK(p)
      /\ s_ninode \in 0..NICINOD /\ s_tinode \in Nat /\ s_ilock \in BOOLEAN
      /\ inode = [inode EXCEPT ![proc[p].ip] = Entry(p)]
      /\ dinode' = [dinode EXCEPT ![Entry(p).number] =
                       [mode |-> Entry(p).mode, nlink |-> Entry(p).nlink]] <=> Iupdat(p)
  BY <1>1, WorkPlace
<1>3. Entry(p).count = 1 /\ Entry(p).changed
  BY <1>1, <1>2 DEF ProcOK, Alone
<1>4. CASE FreeLocks(p)
  <2> DEFINE e == [Entry(p) EXCEPT !.mode = "free"]
  <2>1. e \in EntryState /\ e.changed /\ e.hashed /\ e.ilock /\ e.number = Entry(p).number
        /\ e.count = 1 /\ e.count = Entry(p).count
    BY <1>2, <1>3 DEF EntryState, Modes
  <2>2. inode' = [inode EXCEPT ![proc[p].ip] = e]
    BY <1>2, <1>4 DEF FreeLocks
  <2>3. /\ proc' = [proc EXCEPT ![p].pc = "fupdate"] /\ curproc' = Nobody /\ dinode' = dinode
        /\ UNCHANGED <<ifreelist, s_inode, s_ninode, s_tinode, f_inode>> /\ s_ilock' = TRUE
    BY <1>4 DEF FreeLocks, SleepsTo
  <2> HIDE DEF e
  <2>4. /\ proc' \in [Procs -> ProcState] /\ Others(p)
        /\ proc'[p].pc = "fupdate" /\ proc'[p].ip = proc[p].ip
    BY <1>1, <2>3, Moves
  <2>5. QED
    BY <1>1, <1>2, <2>1, <2>2, <2>3, <2>4, WorksAs
<1>5. CASE Freed(p)
  <2> DEFINE e == [Entry(p) EXCEPT !.changed = FALSE]
             n == Entry(p).number
  <2>1. e \in EntryState /\ ~e.changed /\ e.hashed /\ e.ilock /\ e.number = Entry(p).number
        /\ e.count = 1 /\ e.count = Entry(p).count /\ e.mode = Entry(p).mode
        /\ e.nlink = Entry(p).nlink
    BY <1>2, <1>3 DEF EntryState
  <2>2. inode' = [inode EXCEPT ![proc[p].ip] = e]
    BY <1>2, <1>5 DEF Freed
  <2>3. /\ proc' = [WakeIlock(proc) EXCEPT ![p].pc = "put"] /\ curproc' = p
        /\ dinode' = [dinode EXCEPT ![Entry(p).number] = [mode |-> e.mode, nlink |-> e.nlink]]
        /\ UNCHANGED <<ifreelist, f_inode>> /\ s_ilock' = FALSE /\ s_tinode' = s_tinode + 1
    BY <1>5, <2>1 DEF Freed, Iupdat
  <2>4. s_inode' \in [0..(NICINOD - 1) -> 0..NIno] /\ s_ninode' \in 0..NICINOD
    <3>1. n \in 0..NIno /\ NICINOD \in Nat \ {0} /\ s_inode \in [0..(NICINOD - 1) -> 0..NIno]
      BY <1>2, TableAssumption DEF IInv, Shape, EntryState
    <3>2. CASE s_ninode >= NICINOD
      <4>1. /\ s_inode' = [s_inode EXCEPT ![0] = IF n < @ THEN n ELSE @]
            /\ s_ninode' = s_ninode
        BY <1>5, <3>2 DEF Freed
      <4>2. QED
        BY <1>2, <3>1, <4>1
    <3>3. CASE ~(s_ninode >= NICINOD)
      <4>1. s_inode' = [s_inode EXCEPT ![s_ninode] = n] /\ s_ninode' = s_ninode + 1
        BY <1>5, <3>3 DEF Freed
      <4>2. QED
        BY <1>2, <3>1, <3>3, <4>1
    <3>4. QED
      BY <3>2, <3>3
  <2> HIDE DEF e, n
  <2>5. /\ proc' \in [Procs -> ProcState] /\ Others(p)
        /\ proc'[p].pc = "put" /\ proc'[p].ip = proc[p].ip
    <3>1. /\ WakeIlock(proc) \in [Procs -> ProcState] /\ WakeIlock(proc)[p] = proc[p]
          /\ \A q \in Procs : Woke(proc[q], WakeIlock(proc)[q])
      BY <1>2, <1>5, Wakeups DEF IInv, Shape, Freed, At
    <3>2. "put" \in Labels
      BY DEF Labels
    <3>3. QED
      BY <2>3, <3>1, <3>2 DEF ProcState, Others
  <2>6. s_tinode' \in Nat /\ s_ilock' \in BOOLEAN /\ curproc' \in Procs \cup {Nobody}
    <3>1. s_tinode' \in Nat
      BY <1>2, <2>3
    <3>2. s_ilock' \in BOOLEAN /\ curproc' \in Procs \cup {Nobody}
      BY <2>3
    <3>3. QED
      BY <3>1, <3>2
  <2>7. QED
    BY <1>1, <2>1, <2>2, <2>3, <2>4, <2>5, <2>6, WorksAs
<1>6. QED
  BY <1>4, <1>5

LEMMA AllocatingWorks ==
    ASSUME IInv, NEW p \in Procs,
           (AllocChecks(p) /\ Entry(p).mode = "free") \/ Allocated(p)
    PROVE  \E s \in Slot : s = proc[p].ip /\ Works(p, s)
<1>1. /\ proc[p].pc \in {"agot", "aupdate"} /\ curproc \in {p, Nobody}
      /\ proc[p].pc \notin Idles \cup Waits \cup {"iread"}
      /\ {"aupdate", "locked"} \subseteq Labels \ (Idles \cup Waits \cup {"iread"} \cup Alone)
  BY DEF AllocChecks, Allocated, At, Idles, Waits, NoInode, Labels, Alone
<1>2. /\ Entry(p) \in EntryState /\ Entry(p).hashed /\ Entry(p).ilock
      /\ proc[p].ip \in Slot /\ inode \in [Slot -> EntryState]
      /\ Entry(p) = inode[proc[p].ip] /\ ProcOK(p)
      /\ s_ninode \in 0..NICINOD /\ s_tinode \in Nat /\ s_ilock \in BOOLEAN
      /\ inode = [inode EXCEPT ![proc[p].ip] = Entry(p)]
      /\ dinode' = [dinode EXCEPT ![Entry(p).number] =
                       [mode |-> Entry(p).mode, nlink |-> Entry(p).nlink]] <=> Iupdat(p)
  BY <1>1, WorkPlace
<1>3. CASE AllocChecks(p) /\ Entry(p).mode = "free"
  <2> DEFINE e == [Entry(p) EXCEPT !.mode = "file", !.nlink = 1, !.changed = TRUE]
  <2>1. e \in EntryState /\ e.changed /\ e.hashed /\ e.ilock /\ e.number = Entry(p).number
        /\ e.count = Entry(p).count
    <3>1. 1 \in 0..MAXLINK /\ "file" \in Modes
      BY TableAssumption DEF Modes
    <3>2. QED
      BY <1>2, <3>1 DEF EntryState
  <2>2. inode' = [inode EXCEPT ![proc[p].ip] = e]
    BY <1>2, <1>3 DEF AllocChecks
  <2>3. /\ proc' = [proc EXCEPT ![p].pc = "aupdate"] /\ curproc' = Nobody /\ dinode' = dinode
        /\ UNCHANGED <<ifreelist, s_inode, s_ninode, s_ilock, f_inode>>
    BY <1>3 DEF AllocChecks, SleepsTo
  <2>4. s_tinode' \in Nat
    BY <1>2, <1>3 DEF AllocChecks
  <2> HIDE DEF e
  <2>5. /\ proc' \in [Procs -> ProcState] /\ Others(p)
        /\ proc'[p].pc = "aupdate" /\ proc'[p].ip = proc[p].ip
    BY <1>1, <2>3, Moves
  <2>6. QED
    BY <1>1, <1>2, <2>1, <2>2, <2>3, <2>4, <2>5, WorksAs
<1>4. CASE Allocated(p)
  <2> DEFINE e == [Entry(p) EXCEPT !.changed = FALSE]
  <2>1. e \in EntryState /\ ~e.changed /\ e.hashed /\ e.ilock /\ e.number = Entry(p).number
        /\ e.count = Entry(p).count /\ e.mode = Entry(p).mode /\ e.nlink = Entry(p).nlink
    BY <1>2 DEF EntryState
  <2>2. inode' = [inode EXCEPT ![proc[p].ip] = e]
    BY <1>2, <1>4 DEF Allocated
  <2>3. /\ proc' = [WakeIlock(proc) EXCEPT ![p].pc = "locked", ![p].by = "user"]
        /\ dinode' = [dinode EXCEPT ![Entry(p).number] = [mode |-> e.mode, nlink |-> e.nlink]]
        /\ UNCHANGED <<ifreelist, s_inode, s_ninode, s_tinode, f_inode>>
    BY <1>4, <2>1 DEF Allocated, Iupdat
  <2>4. s_ilock' \in BOOLEAN /\ curproc' \in Procs \cup {Nobody}
    BY <1>4 DEF Allocated
  <2> HIDE DEF e
  <2>5. /\ proc' \in [Procs -> ProcState] /\ Others(p)
        /\ proc'[p].pc = "locked" /\ proc'[p].ip = proc[p].ip
    <3>1. /\ WakeIlock(proc) \in [Procs -> ProcState] /\ WakeIlock(proc)[p] = proc[p]
          /\ \A q \in Procs : Woke(proc[q], WakeIlock(proc)[q])
      BY <1>2, <1>4, Wakeups DEF IInv, Shape, Allocated, At
    <3>2. "locked" \in Labels
      BY DEF Labels
    <3>3. QED
      BY <2>3, <3>1, <3>2 DEF ProcState, Others
  <2>6. QED
    BY <1>1, <1>2, <2>1, <2>2, <2>3, <2>4, <2>5, WorksAs
<1>5. QED
  BY <1>3, <1>4
--------------------------------------------------------------------------------
(* Who only moves. *)
LEMMA QuietAs ==
    ASSUME IInv, NEW p \in Procs, proc' \in [Procs -> ProcState], Others(p), ProcOK(p)',
           \A t \in Slot : /\ Refers(p, t)' <=> Refers(p, t)
                           /\ Locks(p, t)' <=> Locks(p, t)
                           /\ Reads(p, t)' <=> Reads(p, t),
           inode' \in [Slot -> EntryState], \A t \in Slot : Same(t) \/ inode'[t] = inode[t],
           s_inode' = s_inode \/ s_inode' \in [0..(NICINOD - 1) -> 0..NIno],
           s_ninode' \in 0..NICINOD, s_tinode' \in Nat, s_ilock' \in BOOLEAN,
           curproc' \in Procs \cup {Nobody}, UNCHANGED <<ifreelist, dinode, f_inode>>
    PROVE  Quiet(p)
<1>1. \A t \in Slot : Same(t)
  <2> SUFFICES ASSUME NEW t \in Slot, inode'[t] = inode[t] PROVE Same(t)
    OBVIOUS
  <2>1. inode[t] = [inode[t] EXCEPT !.iwant = inode[t].iwant] /\ inode[t].iwant \in BOOLEAN
    BY DEF IInv, Shape, EntryState
  <2>2. QED
    BY <2>1 DEF Same
<1>2. Shape'
  BY DEF IInv, Shape
<1>3. QED
  BY <1>1, <1>2 DEF Quiet, AsBefore

(* Without an inode before and after. *)
LEMMA QuietWithout ==
    ASSUME IInv, NEW p \in Procs, proc' \in [Procs -> ProcState], Others(p),
           proc[p].ip = None, proc'[p].ip = None \/ proc'[p].pc = "isleep",
           proc'[p].pc \in Idles, proc'[p].pc \in NoInode => proc'[p].ip = None,
           proc'[p].pc = "isleep" => proc'[p].ip \in Slot,
           inode' \in [Slot -> EntryState], \A t \in Slot : Same(t) \/ inode'[t] = inode[t],
           s_inode' = s_inode \/ s_inode' \in [0..(NICINOD - 1) -> 0..NIno],
           s_ninode' \in 0..NICINOD, s_tinode' \in Nat, s_ilock' \in BOOLEAN,
           curproc' \in Procs \cup {Nobody}, UNCHANGED <<ifreelist, dinode, f_inode>>
    PROVE  Quiet(p)
<1>1. ProcOK(p)'
  BY DEF ProcOK, Idles, NoInode, Alone
<1>2. \A t \in Slot : /\ Refers(p, t)' <=> Refers(p, t)
                      /\ Locks(p, t)' <=> Locks(p, t)
                      /\ Reads(p, t)' <=> Reads(p, t)
  BY DEF Refers, Locks, Reads, Slot, None, Idles, NoInode
<1>3. QED
  BY <1>1, <1>2, QuietAs

(* With the same inode before and after. *)
LEMMA QuietWith ==
    ASSUME IInv, NEW p \in Procs, proc[p].pc \notin Idles \cup {"iread"}, NEW l \in Labels \ Idles,
           proc[p].pc \in Waits <=> l \in Waits, l # "iread",
           proc' = [proc EXCEPT ![p].pc = l],
           l \in Alone => Entry(p).count = 1,
           l \in {"itrunc", "ifree", "fsleep"} => proc[p].pc \in {"itrunc", "ifree", "fsleep"},
           l # "fupdate", l = "put" => ~Entry(p).changed,
           inode' \in [Slot -> EntryState], \A t \in Slot : Same(t) \/ inode'[t] = inode[t],
           curproc' \in Procs \cup {Nobody}, UNCHANGED <<ifreelist, dinode, f_inode, super>>
    PROVE  Quiet(p)
<1>1. /\ proc' \in [Procs -> ProcState] /\ Others(p)
      /\ proc'[p].pc = l /\ proc'[p].ip = proc[p].ip
  BY Moves
<1>2. proc[p].ip \in Slot /\ Entry(p) \in EntryState /\ Entry(p) = inode[proc[p].ip]
  BY Holder DEF Entry
<1>3. /\ inode'[proc[p].ip].count = Entry(p).count
      /\ inode'[proc[p].ip].changed <=> Entry(p).changed
      /\ inode'[proc[p].ip].mode = Entry(p).mode /\ inode'[proc[p].ip].nlink = Entry(p).nlink
  BY <1>2, SameFields
<1>4. ProcOK(p)'
  <2>1. ProcOK(p)
    BY DEF IInv
  <2>2. QED
    BY <1>1, <1>2, <1>3, <2>1 DEF ProcOK, Entry, Idles, NoInode, Alone
<1>5. \A t \in Slot : /\ Refers(p, t)' <=> Refers(p, t)
                      /\ Locks(p, t)' <=> Locks(p, t)
                      /\ Reads(p, t)' <=> Reads(p, t)
  BY <1>1 DEF Refers, Locks, Reads, Idles, Waits, NoInode
<1>6. s_ninode' \in 0..NICINOD /\ s_tinode' \in Nat /\ s_ilock' \in BOOLEAN /\ s_inode' = s_inode
  BY DEF IInv, Shape, super
<1>7. QED
  BY <1>1, <1>4, <1>5, <1>6, QuietAs

(* The free inodes of a block take places in the super block downwards.    *)
LEMMA PlaceOrder ==
    ASSUME NEW b \in 0..(NIno + INOPB), s_ninode \in 0..NICINOD
    PROVE  /\ FreeIn(b) \subseteq Ino /\ IsFiniteSet(FreeIn(b)) /\ Ino \subseteq Int
           /\ \A n \in FreeIn(b) :
                /\ Cardinality({m \in FreeIn(b) : m < n}) \in Nat
                /\ PlaceOf(b, n) = s_ninode - 1 - Cardinality({m \in FreeIn(b) : m < n})
           /\ \A n \in FreeIn(b) : PlaceOf(b, n) \in Int
           /\ \A m, n \in FreeIn(b) : m < n => PlaceOf(b, m) > PlaceOf(b, n)
<1> DEFINE Below(n) == {m \in FreeIn(b) : m < n}
<1>0. s_ninode \in Nat
  BY TableAssumption
<1>1. FreeIn(b) \subseteq Ino /\ IsFiniteSet(FreeIn(b)) /\ Ino \subseteq Int
  <2>1. IsFiniteSet(Ino) /\ Ino \subseteq Int
    BY TableAssumption, FS_Interval DEF Ino
  <2>2. FreeIn(b) \subseteq Ino
    BY DEF FreeIn
  <2>3. QED
    BY <2>1, <2>2, FS_Subset
<1>2. ASSUME NEW n \in FreeIn(b)
      PROVE  /\ IsFiniteSet(Below(n)) /\ Cardinality(Below(n)) \in Nat
             /\ PlaceOf(b, n) = s_ninode - 1 - Cardinality(Below(n))
  <2>1. Below(n) \in SUBSET FreeIn(b)
    OBVIOUS
  <2>2. QED
    BY <1>1, <2>1, FS_Subset, FS_CardinalityType DEF PlaceOf
<1>3. ASSUME NEW n \in FreeIn(b), NEW m \in FreeIn(b), m < n
      PROVE  PlaceOf(b, m) > PlaceOf(b, n)
  <2>1. m \in Int /\ n \in Int
    BY <1>1
  <2>2. m \in Below(n) /\ m \notin Below(m)
    BY <1>3, <2>1
  <2>3. ASSUME NEW x \in Below(m) PROVE x \in Below(n)
    <3>1. x \in FreeIn(b) /\ x \in Int /\ x < m
      BY <1>1
    <3>2. x < n
      BY <1>3, <2>1, <3>1
    <3>3. QED
      BY <3>1, <3>2
  <2>4. Below(m) \in SUBSET Below(n) /\ Below(m) # Below(n)
    BY <2>2, <2>3
  <2>5. Cardinality(Below(m)) < Cardinality(Below(n))
    <3> HIDE DEF Below
    <3>1. /\ Cardinality(Below(m)) <= Cardinality(Below(n))
          /\ Cardinality(Below(m)) # Cardinality(Below(n))
      BY <1>2, <2>4, FS_Subset
    <3>2. QED
      BY <1>2, <3>1
  <2>6. PICK x \in Nat, y \in Nat : x = Cardinality(Below(m)) /\ y = Cardinality(Below(n))
    BY <1>2
  <2>7. PlaceOf(b, m) = s_ninode - 1 - x /\ PlaceOf(b, n) = s_ninode - 1 - y /\ x < y
    BY <1>2, <2>5, <2>6
  <2>8. QED
    BY <1>0, <2>7
<1>4. ASSUME NEW n \in FreeIn(b) PROVE PlaceOf(b, n) \in Int
  <2>1. PICK x \in Nat : x = Cardinality(Below(n))
    BY <1>2
  <2>2. PlaceOf(b, n) = s_ninode - 1 - x
    BY <1>2, <2>1
  <2>3. QED
    BY <1>0, <2>2
<1>5. QED
  BY <1>1, <1>2, <1>3, <1>4

(* There is room for them.                                                 *)
LEMMA ScanFits ==
    ASSUME NEW b \in 0..(NIno + INOPB), s_ninode \in 0..NICINOD
    PROVE  s_ninode - Cardinality({n \in FreeIn(b) : PlaceOf(b, n) >= 0}) \in 0..NICINOD
<1> DEFINE found == {n \in FreeIn(b) : PlaceOf(b, n) >= 0}
           f == [n \in found |-> PlaceOf(b, n)]
<1>0. NICINOD \in Nat /\ s_ninode \in Nat /\ s_ninode <= NICINOD
  BY TableAssumption
<1>1. /\ IsFiniteSet(FreeIn(b)) /\ FreeIn(b) \subseteq Int
      /\ \A m, n \in FreeIn(b) : m < n => PlaceOf(b, m) > PlaceOf(b, n)
  BY PlaceOrder
<1>2. IsFiniteSet(found) /\ Cardinality(found) \in Nat
  <2>1. found \in SUBSET FreeIn(b)
    OBVIOUS
  <2>2. QED
    BY <1>1, <2>1, FS_Subset, FS_CardinalityType
<1>3. ASSUME NEW m \in found, NEW n \in found, m # n PROVE PlaceOf(b, m) # PlaceOf(b, n)
  <2>1. m \in FreeIn(b) /\ n \in FreeIn(b) /\ m \in Int /\ n \in Int
    BY <1>1
  <2>2. PlaceOf(b, m) > PlaceOf(b, n) \/ PlaceOf(b, n) > PlaceOf(b, m)
    BY <1>1, <1>3, <2>1
  <2>3. PlaceOf(b, m) \in Int
    BY <2>1, PlaceOrder
  <2>4. QED
    BY <2>2, <2>3
<1>4. f \in [found -> 0..(s_ninode - 1)]
  <2> SUFFICES ASSUME NEW n \in found PROVE PlaceOf(b, n) \in 0..(s_ninode - 1)
    OBVIOUS
  <2>1. PICK x \in Nat : x = Cardinality({m \in FreeIn(b) : m < n})
    BY PlaceOrder
  <2>2. PlaceOf(b, n) = s_ninode - 1 - x /\ PlaceOf(b, n) >= 0
    BY <2>1, PlaceOrder
  <2>3. QED
    BY <1>0, <2>2
<1>5. IsFiniteSet(0..(s_ninode - 1)) /\ Cardinality(0..(s_ninode - 1)) = s_ninode
  <2>1. 0 \in Int /\ s_ninode - 1 \in Int
    BY <1>0
  <2>2. /\ IsFiniteSet(0..(s_ninode - 1))
        /\ Cardinality(0..(s_ninode - 1)) =
             IF 0 > s_ninode - 1 THEN 0 ELSE s_ninode - 1 - 0 + 1
    BY <2>1, FS_Interval
  <2>3. QED
    BY <1>0, <2>2
<1>6. ~(s_ninode < Cardinality(found))
  <2> SUFFICES ASSUME s_ninode < Cardinality(found) PROVE FALSE
    OBVIOUS
  <2>1. \E m, n \in found : m # n /\ f[m] = f[n]
    <3> HIDE DEF f, found
    <3>1. QED
      BY <1>2, <1>4, <1>5, FS_PigeonHole
  <2>2. QED
    BY <1>3, <2>1
<1>7. QED
  BY <1>0, <1>2, <1>6

(* The block from which the scan starts. *)
LEMMA ScanStart == \A x \in 0..NIno : FsINOS(x) \in 0..(NIno + INOPB)
<1> SUFFICES ASSUME NEW x \in 0..NIno PROVE FsINOS(x) \in 0..(NIno + INOPB)
  OBVIOUS
<1>1. PICK k \in Nat \ {0} : k = INOPB
  BY TableAssumption
<1>2. x \in Nat /\ NIno \in Nat /\ x <= NIno
  BY TableAssumption
<1>3. x = k * (x \div k) + (x % k) /\ x % k \in 0..(k - 1) /\ x \div k \in Int
  BY <1>2
<1>4. PICK q \in Int, r \in 0..(k - 1) : q = x \div k /\ r = x % k /\ x = k * q + r
  BY <1>3
<1>5. PICK y \in Int : y = q * k
  OBVIOUS
<1>6. x = y + r
  BY <1>4, <1>5
<1>7. y + 1 \in 0..(NIno + k)
  <2>1. y >= 0
    <3>1. q >= 0
      <4>1. SUFFICES ASSUME q <= 0 - 1 PROVE FALSE
        OBVIOUS
      <4>2. (q + 1) * k <= 0
        BY <4>1
      <4>3. y + k <= 0
        BY <1>5, <4>2
      <4>4. QED
        BY <1>2, <1>6, <4>3
    <3>2. QED
      BY <1>5, <3>1
  <2>2. QED
    BY <1>2, <1>6, <2>1
<1>8. FsINOS(x) = y + 1
  BY <1>1, <1>4, <1>5 DEF FsINOS
<1>9. QED
  BY <1>1, <1>7, <1>8

LEMMA Types ==
    ASSUME IInv
    PROVE  /\ inode \in [Slot -> EntryState] /\ proc \in [Procs -> ProcState]
           /\ s_inode \in [0..(NICINOD - 1) -> 0..NIno]
           /\ s_ninode \in 0..NICINOD /\ s_tinode \in Nat /\ s_ilock \in BOOLEAN
           /\ NICINOD \in Nat \ {0} /\ NIno \in Nat \ {0} /\ INOPB \in Nat \ {0}
           /\ Idle \in ProcState /\ Idle.pc = "user" /\ Idle.ip = None
           /\ NoInode \subseteq Labels
<1>1. NICINOD \in Nat \ {0} /\ NIno \in Nat \ {0} /\ INOPB \in Nat \ {0}
  BY TableAssumption
<1>2. Idle \in ProcState /\ Idle.pc = "user" /\ Idle.ip = None
  <2>1. 0 \in 0..(NIno + INOPB) /\ "user" \in Labels
    BY <1>1 DEF Labels
  <2>2. QED
    BY <2>1 DEF Idle, ProcState
<1>3. NoInode \subseteq Labels
  BY DEF NoInode, Labels
<1>4. QED
  BY <1>1, <1>2, <1>3 DEF IInv, Shape

(* A call of iget that gets nothing. *)
LEMMA GetsNullMoves ==
    ASSUME IInv, NEW p \in Procs, NEW P \in [Procs -> ProcState],
           \A q \in Procs \ {p} : Woke(proc[q], P[q]) /\ Woke(proc[q], WakeIlock(P)[q]),
           GetsNull(P, p)
    PROVE  /\ proc' \in [Procs -> ProcState] /\ Others(p) /\ proc'[p] = Idle
           /\ UNCHANGED <<s_inode, s_ninode, s_tinode>> /\ s_ilock' \in BOOLEAN
<1>1. PICK s \in Slot : TRUE
  BY TableAssumption DEF Slot
<1>2. WakeIlock(P) \in [Procs -> ProcState]
  BY <1>1, Wakeups
<1>3. CASE P[p].by = "user"
  BY <1>3, Types DEF GetsNull, Others, super
<1>4. CASE P[p].by # "user"
  BY <1>2, <1>4, Types DEF GetsNull, Others
<1>5. QED
  BY <1>3, <1>4

LEMMA IgetMoves ==
    ASSUME IInv, NEW p \in Procs, NEW n \in Ino, IgetBusy(p, n) \/ IgetOverflow(p, n)
    PROVE  Quiet(p)
<1>1. /\ proc[p] \in ProcState /\ proc[p].ip = None
      /\ proc[p].pc \in {"user", "iget"}
  <2>1. proc[p] \in ProcState /\ ProcOK(p)
    BY Types DEF IInv
  <2>2. proc[p].pc = "iget" \/ (proc[p].pc = "user" /\ proc[p].ip = None)
    BY DEF IgetBusy, IgetOverflow, Seeks, At
  <2>3. QED
    BY <2>1, <2>2 DEF ProcOK, NoInode
<1>2. CASE IgetBusy(p, n)
  <2>1. PICK s \in Slot :
          /\ inode' = [inode EXCEPT ![s].iwant = TRUE]
          /\ proc' = [proc EXCEPT ![p].pc = "isleep", ![p].ip = s, ![p].ino = n]
    BY <1>2 DEF IgetBusy, Cached
  <2>2. proc' \in [Procs -> ProcState] /\ Others(p) /\ proc'[p].pc = "isleep" /\ proc'[p].ip = s
    <3>1. n \in 0..(NIno + INOPB) /\ "isleep" \in Labels
      BY Types DEF Ino, Labels
    <3>2. QED
      BY <2>1, <3>1, Types DEF ProcState, Others, Woke
  <2>3. inode' \in [Slot -> EntryState] /\ \A t \in Slot : Same(t) \/ inode'[t] = inode[t]
    BY <2>1, Types DEF EntryState, Same
  <2>4. /\ UNCHANGED <<ifreelist, dinode, f_inode, s_inode, s_ninode, s_tinode, s_ilock>>
        /\ curproc' = Nobody
    BY <1>2 DEF IgetBusy, super
  <2>5. "isleep" \in Idles /\ "isleep" \notin NoInode
    BY DEF Idles, NoInode
  <2>6. QED
    BY <1>1, <2>2, <2>3, <2>4, <2>5, Types, QuietWithout
<1>3. CASE IgetOverflow(p, n)
  <2>1. GetsNull(proc, p) /\ curproc' = Nobody
        /\ UNCHANGED <<inode, ifreelist, dinode, f_inode>>
    BY <1>3 DEF IgetOverflow, table
  <2>2. \A q \in Procs \ {p} : Woke(proc[q], proc[q]) /\ Woke(proc[q], WakeIlock(proc)[q])
    <3>1. PICK s \in Slot : TRUE
      BY TableAssumption DEF Slot
    <3>2. \A q \in Procs : Woke(proc[q], WakeIlock(proc)[q])
      BY <3>1, Types, Wakeups
    <3>3. QED
      BY <3>2 DEF Woke
  <2>3. /\ proc' \in [Procs -> ProcState] /\ Others(p) /\ proc'[p] = Idle
        /\ UNCHANGED <<s_inode, s_ninode, s_tinode>> /\ s_ilock' \in BOOLEAN
    BY <2>1, <2>2, Types, GetsNullMoves
  <2>4. "user" \in Idles /\ "user" \notin NoInode /\ "user" # "isleep"
    BY DEF Idles, NoInode
  <2>5. QED
    BY <1>1, <2>1, <2>3, <2>4, Types, QuietWithout
<1>4. QED
  BY <1>2, <1>3

(* Where p is while s5ialloc has no inode. *)
LEMMA AllocPlace ==
    ASSUME IInv, NEW p \in Procs,
           proc[p].pc \in NoInode \/ (proc[p].pc = "user" /\ proc[p].ip = None)
    PROVE  proc[p] \in ProcState /\ proc[p].ip = None /\ NoInode \subseteq Idles
  BY Types DEF IInv, ProcOK, Idles

LEMMA AllocMoves ==
    ASSUME IInv, NEW p \in Procs, AllocWaits(p) \/ AllocLocks(p) \/ AllocPops(p) \/ AllocScans(p)
    PROVE  Quiet(p)
<1>1. proc[p].pc \in NoInode \/ (proc[p].pc = "user" /\ proc[p].ip = None)
  BY DEF AllocWaits, AllocLocks, AllocPops, AllocScans, Creates, At, NoInode
<1>2. proc[p] \in ProcState /\ proc[p].ip = None /\ NoInode \subseteq Idles /\ "isleep" \notin NoInode
  BY <1>1, AllocPlace DEF NoInode
<1>3. {"asleep", "apop", "iget", "scan"} \subseteq NoInode
  BY DEF NoInode
<1>4. PICK l \in NoInode, i \in 0..(NIno + INOPB), m \in {"user", "ialloc"} :
        proc' = [proc EXCEPT ![p].pc = l, ![p].ino = i, ![p].by = m]
  <2>1. CASE AllocWaits(p)
    <3>1. proc' = [proc EXCEPT ![p].pc = "asleep", ![p].ino = proc[p].ino, ![p].by = "ialloc"]
      BY <2>1, <1>2, Types DEF AllocWaits, ProcState
    <3>2. QED
      BY <1>2, <1>3, <3>1 DEF ProcState
  <2>2. CASE AllocLocks(p)
    <3>1. proc' = [proc EXCEPT ![p].pc = "apop", ![p].ino = proc[p].ino, ![p].by = "ialloc"]
      BY <2>2, <1>2, Types DEF AllocLocks, ProcState
    <3>2. QED
      BY <1>2, <1>3, <3>1 DEF ProcState
  <2>3. CASE AllocPops(p)
    <3>1. proc' = [proc EXCEPT ![p].pc = "iget", ![p].ino = s_inode[s_ninode - 1],
                               ![p].by = proc[p].by]
      BY <2>3, <1>2, Types DEF AllocPops, ProcState
    <3>2. s_inode[s_ninode - 1] \in 0..(NIno + INOPB)
      BY <2>3, Types DEF AllocPops, Listed
    <3>3. QED
      BY <1>2, <1>3, <3>1, <3>2 DEF ProcState
  <2>4. CASE AllocScans(p)
    <3>1. proc' = [proc EXCEPT ![p].pc = "scan", ![p].ino = FsINOS(s_inode[0]),
                               ![p].by = proc[p].by]
      BY <2>4, <1>2, Types DEF AllocScans, ProcState
    <3>2. FsINOS(s_inode[0]) \in 0..(NIno + INOPB)
      BY Types, ScanStart
    <3>3. QED
      BY <1>2, <1>3, <3>1, <3>2 DEF ProcState
  <2>5. QED
    BY <2>1, <2>2, <2>3, <2>4
<1>5. proc' \in [Procs -> ProcState] /\ Others(p) /\ proc'[p].pc = l /\ proc'[p].ip = None
  BY <1>2, <1>4, Types DEF ProcState, Others, Woke
<1>6. UNCHANGED <<inode, ifreelist, dinode, f_inode, s_inode, s_tinode>>
  BY DEF AllocWaits, AllocLocks, AllocPops, AllocScans, table, super
<1>7. s_ninode' \in 0..NICINOD
  <2>1. CASE AllocPops(p)
    BY <2>1, Types DEF AllocPops, Listed
  <2>2. CASE AllocScans(p)
    BY <2>2, Types DEF AllocScans
  <2>3. CASE AllocWaits(p) \/ AllocLocks(p)
    BY <2>3, Types DEF AllocWaits, AllocLocks, super
  <2>4. QED
    BY <2>1, <2>2, <2>3
<1>8. s_ilock' \in BOOLEAN /\ curproc' \in Procs \cup {Nobody}
  BY Types DEF AllocWaits, AllocLocks, AllocPops, AllocScans, super
<1>9. QED
  BY <1>2, <1>4, <1>5, <1>6, <1>7, <1>8, Types, QuietWithout

LEMMA ScanMoves ==
    ASSUME IInv, NEW p \in Procs, ScanBlock(p) \/ ScanFails(p) \/ ScanEnds(p) \/ NoSpace(p)
    PROVE  Quiet(p)
<1>1. proc[p].pc \in {"scan", "nospace", "apop"}
  BY DEF ScanBlock, ScanFails, ScanEnds, NoSpace, At
<1>2. /\ proc[p] \in ProcState /\ proc[p].ip = None /\ NoInode \subseteq Idles
      /\ "isleep" \notin NoInode /\ proc[p].pc \in NoInode
  BY <1>1, AllocPlace DEF NoInode
<1>3. UNCHANGED <<inode, ifreelist, dinode, f_inode>>
  BY DEF ScanBlock, ScanFails, ScanEnds, NoSpace, table
<1>4. CASE ScanBlock(p)
  <2> DEFINE b == proc[p].ino
             found == {n \in FreeIn(b) : PlaceOf(b, n) >= 0}
  <2>1. b \in 0..(NIno + INOPB) /\ b <= NIno /\ b \in Int
    BY <1>2, <1>4, Types DEF ProcState, ScanBlock
  <2>2. s_ninode' = s_ninode - Cardinality(found) /\ s_ilock' = s_ilock /\ s_tinode' = s_tinode
        /\ curproc' = Nobody
    BY <1>4 DEF ScanBlock
  <2>3. s_ninode' \in 0..NICINOD
    BY <2>1, <2>2, Types, ScanFits
  <2>4. s_inode' \in [0..(NICINOD - 1) -> 0..NIno]
    <3>1. s_inode' = [i \in DOMAIN s_inode |->
                         IF \E n \in found : PlaceOf(b, n) = i
                         THEN CHOOSE n \in found : PlaceOf(b, n) = i ELSE s_inode[i]]
      BY <1>4 DEF ScanBlock
    <3>2. found \subseteq 0..NIno
      BY Types DEF FreeIn, Ino
    <3>3. ASSUME NEW i \in 0..(NICINOD - 1)
          PROVE  (IF \E n \in found : PlaceOf(b, n) = i
                  THEN CHOOSE n \in found : PlaceOf(b, n) = i ELSE s_inode[i]) \in 0..NIno
      <4> HIDE DEF found
      <4>1. QED
        BY <3>2, Types
    <3>4. DOMAIN s_inode = 0..(NICINOD - 1)
      BY Types
    <3>5. QED
      <4> HIDE DEF found
      <4>1. QED
        BY <3>1, <3>3, <3>4
  <2>5. proc' \in [Procs -> ProcState] /\ Others(p) /\ proc'[p].pc = "scan" /\ proc'[p].ip = None
    <3>1. proc' = [proc EXCEPT ![p].ino = b + INOPB]
      BY <1>4 DEF ScanBlock
    <3>2. b + INOPB \in 0..(NIno + INOPB)
      BY <2>1, Types
    <3>3. proc[p].pc = "scan"
      BY <1>4 DEF ScanBlock, At
    <3>4. QED
      BY <1>2, <3>1, <3>2, <3>3, Types DEF ProcState, Others, Woke
  <2>6. QED
    BY <1>2, <1>3, <2>2, <2>3, <2>4, <2>5, Types, QuietWithout DEF NoInode
<1>5. CASE ScanFails(p)
  <2>1. proc' = [proc EXCEPT ![p].ino = @ + INOPB, ![p].u_error = TRUE]
        /\ UNCHANGED super /\ curproc' = Nobody /\ proc[p].ino <= NIno /\ proc[p].pc = "scan"
    BY <1>5 DEF ScanFails, At
  <2>2. proc[p].ino + INOPB \in 0..(NIno + INOPB)
    BY <1>2, <2>1, Types DEF ProcState
  <2>3. proc' \in [Procs -> ProcState] /\ Others(p) /\ proc'[p].pc = "scan" /\ proc'[p].ip = None
    BY <1>2, <2>1, <2>2, Types DEF ProcState, Others, Woke
  <2>4. QED
    BY <1>2, <1>3, <2>1, <2>3, Types, QuietWithout DEF NoInode, super
<1>6. CASE ScanEnds(p)
  <2>1. PICK l \in {"apop", "nospace"} : proc' = [proc EXCEPT ![p].ino = 0, ![p].pc = l]
    BY <1>6 DEF ScanEnds
  <2>2. proc' \in [Procs -> ProcState] /\ Others(p) /\ proc'[p].pc = l /\ proc'[p].ip = None
    <3>1. l \in Labels /\ 0 \in 0..(NIno + INOPB)
      BY Types DEF Labels
    <3>2. QED
      BY <1>2, <2>1, <3>1, Types DEF ProcState, Others, Woke
  <2>3. s_inode' \in [0..(NICINOD - 1) -> 0..NIno]
    <3>1. CASE s_ninode > 0
      <4>1. s_inode' = [s_inode EXCEPT ![s_ninode - 1] = 0, ![0] = 0]
        BY <1>6, <3>1 DEF ScanEnds
      <4>2. 0 \in 0..NIno
        BY Types
      <4>3. QED
        BY <4>1, <4>2, Types
    <3>2. CASE ~(s_ninode > 0)
      BY <1>6, <3>2, Types DEF ScanEnds
    <3>3. QED
      BY <3>1, <3>2
  <2>4. s_ninode' = NICINOD /\ s_tinode' = s_tinode /\ s_ilock' = s_ilock /\ curproc' = p
    BY <1>6 DEF ScanEnds
  <2>5. s_ninode' \in 0..NICINOD /\ l \in NoInode
    BY <2>4, Types DEF NoInode
  <2>6. QED
    BY <1>2, <1>3, <2>2, <2>3, <2>4, <2>5, Types, QuietWithout
<1>7. CASE NoSpace(p)
  <2>1. /\ proc' = [WakeIlock(proc) EXCEPT ![p] = Idle]
        /\ s_ninode' = 0 /\ s_tinode' = 0 /\ s_ilock' = FALSE /\ s_inode' = s_inode
        /\ curproc' = Nobody
    BY <1>7 DEF NoSpace
  <2>2. /\ WakeIlock(proc) \in [Procs -> ProcState]
        /\ \A q \in Procs : Woke(proc[q], WakeIlock(proc)[q])
    <3>1. PICK s \in Slot : TRUE
      BY TableAssumption DEF Slot
    <3>2. QED
      BY <3>1, Types, Wakeups
  <2>3. proc' \in [Procs -> ProcState] /\ Others(p) /\ proc'[p] = Idle
    BY <2>1, <2>2, Types DEF Others
  <2>4. "user" \in Idles /\ "user" \notin NoInode /\ "user" # "isleep" /\ 0 \in 0..NICINOD
    BY Types DEF Idles, NoInode
  <2>5. QED
    BY <1>2, <1>3, <2>1, <2>3, <2>4, Types, QuietWithout
<1>8. QED
  BY <1>4, <1>5, <1>6, <1>7

LEMMA HolderMoves ==
    ASSUME IInv, NEW p \in Procs,
           PlockWaits(p) \/ IputUpdates(p) \/ FreeWaits(p)
           \/ (AllocChecks(p) /\ Entry(p).mode # "free")
    PROVE  Quiet(p)
<1>1. CASE PlockWaits(p)
  <2> DEFINE s == proc[p].ip
  <2>1. proc[p] \in ProcState /\ ProcOK(p) /\ proc[p].pc \in {"user", "plock"} /\ s \in Slot
    <3>1. proc[p] \in ProcState /\ ProcOK(p) /\ s \in Slot \cup {None}
      BY Types DEF IInv, ProcState
    <3>2. proc[p].pc = "plock" \/ (proc[p].pc = "user" /\ s # None)
      BY <1>1 DEF PlockWaits, Plocks, At
    <3>3. QED
      BY <3>1, <3>2 DEF ProcOK, NoInode
  <2>2. /\ inode' = [inode EXCEPT ![s].iwant = TRUE]
        /\ proc' = [proc EXCEPT ![p].pc = "psleep"] /\ curproc' = Nobody
        /\ UNCHANGED <<ifreelist, dinode, f_inode, super>>
    BY <1>1 DEF PlockWaits, SleepsTo
  <2>3. /\ proc' \in [Procs -> ProcState] /\ Others(p)
        /\ proc'[p].pc = "psleep" /\ proc'[p].ip = s
    <3>1. "psleep" \in Labels
      BY DEF Labels
    <3>2. QED
      BY <2>2, <3>1, Moves
  <2>4. inode' \in [Slot -> EntryState] /\ \A t \in Slot : Same(t) \/ inode'[t] = inode[t]
    BY <2>1, <2>2, Types DEF EntryState, Same
  <2>5. ProcOK(p)'
    BY <2>1, <2>3 DEF ProcOK, NoInode, Alone
  <2>6. \A t \in Slot : /\ Refers(p, t)' <=> Refers(p, t)
                        /\ Locks(p, t)' <=> Locks(p, t)
                        /\ Reads(p, t)' <=> Reads(p, t)
    BY <2>1, <2>3 DEF Refers, Locks, Reads
  <2>7. QED
    BY <2>2, <2>3, <2>4, <2>5, <2>6, Types, QuietAs DEF super
<1>2. CASE IputUpdates(p) \/ FreeWaits(p) \/ (AllocChecks(p) /\ Entry(p).mode # "free")
  <2>1. PICK l \in {"update", "put", "fsleep", "ataken"} :
          /\ proc' = [proc EXCEPT ![p].pc = l]
          /\ proc[p].pc \in {"iput", "locked", "ifree", "agot"}
          /\ l \in {"update", "put"} => Entry(p).count = 1
          /\ l = "put" => ~Entry(p).changed
          /\ l = "fsleep" => proc[p].pc = "ifree"
    BY <1>2 DEF IputUpdates, FreeWaits, AllocChecks, LastRef, Iputs, At, SleepsTo, RunsOn
  <2>2. /\ UNCHANGED <<inode, ifreelist, dinode, f_inode, super>>
        /\ curproc' \in Procs \cup {Nobody}
    BY <1>2 DEF IputUpdates, FreeWaits, AllocChecks, SleepsTo, RunsOn, table, super
  <2>3. /\ proc[p].pc \notin Idles \cup {"iread"} \cup Waits /\ l \in Labels \ Idles
        /\ l \notin Waits /\ l # "iread" /\ l # "fupdate"
    BY <2>1 DEF Idles, NoInode, Waits, Labels
  <2>4. l \in Alone => Entry(p).count = 1
    <3>1. ProcOK(p)
      BY DEF IInv
    <3>2. QED
      BY <2>1, <3>1 DEF ProcOK, Alone
  <2>5. QED
    BY <2>1, <2>2, <2>3, <2>4, Types, QuietWith
<1>3. QED
  BY <1>1, <1>2
--------------------------------------------------------------------------------
(* Who gets a reference, or gives one up. *)

LEMMA OffListFacts ==
    ASSUME IInv, NEW s \in ToSet(ifreelist)
    PROVE  /\ OffList(s) \in Seq(Slot) /\ IsInjective(OffList(s))
           /\ ToSet(OffList(s)) = ToSet(ifreelist) \ {s}
<1> DEFINE i == CHOOSE j \in DOMAIN ifreelist : ifreelist[j] = s
<1>1. ifreelist \in Seq(Slot) /\ IsInjective(ifreelist)
  BY DEF IInv, Shape
<1>2. i \in DOMAIN ifreelist /\ ifreelist[i] = s
  BY DEF ToSet
<1>3. OffList(s) = RemoveAt(ifreelist, i)
  BY DEF OffList
<1> HIDE DEF i
<1>4. QED
  BY <1>1, <1>2, <1>3, RemoveAtFacts

LEMMA AppendedFacts ==
    ASSUME IInv, NEW s \in Slot, s \notin ToSet(ifreelist)
    PROVE  /\ Append(ifreelist, s) \in Seq(Slot) /\ IsInjective(Append(ifreelist, s))
           /\ ToSet(Append(ifreelist, s)) = ToSet(ifreelist) \cup {s}
  BY AppendFacts DEF IInv, Shape

(* p is about to look for an inode. *)
LEMMA SeekPlace ==
    ASSUME IInv, NEW p \in Procs, NEW n \in Ino, Seeks(p, n)
    PROVE  /\ proc[p] \in ProcState /\ proc[p].ip = None /\ n \in 0..(NIno + INOPB)
           /\ \A s \in Slot : ~Refers(p, s) /\ ~Locks(p, s) /\ ~Reads(p, s)
<1>1. proc[p] \in ProcState /\ ProcOK(p)
  BY Types DEF IInv
<1>2. proc[p].ip = None
  BY <1>1 DEF Seeks, At, ProcOK, NoInode
<1>3. QED
  BY <1>1, <1>2, Types DEF Refers, Locks, Reads, None, Slot, Ino

LEMMA FoundTakes ==
    ASSUME IInv, NEW p \in Procs, NEW n \in Ino, IgetFound(p, n)
    PROVE  \E s \in Slot : Takes(p, s) /\ inode[s].number = n
<1>1. /\ proc[p] \in ProcState /\ proc[p].ip = None /\ n \in 0..(NIno + INOPB)
      /\ \A s \in Slot : ~Refers(p, s) /\ ~Locks(p, s) /\ ~Reads(p, s)
  BY SeekPlace DEF IgetFound
<1>2. PICK s \in Slot :
        /\ inode[s].hashed /\ inode[s].number = n /\ ~inode[s].ilock
        /\ inode' = [inode EXCEPT ![s].ilock = TRUE, ![s].count = @ + 1]
        /\ ifreelist' = IF inode[s].count = 0 THEN OffList(s) ELSE ifreelist
        /\ Got(p, s)
  BY DEF IgetFound, Cached
<1>3. inode[s] \in EntryState /\ SlotOK(s)
  BY Types DEF IInv
<1>4. /\ inode' \in [Slot -> EntryState] /\ \A t \in Slot \ {s} : inode'[t] = inode[t]
      /\ inode'[s] = [inode[s] EXCEPT !.ilock = TRUE, !.count = @ + 1]
  BY <1>2, <1>3, Types DEF EntryState
<1>5. PICK l \in {"locked", "agot"} : proc' = [proc EXCEPT ![p].pc = l, ![p].ip = s, ![p].ino = 0]
  BY <1>2 DEF Got
<1>6. curproc' \in Procs \cup {Nobody}
  BY <1>2 DEF Got
<1>7. /\ proc' \in [Procs -> ProcState] /\ Others(p) /\ proc'[p].pc = l /\ proc'[p].ip = s
  <2>1. l \in Labels /\ 0 \in 0..(NIno + INOPB)
    BY Types DEF Labels
  <2>2. QED
    BY <1>1, <1>5, <2>1, Types DEF ProcState, Others, Woke
<1>8. ifreelist' \in Seq(Slot) /\ IsInjective(ifreelist')
      /\ \A t \in Slot : t \in ToSet(ifreelist') <=> t \in ToSet(ifreelist) \ {s}
  <2>1. CASE inode[s].count = 0
    BY <1>2, <1>3, <2>1, OffListFacts DEF SlotOK
  <2>2. CASE inode[s].count # 0
    BY <1>2, <1>3, <2>2 DEF SlotOK, IInv, Shape
  <2>3. QED
    BY <2>1, <2>2
<1>9. UNCHANGED <<dinode, f_inode, s_inode, s_ninode, s_tinode, s_ilock>>
  BY DEF IgetFound, super
<1>10. Shape'
  BY <1>4, <1>6, <1>7, <1>8, <1>9 DEF IInv, Shape
<1>11. ProcOK(p)'
  BY <1>7 DEF ProcOK, NoInode, Alone
<1>12. Touches(p, s)
  BY <1>1, <1>4, <1>7, <1>10, <1>11, TouchesOne
<1>13. Locks(p, s)' /\ ~Reads(p, s)'
  BY <1>7 DEF Locks, Refers, Reads
<1>14. QED
  BY <1>1, <1>2, <1>4, <1>8, <1>9, <1>12, <1>13 DEF Takes

LEMMA SyncTakes ==
    ASSUME IInv, NEW p \in Procs, Sync(p)
    PROVE  \E s \in Slot : Takes(p, s)
<1>1. proc[p] \in ProcState /\ proc[p].ip = None
  BY Types DEF Sync
<1>2. PICK s \in Slot :
        /\ ~inode[s].ilock /\ inode[s].count # 0
        /\ inode' = [inode EXCEPT ![s].ilock = TRUE, ![s].count = @ + 1]
        /\ proc' = [proc EXCEPT ![p].pc = "sync", ![p].ip = s]
  BY DEF Sync
<1>3. inode[s] \in EntryState /\ SlotOK(s)
  BY Types DEF IInv
<1>4. /\ inode' \in [Slot -> EntryState] /\ \A t \in Slot \ {s} : inode'[t] = inode[t]
      /\ inode'[s] = [inode[s] EXCEPT !.ilock = TRUE, !.count = @ + 1]
  BY <1>2, <1>3, Types DEF EntryState
<1>5. /\ proc' \in [Procs -> ProcState] /\ Others(p) /\ proc'[p].pc = "sync" /\ proc'[p].ip = s
  <2>1. "sync" \in Labels
    BY DEF Labels
  <2>2. QED
    BY <1>1, <1>2, <2>1, Types DEF ProcState, Others, Woke
<1>6. UNCHANGED <<dinode, f_inode, ifreelist, s_inode, s_ninode, s_tinode, s_ilock, curproc>>
  BY DEF Sync, super
<1>7. Shape'
  BY <1>4, <1>5, <1>6 DEF IInv, Shape
<1>8. ProcOK(p)'
  BY <1>5 DEF ProcOK, NoInode, Alone
<1>9. Touches(p, s)
  BY <1>1, <1>4, <1>5, <1>7, <1>8, TouchesOne
<1>10. Locks(p, s)' /\ ~Reads(p, s)' /\ ~Refers(p, s)
  BY <1>1, <1>5 DEF Locks, Refers, Reads, Slot, None
<1>11. inode[s].hashed /\ s \notin ToSet(ifreelist)
  BY <1>2, <1>3 DEF SlotOK
<1>12. QED
  BY <1>2, <1>4, <1>6, <1>9, <1>10, <1>11 DEF Takes

LEMMA ReadsFetch ==
    ASSUME IInv, NEW p \in Procs, NEW n \in Ino, IgetReads(p, n)
    PROVE  \E s \in Slot : Fetches(p, s) /\ inode'[s].number = n
<1>1. /\ proc[p] \in ProcState /\ proc[p].ip = None /\ n \in 0..(NIno + INOPB)
      /\ \A s \in Slot : ~Refers(p, s) /\ ~Locks(p, s) /\ ~Reads(p, s)
  BY SeekPlace DEF IgetReads
<1> DEFINE e(s) == [Vacant EXCEPT !.number = n, !.hashed = TRUE, !.ilock = TRUE, !.count = 1,
                                  !.fsptr = inode[s].fsptr]
<1>2. PICK s \in Slot :
        /\ Unlocked(s)
        /\ inode' = [inode EXCEPT ![s] = e(s)]
        /\ ifreelist' = OffList(s)
        /\ proc' = [proc EXCEPT ![p].pc = "iread", ![p].ip = s, ![p].ino = 0]
  BY DEF IgetReads
<1>3. inode[s] \in EntryState /\ SlotOK(s) /\ s \in ToSet(ifreelist)
  BY <1>2, Types DEF IInv, Unlocked, ToSet
<1>4. /\ e(s) \in EntryState /\ e(s).number = n /\ e(s).hashed /\ e(s).ilock /\ e(s).count = 1
      /\ ~e(s).changed
  <2>1. 0 \in 0..MAXLINK /\ n \in 0..NIno /\ inode[s].fsptr \in BOOLEAN
    BY <1>3, TableAssumption DEF EntryState, Ino
  <2>2. QED
    BY <2>1 DEF EntryState, Vacant, Modes
<1> HIDE DEF e
<1>5. /\ inode' \in [Slot -> EntryState] /\ \A t \in Slot \ {s} : inode'[t] = inode[t]
      /\ inode'[s] = e(s)
  BY <1>2, <1>4, Types
<1>6. /\ proc' \in [Procs -> ProcState] /\ Others(p) /\ proc'[p].pc = "iread" /\ proc'[p].ip = s
  <2>1. "iread" \in Labels /\ 0 \in 0..(NIno + INOPB)
    BY Types DEF Labels
  <2>2. QED
    BY <1>1, <1>2, <2>1, Types DEF ProcState, Others, Woke
<1>7. ifreelist' \in Seq(Slot) /\ IsInjective(ifreelist')
      /\ \A t \in Slot : t \in ToSet(ifreelist') <=> t \in ToSet(ifreelist) \ {s}
  BY <1>2, <1>3, OffListFacts
<1>8. UNCHANGED <<dinode, f_inode, s_inode, s_ninode, s_tinode, s_ilock>> /\ curproc' = Nobody
      /\ Cached(n) = {}
  BY DEF IgetReads, super
<1>9. Shape'
  BY <1>5, <1>6, <1>7, <1>8 DEF IInv, Shape
<1>10. ProcOK(p)'
  BY <1>4, <1>5, <1>6 DEF ProcOK, NoInode, Alone, Entry
<1>11. Touches(p, s)
  BY <1>1, <1>5, <1>6, <1>9, <1>10, TouchesOne
<1>12. inode[s].count = 0 /\ Reads(p, s)'
  BY <1>3, <1>6 DEF SlotOK, Reads
<1>13. QED
  BY <1>1, <1>4, <1>5, <1>7, <1>8, <1>11, <1>12 DEF Fetches

LEMMA ReadFills ==
    ASSUME IInv, NEW p \in Procs, Iread(p)
    PROVE  \E s \in Slot : s = proc[p].ip /\ Fills(p, s)
<1>0. PICK s \in Slot : s = proc[p].ip
  BY Holder DEF Iread, At, Idles, Waits, NoInode
<1> DEFINE e == [inode[s] EXCEPT !.fsptr = TRUE, !.mode = dinode[inode[s].number].mode,
                                 !.nlink = dinode[inode[s].number].nlink]
<1>1. proc[p].pc = "iread" /\ proc[p].pc \notin Idles /\ proc[p].pc \notin Waits
  BY DEF Iread, At, Idles, Waits, NoInode
<1>2. /\ proc[p] \in ProcState /\ s \in Slot /\ Locks(p, s) /\ Entry(p) = inode[s]
      /\ inode[s] \in EntryState /\ inode[s].number \in Ino /\ ProcOK(p)
  BY <1>0, <1>1, Holder DEF Entry, IInv
<1>3. e \in EntryState /\ e.count = inode[s].count /\ (e.changed <=> inode[s].changed)
  <2>1. dinode[inode[s].number] \in [mode : Modes, nlink : 0..MAXLINK]
    BY <1>2 DEF IInv, Shape
  <2>2. QED
    BY <1>2, <2>1 DEF EntryState
<1>4. inode' = [inode EXCEPT ![s] = e]
  <2>1. inode' = [inode EXCEPT ![s].fsptr = TRUE, ![s].mode = dinode[inode[s].number].mode,
                               ![s].nlink = dinode[inode[s].number].nlink]
    BY <1>0, <1>2 DEF Iread
  <2>2. QED
    BY <1>2, <2>1, Types
<1>5. Got(p, s) /\ UNCHANGED <<ifreelist, dinode, f_inode, s_inode, s_ninode, s_tinode, s_ilock>>
  BY <1>0 DEF Iread, super
<1>6. PICK l \in {"locked", "agot"} : proc' = [proc EXCEPT ![p].pc = l, ![p].ip = s, ![p].ino = 0]
  BY <1>5 DEF Got
<1>7. curproc' \in Procs \cup {Nobody}
  BY <1>5 DEF Got
<1>8. /\ proc' \in [Procs -> ProcState] /\ Others(p) /\ proc'[p].pc = l /\ proc'[p].ip = s
  <2>1. l \in Labels /\ 0 \in 0..(NIno + INOPB)
    BY Types DEF Labels
  <2>2. QED
    BY <1>2, <1>6, <2>1, Types DEF ProcState, Others, Woke
<1> HIDE DEF e
<1>9. /\ inode' \in [Slot -> EntryState] /\ \A t \in Slot \ {s} : inode'[t] = inode[t]
      /\ inode'[s] = e
  BY <1>2, <1>3, <1>4, Types
<1>10. Shape'
  BY <1>5, <1>7, <1>8, <1>9 DEF IInv, Shape
<1>11. ProcOK(p)'
  BY <1>2, <1>8 DEF ProcOK, NoInode, Alone
<1>12. Touches(p, s)
  BY <1>0, <1>2, <1>8, <1>9, <1>10, <1>11, TouchesOne
<1>13. Reads(p, s) /\ ~Reads(p, s)' /\ Locks(p, s)'
  BY <1>0, <1>1, <1>2, <1>8 DEF Reads, Locks, Refers
<1>14. QED
  BY <1>0, <1>5, <1>9, <1>12, <1>13 DEF Fills, e

LEMMA FailureDrops ==
    ASSUME IInv, NEW p \in Procs, IreadFails(p)
    PROVE  \E s \in Slot : s = proc[p].ip /\ Drops(p, s)
<1>0. PICK s \in Slot : s = proc[p].ip
  BY Holder DEF IreadFails, At, Idles, Waits, NoInode
<1>1. proc[p].pc = "iread" /\ proc[p].pc \notin Idles /\ proc[p].pc \notin Waits
  BY DEF IreadFails, At, Idles, Waits, NoInode
<1>2. /\ proc[p] \in ProcState /\ s \in Slot /\ SlotOK(s) /\ Entry(p).count > 0
      /\ Entry(p) = inode[s] /\ inode[s] \in EntryState
  BY <1>0, <1>1, Holder DEF Entry
<1>3. /\ inode' = [inode EXCEPT ![s] = Vacant] /\ ifreelist' = Append(ifreelist, s)
      /\ GetsNull(Awakened(proc, s), p) /\ curproc' = Nobody /\ UNCHANGED <<dinode, f_inode>>
  BY <1>0 DEF IreadFails
<1>4. /\ Awakened(proc, s) \in [Procs -> ProcState]
      /\ \A q \in Procs : /\ Woke(proc[q], Awakened(proc, s)[q])
                          /\ Woke(proc[q], WakeIlock(Awakened(proc, s))[q])
  BY <1>2, Types, Wakeups
<1>5. /\ proc' \in [Procs -> ProcState] /\ Others(p) /\ proc'[p] = Idle
      /\ UNCHANGED <<s_inode, s_ninode, s_tinode>> /\ s_ilock' \in BOOLEAN
  BY <1>3, <1>4, GetsNullMoves
<1>6. Vacant \in EntryState
  BY TableAssumption DEF Vacant, EntryState, Modes
<1>7. /\ inode' \in [Slot -> EntryState] /\ \A t \in Slot \ {s} : inode'[t] = inode[t]
      /\ inode'[s] = Vacant
  BY <1>2, <1>3, <1>6, Types
<1>8. s \notin ToSet(ifreelist)
  BY <1>2 DEF SlotOK, EntryState
<1>9. /\ ifreelist' \in Seq(Slot) /\ IsInjective(ifreelist')
      /\ \A t \in Slot : t \in ToSet(ifreelist') <=> t \in ToSet(ifreelist) \cup {s}
  BY <1>2, <1>3, <1>8, AppendedFacts
<1>10. Shape'
  BY <1>3, <1>5, <1>7, <1>9 DEF IInv, Shape
<1>11. proc'[p].pc = "user" /\ proc'[p].ip = None
  BY <1>5, Types
<1>12. ProcOK(p)'
  BY <1>11 DEF ProcOK, NoInode, Alone
<1>13. Touches(p, s)
  BY <1>0, <1>2, <1>5, <1>7, <1>10, <1>11, <1>12, TouchesOne
<1>14. Reads(p, s) /\ ~Refers(p, s)'
  BY <1>0, <1>1, <1>2, <1>11 DEF Reads, Refers, Slot, None
<1>15. QED
  BY <1>0, <1>3, <1>7, <1>9, <1>13, <1>14 DEF Drops

LEMMA IputPuts ==
    ASSUME IInv, NEW p \in Procs, IputShared(p) \/ IputFrees(p)
    PROVE  \E s \in Slot : s = proc[p].ip /\ Puts(p, s)
<1>0. PICK s \in Slot : s = proc[p].ip
  BY Holder DEF IputShared, IputFrees, Iputs, At, Idles, Waits, NoInode
<1> DEFINE e == Released([inode[s] EXCEPT !.count = @ - 1])
<1>1. proc[p].pc \in {"iput", "locked", "put"} /\ proc[p].pc \notin Idles \cup Waits
      /\ proc[p].pc # "iread"
  BY DEF IputShared, IputFrees, Iputs, At, Idles, Waits, NoInode
<1>2. /\ proc[p] \in ProcState /\ s \in Slot /\ SlotOK(s) /\ Entry(p).count > 0 /\ Locks(p, s)
      /\ Entry(p) = inode[s] /\ inode[s] \in EntryState /\ ProcOK(p)
  BY <1>0, <1>1, Holder DEF Entry, IInv
<1>3. /\ inode' = [inode EXCEPT ![s] = e] /\ Done(p, Awakened(proc, s))
      /\ UNCHANGED <<dinode, f_inode, s_inode, s_ninode, s_tinode, s_ilock>>
  <2>2. inode' = [inode EXCEPT ![s] = e]
    BY <1>0 DEF IputShared, IputFrees, Entry
  <2>3. Done(p, Awakened(proc, s))
    BY <1>0 DEF IputShared, IputFrees
  <2>4. UNCHANGED <<dinode, f_inode, s_inode, s_ninode, s_tinode, s_ilock>>
    BY DEF IputShared, IputFrees, super
  <2>5. QED
    BY <2>2, <2>3, <2>4
<1>4. /\ Awakened(proc, s) \in [Procs -> ProcState]
      /\ \A q \in Procs : Woke(proc[q], Awakened(proc, s)[q])
  BY <1>2, Types, Wakeups
<1>5. /\ proc' \in [Procs -> ProcState] /\ Others(p) /\ curproc' \in Procs \cup {Nobody}
      /\ proc'[p].pc \in {"user", "apop"} /\ proc'[p].ip = None
  <2>1. CASE proc[p].by = "user"
    <3>1. proc' = [Awakened(proc, s) EXCEPT ![p] = Idle] /\ curproc' = Nobody
      BY <1>3, <2>1 DEF Done
    <3>2. QED
      BY <1>4, <3>1, Types DEF Others
  <2>2. CASE proc[p].by # "user"
    <3>1. proc' = [Awakened(proc, s) EXCEPT ![p].pc = "apop", ![p].ip = None] /\ curproc' = p
      BY <1>3, <2>2 DEF Done
    <3>2. "apop" \in Labels
      BY DEF Labels
    <3>3. QED
      BY <1>4, <3>1, <3>2 DEF Others, ProcState
  <2>3. QED
    BY <2>1, <2>2
<1>6. e \in EntryState
  <2>1. inode[s].count - 1 \in Nat
    BY <1>2 DEF EntryState
  <2>2. [inode[s] EXCEPT !.count = @ - 1] \in EntryState
    BY <1>2, <2>1 DEF EntryState
  <2>3. QED
    BY <2>2 DEF EntryState, Released
<1>7. /\ inode' \in [Slot -> EntryState] /\ \A t \in Slot \ {s} : inode'[t] = inode[t]
      /\ inode'[s] = e
  <2> HIDE DEF e
  <2>1. QED
    BY <1>2, <1>3, <1>6, Types
<1>8. s \notin ToSet(ifreelist)
  BY <1>2 DEF SlotOK, EntryState
<1>9. /\ ifreelist' \in Seq(Slot) /\ IsInjective(ifreelist')
      /\ IF inode[s].count = 1
         THEN /\ ~inode[s].changed
              /\ \A t \in Slot : t \in ToSet(ifreelist') <=> t \in ToSet(ifreelist) \cup {s}
         ELSE ifreelist' = ifreelist
  <2>1. CASE IputFrees(p)
    <3>1. inode[s].count = 1 /\ ~inode[s].changed
      BY <1>0, <1>2, <2>1 DEF IputFrees, At, ProcOK, Alone
    <3>2. QED
      BY <1>0, <1>2, <1>8, <2>1, <3>1, AppendedFacts DEF IputFrees
  <2>2. CASE IputShared(p)
    <3>1. inode[s].count > 1 /\ ifreelist' = ifreelist
      BY <1>2, <2>2 DEF IputShared
    <3>2. QED
      BY <3>1 DEF IInv, Shape
  <2>3. QED
    BY <2>1, <2>2
<1>10. Shape'
  BY <1>3, <1>5, <1>7, <1>9 DEF IInv, Shape
<1>11. ProcOK(p)'
  BY <1>5 DEF ProcOK, NoInode, Alone
<1>12. Touches(p, s)
  BY <1>0, <1>2, <1>5, <1>7, <1>10, <1>11, TouchesOne
<1>13. ~Reads(p, s) /\ ~Refers(p, s)'
  BY <1>0, <1>1, <1>2, <1>5 DEF Reads, Refers, Slot, None
<1>14. QED
  BY <1>0, <1>2, <1>3, <1>7, <1>9, <1>12, <1>13 DEF Puts

LEMMA PreleUnlocks ==
    ASSUME IInv, NEW p \in Procs, Prele(p)
    PROVE  \E s \in Slot : s = proc[p].ip /\ Unlocks(p, s)
<1>1. proc[p].pc = "locked" /\ proc[p].pc \notin Idles \cup Waits
  BY DEF Prele, At, Idles, Waits, NoInode
<1>2. PICK s \in Slot : s = proc[p].ip
  BY <1>1, Holder
<1>3. /\ proc[p] \in ProcState /\ Locks(p, s) /\ Refers(p, s) /\ inode[s] \in EntryState
  BY <1>1, <1>2, Holder DEF Entry
<1> DEFINE e == Released(inode[s])
           P == Awakened(proc, s)
<1>4. /\ inode' = [inode EXCEPT ![s] = e] /\ proc' = [P EXCEPT ![p].pc = "user"]
      /\ UNCHANGED <<ifreelist, dinode, s_inode, s_ninode, s_tinode, s_ilock, curproc, f_inode>>
  BY <1>2 DEF Prele, super
<1>5. P \in [Procs -> ProcState] /\ P[p] = proc[p] /\ \A q \in Procs : Woke(proc[q], P[q])
  BY <1>1, Types, Wakeups
<1>6. e \in EntryState
  BY <1>3 DEF EntryState, Released
<1>7. /\ inode' \in [Slot -> EntryState] /\ \A t \in Slot \ {s} : inode'[t] = inode[t]
      /\ inode'[s] = e
  <2> HIDE DEF e
  <2>1. QED
    BY <1>4, <1>6, Types
<1>8. /\ proc' \in [Procs -> ProcState] /\ Others(p)
      /\ proc'[p].pc = "user" /\ proc'[p].ip = s
  <2>1. "user" \in Labels
    BY DEF Labels
  <2> HIDE DEF P
  <2>2. QED
    BY <1>2, <1>3, <1>4, <1>5, <2>1 DEF ProcState, Others
<1>9. Shape'
  BY <1>4, <1>7, <1>8 DEF IInv, Shape
<1>10. ProcOK(p)'
  BY <1>8 DEF ProcOK, NoInode, Alone
<1>11. Touches(p, s)
  BY <1>2, <1>7, <1>8, <1>9, <1>10, TouchesOne
<1>12. ~Reads(p, s) /\ Refers(p, s)' /\ ~Locks(p, s)'
  BY <1>1, <1>8 DEF Reads, Refers, Locks
<1>13. QED
  BY <1>2, <1>3, <1>4, <1>7, <1>11, <1>12 DEF Unlocks

LEMMA PlockRelocks ==
    ASSUME IInv, NEW p \in Procs, PlockLocks(p)
    PROVE  \E s \in Slot : s = proc[p].ip /\ Relocks(p, s)
<1>1. proc[p].pc \in {"user", "plock"} /\ (proc[p].pc = "user" => proc[p].ip # None)
  BY DEF PlockLocks, Plocks, At
<1>2. PICK s \in Slot : s = proc[p].ip
  BY <1>1, Types DEF IInv, ProcOK, ProcState, NoInode
<1>3. /\ proc[p] \in ProcState /\ inode[s] \in EntryState
      /\ Refers(p, s) /\ ~Locks(p, s) /\ ~Reads(p, s)
  BY <1>1, <1>2, Types DEF Refers, Locks, Reads
<1> DEFINE e == [inode[s] EXCEPT !.ilock = TRUE]
<1>4. /\ ~inode[s].ilock /\ inode' = [inode EXCEPT ![s].ilock = TRUE] /\ curproc' = Nobody
      /\ proc' = [proc EXCEPT ![p].pc = "locked"]
      /\ UNCHANGED <<ifreelist, dinode, s_inode, s_ninode, s_tinode, s_ilock, f_inode>>
  BY <1>2 DEF PlockLocks, Entry, SleepsTo, super
<1>5. /\ inode' \in [Slot -> EntryState] /\ \A t \in Slot \ {s} : inode'[t] = inode[t]
      /\ inode'[s] = e
  <2>1. e \in EntryState
    BY <1>3 DEF EntryState
  <2>2. inode' = [inode EXCEPT ![s] = e]
    BY <1>4
  <2> HIDE DEF e
  <2>3. QED
    BY <2>1, <2>2, Types
<1>6. /\ proc' \in [Procs -> ProcState] /\ Others(p)
      /\ proc'[p].pc = "locked" /\ proc'[p].ip = s
  BY <1>2, <1>4, Moves DEF Labels
<1>7. Shape'
  BY <1>4, <1>5, <1>6 DEF IInv, Shape
<1>8. ProcOK(p)'
  BY <1>6 DEF ProcOK, NoInode, Alone
<1>9. Touches(p, s)
  BY <1>2, <1>5, <1>6, <1>7, <1>8, TouchesOne
<1>10. Locks(p, s)' /\ ~Reads(p, s)'
  BY <1>6 DEF Reads, Refers, Locks
<1>11. QED
  BY <1>2, <1>3, <1>4, <1>5, <1>9, <1>10 DEF Relocks

LEMMA OpenHands ==
    ASSUME IInv, NEW p \in Procs, Open(p) \/ Closef(p)
    PROVE  \E s \in Slot : /\ s \in {proc[p].ip, f_inode} /\ Hands(p, s)
                           /\ Open(p) => s = proc[p].ip
<1>1. /\ proc[p].pc = "user" /\ proc[p] \in ProcState
      /\ UNCHANGED <<inode, ifreelist, dinode, s_inode, s_ninode, s_tinode, s_ilock, curproc>>
  BY Types DEF Open, Closef, At, table, fs, super
<1>2. PICK s \in Slot :
        \/ s = proc[p].ip /\ f_inode = None /\ f_inode' = s
           /\ proc' = [proc EXCEPT ![p].ip = None]
        \/ s = f_inode /\ proc[p].ip = None /\ f_inode' = None
           /\ proc' = [proc EXCEPT ![p].ip = s] /\ ~Open(p)
  <2>1. CASE Open(p)
    BY <1>1, <2>1 DEF Open, ProcState
  <2>2. CASE Closef(p)
    BY <1>1, <2>2 DEF Open, Closef, IInv, Shape
  <2>3. QED
    BY <2>1, <2>2
<1>3. /\ proc' \in [Procs -> ProcState] /\ Others(p) /\ proc'[p].pc = "user"
      /\ proc[p].ip = s => proc'[p].ip = None
      /\ proc[p].ip = None => proc'[p].ip = s
  <2>1. s # None
    BY DEF Slot, None
  <2>2. ASSUME NEW x \in Slot \cup {None}, proc' = [proc EXCEPT ![p].ip = x]
        PROVE  /\ proc' \in [Procs -> ProcState] /\ Others(p) /\ proc'[p].pc = "user"
               /\ proc'[p].ip = x
    BY <1>1, <2>2, Types DEF ProcState, Others, Woke
  <2>3. QED
    BY <1>2, <2>1, <2>2
<1>4. Shape'
  BY <1>1, <1>2, <1>3 DEF IInv, Shape
<1>5. ProcOK(p)'
  BY <1>3 DEF ProcOK, NoInode, Alone
<1>6. Touches(p, s)
  BY <1>1, <1>2, <1>3, <1>4, <1>5, TouchesOne
<1>7. s # None /\ ~Locks(p, s) /\ ~Locks(p, s)'
  BY <1>1, <1>3 DEF Locks, Slot, None
<1>8. /\ Refers(p, s) <=> proc[p].ip = s
      /\ Refers(p, s)' <=> proc'[p].ip = s
  BY <1>1, <1>3 DEF Refers
<1>9. QED
  BY <1>1, <1>2, <1>3, <1>6, <1>7, <1>8 DEF Hands
--------------------------------------------------------------------------------
(* The invariant. *)

LEMMA InitHolds == ASSUME Init PROVE IInv
<1>1. NINODE \in Nat \ {0} /\ NIno \in Nat \ {0} /\ NICINOD \in Nat \ {0}
      /\ INOPB \in Nat \ {0} /\ MAXLINK \in Nat \ {0}
  BY TableAssumption
<1>2. Vacant \in EntryState /\ Idle \in ProcState
  BY <1>1 DEF Vacant, Idle, EntryState, ProcState, Modes, Labels, None
<1>3. inode \in [Slot -> EntryState] /\ proc \in [Procs -> ProcState]
  <2> HIDE DEF Vacant, Idle
  <2>1. QED
    BY <1>2 DEF Init
<1>4. /\ ifreelist \in Seq(Slot) /\ IsInjective(ifreelist)
      /\ \A s \in Slot : s \in ToSet(ifreelist)
  <2>1. ifreelist = [i \in 1..NINODE |-> NINODE + 1 - i]
    BY DEF Init, Slot
  <2>2. \A i \in 1..NINODE : NINODE + 1 - i \in 1..NINODE /\ NINODE + 1 - (NINODE + 1 - i) = i
    BY <1>1
  <2>3. ifreelist \in [1..NINODE -> Slot] /\ DOMAIN ifreelist = 1..NINODE
    BY <2>1, <2>2 DEF Slot
  <2>4. ifreelist \in Seq(Slot)
    BY <1>1, <2>3
  <2>5. IsInjective(ifreelist)
    <3>1. \A i, j \in 1..NINODE : NINODE + 1 - i = NINODE + 1 - j => i = j
      BY <1>1
    <3>2. QED
      BY <2>1, <2>3, <3>1 DEF IsInjective
  <2>6. ASSUME NEW s \in Slot PROVE s \in ToSet(ifreelist)
    <3>1. NINODE + 1 - s \in DOMAIN ifreelist /\ ifreelist[NINODE + 1 - s] = s
      BY <2>1, <2>2, <2>3 DEF Slot
    <3>2. QED
      BY <3>1 DEF ToSet
  <2>7. QED
    BY <2>4, <2>5, <2>6
<1>5. /\ dinode \in [Ino -> [mode : Modes, nlink : 0..MAXLINK]]
      /\ s_inode \in [0..(NICINOD - 1) -> 0..NIno]
      /\ s_ninode \in 0..NICINOD /\ s_tinode \in Nat /\ s_ilock \in BOOLEAN
  <2>1. FreeInode \in [mode : Modes, nlink : 0..MAXLINK]
    BY <1>1 DEF FreeInode, Modes
  <2>2. \A i \in 0..(NICINOD - 1) : (IF i < NIno THEN i + 1 ELSE 0) \in 0..NIno
    BY <1>1
  <2>3. s_ninode \in 0..NICINOD /\ s_tinode \in Nat /\ s_ilock \in BOOLEAN
    <3>1. (IF NICINOD < NIno THEN NICINOD ELSE NIno) \in 0..NICINOD
      BY <1>1
    <3>2. s_ninode \in 0..NICINOD
      BY <3>1 DEF Init
    <3>3. QED
      BY <1>1, <3>2 DEF Init
  <2>4. QED
    BY <2>1, <2>2, <2>3 DEF Init
<1>6. Shape
  BY <1>3, <1>4, <1>5 DEF Shape, Init
<1>7. \A p \in Procs : proc[p] = Idle /\ proc[p].pc = "user" /\ proc[p].ip = None
  BY DEF Init, Idle
<1>8. \A p \in Procs, s \in Slot : ~Refers(p, s) /\ ~Locks(p, s) /\ ~Reads(p, s)
  BY <1>7 DEF Refers, Locks, Reads, Slot, None
<1>9. ASSUME NEW p \in Procs PROVE ProcOK(p)
  BY <1>7 DEF ProcOK, NoInode, Alone
<1>10. ASSUME NEW s \in Slot PROVE SlotOK(s) /\ ~inode[s].hashed
  <2>1. inode[s] = Vacant /\ f_inode # s
    BY DEF Init, Slot, None
  <2>2. ~inode[s].hashed /\ ~inode[s].ilock /\ inode[s].count = 0 /\ ~inode[s].changed
    BY <2>1 DEF Vacant
  <2>3. Refs(s) = {}
    BY <1>8 DEF Refs
  <2>4. Cardinality(Refs(s)) = 0
    BY <2>3, FS_EmptySet
  <2>5. QED
    BY <1>4, <1>8, <2>1, <2>2, <2>4 DEF SlotOK, One
<1>11. QED
  BY <1>6, <1>9, <1>10 DEF IInv, OneInode

(* Every step is of one of the kinds. *)
Kinds(p, s) ==
    \/ Works(p, s) \/ Takes(p, s) \/ Puts(p, s) \/ Unlocks(p, s) \/ Relocks(p, s)
    \/ Fetches(p, s) \/ Fills(p, s) \/ Drops(p, s) \/ Hands(p, s)

LEMMA StepsHaveKinds ==
    ASSUME IInv, NEW p \in Procs, Lookup(p) \/ Use(p) \/ Iput(p) \/ Ialloc(p)
    PROVE  Quiet(p) \/ \E s \in Slot : Kinds(p, s)
<1>1. CASE Lookup(p)
  <2>1. CASE \E n \in Ino : IgetBusy(p, n) \/ IgetOverflow(p, n)
    BY <2>1, IgetMoves
  <2>2. CASE \E n \in Ino : IgetFound(p, n)
    BY <2>2, FoundTakes DEF Kinds
  <2>3. CASE \E n \in Ino : IgetReads(p, n)
    BY <2>3, ReadsFetch DEF Kinds
  <2>4. CASE Iread(p)
    BY <2>4, ReadFills DEF Kinds
  <2>5. CASE IreadFails(p)
    BY <2>5, FailureDrops DEF Kinds
  <2>6. QED
    BY <1>1, <2>1, <2>2, <2>3, <2>4, <2>5 DEF Lookup
<1>2. CASE Use(p)
  <2>1. CASE PlockWaits(p)
    BY <2>1, HolderMoves
  <2>2. CASE PlockLocks(p)
    BY <2>2, PlockRelocks DEF Kinds
  <2>3. CASE Prele(p)
    BY <2>3, PreleUnlocks DEF Kinds
  <2>4. CASE Link(p) \/ Linked(p) \/ Unlink(p)
    BY <2>4, LinksWork DEF Kinds
  <2>5. CASE Open(p) \/ Closef(p)
    BY <2>5, OpenHands DEF Kinds
  <2>6. CASE Sync(p)
    BY <2>6, SyncTakes DEF Kinds
  <2>7. CASE Updates(p, "sync", "iput")
    BY <2>7, UpdatesWork DEF Kinds
  <2>8. QED
    BY <1>2, <2>1, <2>2, <2>3, <2>4, <2>5, <2>6, <2>7 DEF Use
<1>3. CASE Iput(p)
  <2>1. CASE IputShared(p) \/ IputFrees(p)
    BY <2>1, IputPuts DEF Kinds
  <2>2. CASE IputTruncates(p) \/ Truncated(p) \/ IputFreed(p)
    BY <2>2, TruncatesWork DEF Kinds
  <2>3. CASE IputUpdates(p) \/ FreeWaits(p)
    BY <2>3, HolderMoves
  <2>4. CASE Updates(p, "update", "put")
    BY <2>4, UpdatesWork DEF Kinds
  <2>5. CASE FreeLocks(p) \/ Freed(p)
    BY <2>5, FreeingWorks DEF Kinds
  <2>6. QED
    BY <1>3, <2>1, <2>2, <2>3, <2>4, <2>5 DEF Iput
<1>4. CASE Ialloc(p)
  <2>1. CASE AllocWaits(p) \/ AllocLocks(p) \/ AllocPops(p) \/ AllocScans(p)
    BY <2>1, AllocMoves
  <2>2. CASE ScanBlock(p) \/ ScanFails(p) \/ ScanEnds(p) \/ NoSpace(p)
    BY <2>2, ScanMoves
  <2>3. CASE AllocChecks(p) /\ Entry(p).mode # "free"
    BY <2>3, HolderMoves
  <2>4. CASE (AllocChecks(p) /\ Entry(p).mode = "free") \/ Allocated(p)
    BY <2>4, AllocatingWorks DEF Kinds
  <2>5. CASE Updates(p, "ataken", "iput")
    BY <2>5, UpdatesWork DEF Kinds
  <2>6. QED
    BY <1>4, <2>1, <2>2, <2>3, <2>4, <2>5 DEF Ialloc
<1>5. QED
  BY <1>1, <1>2, <1>3, <1>4

LEMMA NextKeeps == ASSUME IInv, Next PROVE IInv'
<1>1. CASE \E p \in Procs : Lookup(p) \/ Use(p) \/ Iput(p) \/ Ialloc(p)
  <2>1. PICK p \in Procs : Lookup(p) \/ Use(p) \/ Iput(p) \/ Ialloc(p)
    BY <1>1
  <2>2. CASE Quiet(p)
    BY <2>2, QuietKeeps
  <2>3. ASSUME NEW s \in Slot, Kinds(p, s) PROVE IInv'
    BY <2>3, WorksKeeps, TakesKeeps, PutsKeeps, UnlocksKeeps, FetchesKeeps, FillsKeeps,
       DropsKeeps, HandsKeeps DEF Kinds
  <2>4. QED
    BY <2>1, <2>2, <2>3, StepsHaveKinds
<1>2. CASE \E k \in Slot : Iflush(k)
  BY <1>2, IflushKeeps
<1>3. QED
  BY <1>1, <1>2 DEF Next

(* The types hold, a process finds what it relies on where it goes on, and *)
(* each entry of the table agrees with the processes that refer to it, the *)
(* free list and the block of its inode, whatever iget, iput, s5ialloc,    *)
(* s5ifree and iflush do between their sleeps.                             *)
THEOREM Invariance == Spec => []IInv
<1>1. ASSUME IInv, UNCHANGED vars PROVE IInv'
  <2>1. UNCHANGED <<inode, ifreelist, dinode, s_inode, s_ninode, s_tinode, s_ilock, f_inode,
                    proc, curproc>>
    BY <1>1 DEF vars, table, fs, super
  <2>2. Shape' /\ OneInode'
    BY <1>1, <2>1 DEF IInv, Shape, OneInode
  <2>3. \A p \in Procs : ProcOK(p)'
    BY <1>1, <2>1 DEF IInv, ProcOK, Entry
  <2>4. ASSUME NEW s \in Slot PROVE SlotOK(s)'
    <3>1. Refs(s)' = Refs(s)
      BY <2>1 DEF Refs, Refers
    <3>2. SlotOK(s)
      BY <1>1 DEF IInv
    <3>3. \A p \in Procs : (Locks(p, s)' <=> Locks(p, s)) /\ (Reads(p, s)' <=> Reads(p, s))
      BY <2>1 DEF Locks, Refers, Reads
    <3>4. QED
      BY <2>1, <3>1, <3>2, <3>3 DEF SlotOK
  <2>5. QED
    BY <2>2, <2>3, <2>4 DEF IInv
<1>2. IInv /\ [Next]_vars => IInv'
  BY <1>1, NextKeeps
<1>3. QED
  BY InitHolds, <1>2, PTL DEF Spec

(* An inode is in core once: iget (os/iget.c:107) finds the entry another  *)
(* process reads or releases, and never makes a second one.                *)
THEOREM OneCopyInCore == Spec => []OneInode
<1>1. IInv => OneInode
  BY DEF IInv
<1>2. QED
  BY <1>1, Invariance, PTL

(* i_count is the number of references, exactly one of them holds the lock *)
(* of a locked inode, and the free list has what nobody refers to.         *)
THEOREM ReferencesCounted == Spec => []Counted
<1>1. ASSUME IInv PROVE Counted
  <2>1. ASSUME NEW s \in Slot
        PROVE  /\ inode[s].count =
                    Cardinality({p \in Procs : Refers(p, s)}) + IF f_inode = s THEN 1 ELSE 0
               /\ inode[s].count = 0 <=> s \in Range(ifreelist)
    <3>1. Range(ifreelist) = ToSet(ifreelist)
      BY <1>1 DEF IInv, Shape, Range, ToSet
    <3>2. QED
      BY <1>1, <3>1 DEF IInv, SlotOK, Refs, One
  <2>2. ASSUME NEW s \in Slot
        PROVE  Cardinality({p \in Procs : Locks(p, s)}) = IF inode[s].ilock THEN 1 ELSE 0
    <3>1. SlotOK(s)
      BY <1>1 DEF IInv
    <3>2. CASE inode[s].ilock
      <4>1. PICK p \in Procs : Locks(p, s)
        BY <3>1, <3>2 DEF SlotOK
      <4>2. {q \in Procs : Locks(q, s)} = {p}
        BY <3>1, <4>1 DEF SlotOK
      <4>3. QED
        BY <3>2, <4>2, FS_Singleton
    <3>3. CASE ~inode[s].ilock
      <4>1. {q \in Procs : Locks(q, s)} = {}
        BY <3>1, <3>3 DEF SlotOK
      <4>2. QED
        BY <3>3, <4>1, FS_EmptySet
    <3>4. QED
      BY <3>2, <3>3
  <2>3. QED
    BY <1>1, <2>1, <2>2 DEF Counted, IInv, Shape
<1>2. QED
  BY <1>1, Invariance, PTL
--------------------------------------------------------------------------------
(* The entries of s5inode[]. *)

HasS5 == {s \in Slot : inode[s].fsptr}

(* Only s5iread takes an entry, and only when it fails gives it back.      *)
LEMMA S5Kept ==
    ASSUME IInv, Next, \A p \in Procs : ~Iread(p) /\ ~IreadFails(p)
    PROVE  s5free' = s5free /\ \A s \in Slot : inode'[s].fsptr <=> inode[s].fsptr
<1>1. inode \in [Slot -> EntryState] /\ \A s \in Slot : inode[s].fsptr \in BOOLEAN
  BY Types DEF EntryState
<1>2. ASSUME NEW p \in Procs, Quiet(p) PROVE \A s \in Slot : inode'[s].fsptr <=> inode[s].fsptr
  BY <1>1, <1>2 DEF Quiet, AsBefore, Same, EntryState
<1>3. ASSUME NEW p \in Procs, NEW s \in Slot,
             Takes(p, s) \/ Puts(p, s) \/ Unlocks(p, s) \/ Relocks(p, s) \/ Hands(p, s)
      PROVE  \A t \in Slot : inode'[t].fsptr <=> inode[t].fsptr
  <2>1. \A t \in Slot \ {s} : inode'[t].fsptr <=> inode[t].fsptr
    <3>1. Touches(p, s)
      BY <1>3 DEF Takes, Puts, Unlocks, Relocks, Hands
    <3>2. \A t \in Slot \ {s} : Same(t)
      BY <3>1 DEF Touches, AsBefore
    <3>3. \A t \in Slot : inode[t] \in EntryState
      BY <1>1
    <3>4. QED
      BY <3>2, <3>3 DEF Same, EntryState
  <2>2. inode'[s].fsptr <=> inode[s].fsptr
    BY <1>1, <1>3 DEF Takes, Puts, Unlocks, Relocks, Hands, Released, EntryState
  <2>3. QED
    BY <2>1, <2>2
<1>4. CASE \E p \in Procs : Lookup(p)
  <2>1. PICK p \in Procs, n \in Ino :
          IgetBusy(p, n) \/ IgetFound(p, n) \/ IgetReads(p, n) \/ IgetOverflow(p, n)
    BY <1>4 DEF Lookup
  <2>2. CASE IgetBusy(p, n) \/ IgetOverflow(p, n)
    BY <1>2, <2>2, IgetMoves DEF IgetBusy, IgetOverflow, table
  <2>3. CASE IgetFound(p, n)
    BY <1>3, <2>3, FoundTakes DEF IgetFound
  <2>4. CASE IgetReads(p, n)
    <3>1. PICK s \in Slot :
            inode' = [inode EXCEPT ![s] = [Vacant EXCEPT !.number = n, !.hashed = TRUE,
                         !.ilock = TRUE, !.count = 1, !.fsptr = inode[s].fsptr]]
      BY <2>4 DEF IgetReads
    <3>2. QED
      BY <1>1, <2>4, <3>1 DEF IgetReads, Vacant
  <2>5. QED
    BY <2>1, <2>2, <2>3, <2>4
<1>5. CASE \E p \in Procs : Use(p)
  <2>1. PICK p \in Procs : Use(p)
    BY <1>5
  <2>2. CASE PlockWaits(p)
    BY <1>2, <2>2, HolderMoves DEF PlockWaits
  <2>3. CASE PlockLocks(p) \/ Prele(p) \/ Open(p) \/ Closef(p) \/ Sync(p)
    BY <1>3, <2>3, PlockRelocks, PreleUnlocks, OpenHands, SyncTakes
       DEF PlockLocks, Prele, Open, Closef, Sync, table
  <2>4. CASE Link(p) \/ Linked(p) \/ Unlink(p) \/ Updates(p, "sync", "iput")
    BY <1>1, <2>4 DEF Link, Linked, Unlink, Updates, EntryState
  <2>5. QED
    BY <2>1, <2>2, <2>3, <2>4 DEF Use
<1>6. CASE \E p \in Procs : Iput(p)
  <2>1. PICK p \in Procs : Iput(p)
    BY <1>6
  <2>2. CASE IputUpdates(p) \/ FreeWaits(p)
    BY <2>2 DEF IputUpdates, FreeWaits, table
  <2>3. CASE IputShared(p) \/ IputFrees(p)
    BY <1>3, <2>3, IputPuts DEF IputShared, IputFrees
  <2>4. CASE \/ IputTruncates(p) \/ IputFreed(p) \/ Updates(p, "update", "put")
             \/ FreeLocks(p) \/ Freed(p)
    BY <1>1, <2>4 DEF IputTruncates, IputFreed, Updates, FreeLocks, Freed, EntryState
  <2>5. CASE Truncated(p)
    BY <2>5 DEF Truncated, table
  <2>6. QED
    BY <2>1, <2>2, <2>3, <2>4, <2>5 DEF Iput
<1>7. CASE \E p \in Procs : Ialloc(p)
  <2>1. PICK p \in Procs : Ialloc(p)
    BY <1>7
  <2>2. CASE \/ AllocWaits(p) \/ AllocLocks(p) \/ AllocPops(p) \/ AllocScans(p) \/ ScanBlock(p)
             \/ ScanFails(p) \/ ScanEnds(p) \/ NoSpace(p)
    BY <2>2 DEF AllocWaits, AllocLocks, AllocPops, AllocScans, ScanBlock, ScanFails, ScanEnds,
                NoSpace, table
  <2>3. CASE AllocChecks(p)
    <3>1. \/ inode' = [inode EXCEPT ![proc[p].ip] =
                          [inode[proc[p].ip] EXCEPT !.mode = "file", !.nlink = 1, !.changed = TRUE]]
          \/ inode' = inode
      BY <2>3 DEF AllocChecks
    <3>2. QED
      BY <1>1, <2>3, <3>1 DEF AllocChecks, EntryState
  <2>4. CASE Allocated(p) \/ Updates(p, "ataken", "iput")
    BY <1>1, <2>4 DEF Allocated, Updates, EntryState
  <2>5. QED
    BY <2>1, <2>2, <2>3, <2>4 DEF Ialloc
<1>8. CASE \E k \in Slot : Iflush(k)
  <2>1. PICK k \in Slot : Iflush(k)
    BY <1>8
  <2>2. \A s \in Slot :
          inode'[s] = IF s <= k THEN [Vacant EXCEPT !.fsptr = inode[s].fsptr] ELSE inode[s]
    BY <2>1 DEF Iflush
  <2>3. QED
    BY <1>1, <2>1, <2>2 DEF Iflush, Vacant
<1>9. QED
  BY <1>4, <1>5, <1>6, <1>7, <1>8 DEF Next

S5Inv == s5free \in Nat /\ S5Accounted

LEMMA S5Step ==
    ASSUME IInv, Next, S5Inv
    PROVE  S5Inv'
<1>1. IsFiniteSet(HasS5) /\ Cardinality(HasS5) \in Nat /\ NS5INODE \in Nat
  <2>1. IsFiniteSet(Slot)
    BY TableAssumption, FS_Interval DEF Slot
  <2>2. QED
    BY <2>1, TableAssumption, FS_Subset, FS_CardinalityType DEF HasS5
<1>2. s5free + Cardinality(HasS5) = NS5INODE
  BY DEF S5Inv, S5Accounted, HasS5
<1>3. SUFFICES s5free' \in Nat /\ s5free' + Cardinality(HasS5') = NS5INODE
  BY DEF S5Inv, S5Accounted, HasS5
<1>4. CASE \A p \in Procs : ~Iread(p) /\ ~IreadFails(p)
  <2>1. HasS5' = HasS5 /\ s5free' = s5free
    BY <1>4, S5Kept DEF HasS5
  <2>2. QED
    BY <1>2, <2>1 DEF S5Inv
<1>5. ASSUME NEW p \in Procs, Iread(p) \/ IreadFails(p)
      PROVE  s5free' \in Nat /\ s5free' + Cardinality(HasS5') = NS5INODE
  <2>1. PICK s \in Slot : /\ s = proc[p].ip
                          /\ Iread(p) => Fills(p, s)
                          /\ IreadFails(p) => Drops(p, s)
    <3>1. CASE Iread(p)
      <4>1. ~IreadFails(p) \/ \E s \in Slot : s = proc[p].ip /\ Drops(p, s)
        BY FailureDrops
      <4>2. QED
        BY <3>1, <4>1, ReadFills
    <3>2. CASE ~Iread(p)
      BY <1>5, <3>2, FailureDrops
    <3>3. QED
      BY <3>1, <3>2
  <2>2. /\ \A t \in Slot \ {s} : inode'[t].fsptr <=> inode[t].fsptr
        /\ inode[s] \in EntryState /\ Entry(p) = inode[s]
    <3>1. Touches(p, s)
      BY <1>5, <2>1 DEF Fills, Drops
    <3>2. \A t \in Slot : inode[t] \in EntryState
      BY Types
    <3>3. \A t \in Slot \ {s} : inode'[t].fsptr <=> inode[t].fsptr
      BY <3>1, <3>2 DEF Touches, AsBefore, Same, EntryState
    <3>4. QED
      BY <2>1, <3>2, <3>3 DEF Entry
  <2>3. CASE Iread(p)
    <3>1. inode'[s].fsptr
      BY <2>1, <2>2, <2>3 DEF Fills, EntryState
    <3>2. HasS5' = HasS5 \cup {s}
      BY <2>2, <3>1 DEF HasS5
    <3>3. CASE inode[s].fsptr
      <4>1. HasS5' = HasS5 /\ s5free' = s5free
        BY <2>2, <2>3, <3>2, <3>3 DEF HasS5, Iread
      <4>2. QED
        BY <1>2, <4>1 DEF S5Inv
    <3>4. CASE ~inode[s].fsptr
      <4>1. s \notin HasS5 /\ s5free > 0 /\ s5free' = s5free - 1
        BY <2>2, <2>3, <3>4 DEF HasS5, Iread
      <4>2. Cardinality(HasS5') = Cardinality(HasS5) + 1
        BY <1>1, <3>2, <4>1, FS_AddElement
      <4>3. QED
        BY <1>1, <1>2, <4>1, <4>2 DEF S5Inv
    <3>5. QED
      BY <3>3, <3>4
  <2>4. CASE IreadFails(p)
    <3>1. ~inode'[s].fsptr
      BY <2>1, <2>4 DEF Drops, Vacant
    <3>2. HasS5' = HasS5 \ {s}
      BY <2>2, <3>1 DEF HasS5
    <3>3. s5free' = IF inode[s].fsptr THEN s5free + 1 ELSE s5free
      BY <2>2, <2>4 DEF IreadFails, S5Freed
    <3>4. CASE inode[s].fsptr
      <4>1. s \in HasS5 /\ s5free' = s5free + 1
        BY <3>3, <3>4 DEF HasS5
      <4>2. Cardinality(HasS5') = Cardinality(HasS5) - 1
        BY <1>1, <3>2, <4>1, FS_RemoveElement
      <4>3. QED
        BY <1>1, <1>2, <4>1, <4>2 DEF S5Inv
    <3>5. CASE ~inode[s].fsptr
      <4>1. HasS5' = HasS5 /\ s5free' = s5free
        BY <3>2, <3>3, <3>5 DEF HasS5
      <4>2. QED
        BY <1>2, <4>1 DEF S5Inv
    <3>6. QED
      BY <3>4, <3>5
  <2>5. QED
    BY <1>5, <2>3, <2>4
<1>6. QED
  BY <1>4, <1>5

LEMMA S5Always == Spec => []S5Inv
<1>1. Init => S5Inv
  <2> SUFFICES ASSUME Init PROVE S5Inv
    OBVIOUS
  <2>1. {s \in Slot : inode[s].fsptr} = {}
    BY DEF Init, Vacant
  <2>2. Cardinality({s \in Slot : inode[s].fsptr}) = 0
    BY <2>1, FS_EmptySet
  <2>3. s5free \in Nat /\ s5free = NS5INODE
    BY TableAssumption DEF Init
  <2>4. QED
    BY <2>2, <2>3 DEF S5Inv, S5Accounted
<1>2. IInv /\ S5Inv /\ [Next]_vars => S5Inv'
  <2>1. UNCHANGED vars /\ S5Inv => S5Inv'
    BY DEF vars, table, S5Inv, S5Accounted
  <2>2. QED
    BY <2>1, S5Step
<1>3. QED
  BY <1>1, <1>2, Invariance, PTL DEF Spec

(* No entry of s5inode[] is lost or used twice: s5iread (fs/s5/s5iget.c)   *)
(* takes one from s5ifreelist, keeps it while its inode is reused or       *)
(* flushed, and gives it back when the read fails.                         *)
THEOREM S5inodesAccounted == Spec => []S5Accounted
<1>1. S5Inv => S5Accounted
  BY DEF S5Inv
<1>2. QED
  BY <1>1, S5Always, PTL
--------------------------------------------------------------------------------
(* Who has s_ilock. *)

Allocs(p) ==
    \/ proc[p].pc = "fupdate"
    \/ proc[p].by = "ialloc" /\ proc[p].pc \notin {"ialloc", "asleep"}

(* Where a process has called s5ialloc, and where it has not.              *)
CallOK(p) ==
    /\ proc[p].pc \in {"user", "fupdate", "plock", "psleep", "locked", "linked", "sync"} =>
         proc[p].by = "user"
    /\ proc[p].pc \in {"ialloc", "asleep", "apop", "agot", "aupdate", "ataken", "scan", "nospace"} =>
         proc[p].by = "ialloc"

(* One process at a time allocates an inode, or frees one.                 *)
OneAllocates ==
    /\ s_ilock <=> \E p \in Procs : Allocs(p)
    /\ \A p, q \in Procs : Allocs(p) /\ Allocs(q) => p = q

AllocInv == OneAllocates /\ \A p \in Procs : CallOK(p)

(* p gets s_ilock, releases it, or neither. *)
Passes(p) ==
    /\ CallOK(p)'
    /\ \/ s_ilock' = s_ilock /\ (Allocs(p)' <=> Allocs(p))
       \/ ~s_ilock /\ s_ilock' /\ Allocs(p)'
       \/ Allocs(p) /\ ~Allocs(p)' /\ ~s_ilock'

LEMMA PassesKeeps ==
    ASSUME IInv, AllocInv, NEW p \in Procs, Others(p), s_ilock' \in BOOLEAN, Passes(p)
    PROVE  AllocInv'
<1>1. ASSUME NEW q \in Procs \ {p} PROVE CallOK(q)' /\ (Allocs(q)' <=> Allocs(q))
  <2>1. proc[q] \in ProcState /\ CallOK(q) /\ Woke(proc[q], proc'[q])
    BY Types DEF Others, AllocInv
  <2>2. /\ proc'[q].by = proc[q].by
        /\ \/ proc'[q].pc = proc[q].pc
           \/ proc[q].pc = "isleep" /\ proc'[q].pc = "iget"
           \/ proc[q].pc = "psleep" /\ proc'[q].pc = "plock"
           \/ proc[q].pc = "asleep" /\ proc'[q].pc = "ialloc"
           \/ proc[q].pc = "fsleep" /\ proc'[q].pc = "ifree"
    BY <2>1 DEF Woke, ProcState
  <2>3. CallOK(q)'
    BY <2>1, <2>2 DEF CallOK
  <2>4. Allocs(q)' <=> Allocs(q)
    BY <2>2 DEF Allocs
  <2>5. QED
    BY <2>3, <2>4
<1>2. QED
  BY <1>1, Types DEF AllocInv, OneAllocates, Passes

(* p is not asleep, and wakes others. *)
LEMMA NotWoken ==
    ASSUME IInv, NEW p \in Procs, NEW s \in Slot,
           proc[p].pc \notin {"isleep", "psleep", "asleep", "fsleep"}
    PROVE  /\ WakeIlock(proc)[p] = proc[p] /\ WakeIlock(proc) \in [Procs -> ProcState]
           /\ Awakened(proc, s)[p] = proc[p] /\ Awakened(proc, s) \in [Procs -> ProcState]
           /\ WakeIlock(Awakened(proc, s))[p] = proc[p]
           /\ WakeIlock(Awakened(proc, s)) \in [Procs -> ProcState]
  BY Types, Wakeups

(* p moves to l with a step that does not touch s_ilock. *)
LEMMA MovePasses ==
    ASSUME IInv, AllocInv, NEW p \in Procs, s_ilock' = s_ilock,
           proc'[p].by = proc[p].by, CallOK(p)', proc[p].pc # "fupdate", proc'[p].pc # "fupdate",
           proc[p].pc \in {"ialloc", "asleep"} <=> proc'[p].pc \in {"ialloc", "asleep"}
    PROVE  Passes(p)
<1>1. Allocs(p)' <=> Allocs(p)
  BY DEF Allocs
<1>2. QED
  BY <1>1 DEF Passes

LEMMA LookupPasses ==
    ASSUME IInv, AllocInv, NEW p \in Procs, Lookup(p)
    PROVE  Passes(p) /\ s_tinode' = s_tinode /\ proc[p].pc # "fupdate" /\ proc'[p].pc # "fupdate"
<1>1. proc \in [Procs -> ProcState] /\ CallOK(p) /\ proc[p].by \in {"user", "ialloc"}
  BY Types DEF AllocInv, ProcState
<1>2. ASSUME NEW P \in [Procs -> ProcState], P[p] = proc[p], WakeIlock(P) \in [Procs -> ProcState],
             GetsNull(P, p), proc[p].pc \in {"user", "iget", "iread"}
      PROVE  /\ Passes(p) /\ s_tinode' = s_tinode
             /\ proc[p].pc # "fupdate" /\ proc'[p].pc # "fupdate"
  <2>1. proc'[p] = Idle /\ s_tinode' = s_tinode
    BY <1>2 DEF GetsNull, super
  <2>2. CallOK(p)' /\ ~Allocs(p)'
    BY <2>1 DEF Idle, CallOK, Allocs
  <2>3. CASE proc[p].by = "user"
    BY <1>2, <2>1, <2>2, <2>3 DEF GetsNull, super, Passes, Allocs, Idle
  <2>4. CASE proc[p].by # "user"
    <3>1. s_ilock' = FALSE /\ Allocs(p)
      BY <1>1, <1>2, <2>4 DEF GetsNull, CallOK, Allocs
    <3>2. QED
      BY <1>2, <2>1, <2>2, <3>1 DEF Passes, Idle
  <2>5. QED
    BY <2>3, <2>4
<1>3. ASSUME NEW s \in Slot, Got(p, s), s_ilock' = s_ilock, proc[p].pc \in {"user", "iget", "iread"}
      PROVE  Passes(p) /\ proc'[p].pc # "fupdate"
  <2>1. /\ proc'[p].by = proc[p].by
        /\ proc'[p].pc = IF proc[p].by = "user" THEN "locked" ELSE "agot"
    BY <1>1, <1>3 DEF Got, ProcState
  <2>2. CallOK(p)'
    BY <1>1, <2>1 DEF CallOK
  <2>3. QED
    BY <1>3, <2>1, <2>2, MovePasses
<1>4. CASE \E n \in Ino : IgetBusy(p, n) \/ IgetReads(p, n)
  <2>1. /\ proc[p].pc \in {"user", "iget"} /\ proc'[p].pc \in {"isleep", "iread"}
        /\ proc'[p].by = proc[p].by /\ s_ilock' = s_ilock /\ s_tinode' = s_tinode
    <3>1. /\ proc[p].pc \in {"user", "iget"} /\ s_ilock' = s_ilock /\ s_tinode' = s_tinode
      BY <1>4 DEF IgetBusy, IgetReads, Seeks, At, super
    <3>2. \E l \in {"isleep", "iread"}, s \in Slot, n \in Ino \cup {0} :
             proc' = [proc EXCEPT ![p].pc = l, ![p].ip = s, ![p].ino = n]
      BY <1>4 DEF IgetBusy, IgetReads, Cached
    <3>3. QED
      BY <1>1, <3>1, <3>2 DEF ProcState
  <2>2. CallOK(p)'
    BY <2>1 DEF CallOK
  <2>3. QED
    BY <2>1, <2>2, MovePasses
<1>5. CASE \E n \in Ino : IgetFound(p, n)
  <2>1. /\ proc[p].pc \in {"user", "iget"} /\ s_ilock' = s_ilock /\ s_tinode' = s_tinode
        /\ \E s \in Slot : Got(p, s)
    BY <1>5 DEF IgetFound, Seeks, At, super, Cached
  <2>2. QED
    BY <1>3, <2>1
<1>6. CASE \E n \in Ino : IgetOverflow(p, n)
  <2>1. proc[p].pc \in {"user", "iget"} /\ GetsNull(proc, p)
    BY <1>6 DEF IgetOverflow, Seeks, At
  <2>2. 1 \in Slot
    BY TableAssumption DEF Slot
  <2>3. WakeIlock(proc) \in [Procs -> ProcState]
    BY <2>1, <2>2, NotWoken
  <2>4. QED
    BY <1>1, <1>2, <2>1, <2>3
<1>7. CASE Iread(p)
  <2>1. /\ proc[p].pc = "iread" /\ s_ilock' = s_ilock /\ s_tinode' = s_tinode
        /\ Got(p, proc[p].ip)
    BY <1>7 DEF Iread, At, super
  <2>2. proc[p].ip \in Slot
    BY <2>1, Holder DEF Idles, NoInode
  <2>3. QED
    BY <1>3, <2>1, <2>2
<1>8. CASE IreadFails(p)
  <2>1. proc[p].pc = "iread" /\ GetsNull(Awakened(proc, proc[p].ip), p)
    BY <1>8 DEF IreadFails, At
  <2>2. proc[p].ip \in Slot
    BY <2>1, Holder DEF Idles, NoInode
  <2>3. QED
    BY <1>2, <2>1, <2>2, NotWoken
<1>9. QED
  BY <1>4, <1>5, <1>6, <1>7, <1>8 DEF Lookup

LEMMA UsePasses ==
    ASSUME IInv, AllocInv, NEW p \in Procs, Use(p)
    PROVE  /\ Passes(p) /\ s_tinode' = s_tinode
           /\ proc[p].pc \in {"user", "plock", "locked", "linked", "sync"}
           /\ proc'[p].pc \in {"user", "psleep", "locked", "linked", "sync", "iput"}
           /\ proc'[p].by = proc[p].by
<1>1. proc \in [Procs -> ProcState] /\ CallOK(p)
  BY Types DEF AllocInv
<1>2. s_ilock' = s_ilock /\ s_tinode' = s_tinode
  BY DEF Use, PlockWaits, PlockLocks, Prele, Link, Linked, Unlink, Open, Closef, Sync, Updates, fs, super
<1>3. /\ proc[p].pc \in {"user", "plock", "locked", "linked", "sync"}
      /\ proc'[p].pc \in {"user", "psleep", "locked", "linked", "sync", "iput"}
      /\ proc'[p].by = proc[p].by
  <2>1. CASE Prele(p)
    <3>1. proc[p].pc = "locked"
      BY <2>1 DEF Prele, At
    <3>2. proc[p].ip \in Slot
      BY <3>1, Holder DEF Idles, NoInode
    <3>3. /\ Awakened(proc, proc[p].ip)[p] = proc[p]
          /\ Awakened(proc, proc[p].ip) \in [Procs -> ProcState]
      BY <3>1, <3>2, NotWoken
    <3>4. QED
      BY <2>1, <3>1, <3>3 DEF Prele, ProcState
  <2>2. CASE Unlink(p)
    BY <2>2 DEF Unlink, At
  <2>3. CASE PlockWaits(p) \/ PlockLocks(p)
    BY <1>1, <2>3 DEF PlockWaits, PlockLocks, Plocks, At, SleepsTo, ProcState
  <2>4. CASE Link(p) \/ Linked(p) \/ Updates(p, "sync", "iput")
    BY <1>1, <2>4 DEF Link, Linked, Updates, At, SleepsTo, RunsOn, ProcState
  <2>5. CASE Open(p) \/ Closef(p) \/ Sync(p)
    <3>1. proc[p].pc = "user"
      BY <2>5 DEF Open, Closef, Sync, At
    <3>2. \/ \E s : proc' = [proc EXCEPT ![p].ip = s]
          \/ \E s : proc' = [proc EXCEPT ![p].pc = "sync", ![p].ip = s]
      BY <2>5 DEF Open, Closef, Sync
    <3>3. QED
      BY <1>1, <3>1, <3>2 DEF ProcState
  <2>6. QED
    BY <2>1, <2>2, <2>3, <2>4, <2>5 DEF Use
<1>4. CallOK(p)'
  BY <1>1, <1>3 DEF CallOK
<1>5. QED
  BY <1>2, <1>3, <1>4, MovePasses

LEMMA IputPasses ==
    ASSUME IInv, AllocInv, NEW p \in Procs, Iput(p)
    PROVE  /\ Passes(p)
           /\ ~Freed(p) => s_tinode' = s_tinode /\ proc[p].pc # "fupdate"
           /\ ~FreeLocks(p) => proc'[p].pc # "fupdate"
           /\ proc[p].pc \in {"iput", "locked", "put", "itrunc", "update", "ifree", "fupdate"}
           /\ proc'[p].pc \in {"user", "apop", "itrunc", "ifree", "update", "put", "fsleep", "fupdate"}
           /\ proc'[p].by = proc[p].by
<1>1. proc \in [Procs -> ProcState] /\ CallOK(p) /\ proc[p].by \in {"user", "ialloc"}
  BY Types DEF AllocInv, ProcState
<1>2. CASE IputShared(p) \/ IputFrees(p)
  <2>1. /\ proc[p].pc \in {"iput", "locked", "put"} /\ Done(p, Awakened(proc, proc[p].ip))
        /\ s_ilock' = s_ilock /\ s_tinode' = s_tinode
    BY <1>2 DEF IputShared, IputFrees, Iputs, At, super
  <2>2. proc[p].ip \in Slot
    BY <2>1, Holder DEF Idles, NoInode
  <2>3. /\ Awakened(proc, proc[p].ip)[p] = proc[p]
        /\ Awakened(proc, proc[p].ip) \in [Procs -> ProcState]
    BY <2>1, <2>2, NotWoken
  <2>4. proc'[p].by = proc[p].by /\ proc'[p].pc = IF proc[p].by = "user" THEN "user" ELSE "apop"
    <3>1. CASE proc[p].by = "user"
      BY <2>1, <2>3, <3>1 DEF Done, Idle
    <3>2. CASE proc[p].by # "user"
      BY <2>1, <2>3, <3>2 DEF Done, ProcState
    <3>3. QED
      BY <3>1, <3>2
  <2>5. CallOK(p)'
    BY <1>1, <2>4 DEF CallOK
  <2>6. QED
    BY <2>1, <2>4, <2>5, MovePasses
<1>3. CASE IputTruncates(p) \/ Truncated(p) \/ IputFreed(p) \/ IputUpdates(p)
           \/ Updates(p, "update", "put") \/ FreeWaits(p)
  <2>1. /\ proc[p].pc \in {"iput", "locked", "itrunc", "update", "ifree"}
        /\ s_ilock' = s_ilock /\ s_tinode' = s_tinode
    BY <1>3 DEF IputTruncates, Truncated, IputFreed, IputUpdates, Updates, FreeWaits, LastRef,
                Iputs, At, super
  <2>2. \E l \in {"itrunc", "ifree", "update", "put", "fsleep"} : proc' = [proc EXCEPT ![p].pc = l]
    BY <1>3 DEF IputTruncates, Truncated, IputFreed, IputUpdates, Updates, FreeWaits,
                SleepsTo, RunsOn
  <2>3. /\ proc'[p].pc \in {"itrunc", "ifree", "update", "put", "fsleep"}
        /\ proc'[p].by = proc[p].by
    BY <1>1, <2>2 DEF ProcState
  <2>4. CallOK(p)'
    BY <2>3 DEF CallOK
  <2>5. QED
    BY <2>1, <2>3, <2>4, MovePasses
<1>4. CASE FreeLocks(p)
  <2>1. /\ proc[p].pc = "ifree" /\ ~s_ilock /\ s_ilock' = TRUE /\ s_tinode' = s_tinode
        /\ proc' = [proc EXCEPT ![p].pc = "fupdate"]
    BY <1>4 DEF FreeLocks, At, SleepsTo
  <2>2. proc[p].by = "user"
    BY <1>1, <2>1 DEF AllocInv, OneAllocates, Allocs
  <2>3. proc'[p].pc = "fupdate" /\ proc'[p].by = "user"
    BY <1>1, <2>1, <2>2 DEF ProcState
  <2>4. CallOK(p)' /\ Allocs(p)'
    BY <2>3 DEF CallOK, Allocs
  <2>5. QED
    BY <1>4, <2>1, <2>2, <2>3, <2>4 DEF Passes
<1>5. CASE Freed(p)
  <2>1. proc[p].pc = "fupdate" /\ s_ilock' = FALSE /\ proc' = [WakeIlock(proc) EXCEPT ![p].pc = "put"]
    BY <1>5 DEF Freed, At
  <2>2. 1 \in Slot
    BY TableAssumption DEF Slot
  <2>3. WakeIlock(proc)[p] = proc[p] /\ WakeIlock(proc) \in [Procs -> ProcState]
    BY <2>1, <2>2, NotWoken
  <2>4. proc'[p].pc = "put" /\ proc'[p].by = proc[p].by
    BY <2>1, <2>3 DEF ProcState
  <2>5. Allocs(p) /\ ~Allocs(p)' /\ CallOK(p)'
    BY <1>1, <2>1, <2>4 DEF CallOK, Allocs
  <2>6. QED
    BY <1>5, <2>1, <2>4, <2>5 DEF Passes
<1>6. QED
  BY <1>2, <1>3, <1>4, <1>5 DEF Iput

LEMMA IallocPasses ==
    ASSUME IInv, AllocInv, NEW p \in Procs, Ialloc(p)
    PROVE  /\ Passes(p) /\ proc[p].pc # "fupdate" /\ proc'[p].pc # "fupdate"
           /\ \/ s_tinode' = s_tinode
              \/ AllocChecks(p) /\ Entry(p).mode = "free"
              \/ s_tinode' = 0
<1>1. proc \in [Procs -> ProcState] /\ CallOK(p)
  BY Types DEF AllocInv
<1>2. CASE AllocWaits(p) \/ AllocLocks(p)
  <2>1. /\ proc[p].pc \in {"user", "ialloc"} /\ s_tinode' = s_tinode
        /\ \/ AllocWaits(p) /\ s_ilock' = s_ilock
              /\ proc' = [proc EXCEPT ![p].pc = "asleep", ![p].by = "ialloc"]
           \/ ~s_ilock /\ s_ilock' = TRUE
              /\ proc' = [proc EXCEPT ![p].pc = "apop", ![p].by = "ialloc"]
    BY <1>2 DEF AllocWaits, AllocLocks, Creates, At, super
  <2>2. /\ proc'[p].by = "ialloc"
        /\ \/ s_ilock' = s_ilock /\ proc'[p].pc = "asleep"
           \/ ~s_ilock /\ s_ilock' = TRUE /\ proc'[p].pc = "apop"
    BY <1>1, <2>1 DEF ProcState
  <2>3. CallOK(p)' /\ ~Allocs(p)
    BY <1>1, <2>1, <2>2 DEF CallOK, Allocs
  <2>4. Allocs(p)' <=> proc'[p].pc = "apop"
    BY <2>2 DEF Allocs
  <2>5. QED
    BY <2>1, <2>2, <2>3, <2>4 DEF Passes
<1>3. CASE AllocPops(p) \/ AllocChecks(p) \/ Updates(p, "ataken", "iput") \/ AllocScans(p)
           \/ ScanBlock(p) \/ ScanFails(p) \/ ScanEnds(p)
  <2>1. /\ proc[p].pc \in {"apop", "agot", "ataken", "scan"} /\ s_ilock' = s_ilock
        /\ s_tinode' = s_tinode \/ (AllocChecks(p) /\ Entry(p).mode = "free")
    BY <1>3 DEF AllocPops, AllocChecks, Updates, AllocScans, ScanBlock, ScanFails, ScanEnds, At, super
  <2>2. proc'[p].pc \in {"iget", "aupdate", "ataken", "iput", "scan", "apop", "nospace"}
        /\ proc'[p].by = proc[p].by
    <3>1. CASE AllocChecks(p) \/ Updates(p, "ataken", "iput")
      BY <1>1, <3>1 DEF AllocChecks, Updates, SleepsTo, RunsOn, ProcState
    <3>2. CASE AllocPops(p) \/ AllocScans(p)
      BY <1>1, <3>2 DEF AllocPops, AllocScans, ProcState
    <3>3. CASE ScanBlock(p) \/ ScanFails(p)
      BY <1>1, <3>3 DEF ScanBlock, ScanFails, At, ProcState
    <3>4. CASE ScanEnds(p)
      BY <1>1, <3>4 DEF ScanEnds, ProcState
    <3>5. QED
      BY <1>3, <3>1, <3>2, <3>3, <3>4
  <2>3. CallOK(p)'
    BY <1>1, <2>1, <2>2 DEF CallOK
  <2>4. Passes(p)
    BY <2>1, <2>2, <2>3, MovePasses
  <2>5. QED
    BY <2>1, <2>2, <2>4
<1>4. CASE Allocated(p) \/ NoSpace(p)
  <2>1. /\ proc[p].pc \in {"aupdate", "nospace", "apop"} /\ s_ilock' = FALSE
        /\ s_tinode' \in {s_tinode, 0}
    BY <1>4 DEF Allocated, NoSpace, At
  <2>2. 1 \in Slot
    BY TableAssumption DEF Slot
  <2>3. WakeIlock(proc)[p] = proc[p] /\ WakeIlock(proc) \in [Procs -> ProcState]
    BY <2>1, <2>2, NotWoken
  <2>4. proc'[p].pc \in {"locked", "user"} /\ proc'[p].by = "user"
    <3>1. CASE Allocated(p)
      <4>1. proc' = [WakeIlock(proc) EXCEPT ![p].pc = "locked", ![p].by = "user"]
        BY <3>1 DEF Allocated
      <4>2. QED
        BY <2>3, <4>1 DEF ProcState
    <3>2. CASE NoSpace(p)
      <4>1. proc' = [WakeIlock(proc) EXCEPT ![p] = Idle]
        BY <3>2 DEF NoSpace
      <4>2. QED
        BY <2>3, <4>1 DEF Idle
    <3>3. QED
      BY <1>4, <3>1, <3>2
  <2>5. Allocs(p) /\ ~Allocs(p)' /\ CallOK(p)'
    BY <1>1, <2>1, <2>4 DEF CallOK, Allocs
  <2>6. QED
    BY <2>1, <2>4, <2>5 DEF Passes
<1>5. QED
  BY <1>2, <1>3, <1>4 DEF Ialloc

LEMMA OthersStep ==
    ASSUME IInv, NEW p \in Procs, Lookup(p) \/ Use(p) \/ Iput(p) \/ Ialloc(p)
    PROVE  Others(p)
  BY StepsHaveKinds DEF Kinds, Quiet, Works, Takes, Puts, Unlocks, Relocks, Fetches, Fills,
                        Drops, Hands, Touches

LEMMA AllocStep == IInv /\ IInv' /\ AllocInv /\ [Next]_vars => AllocInv'
<1> SUFFICES ASSUME IInv, IInv', AllocInv, [Next]_vars PROVE AllocInv'
  OBVIOUS
<1>1. ASSUME NEW p \in Procs, Lookup(p) \/ Use(p) \/ Iput(p) \/ Ialloc(p) PROVE AllocInv'
  <2>1. Passes(p)
    <3>1. CASE Lookup(p)
      BY <3>1, LookupPasses
    <3>2. CASE Use(p)
      BY <3>2, UsePasses
    <3>3. CASE Iput(p)
      BY <3>3, IputPasses
    <3>4. CASE Ialloc(p)
      BY <3>4, IallocPasses
    <3>5. QED
      BY <1>1, <3>1, <3>2, <3>3, <3>4
  <2>2. Others(p)
    BY <1>1, OthersStep
  <2>3. s_ilock' \in BOOLEAN
    BY DEF IInv, Shape
  <2>4. QED
    BY <2>1, <2>2, <2>3, PassesKeeps
<1>2. CASE (\E k \in Slot : Iflush(k)) \/ UNCHANGED vars
  <2>1. proc' = proc /\ s_ilock' = s_ilock
    BY <1>2 DEF Iflush, vars, fs, super
  <2>2. QED
    BY <2>1 DEF AllocInv, OneAllocates, Allocs, CallOK
<1>3. QED
  BY <1>1, <1>2 DEF Next

LEMMA AllocInit == Init => AllocInv
<1> SUFFICES ASSUME Init PROVE AllocInv
  OBVIOUS
<1>1. \A p \in Procs : proc[p].pc = "user" /\ proc[p].by = "user"
  BY DEF Init, Idle
<1>2. QED
  BY <1>1 DEF Init, AllocInv, OneAllocates, Allocs, CallOK

(* s_ilock is held by one process, from the head of s5ialloc through all   *)
(* its sleeps in iget and iput, or in s5ifree, and by nobody when it is    *)
(* clear (fs/s5/s5alloc.c): none of its ways out forgets to release it.    *)
THEOREM AllocationExclusive == Spec => []OneAllocates
<1>1. AllocInv => OneAllocates
  BY DEF AllocInv
<1>2. QED
  BY <1>1, AllocInit, AllocStep, Invariance, PTL DEF Spec
-----------------------------------------------------------------------------
(***************************************************************************)
(* InodeTable implements InodeList, for any number of processes, entries   *)
(* and inodes: an inode that is read into an entry, written back from it,  *)
(* flushed or read again, into another, stays the same for its users.      *)
(***************************************************************************)

(* The entry in s counts as the contents of inode n, and which.            *)
InCore(s, n) == inode[s].hashed /\ inode[s].number = n /\ \A p \in Procs : ~Reads(p, s)
Val(s) == [mode |-> inode[s].mode, nlink |-> inode[s].nlink]
Here(s, n) == IF InCore(s, n) THEN Val(s) ELSE dinode[n]
--------------------------------------------------------------------------------
(* What the users see. *)

LEMMA ListHere ==
    IInv => \A n \in Ino :
        /\ \A s \in Slot : InCore(s, n) => ilist[n] = Val(s)
        /\ (\A s \in Slot : ~InCore(s, n)) => ilist[n] = dinode[n]
<1> SUFFICES ASSUME IInv, NEW n \in Ino
             PROVE  /\ \A s \in Slot : InCore(s, n) => ilist[n] = Val(s)
                    /\ (\A s \in Slot : ~InCore(s, n)) => ilist[n] = dinode[n]
  OBVIOUS
<1> DEFINE C == {s \in Cached(n) : ~\E p \in Procs : proc[p].pc = "iread" /\ Refers(p, s)}
           c == CHOOSE s \in C : TRUE
<1>1. \A s \in Slot : s \in C <=> InCore(s, n)
  BY DEF Cached, InCore, Reads, Refers
<1>2. C \subseteq Slot
  BY DEF Cached
<1>3. ilist[n] = IF C = {} THEN dinode[n]
                 ELSE [mode |-> inode[c].mode, nlink |-> inode[c].nlink]
  BY DEF ilist, Newest
<1>4. ASSUME NEW s \in Slot, InCore(s, n) PROVE ilist[n] = Val(s)
  <2>1. s \in C /\ c \in C
    BY <1>1, <1>4
  <2>2. c \in Slot /\ InCore(c, n)
    BY <1>1, <1>2, <2>1
  <2>3. c = s
    BY <1>4, <2>2 DEF InCore, IInv, OneInode
  <2>4. C # {}
    BY <2>1
  <2>5. QED
    BY <1>3, <2>3, <2>4 DEF Val
<1>5. ASSUME \A s \in Slot : ~InCore(s, n) PROVE ilist[n] = dinode[n]
  <2>1. C = {}
    BY <1>1, <1>2, <1>5
  <2>2. QED
    BY <1>3, <2>1
<1>6. QED
  BY <1>4, <1>5

(* The same after a step.                                                  *)
LEMMA ListThere ==
    IInv' => \A n \in Ino :
        /\ \A s \in Slot : InCore(s, n)' => ilist'[n] = Val(s)'
        /\ (\A s \in Slot : ~InCore(s, n)') => ilist'[n] = dinode'[n]
<1>1. (IInv => \A n \in Ino :
        /\ \A s \in Slot : InCore(s, n) => ilist[n] = Val(s)
        /\ (\A s \in Slot : ~InCore(s, n)) => ilist[n] = dinode[n])'
  BY ListHere, PTL
<1>2. QED
  BY <1>1 DEF Ino, Slot

LEMMA RefHere ==
    IInv => \A p \in Procs :
        /\ \A s \in Slot : Refers(p, s) =>
             ref[p] = inode[s].number /\ ref[p] \in Ino /\ inode[s].hashed
        /\ (\A s \in Slot : ~Refers(p, s)) => ref[p] = 0
        /\ p \in locked <=> \E s \in Slot : Locks(p, s)
<1> SUFFICES ASSUME IInv, NEW p \in Procs
             PROVE  /\ \A s \in Slot : Refers(p, s) =>
                         ref[p] = inode[s].number /\ ref[p] \in Ino /\ inode[s].hashed
                    /\ (\A s \in Slot : ~Refers(p, s)) => ref[p] = 0
                    /\ p \in locked <=> \E s \in Slot : Locks(p, s)
  OBVIOUS
<1>1. ASSUME NEW s \in Slot, Refers(p, s)
      PROVE  ref[p] = inode[s].number /\ ref[p] \in Ino /\ inode[s].hashed
  <2>1. ref[p] = Entry(p).number
    BY <1>1 DEF ref
  <2>2. inode[s].hashed /\ inode[s].number \in Ino
    BY <1>1, Referenced DEF IInv
  <2>3. QED
    BY <1>1, <2>1, <2>2 DEF Refers, Entry
<1>2. (\A s \in Slot : ~Refers(p, s)) => ref[p] = 0
  BY DEF ref
<1>3. p \in locked <=> \E s \in Slot : Locks(p, s)
  BY DEF locked
<1>4. QED
  BY <1>1, <1>2, <1>3

LEMMA RefThere ==
    IInv' => \A p \in Procs :
        /\ \A s \in Slot : Refers(p, s)' =>
             ref'[p] = inode'[s].number /\ ref'[p] \in Ino /\ inode'[s].hashed
        /\ (\A s \in Slot : ~Refers(p, s)') => ref'[p] = 0
        /\ p \in locked' <=> \E s \in Slot : Locks(p, s)'
<1>1. (IInv => \A p \in Procs :
        /\ \A s \in Slot : Refers(p, s) =>
             ref[p] = inode[s].number /\ ref[p] \in Ino /\ inode[s].hashed
        /\ (\A s \in Slot : ~Refers(p, s)) => ref[p] = 0
        /\ p \in locked <=> \E s \in Slot : Locks(p, s))'
  BY RefHere, PTL
<1>2. QED
  BY <1>1 DEF Ino, Slot

(* The references and the locks as functions and sets.                     *)
LEMMA Views ==
    /\ ref = [p \in Procs |-> ref[p]] /\ ref' = [p \in Procs |-> ref'[p]]
    /\ ilist = [n \in Ino |-> ilist[n]] /\ ilist' = [n \in Ino |-> ilist'[n]]
    /\ locked \subseteq Procs /\ locked' \subseteq Procs
<1>1. ref = [p \in Procs |-> ref[p]] /\ ref' = [p \in Procs |-> ref'[p]]
  BY DEF ref
<1>2. ilist = [n \in Ino |-> ilist[n]] /\ ilist' = [n \in Ino |-> ilist'[n]]
  BY DEF ilist
<1>3. locked \subseteq Procs /\ locked' \subseteq Procs
  BY DEF locked
<1>4. QED
  BY <1>1, <1>2, <1>3
--------------------------------------------------------------------------------
(* A step of p that touches the entry in s: what others see of it.         *)
LEMMA OthersSee ==
    ASSUME IInv, IInv', NEW p \in Procs, NEW s \in Slot, Touches(p, s),
           (\E q \in Procs \ {p} : Locks(q, s)) => Same(s),
           \A q \in Procs \ {p} : Refers(q, s) => inode'[s].number = inode[s].number
    PROVE  /\ \A q \in Procs \ {p} : ref'[q] = ref[q] /\ (q \in locked' <=> q \in locked)
           /\ \A q \in Procs \ {p} : \A t \in Slot :
                 /\ Refers(q, t)' <=> Refers(q, t)
                 /\ Locks(q, t)' <=> Locks(q, t)
                 /\ Reads(q, t)' <=> Reads(q, t)
           /\ \A t \in Slot \ {s} :
                 /\ inode'[t].number = inode[t].number
                 /\ Val(t)' = Val(t)
                 /\ \A n \in Ino : InCore(t, n)' <=> InCore(t, n)
<1>1. \A t \in Slot \ {s} :
        /\ inode'[t].number = inode[t].number /\ (inode'[t].hashed <=> inode[t].hashed)
        /\ inode'[t].mode = inode[t].mode /\ inode'[t].nlink = inode[t].nlink
  BY SameFields DEF Touches, AsBefore, IInv, Shape
<1>2. \A q \in Procs \ {p} : \A t \in Slot : /\ Refers(q, t)' <=> Refers(q, t)
                                             /\ Locks(q, t)' <=> Locks(q, t)
                                             /\ Reads(q, t)' <=> Reads(q, t)
  <2> SUFFICES ASSUME NEW q \in Procs \ {p}
               PROVE  \A t \in Slot : /\ Refers(q, t)' <=> Refers(q, t)
                                      /\ Locks(q, t)' <=> Locks(q, t)
                                      /\ Reads(q, t)' <=> Reads(q, t)
    OBVIOUS
  <2>1. Locks(q, proc[q].ip) /\ proc[q].ip \in Slot => Same(proc[q].ip)
    BY DEF Touches, AsBefore
  <2>2. ProcOK(q) /\ Shape /\ Shape' /\ Woke(proc[q], proc'[q])
    BY DEF Touches, Others, IInv
  <2>3. QED
    BY <2>1, <2>2, OthersKept
<1>3. ASSUME NEW q \in Procs \ {p} PROVE ref'[q] = ref[q] /\ (q \in locked' <=> q \in locked)
  <2>1. q \in locked' <=> q \in locked
    BY <1>2, RefHere, RefThere
  <2>2. CASE \E t \in Slot : Refers(q, t)
    <3>1. PICK t \in Slot : Refers(q, t)
      BY <2>2
    <3>2. Refers(q, t)' /\ inode'[t].number = inode[t].number
      BY <1>1, <1>2, <3>1
    <3>3. ref[q] = inode[t].number /\ ref'[q] = inode'[t].number
      BY <3>1, <3>2, RefHere, RefThere
    <3>4. QED
      BY <2>1, <3>2, <3>3
  <2>3. CASE \A t \in Slot : ~Refers(q, t)
    <3>1. ref[q] = 0 /\ ref'[q] = 0
      BY <1>2, <2>3, RefHere, RefThere
    <3>2. QED
      BY <2>1, <3>1
  <2>4. QED
    BY <2>2, <2>3
<1>4. ASSUME NEW t \in Slot \ {s}
      PROVE  /\ Val(t)' = Val(t)
             /\ \A n \in Ino : InCore(t, n)' <=> InCore(t, n)
  <2>1. \A q \in Procs : Reads(q, t)' <=> Reads(q, t)
    BY <1>2 DEF Touches, AsBefore
  <2>2. QED
    BY <1>1, <2>1 DEF Val, InCore
<1>5. QED
  BY <1>1, <1>2, <1>3, <1>4

(* The entry in s decides what changes.                                    *)
LEMMA SlotDecides ==
    ASSUME IInv, IInv', NEW s \in Slot, NEW n \in Ino,
           \A t \in Slot \ {s} : Val(t)' = Val(t) /\ (InCore(t, n)' <=> InCore(t, n)),
           Here(s, n)' = Here(s, n)
    PROVE  ilist'[n] = ilist[n]
<1>1. CASE \E t \in Slot \ {s} : InCore(t, n)
  <2>1. PICK t \in Slot \ {s} : InCore(t, n)
    BY <1>1
  <2>2. InCore(t, n)' /\ Val(t)' = Val(t)
    BY <2>1
  <2>3. ilist[n] = Val(t) /\ ilist'[n] = Val(t)'
    BY <2>1, <2>2, ListHere, ListThere
  <2>4. QED
    BY <2>2, <2>3
<1>2. CASE \A t \in Slot \ {s} : ~InCore(t, n)
  <2>1. ilist[n] = Here(s, n)
    BY <1>2, ListHere DEF Here
  <2>2. ilist'[n] = Here(s, n)'
    <3>1. Here(s, n)' = IF InCore(s, n)' THEN Val(s)' ELSE dinode'[n]
      BY DEF Here
    <3>2. \A t \in Slot \ {s} : ~InCore(t, n)'
      BY <1>2
    <3>3. QED
      BY <3>1, <3>2, ListThere
  <2>3. QED
    BY <2>1, <2>2
<1>3. QED
  BY <1>1, <1>2

(* What p sees of the inode it has before or after.                        *)
LEMMA OwnSees ==
    ASSUME IInv, IInv', NEW p \in Procs, NEW s \in Slot, Touches(p, s),
           Refers(p, s) \/ Refers(p, s)'
    PROVE  /\ Refers(p, s) => ref[p] = inode[s].number /\ ref[p] \in Ino
           /\ ~Refers(p, s) => ref[p] = 0
           /\ Refers(p, s)' => ref'[p] = inode'[s].number /\ ref'[p] \in Ino
           /\ ~Refers(p, s)' => ref'[p] = 0
           /\ p \in locked <=> Locks(p, s)
           /\ p \in locked' <=> Locks(p, s)'
<1>1. \A t \in Slot \ {s} : (Refers(p, t)' <=> Refers(p, t)) /\ (Locks(p, t)' <=> Locks(p, t))
  BY DEF Touches, AsBefore
<1>2. \A t \in Slot \ {s} : ~Refers(p, t) /\ ~Refers(p, t)'
  BY <1>1 DEF Refers
<1>3. \A t \in Slot \ {s} : ~Locks(p, t) /\ ~Locks(p, t)'
  BY <1>2 DEF Locks
<1>4. QED
  BY <1>2, <1>3, RefHere, RefThere

(* The open file.                                                          *)
LEMMA FileSeen ==
    ASSUME IInv, f_inode' = f_inode,
           f_inode \in Slot => inode'[f_inode].number = inode[f_inode].number
    PROVE  file' = file
  BY DEF file, IInv, Shape

(* What is not locked in core is not locked for those who use it.          *)
LEMMA UnlockedSeen ==
    ASSUME IInv, NEW n \in Ino,
           \A s \in Slot : inode[s].hashed /\ inode[s].number = n => ~inode[s].ilock
    PROVE  List!Unlocked(n)
<1>1. ASSUME NEW q \in locked, ref[q] = n PROVE FALSE
  <2>1. q \in Procs
    BY DEF locked
  <2>2. PICK t \in Slot : Locks(q, t)
    BY <2>1, RefHere
  <2>3. Refers(q, t)
    BY <2>2 DEF Locks
  <2>4. inode[t].hashed /\ inode[t].number = n /\ inode[t].ilock
    BY <1>1, <2>1, <2>2, <2>3, RefHere DEF IInv, SlotOK
  <2>5. QED
    BY <2>4
<1>2. QED
  BY <1>1 DEF List!Unlocked

(* A step after which the entry in s counts for the same as before. *)
LEMMA AsSeen ==
    ASSUME IInv, IInv', NEW p \in Procs, NEW s \in Slot, Touches(p, s), dinode' = dinode,
           Same(s) \/ \A q \in Procs \ {p} : ~Locks(q, s),
           inode'[s].hashed <=> inode[s].hashed, inode'[s].number = inode[s].number,
           Val(s)' = Val(s), Reads(p, s)' <=> Reads(p, s)
    PROVE  /\ ilist' = ilist
           /\ f_inode' = f_inode => file' = file
           /\ \A q \in Procs \ {p} : ref'[q] = ref[q] /\ (q \in locked' <=> q \in locked)
<1>1. /\ \A q \in Procs \ {p} : ref'[q] = ref[q] /\ (q \in locked' <=> q \in locked)
      /\ \A q \in Procs : Reads(q, s)' <=> Reads(q, s)
      /\ \A t \in Slot \ {s} :
            /\ inode'[t].number = inode[t].number
            /\ Val(t)' = Val(t)
            /\ \A n \in Ino : InCore(t, n)' <=> InCore(t, n)
  BY OthersSee
<1>2. f_inode' = f_inode => file' = file
  BY <1>1, FileSeen
<1>3. ASSUME NEW n \in Ino PROVE ilist'[n] = ilist[n]
  <2>1. InCore(s, n)' <=> InCore(s, n)
    BY <1>1 DEF InCore
  <2>2. Here(s, n)' = Here(s, n)
    BY <2>1 DEF Here
  <2>3. QED
    BY <1>1, <2>2, SlotDecides
<1>4. QED
  BY <1>1, <1>2, <1>3, Views

(* The references and the locks, when only those of p change. *)
LEMMA OnlyOwn ==
    ASSUME NEW p \in Procs, NEW r,
           \A q \in Procs \ {p} : ref'[q] = ref[q] /\ (q \in locked' <=> q \in locked),
           ref'[p] = r
    PROVE  /\ ref' = [ref EXCEPT ![p] = r]
           /\ r = ref[p] => ref' = ref
           /\ p \in locked' => locked' = locked \cup {p}
           /\ p \notin locked' => locked' = locked \ {p}
           /\ (p \in locked' <=> p \in locked) => locked' = locked
<1>1. ref' = [ref EXCEPT ![p] = r]
  <2>1. \A q \in Procs : ref'[q] = [ref EXCEPT ![p] = r][q]
    BY Views
  <2>2. QED
    BY <2>1, Views
<1>2. r = ref[p] => ref' = ref
  BY Views
<1>3. QED
  BY <1>1, <1>2, Views
--------------------------------------------------------------------------------
(* The steps, by kind, as steps of the list. *)

LEMMA TakesMaps ==
    ASSUME IInv, IInv', NEW p \in Procs, NEW s \in Slot, Takes(p, s)
    PROVE  List!Get(p)
<1>1. /\ Touches(p, s) /\ dinode' = dinode /\ f_inode' = f_inode
      /\ ~Refers(p, s) /\ Refers(p, s)' /\ Locks(p, s)' /\ ~Reads(p, s) /\ ~Reads(p, s)'
      /\ inode[s].hashed /\ ~inode[s].ilock
  <2>1. (Locks(p, s)' => Refers(p, s)') /\ (Reads(p, s) => Refers(p, s))
    BY DEF Locks, Reads, Refers
  <2>2. QED
    BY <2>1 DEF Takes
<1>2. \A q \in Procs : ~Locks(q, s)
  BY <1>1 DEF IInv, SlotOK
<1>3. /\ inode'[s].hashed /\ inode'[s].number = inode[s].number /\ Val(s)' = Val(s)
  BY <1>1 DEF Takes, IInv, Shape, EntryState, Val
<1>4. /\ ilist' = ilist /\ file' = file
      /\ \A q \in Procs \ {p} : ref'[q] = ref[q] /\ (q \in locked' <=> q \in locked)
  BY <1>1, <1>2, <1>3, AsSeen
<1>5. ref[p] = 0 /\ ref'[p] = inode[s].number /\ ref'[p] \in Ino /\ p \in locked'
  BY <1>1, <1>3, OwnSees
<1>6. List!Unlocked(ref'[p])
  <2>1. \A t \in Slot : inode[t].hashed /\ inode[t].number = ref'[p] => ~inode[t].ilock
    BY <1>1, <1>5 DEF IInv, OneInode
  <2>2. QED
    BY <1>5, <2>1, UnlockedSeen
<1>7. ref' = [ref EXCEPT ![p] = ref'[p]] /\ locked' = locked \cup {p}
  BY <1>4, <1>5, OnlyOwn
<1>8. QED
  BY <1>4, <1>5, <1>6, <1>7 DEF List!Get, Ino

LEMMA PutsMaps ==
    ASSUME IInv, IInv', NEW p \in Procs, NEW s \in Slot, Puts(p, s)
    PROVE  p \in locked /\ List!Put(p)
<1>1. /\ Touches(p, s) /\ dinode' = dinode /\ f_inode' = f_inode
      /\ Refers(p, s) /\ ~Refers(p, s)' /\ Locks(p, s) /\ ~Reads(p, s) /\ ~Reads(p, s)'
  <2>1. (Locks(p, s) => Refers(p, s)) /\ (Reads(p, s)' => Refers(p, s)')
    BY DEF Locks, Reads, Refers
  <2>2. QED
    BY <2>1 DEF Puts
<1>2. \A q \in Procs \ {p} : ~Locks(q, s)
  BY <1>1 DEF IInv, SlotOK
<1>3. /\ inode'[s].hashed <=> inode[s].hashed
      /\ inode'[s].number = inode[s].number /\ Val(s)' = Val(s)
  BY <1>1 DEF Puts, IInv, Shape, EntryState, Val, Released
<1>4. /\ ilist' = ilist /\ file' = file
      /\ \A q \in Procs \ {p} : ref'[q] = ref[q] /\ (q \in locked' <=> q \in locked)
  BY <1>1, <1>2, <1>3, AsSeen
<1>5. ~Locks(p, s)'
  BY <1>1 DEF Locks
<1>6. p \in locked /\ ref'[p] = 0 /\ p \notin locked'
  BY <1>1, <1>5, OwnSees
<1>7. ref' = [ref EXCEPT ![p] = 0] /\ locked' = locked \ {p}
  BY <1>4, <1>6, OnlyOwn
<1>8. QED
  BY <1>4, <1>6, <1>7 DEF List!Put

LEMMA UnlocksMaps ==
    ASSUME IInv, IInv', NEW p \in Procs, NEW s \in Slot, Unlocks(p, s) \/ Relocks(p, s)
    PROVE  \/ p \in locked /\ List!Unlock(p)
           \/ List!Lock(p)
<1>1. /\ Touches(p, s) /\ dinode' = dinode /\ f_inode' = f_inode
      /\ Refers(p, s) /\ Refers(p, s)' /\ ~Reads(p, s) /\ ~Reads(p, s)'
  <2>1. /\ (Locks(p, s) => Refers(p, s)) /\ (Reads(p, s) => Locks(p, s))
        /\ (Locks(p, s)' => Refers(p, s)') /\ (Reads(p, s)' => Locks(p, s)')
    BY DEF Locks, Reads, Refers
  <2>2. QED
    BY <2>1 DEF Unlocks, Relocks
<1>2. \A q \in Procs \ {p} : ~Locks(q, s)
  BY <1>1 DEF IInv, SlotOK, Unlocks, Relocks
<1>3. /\ inode'[s].hashed <=> inode[s].hashed
      /\ inode'[s].number = inode[s].number /\ Val(s)' = Val(s)
  <2>1. inode[s] \in EntryState
    BY DEF IInv, Shape
  <2>2. QED
    BY <2>1 DEF Unlocks, Relocks, EntryState, Val, Released
<1>4. /\ ilist' = ilist /\ file' = file
      /\ \A q \in Procs \ {p} : ref'[q] = ref[q] /\ (q \in locked' <=> q \in locked)
  BY <1>1, <1>2, <1>3, AsSeen
<1>5. /\ ref[p] = inode[s].number /\ ref[p] \in Ino /\ ref'[p] = ref[p]
      /\ p \in locked <=> Locks(p, s)
      /\ p \in locked' <=> Locks(p, s)'
  BY <1>1, <1>3, OwnSees
<1>6. ref' = ref
  BY <1>4, <1>5, OnlyOwn
<1>7. CASE Unlocks(p, s)
  <2>1. p \in locked /\ p \notin locked'
    BY <1>5, <1>7 DEF Unlocks
  <2>2. locked' = locked \ {p}
    BY <1>4, <2>1, OnlyOwn
  <2>3. QED
    BY <1>4, <1>6, <2>1, <2>2 DEF List!Unlock
<1>8. CASE Relocks(p, s)
  <2>1. p \in locked' /\ ~inode[s].ilock
    BY <1>5, <1>8 DEF Relocks
  <2>2. locked' = locked \cup {p}
    BY <1>4, <2>1, OnlyOwn
  <2>3. \A t \in Slot : inode[t].hashed /\ inode[t].number = ref[p] => ~inode[t].ilock
    <3>1. inode[s].hashed
      BY <1>1, RefHere
    <3>2. QED
      BY <1>5, <2>1, <3>1 DEF IInv, OneInode
  <2>4. List!Unlocked(ref[p])
    BY <1>5, <2>3, UnlockedSeen
  <2>5. QED
    BY <1>4, <1>5, <1>6, <2>2, <2>4 DEF List!Lock, Ino
<1>9. QED
  BY <1>7, <1>8

(* The inode that is fetched was in no entry, and what was in the entry    *)
(* had been written.                                                       *)
LEMMA FetchesMaps ==
    ASSUME IInv, IInv', NEW p \in Procs, NEW s \in Slot, Fetches(p, s)
    PROVE  List!Get(p)
<1>1. /\ Touches(p, s) /\ dinode' = dinode /\ f_inode' = f_inode
      /\ inode[s].count = 0 /\ ~Refers(p, s) /\ Reads(p, s)'
      /\ inode'[s].hashed /\ inode'[s].number \in Ino /\ Cached(inode'[s].number) = {}
  BY DEF Fetches
<1>2. /\ f_inode # s /\ \A q \in Procs : ~Refers(q, s)
      /\ ~inode[s].changed
  BY <1>1, CountSays DEF IInv, SlotOK
<1>3. \A q \in Procs : ~Locks(q, s) /\ ~Reads(q, s)
  BY <1>2, Implied
<1>4. /\ \A q \in Procs \ {p} : ref'[q] = ref[q] /\ (q \in locked' <=> q \in locked)
      /\ \A t \in Slot \ {s} :
            /\ inode'[t].number = inode[t].number
            /\ Val(t)' = Val(t)
            /\ \A n \in Ino : InCore(t, n)' <=> InCore(t, n)
  BY <1>1, <1>2, <1>3, OthersSee
<1>5. file' = file
  BY <1>1, <1>2, <1>4, FileSeen
<1>6. ASSUME NEW n \in Ino PROVE ilist'[n] = ilist[n]
  <2>1. Here(s, n) = dinode[n]
    <3>1. InCore(s, n) => dinode[n] = Val(s)
      BY <1>2, <1>3 DEF InCore, IInv, SlotOK, Val
    <3>2. QED
      BY <3>1 DEF Here
  <2>2. Here(s, n)' = dinode[n]
    <3>1. ~InCore(s, n)'
      BY <1>1 DEF InCore
    <3>2. QED
      BY <1>1, <3>1 DEF Here
  <2>3. QED
    BY <1>4, <2>1, <2>2, SlotDecides
<1>7. ilist' = ilist
  BY <1>6, Views
<1>8. Refers(p, s)' /\ Locks(p, s)'
  BY <1>1 DEF Reads, Refers, Locks
<1>9. ref[p] = 0 /\ ref'[p] = inode'[s].number /\ ref'[p] \in Ino /\ p \in locked'
  BY <1>1, <1>8, OwnSees
<1>10. List!Unlocked(ref'[p])
  <2>1. \A t \in Slot : ~(inode[t].hashed /\ inode[t].number = ref'[p])
    BY <1>1, <1>9 DEF Cached
  <2>2. QED
    BY <1>9, <2>1, UnlockedSeen
<1>11. ref' = [ref EXCEPT ![p] = ref'[p]] /\ locked' = locked \cup {p}
  BY <1>4, <1>9, OnlyOwn
<1>12. QED
  BY <1>5, <1>7, <1>9, <1>10, <1>11 DEF List!Get, Ino

(* An inode has been read: it is what its block has. *)
LEMMA FillsMaps ==
    ASSUME IInv, IInv', NEW p \in Procs, NEW s \in Slot, Fills(p, s)
    PROVE  UNCHANGED List!vars
<1>1. /\ Touches(p, s) /\ dinode' = dinode /\ f_inode' = f_inode
      /\ Reads(p, s) /\ Locks(p, s) /\ Refers(p, s) /\ Locks(p, s)' /\ Refers(p, s)'
      /\ ~Reads(p, s)'
  BY DEF Fills, Reads, Locks, Refers
<1>2. \A q \in Procs \ {p} : ~Locks(q, s) /\ ~Reads(q, s)
  BY <1>1, Implied DEF IInv, SlotOK
<1>3. /\ inode[s] \in EntryState /\ inode[s].hashed /\ inode[s].number \in Ino
  BY <1>1, RefHere DEF IInv, Shape, SlotOK
<1>4. dinode[inode[s].number] \in [mode : Modes, nlink : 0..MAXLINK]
  BY <1>3 DEF IInv, Shape
<1>5. /\ inode'[s].hashed /\ inode'[s].number = inode[s].number
      /\ Val(s)' = dinode[inode[s].number]
  BY <1>3, <1>4 DEF Fills, EntryState, Val
<1>6. /\ \A q \in Procs \ {p} : ref'[q] = ref[q] /\ (q \in locked' <=> q \in locked)
      /\ \A t \in Slot \ {s} :
            /\ inode'[t].number = inode[t].number
            /\ Val(t)' = Val(t)
            /\ \A n \in Ino : InCore(t, n)' <=> InCore(t, n)
  BY <1>1, <1>2, <1>5, OthersSee
<1>7. file' = file
  BY <1>1, <1>5, <1>6, FileSeen
<1>8. ASSUME NEW n \in Ino PROVE ilist'[n] = ilist[n]
  <2>1. Here(s, n) = dinode[n]
    BY <1>1 DEF Here, InCore
  <2>2. Here(s, n)' = dinode[n]
    <3>1. InCore(s, n)' => Val(s)' = dinode[n]
      BY <1>5 DEF InCore
    <3>2. QED
      BY <1>1, <3>1 DEF Here
  <2>3. QED
    BY <1>6, <2>1, <2>2, SlotDecides
<1>9. ilist' = ilist
  BY <1>8, Views
<1>10. ref'[p] = ref[p] /\ p \in locked /\ p \in locked'
  BY <1>1, <1>5, OwnSees
<1>11. ref' = ref /\ locked' = locked
  BY <1>6, <1>10, OnlyOwn
<1>12. QED
  BY <1>7, <1>9, <1>11 DEF List!vars

(* An inode could not be read: nobody has seen that it was in core. *)
LEMMA DropsMaps ==
    ASSUME IInv, IInv', NEW p \in Procs, NEW s \in Slot, Drops(p, s)
    PROVE  p \in locked /\ List!Put(p)
<1>1. /\ Touches(p, s) /\ dinode' = dinode /\ f_inode' = f_inode
      /\ Reads(p, s) /\ Locks(p, s) /\ Refers(p, s) /\ ~Locks(p, s)' /\ ~Refers(p, s)'
  BY DEF Drops, Reads, Locks, Refers
<1>2. inode[s].count = 1
  BY <1>1 DEF IInv, ProcOK, Alone, Reads, Entry
<1>3. f_inode # s /\ \A q \in Procs \ {p} : ~Refers(q, s) /\ ~Locks(q, s)
  BY <1>1, <1>2, CountSays DEF IInv, Locks
<1>4. /\ \A q \in Procs \ {p} : ref'[q] = ref[q] /\ (q \in locked' <=> q \in locked)
      /\ \A t \in Slot \ {s} :
            /\ inode'[t].number = inode[t].number
            /\ Val(t)' = Val(t)
            /\ \A n \in Ino : InCore(t, n)' <=> InCore(t, n)
  BY <1>1, <1>3, OthersSee
<1>5. file' = file
  BY <1>1, <1>3, <1>4, FileSeen
<1>6. ASSUME NEW n \in Ino PROVE ilist'[n] = ilist[n]
  <2>1. Here(s, n) = dinode[n]
    BY <1>1 DEF Here, InCore
  <2>2. Here(s, n)' = dinode[n]
    <3>1. ~InCore(s, n)'
      BY DEF InCore, Drops, Vacant
    <3>2. QED
      BY <1>1, <3>1 DEF Here
  <2>3. QED
    BY <1>4, <2>1, <2>2, SlotDecides
<1>7. ilist' = ilist
  BY <1>6, Views
<1>8. ref'[p] = 0 /\ p \in locked /\ p \notin locked'
  BY <1>1, OwnSees
<1>9. ref' = [ref EXCEPT ![p] = 0] /\ locked' = locked \ {p}
  BY <1>4, <1>8, OnlyOwn
<1>10. QED
  BY <1>5, <1>7, <1>8, <1>9 DEF List!Put

LEMMA HandsMaps ==
    ASSUME IInv, IInv', NEW p \in Procs, NEW s \in Slot, Hands(p, s)
    PROVE  List!Open(p) \/ List!Close(p)
<1>1. /\ Touches(p, s) /\ dinode' = dinode /\ inode' = inode
      /\ ~Locks(p, s) /\ ~Locks(p, s)' /\ ~Reads(p, s) /\ ~Reads(p, s)'
      /\ Refers(p, s) \/ Refers(p, s)'
  BY DEF Hands, Locks, Refers, Reads
<1>2. Same(s) /\ Val(s)' = Val(s)
  <2>1. inode[s] = [inode[s] EXCEPT !.iwant = inode[s].iwant] /\ inode[s].iwant \in BOOLEAN
    BY DEF IInv, Shape, EntryState
  <2>2. QED
    BY <1>1, <2>1 DEF Same, Val
<1>3. /\ ilist' = ilist
      /\ \A q \in Procs \ {p} : ref'[q] = ref[q] /\ (q \in locked' <=> q \in locked)
  BY <1>1, <1>2, AsSeen
<1>4. p \notin locked /\ p \notin locked'
  BY <1>1, OwnSees
<1>5. locked' = locked /\ s # None
  BY <1>3, <1>4, OnlyOwn DEF Slot, None
<1>6. CASE Refers(p, s) /\ ~Refers(p, s)' /\ f_inode = None /\ f_inode' = s
  <2>1. ref[p] = inode[s].number /\ ref[p] \in Ino /\ ref'[p] = 0
    BY <1>1, <1>6, OwnSees
  <2>2. file = 0 /\ file' = ref[p]
    BY <1>1, <1>5, <1>6, <2>1 DEF file
  <2>3. ref' = [ref EXCEPT ![p] = 0]
    BY <1>3, <2>1, OnlyOwn
  <2>4. QED
    BY <1>3, <1>4, <1>5, <2>1, <2>2, <2>3 DEF List!Open, Ino
<1>7. CASE ~Refers(p, s) /\ Refers(p, s)' /\ f_inode = s /\ f_inode' = None
  <2>1. ref[p] = 0 /\ ref'[p] = inode[s].number /\ ref'[p] \in Ino
    BY <1>1, <1>7, OwnSees
  <2>2. file = ref'[p] /\ file' = 0
    BY <1>1, <1>5, <1>7, <2>1 DEF file
  <2>3. ref' = [ref EXCEPT ![p] = ref'[p]]
    BY <1>3, <2>1, OnlyOwn
  <2>4. QED
    BY <1>3, <1>5, <2>1, <2>2, <2>3 DEF List!Close, Ino
<1>8. QED
  BY <1>6, <1>7 DEF Hands

LEMMA QuietMaps ==
    ASSUME IInv, IInv', NEW p \in Procs, Quiet(p)
    PROVE  UNCHANGED List!vars
<1>1. 1 \in Slot /\ Touches(p, 1)
  BY TableAssumption DEF Slot, Quiet, Touches
<1>2. \A t \in Slot : /\ Same(t) /\ inode'[t].number = inode[t].number
                      /\ (inode'[t].hashed <=> inode[t].hashed)
                      /\ Val(t)' = Val(t)
                      /\ Refers(p, t)' <=> Refers(p, t)
                      /\ Locks(p, t)' <=> Locks(p, t)
                      /\ Reads(p, t)' <=> Reads(p, t)
  BY SameFields DEF Quiet, AsBefore, Val, IInv, Shape
<1>3. /\ ilist' = ilist /\ file' = file
      /\ \A q \in Procs \ {p} : ref'[q] = ref[q] /\ (q \in locked' <=> q \in locked)
  BY <1>1, <1>2, AsSeen DEF Quiet
<1>4. p \in locked' <=> p \in locked
  BY <1>2, RefHere, RefThere
<1>5. ref'[p] = ref[p]
  <2>1. CASE \E t \in Slot : Refers(p, t)
    BY <1>2, <2>1, RefHere, RefThere
  <2>2. CASE \A t \in Slot : ~Refers(p, t)
    BY <1>2, <2>2, RefHere, RefThere
  <2>3. QED
    BY <2>1, <2>2
<1>6. ref' = ref /\ locked' = locked
  BY <1>3, <1>4, <1>5, OnlyOwn
<1>7. QED
  BY <1>3, <1>6 DEF List!vars

(* What iflush takes from the hash chains is in its block. *)
LEMMA IflushMaps ==
    ASSUME IInv, IInv', NEW k \in Slot, Iflush(k)
    PROVE  UNCHANGED List!vars
<1>1. /\ \A s \in Slot : inode[s].count # 0 => inode'[s] = inode[s]
      /\ \A s \in Slot : inode'[s] = inode[s] \/ (inode[s].count = 0 /\ ~inode'[s].hashed)
  BY IflushKeeps
<1>2. UNCHANGED <<dinode, proc, f_inode>>
  BY DEF Iflush
<1>3. \A p \in Procs, s \in Slot : /\ Refers(p, s)' <=> Refers(p, s)
                                   /\ Locks(p, s)' <=> Locks(p, s)
                                   /\ Reads(p, s)' <=> Reads(p, s)
  BY <1>2 DEF Refers, Locks, Reads
<1>4. \A s \in Slot : (f_inode = s \/ \E p \in Procs : Refers(p, s)) => inode'[s] = inode[s]
  BY <1>1, CountSays DEF IInv
<1>5. file' = file
  BY <1>2, <1>4, FileSeen
<1>6. ref' = ref /\ locked' = locked
  <2>1. ASSUME NEW p \in Procs PROVE ref'[p] = ref[p] /\ (p \in locked' <=> p \in locked)
    <3>1. CASE \E s \in Slot : Refers(p, s)
      BY <1>3, <1>4, <3>1, RefHere, RefThere
    <3>2. CASE \A s \in Slot : ~Refers(p, s)
      BY <1>3, <3>2, RefHere, RefThere
    <3>3. QED
      BY <3>1, <3>2
  <2>2. QED
    BY <2>1, Views
<1>7. ASSUME NEW n \in Ino PROVE ilist'[n] = ilist[n]
  <2>1. ASSUME NEW s \in Slot, InCore(s, n)' PROVE InCore(s, n) /\ Val(s)' = Val(s)
    <3>1. inode'[s] = inode[s]
      BY <1>1, <2>1 DEF InCore
    <3>2. QED
      BY <1>3, <2>1, <3>1 DEF InCore, Val
  <2>2. ASSUME NEW s \in Slot, InCore(s, n) PROVE InCore(s, n)' \/ ilist[n] = dinode[n]
    <3>1. CASE inode'[s] = inode[s]
      BY <1>3, <2>2, <3>1 DEF InCore
    <3>2. CASE inode[s].count = 0
      <4>1. SlotOK(s) /\ ~inode[s].changed
        BY <3>2 DEF IInv, SlotOK
      <4>2. dinode[n] = Val(s)
        BY <2>2, <4>1 DEF InCore, SlotOK, Val
      <4>3. QED
        BY <2>2, <4>2, ListHere
    <3>3. QED
      BY <1>1, <3>1, <3>2
  <2>3. CASE \E s \in Slot : InCore(s, n)'
    <3>1. PICK s \in Slot : InCore(s, n)'
      BY <2>3
    <3>2. InCore(s, n) /\ Val(s)' = Val(s)
      BY <2>1, <3>1
    <3>3. QED
      BY <3>1, <3>2, ListHere, ListThere
  <2>4. CASE \A s \in Slot : ~InCore(s, n)'
    <3>1. ilist'[n] = dinode[n]
      BY <1>2, <2>4, ListThere
    <3>2. ilist[n] = dinode[n]
      BY <2>2, <2>4, ListHere
    <3>3. QED
      BY <3>1, <3>2
  <2>5. QED
    BY <2>3, <2>4
<1>8. ilist' = ilist
  BY <1>7, Views
<1>9. QED
  BY <1>5, <1>6, <1>8 DEF List!vars

(* Who works on the inode he has locked is seen to change that inode only. *)
LEMMA WorksSeen ==
    ASSUME IInv, IInv', NEW p \in Procs, NEW s \in Slot, Works(p, s)
    PROVE  /\ p \in locked /\ ref[p] = inode[s].number /\ ref[p] \in Ino
           /\ ilist[ref[p]] = Val(s) /\ ilist' = [ilist EXCEPT ![ref[p]] = Val(s)']
           /\ UNCHANGED <<file, ref, locked>>
<1>1. /\ Touches(p, s) /\ f_inode' = f_inode
      /\ Locks(p, s) /\ Refers(p, s) /\ Locks(p, s)' /\ Refers(p, s)'
      /\ ~Reads(p, s) /\ ~Reads(p, s)'
      /\ inode'[s].number = inode[s].number /\ inode'[s].hashed
  BY DEF Works, Locks
<1>2. \A q \in Procs \ {p} : ~Locks(q, s) /\ ~Reads(q, s)
  BY <1>1, Implied DEF IInv, SlotOK
<1>3. /\ \A q \in Procs \ {p} : ref'[q] = ref[q] /\ (q \in locked' <=> q \in locked)
      /\ \A q \in Procs \ {p} : Reads(q, s)' <=> Reads(q, s)
      /\ \A t \in Slot \ {s} :
            /\ inode'[t].number = inode[t].number
            /\ Val(t)' = Val(t)
            /\ \A n \in Ino : InCore(t, n)' <=> InCore(t, n)
  BY <1>1, <1>2, OthersSee
<1>4. file' = file
  BY <1>1, <1>3, FileSeen
<1>5. /\ ref[p] = inode[s].number /\ ref[p] \in Ino /\ ref'[p] = ref[p]
      /\ p \in locked /\ p \in locked' /\ inode[s].hashed
  BY <1>1, OwnSees, RefHere
<1>6. ref' = ref /\ locked' = locked
  BY <1>3, <1>5, OnlyOwn
<1>7. ilist[ref[p]] = Val(s) /\ ilist'[ref[p]] = Val(s)'
  <2>1. InCore(s, ref[p]) /\ InCore(s, ref[p])'
    BY <1>1, <1>2, <1>3, <1>5, <1>6 DEF InCore
  <2>2. QED
    BY <1>5, <1>6, <2>1, ListHere, ListThere
<1>8. ASSUME NEW n \in Ino, n # ref[p] PROVE ilist'[n] = ilist[n]
  <2>1. ~InCore(s, n) /\ ~InCore(s, n)'
    BY <1>1, <1>5, <1>8 DEF InCore
  <2>2. dinode'[n] = dinode[n]
    BY <1>5, <1>8 DEF Works, IInv, Shape
  <2>3. Here(s, n)' = Here(s, n)
    BY <2>1, <2>2 DEF Here
  <2>4. QED
    BY <1>3, <2>3, SlotDecides
<1>9. ilist' = [ilist EXCEPT ![ref[p]] = Val(s)']
  <2>1. \A n \in Ino : ilist'[n] = [ilist EXCEPT ![ref[p]] = Val(s)'][n]
    BY <1>7, <1>8, Views
  <2>2. QED
    BY <2>1, Views
<1>10. QED
  BY <1>4, <1>5, <1>6, <1>7, <1>9

(* Links come and go, and what is written is what was seen.                *)
LEMMA WorksMaps ==
    ASSUME IInv, IInv', NEW p \in Procs, NEW s \in Slot, Works(p, s),
           inode'[s].mode = inode[s].mode
    PROVE  p \in locked /\ List!Change(p)
<1>1. /\ p \in locked /\ ref[p] \in Ino
      /\ ilist[ref[p]] = Val(s) /\ ilist' = [ilist EXCEPT ![ref[p]] = Val(s)']
      /\ UNCHANGED <<file, ref, locked>>
  BY WorksSeen
<1>2. inode'[s].nlink \in 0..MAXLINK
  BY DEF IInv, Shape, EntryState
<1>3. Val(s)' = [Val(s) EXCEPT !.nlink = inode'[s].nlink]
  BY DEF Val
<1>4. ilist' = [ilist EXCEPT ![ref[p]].nlink = inode'[s].nlink]
  BY <1>1, <1>3
<1>5. QED
  BY <1>1, <1>2, <1>4 DEF List!Change

LEMMA AllocationMaps ==
    ASSUME IInv, IInv', NEW p \in Procs, AllocChecks(p), Entry(p).mode = "free"
    PROVE  p \in locked /\ List!Allocate(p)
<1>1. PICK s \in Slot : s = proc[p].ip /\ Works(p, s)
  BY AllocatingWorks
<1>2. /\ p \in locked /\ ref[p] \in Ino
      /\ ilist[ref[p]] = Val(s) /\ ilist' = [ilist EXCEPT ![ref[p]] = Val(s)']
      /\ UNCHANGED <<file, ref, locked>>
  BY <1>1, WorksSeen
<1>3. inode[s].mode = "free"
  BY <1>1 DEF Entry
<1>4. inode'[s].mode = "file" /\ inode'[s].nlink = 1
  <2> DEFINE e == [inode[s] EXCEPT !.mode = "file", !.nlink = 1, !.changed = TRUE]
  <2>1. inode \in [Slot -> EntryState]
    BY Types
  <2>2. e.mode = "file" /\ e.nlink = 1
    BY <2>1 DEF EntryState
  <2>3. inode' = [inode EXCEPT ![s] = e]
    BY <1>1, <1>3 DEF AllocChecks, Entry
  <2> HIDE DEF e
  <2>4. QED
    BY <2>1, <2>2, <2>3
<1>5. QED
  BY <1>2, <1>3, <1>4 DEF List!Allocate, Val

(* s5ifree: a file without links that nobody else refers to. *)
LEMMA FreeingMaps ==
    ASSUME IInv, IInv', NEW p \in Procs, FreeLocks(p)
    PROVE  p \in locked /\ List!Deallocate(p)
<1>1. PICK s \in Slot : s = proc[p].ip /\ Works(p, s)
  BY FreeingWorks
<1>2. /\ p \in locked /\ ref[p] \in Ino /\ ref[p] = inode[s].number
      /\ ilist[ref[p]] = Val(s) /\ ilist' = [ilist EXCEPT ![ref[p]] = Val(s)']
      /\ UNCHANGED <<file, ref, locked>>
  BY <1>1, WorksSeen
<1>3. inode[s].count = 1 /\ inode[s].mode = "file" /\ inode[s].nlink = 0
  BY <1>1 DEF FreeLocks, At, IInv, ProcOK, Alone, Entry
<1>4. inode'[s].mode = "free" /\ inode'[s].nlink = 0
  <2>1. inode \in [Slot -> EntryState]
    BY Types
  <2>2. QED
    BY <1>1, <1>3, <2>1 DEF FreeLocks, EntryState
<1>5. Refers(p, s) /\ inode[s].hashed
  BY <1>1, RefHere DEF Works, Locks
<1>6. f_inode # s /\ \A q \in Procs \ {p} : ~Refers(q, s)
  BY <1>3, <1>5, CountSays DEF IInv
<1>7. ASSUME NEW q \in Procs \ {p} PROVE ref[q] # ref[p]
  <2>1. CASE \E t \in Slot : Refers(q, t)
    BY <1>2, <1>5, <1>6, <2>1, RefHere DEF IInv, OneInode
  <2>2. CASE \A t \in Slot : ~Refers(q, t)
    BY <1>2, <2>2, RefHere DEF Ino
  <2>3. QED
    BY <2>1, <2>2
<1>8. file # ref[p]
  <2>1. CASE f_inode = None
    BY <1>2, <2>1 DEF file, Ino
  <2>2. CASE f_inode # None
    <3>1. f_inode \in Slot
      BY <2>2 DEF IInv, Shape
    <3>2. inode[f_inode].hashed
      BY <3>1, Referenced DEF IInv
    <3>3. inode[f_inode].number # inode[s].number
      BY <1>5, <1>6, <3>1, <3>2 DEF IInv, OneInode
    <3>4. QED
      BY <1>2, <2>2, <3>3 DEF file
  <2>3. QED
    BY <2>1, <2>2
<1>9. Val(s) = [mode |-> "file", nlink |-> 0] /\ Val(s)' = [Val(s) EXCEPT !.mode = "free"]
  BY <1>3, <1>4 DEF Val
<1>10. ilist' = [ilist EXCEPT ![ref[p]].mode = "free"]
  BY <1>2, <1>9
<1>11. QED
  BY <1>2, <1>7, <1>8, <1>9, <1>10 DEF List!Deallocate
--------------------------------------------------------------------------------
(* The actions, as steps of the list. *)

(* The mode of an inode changes when it is allocated or freed, and never   *)
(* else.                                                                   *)
LEMMA ModeKept ==
    ASSUME IInv, NEW p \in Procs, NEW s \in Slot, s = proc[p].ip,
           \/ Link(p) \/ Linked(p) \/ Unlink(p) \/ Allocated(p)
           \/ Updates(p, "sync", "iput") \/ Updates(p, "update", "put") \/ Updates(p, "ataken", "iput")
           \/ IputTruncates(p) \/ Truncated(p) \/ IputFreed(p) \/ Freed(p)
    PROVE  inode'[s].mode = inode[s].mode
<1>1. inode \in [Slot -> EntryState] /\ inode[s] \in EntryState
  BY Types
<1>2. CASE Link(p) \/ Unlink(p)
  BY <1>1, <1>2 DEF Link, Unlink, EntryState
<1>3. CASE Truncated(p)
  BY <1>3 DEF Truncated, table
<1>4. CASE \/ Linked(p) \/ Allocated(p) \/ IputTruncates(p) \/ IputFreed(p) \/ Freed(p)
           \/ Updates(p, "sync", "iput") \/ Updates(p, "update", "put") \/ Updates(p, "ataken", "iput")
  <2>1. \E c \in BOOLEAN : inode' = [inode EXCEPT ![s].changed = c]
    BY <1>4 DEF Linked, Allocated, IputTruncates, IputFreed, Freed, Updates
  <2>2. QED
    BY <1>1, <2>1 DEF EntryState
<1>5. QED
  BY <1>2, <1>3, <1>4

LEMMA LookupMaps ==
    ASSUME IInv, IInv', NEW p \in Procs, Lookup(p)
    PROVE  UNCHANGED List!vars \/ List!Get(p) \/ (p \in locked /\ List!Put(p))
<1>1. CASE \E n \in Ino : IgetBusy(p, n) \/ IgetOverflow(p, n)
  BY <1>1, IgetMoves, QuietMaps
<1>2. CASE \E n \in Ino : IgetFound(p, n)
  BY <1>2, FoundTakes, TakesMaps
<1>3. CASE \E n \in Ino : IgetReads(p, n)
  BY <1>3, ReadsFetch, FetchesMaps
<1>4. CASE Iread(p)
  BY <1>4, ReadFills, FillsMaps
<1>5. CASE IreadFails(p)
  BY <1>5, FailureDrops, DropsMaps
<1>6. QED
  BY <1>1, <1>2, <1>3, <1>4, <1>5 DEF Lookup

LEMMA UseMaps ==
    ASSUME IInv, IInv', NEW p \in Procs, Use(p)
    PROVE  \/ UNCHANGED List!vars
           \/ List!Get(p) \/ List!Lock(p) \/ List!Open(p) \/ List!Close(p)
           \/ p \in locked /\ (List!Unlock(p) \/ List!Change(p))
<1>1. CASE PlockWaits(p)
  BY <1>1, HolderMoves, QuietMaps
<1>2. CASE PlockLocks(p)
  BY <1>2, PlockRelocks, UnlocksMaps
<1>3. CASE Prele(p)
  BY <1>3, PreleUnlocks, UnlocksMaps
<1>4. CASE Open(p) \/ Closef(p)
  BY <1>4, OpenHands, HandsMaps
<1>5. CASE Sync(p)
  BY <1>5, SyncTakes, TakesMaps
<1>6. CASE Link(p) \/ Linked(p) \/ Unlink(p)
  <2>1. PICK s \in Slot : s = proc[p].ip /\ Works(p, s)
    BY <1>6, LinksWork
  <2>2. QED
    BY <1>6, <2>1, ModeKept, WorksMaps
<1>7. CASE Updates(p, "sync", "iput")
  <2>1. PICK s \in Slot : s = proc[p].ip /\ Works(p, s)
    BY <1>7, UpdatesWork
  <2>2. QED
    BY <1>7, <2>1, ModeKept, WorksMaps
<1>8. QED
  BY <1>1, <1>2, <1>3, <1>4, <1>5, <1>6, <1>7 DEF Use

LEMMA IputMaps ==
    ASSUME IInv, IInv', NEW p \in Procs, Iput(p)
    PROVE  \/ UNCHANGED List!vars
           \/ p \in locked /\ (List!Put(p) \/ List!Change(p) \/ (FreeLocks(p) /\ List!Deallocate(p)))
<1>1. CASE IputShared(p) \/ IputFrees(p)
  BY <1>1, IputPuts, PutsMaps
<1>2. CASE IputUpdates(p) \/ FreeWaits(p)
  BY <1>2, HolderMoves, QuietMaps
<1>3. CASE FreeLocks(p)
  BY <1>3, FreeingMaps
<1>4. CASE \/ IputTruncates(p) \/ Truncated(p) \/ IputFreed(p) \/ Freed(p)
           \/ Updates(p, "update", "put")
  <2>1. PICK s \in Slot : s = proc[p].ip /\ Works(p, s)
    BY <1>4, TruncatesWork, FreeingWorks, UpdatesWork
  <2>2. QED
    BY <1>4, <2>1, ModeKept, WorksMaps
<1>5. QED
  BY <1>1, <1>2, <1>3, <1>4 DEF Iput

LEMMA IallocMaps ==
    ASSUME IInv, IInv', NEW p \in Procs, Ialloc(p)
    PROVE  \/ UNCHANGED List!vars
           \/ p \in locked /\ List!Change(p)
           \/ AllocChecks(p) /\ Entry(p).mode = "free" /\ p \in locked /\ List!Allocate(p)
<1>1. CASE AllocWaits(p) \/ AllocLocks(p) \/ AllocPops(p) \/ AllocScans(p)
  BY <1>1, AllocMoves, QuietMaps
<1>2. CASE ScanBlock(p) \/ ScanFails(p) \/ ScanEnds(p) \/ NoSpace(p)
  BY <1>2, ScanMoves, QuietMaps
<1>3. CASE AllocChecks(p) /\ Entry(p).mode # "free"
  BY <1>3, HolderMoves, QuietMaps
<1>4. CASE AllocChecks(p) /\ Entry(p).mode = "free"
  BY <1>4, AllocationMaps
<1>5. CASE Allocated(p) \/ Updates(p, "ataken", "iput")
  <2>1. PICK s \in Slot : s = proc[p].ip /\ Works(p, s)
    BY <1>5, AllocatingWorks, UpdatesWork
  <2>2. QED
    BY <1>5, <2>1, ModeKept, WorksMaps
<1>6. QED
  BY <1>1, <1>2, <1>3, <1>4, <1>5 DEF Ialloc

LEMMA StepMaps == ASSUME IInv, IInv', [Next]_vars PROVE [List!Next]_(List!vars)
<1>1. locked \subseteq Procs
  BY Views
<1>2. CASE \E p \in Procs : Lookup(p) \/ Use(p) \/ Iput(p) \/ Ialloc(p)
  <2>1. PICK p \in Procs : Lookup(p) \/ Use(p) \/ Iput(p) \/ Ialloc(p)
    BY <1>2
  <2>2. \/ UNCHANGED List!vars
        \/ List!Get(p) \/ List!Lock(p) \/ List!Open(p) \/ List!Close(p)
        \/ p \in locked /\ (\/ List!Unlock(p) \/ List!Put(p) \/ List!Change(p)
                              \/ List!Allocate(p) \/ List!Deallocate(p))
    BY <2>1, LookupMaps, UseMaps, IputMaps, IallocMaps
  <2>3. QED
    BY <2>2 DEF List!Next
<1>3. CASE \E k \in Slot : Iflush(k)
  BY <1>3, IflushMaps
<1>4. CASE UNCHANGED vars
  BY <1>4 DEF vars, table, fs, super, List!vars, ilist, file, ref, locked, Newest, Cached,
              Refers, Locks, Entry
<1>5. QED
  BY <1>2, <1>3, <1>4 DEF Next

(* Those who use the inodes cannot tell the table from a list of inodes    *)
(* with a lock each: no change is lost when an entry is reused or flushed  *)
(* (iget and iflush, os/iget.c), and no file is freed while somebody has   *)
(* a reference to it (iput).                                               *)
THEOREM ListImplemented == Spec => ImplementsInodeList
<1>1. Init => List!Init
  <2> SUFFICES ASSUME Init PROVE List!Init
    OBVIOUS
  <2>1. IInv
    BY InitHolds
  <2>2. \A p \in Procs, s \in Slot : ~Refers(p, s) /\ ~Locks(p, s)
    BY DEF Init, Idle, Refers, Locks, Slot, None
  <2>3. \A n \in Ino : ilist[n] = [mode |-> "free", nlink |-> 0]
    <3>1. \A s \in Slot : ~inode[s].hashed
      BY DEF Init, Vacant
    <3>2. \A n \in Ino : ilist[n] = dinode[n]
      BY <2>1, <3>1, ListHere DEF InCore
    <3>3. QED
      BY <3>2 DEF Init, FreeInode
  <2>4. \A p \in Procs : ref[p] = 0 /\ p \notin locked
    BY <2>1, <2>2, RefHere
  <2>5. file = 0
    BY DEF Init, file
  <2>6. QED
    BY <2>3, <2>4, <2>5, Views DEF List!Init
<1>2. IInv /\ IInv' /\ [Next]_vars => [List!Next]_(List!vars)
  BY StepMaps
<1>3. QED
  BY <1>1, <1>2, Invariance, PTL DEF Spec, ImplementsInodeList, List!Spec
--------------------------------------------------------------------------------
(* The number of free inodes in the super block. *)

FreeSet == {n \in Ino : ilist[n].mode = "free"}
Owed == IF \E p \in Procs : proc[p].pc = "fupdate" THEN 1 ELSE 0

(* s_tinode never counts an inode that is not free; s5ifree counts it      *)
(* after it has freed it.                                                  *)
CountInv == s_tinode + Owed <= Cardinality(FreeSet)

LEMMA FreeSetFinite ==
    /\ IsFiniteSet(FreeSet) /\ Cardinality(FreeSet) \in Nat /\ Cardinality(FreeSet) <= NIno
    /\ IsFiniteSet(FreeSet') /\ Cardinality(FreeSet') \in Nat
<1>1. IsFiniteSet(Ino) /\ Cardinality(Ino) = NIno
  BY TableAssumption, FS_Interval DEF Ino
<1>2. FreeSet \subseteq Ino /\ FreeSet' \subseteq Ino
  BY DEF FreeSet
<1>3. QED
  BY <1>1, <1>2, FS_Subset, FS_CardinalityType

LEMMA ListTyped == ASSUME IInv, NEW n \in Ino PROVE ilist[n] \in [mode : Modes, nlink : 0..MAXLINK]
<1>1. CASE \E s \in Slot : InCore(s, n)
  <2>1. PICK s \in Slot : InCore(s, n)
    BY <1>1
  <2>2. ilist[n] = Val(s) /\ inode[s] \in EntryState
    BY <2>1, ListHere, Types
  <2>3. QED
    BY <2>2 DEF Val, EntryState
<1>2. CASE \A s \in Slot : ~InCore(s, n)
  BY <1>2, ListHere DEF IInv, Shape
<1>3. QED
  BY <1>1, <1>2

(* What a step of the list does to the free inodes. *)
LEMMA FreeSetSteps ==
    ASSUME IInv, NEW p \in Procs
    PROVE  /\ ilist' = ilist => FreeSet' = FreeSet
           /\ p \in locked /\ List!Change(p) => FreeSet' = FreeSet
           /\ p \in locked /\ List!Allocate(p) =>
                FreeSet' = FreeSet \ {ref[p]} /\ ref[p] \in FreeSet
           /\ p \in locked /\ List!Deallocate(p) =>
                FreeSet' = FreeSet \cup {ref[p]} /\ ref[p] \notin FreeSet
<1>1. \A n \in Ino : ilist[n] \in [mode : Modes, nlink : 0..MAXLINK]
  BY ListTyped
<1>2. p \in locked => ref[p] \in Ino
  BY RefHere DEF Locks
<1>3. ilist' = ilist => FreeSet' = FreeSet
  BY DEF FreeSet
<1>4. ASSUME p \in locked, List!Change(p) PROVE FreeSet' = FreeSet
  <2>1. PICK k \in 0..MAXLINK : ilist' = [ilist EXCEPT ![ref[p]].nlink = k]
    BY <1>4 DEF List!Change
  <2>2. \A n \in Ino : ilist'[n].mode = ilist[n].mode
    BY <1>1, <2>1, Views
  <2>3. QED
    BY <2>2 DEF FreeSet
<1>5. ASSUME p \in locked, List!Allocate(p)
      PROVE  FreeSet' = FreeSet \ {ref[p]} /\ ref[p] \in FreeSet
  <2>1. /\ ilist[ref[p]].mode = "free"
        /\ ilist' = [ilist EXCEPT ![ref[p]] = [mode |-> "file", nlink |-> 1]]
    BY <1>5 DEF List!Allocate
  <2>2. /\ \A n \in Ino \ {ref[p]} : ilist'[n].mode = ilist[n].mode
        /\ ilist'[ref[p]].mode = "file"
    BY <1>2, <1>5, <2>1, Views
  <2>3. QED
    BY <1>2, <1>5, <2>1, <2>2 DEF FreeSet
<1>6. ASSUME p \in locked, List!Deallocate(p)
      PROVE  FreeSet' = FreeSet \cup {ref[p]} /\ ref[p] \notin FreeSet
  <2>1. /\ ilist[ref[p]] = [mode |-> "file", nlink |-> 0]
        /\ ilist' = [ilist EXCEPT ![ref[p]].mode = "free"]
    BY <1>6 DEF List!Deallocate
  <2>2. /\ \A n \in Ino \ {ref[p]} : ilist'[n].mode = ilist[n].mode
        /\ ilist'[ref[p]].mode = "free"
    BY <1>1, <1>2, <1>6, <2>1, Views
  <2>3. QED
    BY <1>2, <1>6, <2>1, <2>2 DEF FreeSet
<1>7. QED
  BY <1>3, <1>4, <1>5, <1>6

LEMMA CountStep ==
    ASSUME IInv, IInv', AllocInv, CountInv,
           NEW p \in Procs, Lookup(p) \/ Use(p) \/ Iput(p) \/ Ialloc(p)
    PROVE  CountInv'
<1>1. /\ Cardinality(FreeSet) \in Nat /\ Cardinality(FreeSet') \in Nat /\ IsFiniteSet(FreeSet)
      /\ s_tinode \in Nat /\ s_tinode' \in Nat /\ Owed \in 0..1 /\ Owed' \in 0..1
      /\ s_tinode + Owed <= Cardinality(FreeSet)
  BY FreeSetFinite DEF IInv, Shape, CountInv, Owed
<1>2. SUFFICES s_tinode' + Owed' <= Cardinality(FreeSet')
  BY DEF CountInv
<1>3. \A q \in Procs \ {p} : proc'[q].pc = "fupdate" <=> proc[q].pc = "fupdate"
  <2>1. \A q \in Procs \ {p} : Woke(proc[q], proc'[q])
    BY OthersStep DEF Others
  <2>2. ASSUME NEW x \in ProcState, NEW y, Woke(x, y)
        PROVE  y.pc = "fupdate" <=> x.pc = "fupdate"
    BY <2>2 DEF Woke, ProcState
  <2>3. \A q \in Procs : proc[q] \in ProcState
    BY Types
  <2>4. QED
    BY <2>1, <2>2, <2>3
<1>4. \A q \in Procs : proc[q].pc = "fupdate" => Allocs(q)
  BY DEF Allocs
<1>5. CASE FreeLocks(p)
  <2>1. p \in locked /\ List!Deallocate(p)
    BY <1>5, FreeingMaps
  <2>2. FreeSet' = FreeSet \cup {ref[p]} /\ ref[p] \notin FreeSet
    BY <2>1, FreeSetSteps
  <2>3. Cardinality(FreeSet') = Cardinality(FreeSet) + 1
    BY <1>1, <2>2, FS_AddElement
  <2>4. s_tinode' = s_tinode
    BY <1>5 DEF FreeLocks
  <2>5. Owed = 0
    BY <1>4, <1>5 DEF FreeLocks, AllocInv, OneAllocates, Owed
  <2>6. QED
    BY <1>1, <2>3, <2>4, <2>5
<1>6. CASE Freed(p)
  <2>1. /\ proc[p].pc = "fupdate" /\ s_tinode' = s_tinode + 1
        /\ proc'[p].pc # "fupdate"
    <3>1. Iput(p) /\ ~FreeLocks(p)
      BY <1>6 DEF Iput, Freed, FreeLocks, At
    <3>2. QED
      BY <1>6, <3>1, IputPasses DEF Freed, At
  <2>2. Owed = 1 /\ Owed' = 0
    BY <1>3, <1>4, <2>1 DEF AllocInv, OneAllocates, Owed
  <2>3. p \in locked /\ List!Change(p)
    <3>1. PICK s \in Slot : s = proc[p].ip /\ Works(p, s)
      BY <1>6, FreeingWorks
    <3>2. QED
      BY <1>6, <3>1, ModeKept, WorksMaps
  <2>4. FreeSet' = FreeSet
    BY <2>3, FreeSetSteps
  <2>5. QED
    BY <1>1, <2>1, <2>2, <2>4
<1>7. CASE AllocChecks(p) /\ Entry(p).mode = "free"
  <2>1. p \in locked /\ List!Allocate(p)
    BY <1>7, AllocationMaps
  <2>2. FreeSet' = FreeSet \ {ref[p]} /\ ref[p] \in FreeSet
    BY <2>1, FreeSetSteps
  <2>3. Cardinality(FreeSet') = Cardinality(FreeSet) - 1
    BY <1>1, <2>2, FS_RemoveElement
  <2>4. s_tinode' = IF s_tinode > 0 THEN s_tinode - 1 ELSE 0
    BY <1>7 DEF AllocChecks
  <2>5. proc[p].pc = "agot" /\ Allocs(p)
    BY <1>7 DEF AllocChecks, At, AllocInv, CallOK, Allocs
  <2>6. Ialloc(p)
    BY <1>7 DEF Ialloc
  <2>7. Owed' = 0
    BY <1>3, <1>4, <2>5, <2>6, IallocPasses DEF AllocInv, OneAllocates, Owed
  <2>8. QED
    BY <1>1, <2>3, <2>4, <2>7
<1>8. CASE ~FreeLocks(p) /\ ~Freed(p) /\ ~(AllocChecks(p) /\ Entry(p).mode = "free")
  <2>1. /\ proc[p].pc # "fupdate" /\ proc'[p].pc # "fupdate"
        /\ s_tinode' \in {s_tinode, 0}
    <3>1. CASE Lookup(p) \/ Use(p)
      BY <3>1, LookupPasses, UsePasses
    <3>2. CASE Iput(p)
      BY <1>8, <3>2, IputPasses
    <3>3. CASE Ialloc(p)
      BY <1>8, <3>3, IallocPasses
    <3>4. QED
      BY <3>1, <3>2, <3>3
  <2>2. Owed' = Owed
    BY <1>3, <2>1 DEF Owed
  <2>3. FreeSet' = FreeSet
    <3>1. \/ UNCHANGED List!vars
          \/ List!Get(p) \/ List!Lock(p) \/ List!Open(p) \/ List!Close(p)
          \/ p \in locked /\ (List!Unlock(p) \/ List!Put(p) \/ List!Change(p))
      BY <1>8, LookupMaps, UseMaps, IputMaps, IallocMaps
    <3>2. ilist' = ilist \/ (p \in locked /\ List!Change(p))
      BY <3>1 DEF List!vars, List!Get, List!Lock, List!Open, List!Close, List!Unlock, List!Put
    <3>3. QED
      BY <3>2, FreeSetSteps
  <2>4. QED
    BY <1>1, <2>1, <2>2, <2>3
<1>9. QED
  BY <1>5, <1>6, <1>7, <1>8

LEMMA CountKept == IInv /\ IInv' /\ AllocInv /\ CountInv /\ [Next]_vars => CountInv'
<1> SUFFICES ASSUME IInv, IInv', AllocInv, CountInv, [Next]_vars PROVE CountInv'
  OBVIOUS
<1>1. CASE \E k \in Slot : Iflush(k)
  <2>1. ilist' = ilist
    BY <1>1, IflushMaps DEF List!vars
  <2>2. proc' = proc /\ s_tinode' = s_tinode
    BY <1>1 DEF Iflush, super
  <2>3. QED
    BY <2>1, <2>2 DEF CountInv, Owed, FreeSet
<1>2. CASE UNCHANGED vars
  <2>1. proc' = proc /\ s_tinode' = s_tinode
    BY <1>2 DEF vars, fs, super
  <2>2. ilist' = ilist
    BY <1>2 DEF vars, table, fs, super, ilist, Newest, Cached, Refers
  <2>3. QED
    BY <2>1, <2>2 DEF CountInv, Owed, FreeSet
<1>3. QED
  BY <1>1, <1>2, CountStep DEF Next

LEMMA CountInit == Init => CountInv
<1> SUFFICES ASSUME Init PROVE CountInv
  OBVIOUS
<1>1. \A n \in Ino : ilist[n].mode = "free"
  <2>1. \A s \in Slot : ~inode[s].hashed
    BY DEF Init, Vacant
  <2>2. \A n \in Ino : ilist[n] = dinode[n]
    BY <2>1, InitHolds, ListHere DEF InCore
  <2>3. QED
    BY <2>2 DEF Init, FreeInode
<1>2. FreeSet = Ino
  BY <1>1 DEF FreeSet
<1>3. Cardinality(FreeSet) = NIno /\ NIno \in Nat
  BY <1>2, TableAssumption, FS_Interval DEF Ino
<1>4. s_tinode = NIno /\ Owed = 0
  BY DEF Init, Idle, Owed
<1>5. QED
  BY <1>3, <1>4 DEF CountInv

(* The types, among them that s_tinode is at most the number of inodes and *)
(* i_count at most one for each process and one for the open file.         *)
THEOREM TypeCorrect == Spec => []TypeOK
<1>1. ASSUME IInv, S5Inv, CountInv PROVE TypeOK
  <2>1. s5free \in 0..NS5INODE
    <3>1. {s \in Slot : inode[s].fsptr} \subseteq Slot /\ IsFiniteSet(Slot)
      BY TableAssumption, FS_Interval DEF Slot
    <3>2. Cardinality({s \in Slot : inode[s].fsptr}) \in Nat
      BY <3>1, FS_Subset, FS_CardinalityType
    <3>3. QED
      BY <1>1, <3>2, TableAssumption DEF S5Inv, S5Accounted
  <2>2. s_tinode \in 0..NIno
    <3>1. s_tinode \in Nat /\ Owed \in 0..1 /\ NIno \in Nat
      BY <1>1, TableAssumption DEF IInv, Shape, Owed
    <3>2. QED
      BY <1>1, <3>1, FreeSetFinite DEF CountInv
  <2>3. ASSUME NEW s \in Slot PROVE inode[s].count \in 0..(Cardinality(Procs) + 1)
    <3>1. /\ Cardinality(Refs(s)) <= Cardinality(Procs) /\ Cardinality(Refs(s)) \in Nat
          /\ Cardinality(Procs) \in Nat
      BY TableAssumption, FS_Subset, FS_CardinalityType DEF Refs
    <3>2. inode[s].count = Cardinality(Refs(s)) + One(f_inode = s)
      BY <1>1 DEF IInv, SlotOK
    <3>3. QED
      BY <3>1, <3>2 DEF One
  <2> DEFINE E == [number : 0..NIno, hashed : BOOLEAN, ilock : BOOLEAN,
                   iwant : BOOLEAN, count : 0..(Cardinality(Procs) + 1), changed : BOOLEAN,
                   fsptr : BOOLEAN, mode : {"free", "file"}, nlink : 0..MAXLINK]
  <2>4. inode \in [Slot -> E]
    <3>1. inode \in [Slot -> EntryState]
      BY <1>1, Types
    <3>2. ASSUME NEW e \in EntryState, e.count \in 0..(Cardinality(Procs) + 1) PROVE e \in E
      BY <3>2 DEF EntryState, Modes
    <3> HIDE DEF E
    <3>3. QED
      BY <2>3, <3>1, <3>2
  <2>5. QED
    BY <1>1, <2>1, <2>2, <2>4 DEF TypeOK, IInv, Shape, ProcState, Modes
<1>2. QED
  BY <1>1, Invariance, AllocInit, AllocStep, CountInit, CountKept, S5Always, PTL DEF Spec
-----------------------------------------------------------------------------
(***************************************************************************)
(* The list of free inodes in the super block: what it lists, and what is  *)
(* popped or not listed yet, is free, whichever process allocates, frees,  *)
(* writes or rebuilds the list.                                            *)
(***************************************************************************)

Scanning == \E p \in Procs : proc[p].pc = "scan"

(* The places that will be popped; while the list is rebuilt, those filled. *)
Places == IF Scanning THEN s_ninode..(NICINOD - 1) ELSE Live

(* p has the number of a free inode in hand: popped and not allocated yet, *)
(* or freed and not listed yet.                                            *)
Holds(p) ==
    \/ proc[p].pc = "fupdate"
    \/ proc[p].by = "ialloc" /\ proc[p].pc \in {"iget", "isleep", "iread", "agot"}

Number(p) == IF proc[p].pc \in {"iget", "isleep"} THEN proc[p].ino ELSE Entry(p).number

Fresh(n) == n \in FreeSet /\ \A i \in Places : s_inode[i] # n

(* s5iput, of an inode that "was allocated after all". *)
Releasing == {"ataken", "iput", "itrunc", "ifree", "fsleep", "update", "put"}

PlacesOK ==
    \A i \in Places : /\ s_inode[i] \in FreeSet
                      /\ \A j \in Places : s_inode[j] = s_inode[i] => j = i

HeldOK == \A p \in Procs : Holds(p) => Fresh(Number(p))

ScanOK == \A p \in Procs : proc[p].pc = "scan" => \A i \in Places : s_inode[i] < proc[p].ino

(* A block shows an inode as free that is not only while it is allocated.  *)
MediumOK ==
    \A n \in Ino \ FreeSet : dinode[n].mode = "free" =>
        \E p \in Procs : proc[p].pc = "aupdate" /\ Entry(p).number = n

Straight(p) == proc[p].by = "ialloc" => proc[p].pc \notin Releasing

ListInv == PlacesOK /\ HeldOK /\ ScanOK /\ MediumOK /\ \A p \in Procs : Straight(p)
--------------------------------------------------------------------------------
(* What a process keeps while another takes a step. *)
Steady(q) ==
    /\ proc'[q] \in ProcState /\ Woke(proc[q], proc'[q])
    /\ proc'[q].ino = proc[q].ino /\ proc'[q].by = proc[q].by
    /\ proc'[q].pc = "scan" <=> proc[q].pc = "scan"
    /\ Holds(q)' <=> Holds(q)
    /\ Holds(q) => Number(q)' = Number(q)
    /\ proc[q].pc = "aupdate" => proc'[q].pc = "aupdate" /\ Entry(q)'.number = Entry(q).number
    /\ Straight(q) => Straight(q)'

(* An entry that q has locked is not touched by others. *)
LEMMA LockedSame ==
    ASSUME IInv, NEW p \in Procs, NEW q \in Procs \ {p}, NEW t \in Slot, Locks(q, t),
           Quiet(p) \/ \E s \in Slot : Kinds(p, s)
    PROVE  Same(t)
<1>1. SlotOK(t) /\ inode[t].ilock /\ \A r \in Procs : Locks(r, t) => r = q
  BY DEF IInv, SlotOK
<1>2. inode[t].count # 0
  BY <1>1, Implied, Referenced DEF IInv
<1>3. inode[t] = [inode[t] EXCEPT !.iwant = inode[t].iwant] /\ inode[t].iwant \in BOOLEAN
  BY Types DEF EntryState
<1>4. CASE Quiet(p)
  BY <1>4 DEF Quiet, AsBefore
<1>5. ASSUME NEW s \in Slot, Kinds(p, s) PROVE Same(t)
  <2>1. CASE s # t
    <3>1. Touches(p, s)
      BY <1>5 DEF Kinds, Works, Takes, Puts, Unlocks, Relocks, Fetches, Fills, Drops, Hands
    <3>2. QED
      BY <2>1, <3>1 DEF Touches, AsBefore
  <2>2. CASE s = t
    <3>1. Locks(p, t) \/ inode[t].count = 0 \/ ~inode[t].ilock \/ Hands(p, t)
      BY <1>5, <2>2, Implied DEF Kinds, Works, Takes, Puts, Unlocks, Relocks, Fetches, Fills, Drops
    <3>2. Hands(p, t)
      BY <1>1, <1>2, <3>1
    <3>3. inode'[t] = inode[t]
      BY <3>2 DEF Hands
    <3>4. QED
      BY <1>3, <3>3 DEF Same
  <2>3. QED
    BY <2>1, <2>2
<1>6. QED
  BY <1>4, <1>5

LEMMA OthersSteady ==
    ASSUME IInv, IInv', NEW p \in Procs, Lookup(p) \/ Use(p) \/ Iput(p) \/ Ialloc(p)
    PROVE  \A q \in Procs \ {p} : Steady(q)
<1> SUFFICES ASSUME NEW q \in Procs \ {p} PROVE Steady(q)
  OBVIOUS
<1>1. Woke(proc[q], proc'[q]) /\ proc[q] \in ProcState /\ proc'[q] \in ProcState
  BY OthersStep, Types DEF Others, IInv, Shape
<1>2. /\ proc'[q].ino = proc[q].ino /\ proc'[q].by = proc[q].by
      /\ \/ proc'[q].pc = proc[q].pc /\ proc'[q].ip = proc[q].ip
         \/ proc[q].pc = "isleep" /\ proc'[q].pc = "iget"
         \/ proc[q].pc = "psleep" /\ proc'[q].pc = "plock" /\ proc'[q].ip = proc[q].ip
         \/ proc[q].pc = "asleep" /\ proc'[q].pc = "ialloc" /\ proc'[q].ip = proc[q].ip
         \/ proc[q].pc = "fsleep" /\ proc'[q].pc = "ifree" /\ proc'[q].ip = proc[q].ip
  BY <1>1 DEF Woke, ProcState
<1>3. ASSUME proc[q].pc \in {"iread", "agot", "aupdate", "fupdate"}
      PROVE  proc'[q].pc = proc[q].pc /\ proc'[q].ip = proc[q].ip
             /\ Entry(q)'.number = Entry(q).number
  <2>1. proc[q].pc \notin Idles /\ proc[q].pc \notin Waits
    BY <1>3 DEF Idles, Waits, NoInode
  <2>2. Locks(q, proc[q].ip) /\ proc[q].ip \in Slot
    BY <2>1, Holder
  <2>3. Same(proc[q].ip)
    BY <2>2, LockedSame, StepsHaveKinds
  <2>4. inode'[proc[q].ip].number = inode[proc[q].ip].number
    BY <2>2, <2>3, SameFields, Types
  <2>5. QED
    BY <1>2, <1>3, <2>4 DEF Entry
<1>4. Holds(q)' <=> Holds(q)
  BY <1>2 DEF Holds
<1>5. Holds(q) => Number(q)' = Number(q)
  BY <1>2, <1>3 DEF Holds, Number
<1>6. Straight(q) => Straight(q)'
  BY <1>2 DEF Straight, Releasing
<1>7. QED
  BY <1>1, <1>2, <1>3, <1>4, <1>5, <1>6 DEF Steady
--------------------------------------------------------------------------------
(* Which inodes become free, or are taken. *)
LEMMA FreeSetStep ==
    ASSUME IInv, IInv', NEW p \in Procs, Lookup(p) \/ Use(p) \/ Iput(p) \/ Ialloc(p)
    PROVE  /\ AllocChecks(p) /\ Entry(p).mode = "free" =>
                FreeSet' = FreeSet \ {Entry(p).number} /\ Entry(p).number \in FreeSet
           /\ FreeLocks(p) => FreeSet' = FreeSet \cup {Entry(p).number} /\ Entry(p).number \notin FreeSet
           /\ ~FreeLocks(p) /\ ~(AllocChecks(p) /\ Entry(p).mode = "free") => FreeSet' = FreeSet
<1>1. CASE FreeLocks(p)
  <2>1. p \in locked /\ List!Deallocate(p)
    BY <1>1, FreeingMaps
  <2>2. FreeSet' = FreeSet \cup {ref[p]} /\ ref[p] \notin FreeSet
    BY <2>1, FreeSetSteps
  <2>3. proc[p].pc = "ifree"
    BY <1>1 DEF FreeLocks, At
  <2>4. Refers(p, proc[p].ip) /\ proc[p].ip \in Slot
    BY <2>3, Holder DEF Idles, NoInode
  <2>5. ref[p] = Entry(p).number
    BY <2>4, RefHere DEF Entry
  <2>6. ~AllocChecks(p)
    BY <2>3 DEF AllocChecks, At
  <2>7. QED
    BY <1>1, <2>2, <2>5, <2>6
<1>2. CASE AllocChecks(p) /\ Entry(p).mode = "free"
  <2>1. p \in locked /\ List!Allocate(p)
    BY <1>2, AllocationMaps
  <2>2. FreeSet' = FreeSet \ {ref[p]} /\ ref[p] \in FreeSet
    BY <2>1, FreeSetSteps
  <2>3. proc[p].pc = "agot"
    BY <1>2 DEF AllocChecks, At
  <2>4. Refers(p, proc[p].ip) /\ proc[p].ip \in Slot
    BY <2>3, Holder DEF Idles, NoInode
  <2>5. ref[p] = Entry(p).number
    BY <2>4, RefHere DEF Entry
  <2>6. ~FreeLocks(p)
    BY <2>3 DEF FreeLocks, At
  <2>7. QED
    BY <1>2, <2>2, <2>5, <2>6
<1>3. CASE ~FreeLocks(p) /\ ~(AllocChecks(p) /\ Entry(p).mode = "free")
  <2>1. \/ UNCHANGED List!vars
        \/ List!Get(p) \/ List!Lock(p) \/ List!Open(p) \/ List!Close(p)
        \/ p \in locked /\ (List!Unlock(p) \/ List!Put(p) \/ List!Change(p))
    BY <1>3, LookupMaps, UseMaps, IputMaps, IallocMaps
  <2>2. ilist' = ilist \/ (p \in locked /\ List!Change(p))
    BY <2>1 DEF List!vars, List!Get, List!Lock, List!Open, List!Close, List!Unlock, List!Put
  <2>3. FreeSet' = FreeSet
    BY <2>2, FreeSetSteps
  <2>4. QED
    BY <1>3, <2>3
<1>4. QED
  BY <1>1, <1>2, <1>3

(* What happens to a process that is about to write its new inode.         *)
LEMMA UpdateEnds ==
    ASSUME IInv, NEW p \in Procs, Lookup(p) \/ Use(p) \/ Iput(p) \/ Ialloc(p),
           proc[p].pc = "aupdate"
    PROVE  Allocated(p)
<1>1. ~Lookup(p)
  BY DEF Lookup, IgetBusy, IgetFound, IgetReads, IgetOverflow, Iread, IreadFails, Seeks, At
<1>2. ~Use(p)
  BY DEF Use, PlockWaits, PlockLocks, Plocks, Prele, Link, Linked, Unlink, Open, Closef, Sync, Updates, At
<1>3. ~Iput(p)
  BY DEF Iput, IputShared, IputFrees, IputTruncates, Truncated, IputFreed, IputUpdates, LastRef, Iputs,
         Updates, FreeWaits, FreeLocks, Freed, At
<1>4. Ialloc(p) => Allocated(p)
  BY DEF Ialloc, AllocWaits, AllocLocks, Creates, AllocPops, AllocChecks, Updates, AllocScans,
         ScanBlock, ScanFails, ScanEnds, NoSpace, At
<1>5. QED
  BY <1>1, <1>2, <1>3, <1>4

(* What a step writes to a block is what is in core.                       *)
LEMMA WrittenSeen ==
    ASSUME IInv, IInv', NEW p \in Procs, Lookup(p) \/ Use(p) \/ Iput(p) \/ Ialloc(p),
           NEW n \in Ino, dinode'[n] # dinode[n]
    PROVE  dinode'[n].mode = ilist'[n].mode
<1>1. PICK s \in Slot : Works(p, s) /\ dinode' = [dinode EXCEPT ![inode[s].number] =
                            [mode |-> inode'[s].mode, nlink |-> inode'[s].nlink]]
  BY StepsHaveKinds DEF Kinds, Quiet, Works, Takes, Puts, Unlocks, Relocks, Fetches, Fills, Drops, Hands
<1>2. n = inode[s].number /\ dinode'[n].mode = inode'[s].mode
  BY <1>1 DEF IInv, Shape
<1>3. inode'[s].hashed /\ inode'[s].number = n /\ Locks(p, s)' /\ ~Reads(p, s)'
  BY <1>1, <1>2 DEF Works
<1>4. ASSUME NEW q \in Procs, Reads(q, s)' PROVE FALSE
  <2>1. Locks(q, s)'
    BY <1>4 DEF Reads, Locks, Refers
  <2>2. q = p
    BY <1>3, <2>1 DEF IInv, SlotOK
  <2>3. QED
    BY <1>3, <1>4, <2>2
<1>5. InCore(s, n)'
  BY <1>3, <1>4 DEF InCore
<1>6. ilist'[n] = Val(s)'
  BY <1>5, ListThere
<1>7. QED
  BY <1>2, <1>6 DEF Val

LEMMA MediumStep ==
    ASSUME IInv, IInv', ListInv, NEW p \in Procs, Lookup(p) \/ Use(p) \/ Iput(p) \/ Ialloc(p)
    PROVE  MediumOK'
<1> SUFFICES ASSUME NEW n \in Ino, n \notin FreeSet', dinode'[n].mode = "free"
             PROVE  \E q \in Procs : proc'[q].pc = "aupdate" /\ Entry(q)'.number = n
  BY DEF MediumOK, Ino
<1>1. dinode'[n] = dinode[n]
  <2>1. ilist'[n].mode # "free"
    BY DEF FreeSet, Ino
  <2>2. QED
    BY <2>1, WrittenSeen
<1>2. CASE n \in FreeSet
  <2>1. AllocChecks(p) /\ Entry(p).mode = "free" /\ n = Entry(p).number
    BY <1>2, FreeSetStep
  <2>2. proc[p] \in ProcState /\ proc[p].ip \in Slot /\ Entry(p) \in EntryState
    <3>1. proc[p].pc = "agot"
      BY <2>1 DEF AllocChecks, At
    <3>2. QED
      BY <3>1, Holder DEF Idles, NoInode
  <2>3. proc'[p].pc = "aupdate" /\ proc'[p].ip = proc[p].ip
    BY <2>1, <2>2, Types DEF AllocChecks, SleepsTo, ProcState
  <2>4. inode'[proc[p].ip].number = Entry(p).number
    <3>1. inode' = [inode EXCEPT ![proc[p].ip] = [@ EXCEPT !.mode = "file", !.nlink = 1, !.changed = TRUE]]
      BY <2>1 DEF AllocChecks
    <3>2. QED
      BY <2>2, <3>1, Types DEF EntryState, Entry
  <2>5. QED
    BY <2>1, <2>3, <2>4 DEF Entry
<1>3. CASE n \notin FreeSet
  <2>1. PICK q \in Procs : proc[q].pc = "aupdate" /\ Entry(q).number = n
    BY <1>1, <1>3 DEF ListInv, MediumOK
  <2>2. q # p
    <3> SUFFICES ASSUME q = p PROVE FALSE
      OBVIOUS
    <3>1. Allocated(p)
      BY <2>1, UpdateEnds
    <3>2. dinode'[n].mode = Entry(p).mode
      BY <2>1, <3>1 DEF Allocated, Iupdat, IInv, Shape
    <3>3. /\ proc[p].ip \in Slot /\ Locks(p, proc[p].ip) /\ Entry(p).hashed
      BY <2>1, Holder DEF Idles, Waits, NoInode
    <3>4. ASSUME NEW r \in Procs, Reads(r, proc[p].ip) PROVE FALSE
      <4>1. Locks(r, proc[p].ip)
        BY <3>3, <3>4, Implied
      <4>2. r = p
        BY <3>3, <4>1 DEF IInv, SlotOK
      <4>3. QED
        BY <2>1, <3>4, <4>2 DEF Reads
    <3>5. InCore(proc[p].ip, n)
      BY <2>1, <3>3, <3>4 DEF InCore, Entry
    <3>6. ilist[n] = Val(proc[p].ip)
      BY <3>3, <3>5, ListHere
    <3>7. QED
      BY <1>3, <3>2, <3>6 DEF Val, Entry, FreeSet
  <2>3. Steady(q)
    BY <2>2, OthersSteady
  <2>4. QED
    BY <2>1, <2>3 DEF Steady
<1>4. QED
  BY <1>2, <1>3
--------------------------------------------------------------------------------
(* A step that puts nothing into the list. *)
LEMMA Shrinks ==
    ASSUME IInv, IInv', ListInv, NEW p \in Procs, Lookup(p) \/ Use(p) \/ Iput(p) \/ Ialloc(p),
           \A i \in Places' : /\ i \in Places /\ s_inode'[i] = s_inode[i]
                              /\ s_inode[i] \in FreeSet'
           ,
           \A q \in Procs \ {p} : Holds(q) => Number(q) \in FreeSet',
           Holds(p)' => Fresh(Number(p))',
           proc'[p].pc = "scan" => \A i \in Places' : s_inode'[i] < proc'[p].ino,
           Straight(p)'
    PROVE  ListInv'
<1>1. \A q \in Procs \ {p} : Steady(q)
  BY OthersSteady
<1>2. PlacesOK'
  BY DEF ListInv, PlacesOK
<1>3. ASSUME NEW q \in Procs, Holds(q)' PROVE Fresh(Number(q))'
  <2>1. CASE q = p
    BY <1>3, <2>1
  <2>2. CASE q # p
    <3>1. Holds(q) /\ Number(q)' = Number(q)
      BY <1>1, <1>3, <2>2 DEF Steady
    <3>2. \A i \in Places : s_inode[i] # Number(q)
      BY <3>1 DEF ListInv, HeldOK, Fresh
    <3>3. Number(q) \in FreeSet' /\ \A i \in Places' : s_inode'[i] # Number(q)
      BY <2>2, <3>1, <3>2
    <3>4. QED
      BY <3>1, <3>3 DEF Fresh
  <2>3. QED
    BY <2>1, <2>2
<1>4. ASSUME NEW q \in Procs, proc'[q].pc = "scan" PROVE \A i \in Places' : s_inode'[i] < proc'[q].ino
  <2>1. CASE q = p
    BY <1>4, <2>1
  <2>2. CASE q # p
    <3>1. proc[q].pc = "scan" /\ proc'[q].ino = proc[q].ino
      BY <1>1, <1>4, <2>2 DEF Steady
    <3>2. QED
      BY <3>1 DEF ListInv, ScanOK
  <2>3. QED
    BY <2>1, <2>2
<1>5. \A q \in Procs : Straight(q)'
  BY <1>1 DEF ListInv, Steady
<1>6. MediumOK'
  BY MediumStep
<1>7. HeldOK' /\ ScanOK'
  BY <1>3, <1>4 DEF HeldOK, ScanOK
<1>8. QED
  BY <1>2, <1>5, <1>6, <1>7 DEF ListInv

(* The list is not touched, nor the scan. *)
LEMMA PlacesSame ==
    ASSUME IInv, IInv', NEW p \in Procs, Lookup(p) \/ Use(p) \/ Iput(p) \/ Ialloc(p),
           UNCHANGED <<s_inode, s_ninode>>, proc'[p].pc = "scan" <=> proc[p].pc = "scan"
    PROVE  Places' = Places
<1>1. Scanning' <=> Scanning
  BY OthersSteady DEF Scanning, Steady
<1>2. Live' = Live
  BY DEF Live
<1>3. QED
  BY <1>1, <1>2 DEF Places

(* A step with no number in hand that was not there before.                *)
LEMMA ListSame ==
    ASSUME IInv, IInv', ListInv, NEW p \in Procs, Lookup(p) \/ Use(p) \/ Iput(p) \/ Ialloc(p),
           UNCHANGED <<s_inode, s_ninode>>, proc'[p].pc = "scan" <=> proc[p].pc = "scan",
           proc[p].pc = "scan" => proc'[p].ino \in Int /\ proc'[p].ino >= proc[p].ino,
           FreeSet' = FreeSet, Holds(p)' => Holds(p) /\ Number(p)' = Number(p),
           Straight(p)'
    PROVE  ListInv'
<1>1. Places' = Places
  BY PlacesSame
<1>2. \A i \in Places' : i \in Places /\ s_inode'[i] = s_inode[i] /\ s_inode[i] \in FreeSet'
  BY <1>1 DEF ListInv, PlacesOK
<1>3. \A q \in Procs \ {p} : Holds(q) => Number(q) \in FreeSet'
  BY DEF ListInv, HeldOK, Fresh
<1>4. Holds(p)' => Fresh(Number(p))'
  BY <1>1 DEF ListInv, HeldOK, Fresh
<1>5. proc'[p].pc = "scan" => \A i \in Places' : s_inode'[i] < proc'[p].ino
  <2> SUFFICES ASSUME proc'[p].pc = "scan", NEW i \in Places' PROVE s_inode'[i] < proc'[p].ino
    OBVIOUS
  <2>1. proc[p].pc = "scan" /\ i \in Places /\ s_inode'[i] = s_inode[i]
    BY <1>2
  <2>2. s_inode[i] < proc[p].ino /\ s_inode[i] \in FreeSet
    BY <2>1 DEF ListInv, ScanOK, PlacesOK
  <2>3. s_inode[i] \in Int /\ proc[p].ino \in Int
    <3>1. proc[p] \in ProcState
      BY Types
    <3>2. QED
      BY <2>2, <3>1, TableAssumption DEF FreeSet, Ino, ProcState
  <2>4. QED
    BY <2>1, <2>2, <2>3
<1>6. QED
  BY <1>2, <1>3, <1>4, <1>5, Shrinks

(* Those who do not allocate. *)
LEMMA UseLists == ASSUME IInv, IInv', AllocInv, ListInv, NEW p \in Procs, Use(p) PROVE ListInv'
<1>1. /\ proc[p].pc \in {"user", "plock", "locked", "linked", "sync"}
      /\ proc'[p].pc \in {"user", "psleep", "locked", "linked", "sync", "iput"}
      /\ proc'[p].by = proc[p].by
  BY UsePasses
<1>2. proc[p].by = "user"
  BY <1>1 DEF AllocInv, CallOK
<1>3. ~FreeLocks(p) /\ ~AllocChecks(p)
  BY <1>1 DEF FreeLocks, AllocChecks, At
<1>4. FreeSet' = FreeSet
  BY <1>3, FreeSetStep
<1>5. UNCHANGED <<s_inode, s_ninode>>
  BY DEF Use, PlockWaits, PlockLocks, Prele, Link, Linked, Unlink, Open, Closef, Sync, Updates, fs, super
<1>6. ~Holds(p)' /\ Straight(p)'
  BY <1>1, <1>2 DEF Holds, Straight
<1>7. QED
  BY <1>1, <1>4, <1>5, <1>6, ListSame

LEMMA IputPlace ==
    ASSUME IInv, AllocInv, ListInv, NEW p \in Procs, Iput(p)
    PROVE  /\ proc[p].by = "user" /\ proc'[p].by = "user"
           /\ proc[p].pc \in {"iput", "locked", "put", "itrunc", "update", "ifree", "fupdate"}
           /\ proc'[p].pc \in {"user", "apop", "itrunc", "ifree", "update", "put", "fsleep", "fupdate"}
           /\ ~FreeLocks(p) => proc'[p].pc # "fupdate"
<1>1. /\ proc[p].pc \in {"iput", "locked", "put", "itrunc", "update", "ifree", "fupdate"}
      /\ proc'[p].pc \in {"user", "apop", "itrunc", "ifree", "update", "put", "fsleep", "fupdate"}
      /\ proc'[p].by = proc[p].by
      /\ ~FreeLocks(p) => proc'[p].pc # "fupdate"
  BY IputPasses
<1>2. proc[p].by \in {"user", "ialloc"} /\ CallOK(p) /\ Straight(p)
  BY Types DEF ProcState, AllocInv, ListInv
<1>3. proc[p].by = "user"
  BY <1>1, <1>2 DEF CallOK, Straight, Releasing
<1>4. QED
  BY <1>1, <1>3

LEMMA IputLists ==
    ASSUME IInv, IInv', AllocInv, ListInv, NEW p \in Procs, Iput(p), ~FreeLocks(p), ~Freed(p)
    PROVE  ListInv'
<1>1. ~AllocChecks(p)
  BY IputPlace DEF AllocChecks, At
<1>2. FreeSet' = FreeSet
  BY <1>1, FreeSetStep
<1>3. UNCHANGED <<s_inode, s_ninode>>
  BY DEF Iput, IputShared, IputFrees, IputTruncates, Truncated, IputFreed, IputUpdates,
         Updates, FreeWaits, super
<1>4. ~Holds(p)' /\ Straight(p)' /\ proc[p].pc # "scan" /\ proc'[p].pc # "scan"
  BY IputPlace DEF Holds, Straight
<1>5. QED
  BY <1>2, <1>3, <1>4, ListSame

(* s5ifree: the inode is free, and in no list yet ... *)
LEMMA FreeLocksLists ==
    ASSUME IInv, IInv', AllocInv, ListInv, NEW p \in Procs, FreeLocks(p)
    PROVE  ListInv'
<1>1. Iput(p)
  BY DEF Iput
<1>2. /\ proc[p].pc = "ifree" /\ proc' = [proc EXCEPT ![p].pc = "fupdate"]
      /\ UNCHANGED <<s_inode, s_ninode>> /\ ~s_ilock
      /\ inode' = [inode EXCEPT ![proc[p].ip].mode = "free"]
  BY DEF FreeLocks, At, SleepsTo
<1>3. proc[p] \in ProcState /\ proc[p].ip \in Slot /\ Entry(p) \in EntryState
  BY <1>2, Holder DEF Idles, NoInode
<1>4. proc'[p].pc = "fupdate" /\ proc'[p].ip = proc[p].ip /\ proc'[p].by = "user"
  BY <1>1, <1>2, <1>3, IputPlace, Types DEF ProcState
<1>5. Number(p)' = Entry(p).number
  <2>1. inode'[proc[p].ip].number = Entry(p).number
    BY <1>2, <1>3, Types DEF EntryState, Entry
  <2>2. QED
    BY <1>4, <2>1 DEF Number, Entry
<1>6. FreeSet' = FreeSet \cup {Entry(p).number} /\ Entry(p).number \notin FreeSet
  BY <1>1, FreeSetStep
<1>7. Places' = Places
  BY <1>1, <1>2, <1>4, PlacesSame
<1>8. \A i \in Places' : i \in Places /\ s_inode'[i] = s_inode[i] /\ s_inode[i] \in FreeSet'
                         /\ s_inode[i] # Entry(p).number
  BY <1>2, <1>6, <1>7 DEF ListInv, PlacesOK
<1>9. Fresh(Number(p))'
  BY <1>5, <1>6, <1>8 DEF Fresh
<1>10. \A q \in Procs \ {p} : Holds(q) => Number(q) \in FreeSet'
  BY <1>6 DEF ListInv, HeldOK, Fresh
<1>11. Straight(p)' /\ proc'[p].pc # "scan"
  BY <1>4 DEF Straight
<1>12. QED
  BY <1>1, <1>8, <1>9, <1>10, <1>11, Shrinks
--------------------------------------------------------------------------------
LEMMA AllocatesAlone ==
    ASSUME IInv, IInv', AllocInv, NEW p \in Procs, Allocs(p),
           Lookup(p) \/ Use(p) \/ Iput(p) \/ Ialloc(p)
    PROVE  /\ \A q \in Procs \ {p} : ~Holds(q) /\ proc[q].pc # "scan" /\ ~Holds(q)' /\ proc'[q].pc # "scan"
           /\ Scanning <=> proc[p].pc = "scan"
           /\ Scanning' <=> proc'[p].pc = "scan"
<1>1. ASSUME NEW q \in Procs \ {p}
      PROVE  ~Holds(q) /\ proc[q].pc # "scan" /\ ~Holds(q)' /\ proc'[q].pc # "scan"
  <2>1. ~Allocs(q) /\ CallOK(q)
    BY DEF AllocInv, OneAllocates
  <2>2. ~Holds(q) /\ proc[q].pc # "scan"
    BY <2>1 DEF Allocs, CallOK, Holds
  <2>3. Steady(q)
    BY OthersSteady
  <2>4. QED
    BY <2>2, <2>3 DEF Steady
<1>2. QED
  BY <1>1 DEF Scanning

(* ... and goes into the list, as the first to scan from if that is full.  *)
LEMMA FreedPlaces ==
    ASSUME IInv, NEW p \in Procs, Freed(p)
    PROVE  \E c \in Int :
              /\ \A i \in Live' \ {c} : i \in Live /\ s_inode'[i] = s_inode[i]
              /\ c \in Live' => \/ s_inode'[c] = Entry(p).number
                                \/ c \in Live /\ s_inode'[c] = s_inode[c]
<1> DEFINE n == Entry(p).number
<1>1. /\ s_inode \in [0..(NICINOD - 1) -> 0..NIno] /\ s_ninode \in 0..NICINOD
      /\ NICINOD \in Nat \ {0} /\ s_ninode \in Nat
  BY Types
<1>2. CASE s_ninode >= NICINOD
  <2>1. s_ninode' = s_ninode /\ s_inode' = [s_inode EXCEPT ![0] = IF n < @ THEN n ELSE @]
    BY <1>2 DEF Freed
  <2>2. \A k \in 0..(NICINOD - 1) : k # 0 => s_inode'[k] = s_inode[k]
    BY <1>1, <2>1
  <2>3. s_inode'[0] = n \/ s_inode'[0] = s_inode[0]
    BY <1>1, <2>1
  <2>4. s_ninode = NICINOD
    BY <1>1, <1>2
  <2>5. ASSUME NEW i \in Live', i # 0 PROVE i \in Live /\ s_inode'[i] = s_inode[i]
    BY <1>1, <2>1, <2>2, <2>4, <2>5 DEF Live
  <2>6. 0 \in Live' /\ s_inode'[0] = s_inode[0] => 0 \in Live
    BY <1>1, <2>1, <2>2, <2>4 DEF Live
  <2>7. QED
    BY <2>3, <2>5, <2>6
<1>3. CASE ~(s_ninode >= NICINOD)
  <2>1. s_ninode' = s_ninode + 1 /\ s_inode' = [s_inode EXCEPT ![s_ninode] = n]
    BY <1>3 DEF Freed
  <2>2. s_ninode \in 0..(NICINOD - 1)
    BY <1>1, <1>3
  <2>3. s_inode'[s_ninode] = n /\ \A k \in 0..(NICINOD - 1) : k # s_ninode => s_inode'[k] = s_inode[k]
    BY <1>1, <2>1, <2>2
  <2>4. ASSUME NEW i \in Live', i # s_ninode PROVE i \in Live /\ s_inode'[i] = s_inode[i]
    BY <1>1, <2>1, <2>2, <2>3, <2>4 DEF Live
  <2>5. QED
    BY <1>1, <2>3, <2>4
<1>4. QED
  BY <1>2, <1>3

LEMMA FreedLists ==
    ASSUME IInv, IInv', AllocInv, ListInv, NEW p \in Procs, Freed(p)
    PROVE  ListInv'
<1>1. Iput(p) /\ proc[p].pc = "fupdate"
  BY DEF Iput, Freed, At
<1>2. /\ proc[p].by = "user" /\ proc'[p].by = "user" /\ proc'[p].pc # "fupdate"
  BY <1>1, IputPlace DEF FreeLocks, At
<1>3. proc'[p].pc # "scan" /\ ~FreeLocks(p) /\ ~AllocChecks(p)
  BY <1>1, IputPlace DEF FreeLocks, AllocChecks, At
<1>4. FreeSet' = FreeSet
  BY <1>1, <1>3, FreeSetStep
<1>5. Allocs(p) /\ Holds(p) /\ Number(p) = Entry(p).number
  BY <1>1 DEF Allocs, Holds, Number
<1>6. Places = Live /\ Places' = Live' /\ ~Scanning'
  BY <1>1, <1>3, <1>5, AllocatesAlone DEF Places
<1>7. Entry(p).number \in FreeSet /\ \A i \in Live : s_inode[i] # Entry(p).number
  BY <1>5, <1>6 DEF ListInv, HeldOK, Fresh
<1>8. PICK c \in Int :
              /\ \A i \in Live' \ {c} : i \in Live /\ s_inode'[i] = s_inode[i]
              /\ c \in Live' => \/ s_inode'[c] = Entry(p).number
                                \/ c \in Live /\ s_inode'[c] = s_inode[c]
  BY FreedPlaces
<1>9. PlacesOK'
  <2>1. \A i \in Live : s_inode[i] \in FreeSet /\ \A j \in Live : s_inode[j] = s_inode[i] => j = i
    BY <1>6 DEF ListInv, PlacesOK
  <2>2. QED
    BY <1>4, <1>6, <1>7, <1>8, <2>1 DEF PlacesOK
<1>10. \A q \in Procs : ~Holds(q)' /\ proc'[q].pc # "scan"
  BY <1>1, <1>2, <1>3, <1>5, AllocatesAlone DEF Holds
<1>11. \A q \in Procs : Straight(q)'
  BY <1>1, <1>2, OthersSteady DEF ListInv, Steady, Straight
<1>12. MediumOK'
  BY <1>1, MediumStep
<1>13. QED
  BY <1>9, <1>10, <1>11, <1>12 DEF ListInv, HeldOK, ScanOK
--------------------------------------------------------------------------------
(* s5ialloc *)

LEMMA WaitsLists ==
    ASSUME IInv, IInv', AllocInv, ListInv, NEW p \in Procs,
           AllocWaits(p) \/ AllocLocks(p) \/ ScanFails(p) \/ Allocated(p)
    PROVE  ListInv'
<1>1. Ialloc(p) /\ ~FreeLocks(p) /\ ~AllocChecks(p)
  BY DEF Ialloc, AllocWaits, AllocLocks, ScanFails, Allocated, Creates, At, FreeLocks, AllocChecks
<1>2. FreeSet' = FreeSet
  BY <1>1, FreeSetStep
<1>3. UNCHANGED <<s_inode, s_ninode>>
  BY DEF AllocWaits, AllocLocks, ScanFails, Allocated, super
<1>4. proc \in [Procs -> ProcState] /\ proc[p] \in ProcState /\ INOPB \in Nat
  BY Types
<1>5. CASE AllocWaits(p) \/ AllocLocks(p)
  <2>1. proc[p].pc # "scan" /\ proc'[p].pc \in {"asleep", "apop"} /\ proc'[p].by = "ialloc"
    <3>1. \E l \in {"asleep", "apop"} : proc' = [proc EXCEPT ![p].pc = l, ![p].by = "ialloc"]
      BY <1>5 DEF AllocWaits, AllocLocks
    <3>2. proc[p].pc # "scan"
      BY <1>5 DEF AllocWaits, AllocLocks, Creates, At
    <3>3. QED
      BY <1>4, <3>1, <3>2 DEF ProcState
  <2>2. ~Holds(p)' /\ Straight(p)' /\ proc'[p].pc # "scan"
    BY <2>1 DEF Holds, Straight, Releasing
  <2>3. QED
    BY <1>1, <1>2, <1>3, <2>1, <2>2, ListSame
<1>6. CASE ScanFails(p)
  <2>1. /\ proc[p].pc = "scan" /\ proc'[p].pc = "scan" /\ proc'[p].ino = proc[p].ino + INOPB
    BY <1>4, <1>6 DEF ScanFails, At, ProcState
  <2>2. proc'[p].ino \in Int /\ proc'[p].ino >= proc[p].ino
    BY <1>4, <2>1, TableAssumption DEF ProcState
  <2>3. ~Holds(p)' /\ Straight(p)'
    BY <2>1 DEF Holds, Straight, Releasing
  <2>4. QED
    BY <1>1, <1>2, <1>3, <2>1, <2>2, <2>3, ListSame
<1>7. CASE Allocated(p)
  <2>1. proc[p].pc = "aupdate" /\ proc' = [WakeIlock(proc) EXCEPT ![p].pc = "locked", ![p].by = "user"]
    BY <1>7 DEF Allocated, At
  <2>2. 1 \in Slot
    BY TableAssumption DEF Slot
  <2>3. WakeIlock(proc)[p] = proc[p] /\ WakeIlock(proc) \in [Procs -> ProcState]
    BY <2>1, <2>2, NotWoken
  <2>4. proc'[p].pc = "locked" /\ proc'[p].by = "user"
    BY <2>1, <2>3 DEF ProcState
  <2>5. ~Holds(p)' /\ Straight(p)' /\ proc[p].pc # "scan" /\ proc'[p].pc # "scan"
    BY <2>1, <2>4 DEF Holds, Straight
  <2>6. QED
    BY <1>1, <1>2, <1>3, <2>5, ListSame
<1>8. QED
  BY <1>5, <1>6, <1>7

(* The inode that s5ialloc got is free, so it is not put back.             *)
LEMMA GotFree ==
    ASSUME IInv, AllocInv, ListInv, NEW p \in Procs, proc[p].pc = "agot"
    PROVE  Entry(p).mode = "free" /\ Holds(p) /\ Number(p) = Entry(p).number
<1>1. Holds(p) /\ Number(p) = Entry(p).number
  BY DEF AllocInv, CallOK, Holds, Number
<1>2. Entry(p).number \in FreeSet
  BY <1>1 DEF ListInv, HeldOK, Fresh
<1>3. proc[p].ip \in Slot /\ Locks(p, proc[p].ip) /\ Entry(p).hashed
  BY Holder DEF Idles, Waits, NoInode
<1>4. ASSUME NEW r \in Procs, Reads(r, proc[p].ip) PROVE FALSE
  <2>1. Locks(r, proc[p].ip)
    BY <1>3, <1>4, Implied
  <2>2. r = p
    BY <1>3, <2>1 DEF IInv, SlotOK
  <2>3. QED
    BY <1>4, <2>2 DEF Reads
<1>5. InCore(proc[p].ip, Entry(p).number)
  BY <1>3, <1>4 DEF InCore, Entry
<1>6. Entry(p).number \in Ino /\ ilist[Entry(p).number].mode = "free"
  BY <1>2 DEF FreeSet
<1>7. ilist[Entry(p).number] = Val(proc[p].ip)
  BY <1>3, <1>5, <1>6, ListHere
<1>8. QED
  BY <1>1, <1>6, <1>7 DEF Val, Entry

LEMMA ChecksLists ==
    ASSUME IInv, IInv', AllocInv, ListInv, NEW p \in Procs,
           AllocChecks(p) \/ Updates(p, "ataken", "iput")
    PROVE  ListInv'
<1>1. proc[p].pc # "ataken"
  BY DEF AllocInv, CallOK, ListInv, Straight, Releasing
<1>2. AllocChecks(p) /\ proc[p].pc = "agot" /\ Ialloc(p)
  BY <1>1 DEF AllocChecks, Updates, At, Ialloc
<1>3. Entry(p).mode = "free" /\ Holds(p) /\ Number(p) = Entry(p).number
  BY <1>2, GotFree
<1>4. FreeSet' = FreeSet \ {Entry(p).number}
  BY <1>2, <1>3, FreeSetStep
<1>5. UNCHANGED <<s_inode, s_ninode>> /\ proc' = [proc EXCEPT ![p].pc = "aupdate"]
  BY <1>2, <1>3 DEF AllocChecks, SleepsTo
<1>6. proc'[p].pc = "aupdate"
  BY <1>5, Types DEF ProcState
<1>7. Places' = Places
  BY <1>2, <1>5, <1>6, PlacesSame
<1>8. \A i \in Places' : i \in Places /\ s_inode'[i] = s_inode[i] /\ s_inode[i] \in FreeSet'
  BY <1>3, <1>4, <1>5, <1>7 DEF ListInv, PlacesOK, HeldOK, Fresh
<1>9. Allocs(p)
  BY <1>2 DEF AllocInv, CallOK, Allocs
<1>10. \A q \in Procs \ {p} : ~Holds(q)
  BY <1>2, <1>9, AllocatesAlone
<1>11. ~Holds(p)' /\ Straight(p)'
  BY <1>6 DEF Holds, Straight, Releasing
<1>12. QED
  BY <1>2, <1>6, <1>8, <1>10, <1>11, Shrinks
--------------------------------------------------------------------------------
(* s5ialloc takes a number from the list, which it starts or ends.         *)
LEMMA PopsLists ==
    ASSUME IInv, IInv', AllocInv, ListInv, NEW p \in Procs,
           AllocPops(p) \/ AllocScans(p) \/ ScanEnds(p) \/ NoSpace(p)
    PROVE  ListInv'
<1>1. /\ Ialloc(p) /\ ~FreeLocks(p) /\ ~AllocChecks(p) /\ proc[p].pc \in {"apop", "scan", "nospace"}
  BY DEF Ialloc, AllocPops, AllocScans, ScanEnds, NoSpace, At, FreeLocks, AllocChecks
<1>2. FreeSet' = FreeSet
  BY <1>1, FreeSetStep
<1>3. Allocs(p) /\ proc[p].by = "ialloc"
  BY <1>1 DEF AllocInv, CallOK, Allocs
<1>4. /\ \A q \in Procs \ {p} : ~Holds(q)
      /\ Scanning <=> proc[p].pc = "scan"
      /\ Scanning' <=> proc'[p].pc = "scan"
  BY <1>1, <1>3, AllocatesAlone
<1>5. /\ proc \in [Procs -> ProcState] /\ s_inode \in [0..(NICINOD - 1) -> 0..NIno]
      /\ s_ninode \in 0..NICINOD /\ NICINOD \in Nat \ {0} /\ s_ninode \in Nat
  BY Types
<1>6. CASE AllocPops(p)
  <2> DEFINE t == s_ninode - 1
  <2>1. /\ proc[p].pc = "apop" /\ s_ninode > 0 /\ s_inode[t] # 0 /\ s_ninode' = t
        /\ proc' = [proc EXCEPT ![p].pc = "iget", ![p].ino = s_inode[t]]
        /\ s_inode' = s_inode
    BY <1>6 DEF AllocPops, At, Listed
  <2>2. proc'[p].pc = "iget" /\ proc'[p].ino = s_inode[t] /\ proc'[p].by = "ialloc"
    BY <1>3, <1>5, <2>1 DEF ProcState
  <2>3. Places = Live /\ Places' = Live'
    BY <1>4, <2>1, <2>2 DEF Places
  <2>4. t \in Live
    BY <1>5, <2>1 DEF Live
  <2>5. ASSUME NEW i \in Live' PROVE i \in Live /\ i # t
    BY <1>5, <2>1, <2>5 DEF Live
  <2>6. \A i \in Live : s_inode[i] \in FreeSet /\ \A j \in Live : s_inode[j] = s_inode[i] => j = i
    BY <2>3 DEF ListInv, PlacesOK
  <2>7. Fresh(Number(p))'
    <3>1. Number(p)' = s_inode[t]
      BY <2>2 DEF Number
    <3>2. \A i \in Live' : s_inode[i] # s_inode[t]
      BY <2>4, <2>5, <2>6
    <3>3. QED
      BY <1>2, <2>1, <2>3, <2>4, <2>6, <3>1, <3>2 DEF Fresh
  <2>8. \A i \in Places' : i \in Places /\ s_inode'[i] = s_inode[i] /\ s_inode[i] \in FreeSet'
    BY <1>2, <2>1, <2>3, <2>5, <2>6
  <2>9. Straight(p)' /\ proc'[p].pc # "scan"
    BY <2>2 DEF Straight, Releasing
  <2>10. QED
    BY <1>1, <1>4, <2>7, <2>8, <2>9, Shrinks
<1>7. CASE AllocScans(p)
  <2>1. /\ s_ninode' = NICINOD
        /\ proc' = [proc EXCEPT ![p].pc = "scan", ![p].ino = FsINOS(s_inode[0])]
    BY <1>7 DEF AllocScans
  <2>2. proc'[p].pc = "scan"
    BY <1>5, <2>1 DEF ProcState
  <2>3. Places' = {}
    BY <1>4, <1>5, <2>1, <2>2 DEF Places
  <2>4. ~Holds(p)' /\ Straight(p)'
    BY <2>2 DEF Holds, Straight, Releasing
  <2>5. QED
    BY <1>1, <1>4, <2>3, <2>4, Shrinks
<1>8. CASE ScanEnds(p)
  <2>1. /\ proc[p].pc = "scan" /\ s_ninode' = NICINOD
        /\ s_inode' = IF s_ninode > 0 THEN [s_inode EXCEPT ![s_ninode - 1] = 0, ![0] = 0] ELSE s_inode
        /\ \E l \in {"apop", "nospace"} : proc' = [proc EXCEPT ![p].ino = 0, ![p].pc = l]
    BY <1>8 DEF ScanEnds, At
  <2>2. proc'[p].pc \in {"apop", "nospace"}
    BY <1>5, <2>1 DEF ProcState
  <2>3. Places = s_ninode..(NICINOD - 1) /\ Places' = Live'
    BY <1>4, <2>1, <2>2 DEF Places
  <2>4. ASSUME NEW i \in Live' PROVE i \in s_ninode..(NICINOD - 1) /\ s_inode'[i] = s_inode[i]
    <3>1. i \in 0..(NICINOD - 1) /\ \A k \in i..(NICINOD - 1) : s_inode'[k] # 0
      BY <2>1 DEF Live
    <3>2. CASE s_ninode = 0
      BY <1>5, <2>1, <3>1, <3>2
    <3>3. CASE s_ninode > 0
      <4>1. s_inode' = [s_inode EXCEPT ![s_ninode - 1] = 0, ![0] = 0]
        BY <2>1, <3>3
      <4>2. s_ninode - 1 \in 0..(NICINOD - 1)
        BY <1>5, <3>3
      <4>3. s_inode'[s_ninode - 1] = 0
        BY <1>5, <4>1, <4>2
      <4>4. i > s_ninode - 1
        BY <1>5, <3>1, <4>2, <4>3
      <4>5. i # 0 /\ i # s_ninode - 1
        BY <1>5, <3>1, <3>3, <4>4
      <4>6. QED
        BY <1>5, <3>1, <4>1, <4>4, <4>5
    <3>4. QED
      BY <1>5, <3>2, <3>3
  <2>5. \A i \in Places' : i \in Places /\ s_inode'[i] = s_inode[i] /\ s_inode[i] \in FreeSet'
    BY <1>2, <2>3, <2>4 DEF ListInv, PlacesOK
  <2>6. ~Holds(p)' /\ Straight(p)' /\ proc'[p].pc # "scan"
    BY <2>2 DEF Holds, Straight, Releasing
  <2>7. QED
    BY <1>1, <1>4, <2>5, <2>6, Shrinks
<1>9. CASE NoSpace(p)
  <2>1. s_ninode' = 0 /\ proc' = [WakeIlock(proc) EXCEPT ![p] = Idle]
    BY <1>9 DEF NoSpace
  <2>2. 1 \in Slot
    BY TableAssumption DEF Slot
  <2>3. WakeIlock(proc) \in [Procs -> ProcState]
    BY <1>1, <2>2, NotWoken
  <2>4. proc'[p] = Idle
    BY <2>1, <2>3
  <2>5. proc'[p].pc = "user" /\ proc'[p].by = "user"
    BY <2>4 DEF Idle
  <2>6. Places' = {}
    BY <1>4, <2>1, <2>5 DEF Places, Live
  <2>7. ~Holds(p)' /\ Straight(p)' /\ proc'[p].pc # "scan"
    BY <2>5 DEF Holds, Straight
  <2>8. QED
    BY <1>1, <1>4, <2>6, <2>7, Shrinks
<1>10. QED
  BY <1>6, <1>7, <1>8, <1>9
--------------------------------------------------------------------------------
(* iget, which keeps the number it looks for.                              *)
LEMMA LookupKeeps ==
    ASSUME IInv, IInv', AllocInv, NEW p \in Procs, Lookup(p)
    PROVE  /\ Holds(p)' => Holds(p) /\ Number(p)' = Number(p)
           /\ proc[p].pc \in {"user", "iget", "iread"}
           /\ proc'[p].pc \in {"user", "isleep", "iread", "locked", "agot"}
<1>1. proc \in [Procs -> ProcState] /\ CallOK(p) /\ inode \in [Slot -> EntryState]
  BY Types DEF AllocInv
<1>2. ASSUME proc'[p] = Idle PROVE proc'[p].pc = "user" /\ ~Holds(p)'
  BY <1>2 DEF Idle, Holds
<1>3. ASSUME NEW n \in Ino, Seeks(p, n)
      PROVE  /\ proc[p].pc \in {"user", "iget"}
             /\ proc[p].pc = "user" => proc[p].by = "user"
             /\ proc[p].by = "ialloc" => Holds(p) /\ Number(p) = n
  BY <1>1, <1>3 DEF Seeks, At, CallOK, Holds, Number
<1>4. CASE \E n \in Ino : IgetBusy(p, n)
  <2>1. PICK n \in Ino : IgetBusy(p, n)
    BY <1>4
  <2>2. PICK s \in Slot : proc' = [proc EXCEPT ![p].pc = "isleep", ![p].ip = s, ![p].ino = n]
    BY <2>1 DEF IgetBusy, Cached
  <2>3. proc'[p].pc = "isleep" /\ proc'[p].ino = n /\ proc'[p].by = proc[p].by
    BY <1>1, <2>2 DEF ProcState
  <2>4. Seeks(p, n)
    BY <2>1 DEF IgetBusy
  <2>5. QED
    BY <1>3, <2>3, <2>4 DEF Holds, Number
<1>5. CASE \E n \in Ino : IgetFound(p, n)
  <2>1. PICK n \in Ino : IgetFound(p, n)
    BY <1>5
  <2>2. PICK s \in Slot : /\ inode[s].number = n /\ Got(p, s)
                          /\ inode' = [inode EXCEPT ![s].ilock = TRUE, ![s].count = @ + 1]
    BY <2>1 DEF IgetFound, Cached
  <2>3. /\ proc'[p].by = proc[p].by /\ proc'[p].ip = s
        /\ proc'[p].pc = IF proc[p].by = "user" THEN "locked" ELSE "agot"
    BY <1>1, <2>2 DEF Got, ProcState
  <2>4. inode'[s].number = n
    BY <1>1, <2>2 DEF EntryState
  <2>5. Seeks(p, n)
    BY <2>1 DEF IgetFound
  <2>6. QED
    BY <1>3, <2>3, <2>4, <2>5 DEF Holds, Number, Entry
<1>6. CASE \E n \in Ino : IgetReads(p, n)
  <2>1. PICK n \in Ino : IgetReads(p, n)
    BY <1>6
  <2>2. PICK s \in Slot :
          /\ proc' = [proc EXCEPT ![p].pc = "iread", ![p].ip = s, ![p].ino = 0]
          /\ inode' = [inode EXCEPT ![s] = [Vacant EXCEPT !.number = n, !.hashed = TRUE,
                        !.ilock = TRUE, !.count = 1, !.fsptr = inode[s].fsptr]]
    BY <2>1 DEF IgetReads
  <2>3. proc'[p].pc = "iread" /\ proc'[p].ip = s /\ proc'[p].by = proc[p].by
    BY <1>1, <2>2 DEF ProcState
  <2>4. inode'[s].number = n
    BY <1>1, <2>2 DEF Vacant
  <2>5. Seeks(p, n)
    BY <2>1 DEF IgetReads
  <2>6. QED
    BY <1>3, <2>3, <2>4, <2>5 DEF Holds, Number, Entry
<1>7. CASE \E n \in Ino : IgetOverflow(p, n)
  <2>1. PICK n \in Ino : IgetOverflow(p, n)
    BY <1>7
  <2>2. Seeks(p, n) /\ GetsNull(proc, p)
    BY <2>1 DEF IgetOverflow
  <2>3. proc[p].pc \in {"user", "iget"}
    BY <1>3, <2>2
  <2>4. 1 \in Slot
    BY TableAssumption DEF Slot
  <2>5. WakeIlock(proc) \in [Procs -> ProcState]
    BY <2>3, <2>4, NotWoken
  <2>6. proc'[p] = Idle
    BY <1>1, <2>2, <2>5 DEF GetsNull
  <2>7. QED
    BY <1>2, <2>3, <2>6
<1>8. CASE Iread(p)
  <2>1. proc[p].pc = "iread" /\ Got(p, proc[p].ip)
    BY <1>8 DEF Iread, At
  <2>2. proc[p].ip \in Slot
    BY <2>1, Holder DEF Idles, NoInode
  <2>3. /\ proc'[p].by = proc[p].by /\ proc'[p].ip = proc[p].ip
        /\ proc'[p].pc = IF proc[p].by = "user" THEN "locked" ELSE "agot"
    BY <1>1, <2>1, <2>2 DEF Got, ProcState
  <2>4. inode'[proc[p].ip].number = Entry(p).number
    BY <1>1, <1>8, <2>2 DEF Iread, EntryState, Entry
  <2>5. QED
    BY <1>1, <2>1, <2>3, <2>4 DEF Holds, Number, Entry, ProcState
<1>9. CASE IreadFails(p)
  <2>1. proc[p].pc = "iread" /\ GetsNull(Awakened(proc, proc[p].ip), p)
    BY <1>9 DEF IreadFails, At
  <2>2. proc[p].ip \in Slot
    BY <2>1, Holder DEF Idles, NoInode
  <2>3. /\ Awakened(proc, proc[p].ip) \in [Procs -> ProcState]
        /\ WakeIlock(Awakened(proc, proc[p].ip)) \in [Procs -> ProcState]
    BY <2>1, <2>2, NotWoken
  <2>4. proc'[p] = Idle
    BY <2>1, <2>3 DEF GetsNull
  <2>5. QED
    BY <1>2, <2>1, <2>4
<1>10. QED
  BY <1>4, <1>5, <1>6, <1>7, <1>8, <1>9 DEF Lookup

LEMMA LookupLists ==
    ASSUME IInv, IInv', AllocInv, ListInv, NEW p \in Procs, Lookup(p)
    PROVE  ListInv'
<1>1. /\ Holds(p)' => Holds(p) /\ Number(p)' = Number(p)
      /\ proc[p].pc \in {"user", "iget", "iread"}
      /\ proc'[p].pc \in {"user", "isleep", "iread", "locked", "agot"}
  BY LookupKeeps
<1>2. ~FreeLocks(p) /\ ~AllocChecks(p)
  BY <1>1 DEF FreeLocks, AllocChecks, At
<1>3. FreeSet' = FreeSet
  BY <1>2, FreeSetStep
<1>4. UNCHANGED <<s_inode, s_ninode>>
  BY DEF Lookup, IgetBusy, IgetFound, IgetReads, IgetOverflow, Iread, IreadFails, GetsNull, super
<1>5. Straight(p)'
  BY <1>1 DEF Straight, Releasing
<1>6. QED
  BY <1>1, <1>3, <1>4, <1>5, ListSame
--------------------------------------------------------------------------------
(* The free inodes of a block leave no place between them out.             *)
LEMMA PlacesFilled ==
    ASSUME NEW b \in 0..(NIno + INOPB), s_ninode \in 0..NICINOD,
           NEW found, found = {n \in FreeIn(b) : PlaceOf(b, n) >= 0},
           NEW i \in (s_ninode - Cardinality(found))..(s_ninode - 1)
    PROVE  \E n \in found : PlaceOf(b, n) = i
<1> DEFINE Below(n) == {m \in FreeIn(b) : m < n}
           low == s_ninode - Cardinality(found)
           Rest == (low..(s_ninode - 1)) \ {i}
           f == [n \in found |-> PlaceOf(b, n)]
<1>0. /\ \A n \in FreeIn(b) : PlaceOf(b, n) \in Int
      /\ \A m, n \in FreeIn(b) : m < n => PlaceOf(b, m) > PlaceOf(b, n)
  BY PlaceOrder
<1>1. /\ FreeIn(b) \subseteq Ino /\ IsFiniteSet(FreeIn(b)) /\ Ino \subseteq Int
      /\ \A n \in FreeIn(b) :
           /\ Cardinality(Below(n)) \in Nat
           /\ PlaceOf(b, n) = s_ninode - 1 - Cardinality(Below(n))
  BY PlaceOrder
<1>2. /\ found \in SUBSET FreeIn(b) /\ found \subseteq Int
      /\ IsFiniteSet(found) /\ Cardinality(found) \in Nat
  <2>1. found \in SUBSET FreeIn(b)
    OBVIOUS
  <2>2. QED
    BY <1>1, <2>1, FS_Subset, FS_CardinalityType
<1>3. s_ninode \in Nat /\ low \in Int
  BY <1>2, TableAssumption
<1>4. ASSUME NEW n \in found PROVE PlaceOf(b, n) \in low..(s_ninode - 1)
  <2>1. n \in FreeIn(b) /\ PlaceOf(b, n) >= 0 /\ n \in Int
    BY <1>2
  <2>2. ASSUME NEW m \in Below(n) PROVE m \in found \ {n}
    <3>1. m \in FreeIn(b) /\ m < n /\ m \in Int
      BY <1>1
    <3>2. PlaceOf(b, m) > PlaceOf(b, n) /\ PlaceOf(b, m) \in Int /\ PlaceOf(b, n) \in Int
      BY <1>0, <2>1, <3>1
    <3>3. PlaceOf(b, m) >= 0
      BY <2>1, <3>2
    <3>4. QED
      BY <2>1, <3>1, <3>3
  <2>3. Below(n) \in SUBSET (found \ {n})
    BY <2>2
  <2>4. IsFiniteSet(found \ {n}) /\ Cardinality(found \ {n}) = Cardinality(found) - 1
    BY <1>2, FS_RemoveElement
  <2>5. Cardinality(Below(n)) <= Cardinality(found) - 1
    BY <2>3, <2>4, FS_Subset
  <2>6. PICK x \in Nat, y \in Nat : x = Cardinality(Below(n)) /\ y = Cardinality(found)
    BY <1>1, <1>2, <2>1
  <2>7. PlaceOf(b, n) = s_ninode - 1 - x /\ x <= y - 1 /\ low = s_ninode - y
    BY <1>1, <2>1, <2>5, <2>6
  <2>8. QED
    BY <1>3, <2>6, <2>7
<1>5. SUFFICES ASSUME \A n \in found : PlaceOf(b, n) # i PROVE FALSE
  OBVIOUS
<1>6. f \in [found -> Rest]
  BY <1>4, <1>5
<1>7. IsFiniteSet(Rest) /\ Cardinality(Rest) = Cardinality(found) - 1
  <2>1. s_ninode - 1 \in Int
    BY <1>3
  <2>2. /\ IsFiniteSet(low..(s_ninode - 1))
        /\ Cardinality(low..(s_ninode - 1)) =
             IF low > s_ninode - 1 THEN 0 ELSE s_ninode - 1 - low + 1
    BY <1>3, <2>1, FS_Interval
  <2>3. i \in low..(s_ninode - 1)
    OBVIOUS
  <2>4. low <= s_ninode - 1
    <3> HIDE DEF low
    <3>1. QED
      BY <1>3, <2>3
  <2>5. s_ninode - 1 - low + 1 = Cardinality(found)
    BY <1>2, <1>3
  <2>6. Cardinality(low..(s_ninode - 1)) = Cardinality(found)
    <3> HIDE DEF low
    <3>1. ~(low > s_ninode - 1)
      BY <1>3, <2>4
    <3>2. QED
      BY <2>2, <2>5, <3>1
  <2>7. QED
    BY <2>2, <2>3, <2>6, FS_RemoveElement
<1>8. Cardinality(Rest) < Cardinality(found)
  BY <1>2, <1>7
<1>9. \E m, n \in found : m # n /\ f[m] = f[n]
  <2> HIDE DEF f, Rest
  <2>1. QED
    BY <1>2, <1>6, <1>7, <1>8, FS_PigeonHole
<1>10. PICK m \in found, n \in found : m # n /\ PlaceOf(b, m) = PlaceOf(b, n)
  BY <1>9
<1>11. m \in FreeIn(b) /\ n \in FreeIn(b) /\ m \in Int /\ n \in Int
  BY <1>2
<1>12. PlaceOf(b, m) > PlaceOf(b, n) \/ PlaceOf(b, n) > PlaceOf(b, m)
  BY <1>0, <1>10, <1>11
<1>13. PlaceOf(b, m) \in Int
  BY <1>0, <1>11
<1>14. QED
  BY <1>10, <1>12, <1>13
--------------------------------------------------------------------------------
(* A block that shows an inode as free is right while s5ialloc scans.      *)
LEMMA ScanTrue ==
    ASSUME IInv, AllocInv, ListInv, NEW p \in Procs, proc[p].pc = "scan"
    PROVE  \A n \in FreeIn(proc[p].ino) : n \in FreeSet
<1> SUFFICES ASSUME NEW n \in FreeIn(proc[p].ino), n \notin FreeSet PROVE FALSE
  OBVIOUS
<1>1. n \in Ino /\ dinode[n].mode = "free"
  BY DEF FreeIn
<1>2. PICK q \in Procs : proc[q].pc = "aupdate"
  BY <1>1 DEF ListInv, MediumOK
<1>3. Allocs(p) /\ Allocs(q) /\ p # q
  BY <1>2 DEF AllocInv, CallOK, Allocs
<1>4. QED
  BY <1>3 DEF AllocInv, OneAllocates

LEMMA ScanLists ==
    ASSUME IInv, IInv', AllocInv, ListInv, NEW p \in Procs, ScanBlock(p)
    PROVE  ListInv'
<1> DEFINE b == proc[p].ino
           found == {n \in FreeIn(b) : PlaceOf(b, n) >= 0}
<1>1. /\ Ialloc(p) /\ ~FreeLocks(p) /\ ~AllocChecks(p) /\ proc[p].pc = "scan"
  BY DEF Ialloc, ScanBlock, At, FreeLocks, AllocChecks
<1>2. FreeSet' = FreeSet
  BY <1>1, FreeSetStep
<1>3. Allocs(p) /\ proc[p].by = "ialloc"
  BY <1>1 DEF AllocInv, CallOK, Allocs
<1>4. /\ proc \in [Procs -> ProcState] /\ s_inode \in [0..(NICINOD - 1) -> 0..NIno]
      /\ s_ninode \in 0..NICINOD /\ NICINOD \in Nat \ {0} /\ s_ninode \in Nat
      /\ b \in 0..(NIno + INOPB) /\ b \in Nat /\ INOPB \in Nat
  <2>1. proc[p] \in ProcState
    BY Types
  <2>2. b \in 0..(NIno + INOPB)
    BY <2>1 DEF ProcState
  <2>3. QED
    BY <2>2, Types
<1>5. /\ s_ninode' = s_ninode - Cardinality(found)
      /\ proc' = [proc EXCEPT ![p].ino = b + INOPB]
      /\ s_inode' = [i \in DOMAIN s_inode |->
                          IF \E n \in found : PlaceOf(b, n) = i
                          THEN CHOOSE n \in found : PlaceOf(b, n) = i ELSE s_inode[i]]
  BY DEF ScanBlock
<1>6. proc'[p].pc = "scan" /\ proc'[p].ino = b + INOPB /\ proc'[p].by = proc[p].by
  BY <1>1, <1>4, <1>5 DEF ProcState
<1>7. Places = s_ninode..(NICINOD - 1) /\ Places' = s_ninode'..(NICINOD - 1)
  BY <1>1, <1>3, <1>6, AllocatesAlone DEF Places
<1>8. /\ FreeIn(b) \subseteq Ino /\ IsFiniteSet(FreeIn(b)) /\ Ino \subseteq Int
      /\ \A n \in FreeIn(b) : PlaceOf(b, n) \in Int
      /\ \A n \in FreeIn(b) : PlaceOf(b, n) < s_ninode
  <2>1. /\ FreeIn(b) \subseteq Ino /\ IsFiniteSet(FreeIn(b)) /\ Ino \subseteq Int
        /\ \A n \in FreeIn(b) : PlaceOf(b, n) \in Int
    BY <1>4, PlaceOrder
  <2>2. ASSUME NEW n \in FreeIn(b) PROVE PlaceOf(b, n) < s_ninode
    <3>1. Cardinality({m \in FreeIn(b) : m < n}) \in Nat
          /\ PlaceOf(b, n) = s_ninode - 1 - Cardinality({m \in FreeIn(b) : m < n})
      BY <1>4, PlaceOrder
    <3>2. PICK x \in Nat : x = Cardinality({m \in FreeIn(b) : m < n})
      BY <3>1
    <3>3. PlaceOf(b, n) = s_ninode - 1 - x
      BY <3>1, <3>2
    <3>4. QED
      BY <1>4, <3>3
  <2>3. QED
    BY <2>1, <2>2
<1>9. \A n \in found : n \in FreeSet /\ n \in Nat /\ n >= b /\ n < b + INOPB
  <2> SUFFICES ASSUME NEW n \in found PROVE n \in FreeSet /\ n \in Nat /\ n >= b /\ n < b + INOPB
    OBVIOUS
  <2>1. n \in FreeIn(b) /\ n \in FreeSet
    BY <1>1, ScanTrue
  <2>2. n \in b..(b + INOPB - 1)
    BY <2>1 DEF FreeIn
  <2>3. QED
    BY <1>4, <2>1, <2>2
<1>10. s_ninode' \in Nat /\ s_ninode' <= s_ninode
  <2>1. s_ninode' \in 0..NICINOD
    BY DEF IInv, Shape
  <2>2. found \in SUBSET FreeIn(b)
    OBVIOUS
  <2>3. IsFiniteSet(found) /\ Cardinality(found) \in Nat
    BY <1>8, <2>2, FS_Subset, FS_CardinalityType
  <2> HIDE DEF found
  <2>4. QED
    BY <1>4, <1>5, <2>1, <2>3
<1>11. ASSUME NEW i \in Places'
       PROVE  \/ s_inode'[i] \in found /\ PlaceOf(b, s_inode'[i]) = i /\ i < s_ninode
              \/ i \in Places /\ s_inode'[i] = s_inode[i] /\ i >= s_ninode
  <2>1. i \in 0..(NICINOD - 1) /\ i \in Nat /\ i >= s_ninode'
    BY <1>4, <1>7, <1>10
  <2>2. CASE i < s_ninode
    <3>1. i \in s_ninode'..(s_ninode - 1)
      BY <1>4, <1>10, <2>1, <2>2
    <3>2. \E n \in found : PlaceOf(b, n) = i
      <4>1. i \in (s_ninode - Cardinality(found))..(s_ninode - 1)
        BY <1>5, <3>1
      <4> HIDE DEF b
      <4>2. QED
        BY <1>4, <4>1, PlacesFilled
    <3>3. s_inode'[i] = CHOOSE n \in found : PlaceOf(b, n) = i
      <4> HIDE DEF found
      <4>1. QED
        BY <1>4, <1>5, <2>1, <3>2
    <3>4. s_inode'[i] \in found /\ PlaceOf(b, s_inode'[i]) = i
      <4> HIDE DEF found
      <4>1. QED
        BY <3>2, <3>3
    <3>5. QED
      BY <2>2, <3>4
  <2>3. CASE i >= s_ninode
    <3>1. i \in Places
      BY <1>4, <1>7, <2>1, <2>3
    <3>2. ~\E n \in found : PlaceOf(b, n) = i
      <4> SUFFICES ASSUME NEW n \in found, PlaceOf(b, n) = i PROVE FALSE
        OBVIOUS
      <4>1. PlaceOf(b, n) < s_ninode
        BY <1>8
      <4>2. QED
        BY <1>4, <2>1, <2>3, <4>1
    <3>3. s_inode'[i] = s_inode[i]
      <4> HIDE DEF found
      <4>1. QED
        BY <1>4, <1>5, <2>1, <3>2
    <3>4. QED
      BY <2>3, <3>1, <3>3
  <2>4. QED
    BY <1>4, <2>1, <2>2, <2>3
<1>12. /\ \A i \in Places : s_inode[i] \in FreeSet /\ \A j \in Places : s_inode[j] = s_inode[i] => j = i
       /\ \A i \in Places : s_inode[i] < b
  BY <1>1 DEF ListInv, PlacesOK, ScanOK
<1>13. FreeSet \subseteq Nat
  BY TableAssumption DEF FreeSet, Ino
<1> HIDE DEF found, b
<1>14. PlacesOK'
  <2>1. ASSUME NEW i \in Places' PROVE s_inode'[i] \in FreeSet'
    BY <1>2, <1>9, <1>11, <1>12
  <2>2. ASSUME NEW k \in Places', s_inode'[k] \in found PROVE PlaceOf(b, s_inode'[k]) = k
    <3>1. CASE k \in Places /\ s_inode'[k] = s_inode[k]
      <4>1. s_inode[k] \in FreeSet /\ s_inode[k] < b
        BY <1>12, <3>1
      <4>2. s_inode[k] \in Nat
        BY <1>13, <4>1
      <4>3. s_inode[k] >= b
        BY <1>9, <2>2, <3>1
      <4>4. QED
        BY <1>4, <4>1, <4>2, <4>3
    <3>2. QED
      BY <1>11, <3>1
  <2>3. ASSUME NEW i \in Places', NEW j \in Places', s_inode'[j] = s_inode'[i] PROVE j = i
    <3>1. CASE s_inode'[i] \in found
      BY <2>2, <2>3, <3>1
    <3>2. CASE s_inode'[i] \notin found
      BY <1>11, <1>12, <2>3, <3>2
    <3>3. QED
      BY <3>1, <3>2
  <2>4. QED
    BY <2>1, <2>3 DEF PlacesOK
<1>15. \A i \in Places' : s_inode'[i] < b + INOPB
  <2> SUFFICES ASSUME NEW i \in Places' PROVE s_inode'[i] < b + INOPB
    OBVIOUS
  <2>1. CASE s_inode'[i] \in found
    BY <1>9, <2>1
  <2>2. CASE i \in Places /\ s_inode'[i] = s_inode[i]
    <3>1. s_inode[i] \in FreeSet /\ s_inode[i] < b
      BY <1>12, <2>2
    <3>2. s_inode[i] \in Nat
      BY <1>13, <3>1
    <3>3. s_inode[i] < b + INOPB
      BY <1>4, <3>1, <3>2
    <3>4. QED
      BY <2>2, <3>3
  <2>3. QED
    BY <1>11, <2>1, <2>2
<1>16. \A q \in Procs \ {p} : ~Holds(q)' /\ proc'[q].pc # "scan"
  BY <1>1, <1>3, AllocatesAlone
<1>17. ~Holds(p)' /\ Straight(p)'
  BY <1>6 DEF Holds, Straight, Releasing
<1>18. HeldOK' /\ ScanOK'
  <2>1. HeldOK'
    BY <1>16, <1>17 DEF HeldOK
  <2>2. ScanOK'
    BY <1>6, <1>15, <1>16 DEF ScanOK
  <2>3. QED
    BY <2>1, <2>2
<1>19. \A q \in Procs : Straight(q)'
  BY <1>1, <1>17, OthersSteady DEF ListInv, Steady
<1>20. MediumOK'
  BY <1>1, MediumStep
<1>21. QED
  BY <1>14, <1>18, <1>19, <1>20 DEF ListInv
--------------------------------------------------------------------------------
LEMMA FlushLists ==
    ASSUME IInv, IInv', ListInv, (\E k \in Slot : Iflush(k)) \/ UNCHANGED vars
    PROVE  ListInv'
<1>1. UNCHANGED <<proc, dinode, s_inode, s_ninode>>
  BY DEF Iflush, super, vars, fs
<1>2. ilist' = ilist
  <2>1. CASE \E k \in Slot : Iflush(k)
    BY <2>1, IflushMaps DEF List!vars
  <2>2. CASE UNCHANGED vars
    BY <2>2 DEF vars, table, fs, super, ilist, Newest, Cached, Refers
  <2>3. QED
    BY <2>1, <2>2
<1>3. \A s \in Slot : inode[s].count # 0 => inode'[s] = inode[s]
  <2>1. CASE \E k \in Slot : Iflush(k)
    BY <2>1, IflushKeeps
  <2>2. CASE UNCHANGED vars
    BY <2>2 DEF vars, table
  <2>3. QED
    BY <2>1, <2>2
<1>4. FreeSet' = FreeSet /\ Places' = Places
  BY <1>1, <1>2 DEF FreeSet, Places, Scanning, Live, Ino
<1>5. ASSUME NEW q \in Procs, proc[q].pc \in {"iread", "agot", "aupdate", "fupdate"}
      PROVE  Entry(q)' = Entry(q)
  <2>1. proc[q].ip \in Slot /\ Entry(q).count > 0 /\ Entry(q) \in EntryState
    BY <1>5, Holder DEF Idles, NoInode
  <2>2. inode[proc[q].ip].count # 0
    BY <2>1 DEF Entry
  <2>3. QED
    BY <1>1, <1>3, <2>1, <2>2 DEF Entry
<1>6. PlacesOK' /\ ScanOK' /\ \A q \in Procs : Straight(q)'
  BY <1>1, <1>4 DEF ListInv, PlacesOK, ScanOK, Straight
<1>7. HeldOK'
  <2> SUFFICES ASSUME NEW q \in Procs, Holds(q)' PROVE Fresh(Number(q))'
    BY DEF HeldOK
  <2>1. Holds(q) /\ Number(q)' = Number(q)
    BY <1>1, <1>5 DEF Holds, Number
  <2>2. QED
    BY <1>1, <1>4, <2>1 DEF ListInv, HeldOK, Fresh
<1>8. MediumOK'
  <2> SUFFICES ASSUME NEW n \in Ino, n \notin FreeSet', dinode'[n].mode = "free"
               PROVE  \E q \in Procs : proc'[q].pc = "aupdate" /\ Entry(q)'.number = n
    BY DEF MediumOK, Ino
  <2>1. PICK q \in Procs : proc[q].pc = "aupdate" /\ Entry(q).number = n
    BY <1>1, <1>4 DEF ListInv, MediumOK
  <2>2. QED
    BY <1>1, <1>5, <2>1
<1>9. QED
  BY <1>6, <1>7, <1>8 DEF ListInv

LEMMA ListStep == IInv /\ IInv' /\ AllocInv /\ ListInv /\ [Next]_vars => ListInv'
<1> SUFFICES ASSUME IInv, IInv', AllocInv, ListInv, [Next]_vars PROVE ListInv'
  OBVIOUS
<1>1. ASSUME NEW p \in Procs, Lookup(p) \/ Use(p) \/ Iput(p) \/ Ialloc(p) PROVE ListInv'
  <2>1. CASE Lookup(p)
    BY <2>1, LookupLists
  <2>2. CASE Use(p)
    BY <2>2, UseLists
  <2>3. CASE Iput(p)
    BY <2>3, IputLists, FreeLocksLists, FreedLists
  <2>4. CASE Ialloc(p)
    BY <2>4, WaitsLists, PopsLists, ChecksLists, ScanLists DEF Ialloc
  <2>5. QED
    BY <1>1, <2>1, <2>2, <2>3, <2>4
<1>2. CASE (\E k \in Slot : Iflush(k)) \/ UNCHANGED vars
  BY <1>2, FlushLists
<1>3. QED
  BY <1>1, <1>2 DEF Next

LEMMA AllFree == Init => FreeSet = Ino
<1> SUFFICES ASSUME Init PROVE FreeSet = Ino
  OBVIOUS
<1>1. \A s \in Slot : ~inode[s].hashed
  BY DEF Init, Vacant
<1>2. \A n \in Ino : ilist[n] = dinode[n]
  BY <1>1, InitHolds, ListHere DEF InCore
<1>3. QED
  BY <1>2 DEF FreeSet, Init, FreeInode

LEMMA ListInit == Init => ListInv
<1> SUFFICES ASSUME Init PROVE ListInv
  OBVIOUS
<1>1. FreeSet = Ino
  BY AllFree
<1>2. \A p \in Procs : proc[p].pc = "user" /\ proc[p].by = "user"
  BY DEF Init, Idle
<1>3. Places = Live
  BY <1>2 DEF Places, Scanning
<1>4. NICINOD \in Nat /\ NIno \in Nat
  BY TableAssumption
<1>5. ASSUME NEW i \in Live PROVE s_inode[i] = i + 1 /\ i \in 0..(NIno - 1)
  <2>1. i \in 0..(s_ninode - 1) /\ s_ninode = IF NICINOD < NIno THEN NICINOD ELSE NIno
    BY DEF Live, Init
  <2>2. i \in 0..(NICINOD - 1) /\ i < NIno
    BY <1>4, <2>1
  <2>3. QED
    BY <1>4, <2>2 DEF Init
<1>6. PlacesOK
  BY <1>1, <1>3, <1>4, <1>5 DEF PlacesOK, Ino
<1>7. HeldOK /\ ScanOK /\ MediumOK /\ \A p \in Procs : Straight(p)
  BY <1>1, <1>2 DEF HeldOK, Holds, ScanOK, MediumOK, Straight
<1>8. QED
  BY <1>6, <1>7 DEF ListInv

(* What the super block lists is free and listed once, whatever is popped, *)
(* freed or scanned between: s5ialloc never finds that an inode "was       *)
(* allocated after all" (s5alloc.c:252), and no two files get one inode.   *)
THEOREM NumbersFree == Spec => []ListedFree
<1>1. ASSUME ListInv PROVE ListedFree
  <2> SUFFICES ASSUME \A p \in Procs : proc[p].pc # "scan", NEW i \in Live
               PROVE  /\ Newest(s_inode[i]).mode = "free"
                      /\ \A j \in Live : s_inode[j] = s_inode[i] => j = i
    BY DEF ListedFree
  <2>1. Places = Live
    BY DEF Places, Scanning
  <2>2. s_inode[i] \in FreeSet /\ \A j \in Live : s_inode[j] = s_inode[i] => j = i
    BY <1>1, <2>1 DEF ListInv, PlacesOK
  <2>3. QED
    BY <2>2 DEF FreeSet, ilist
<1>2. QED
  BY <1>1, Invariance, AllocInit, AllocStep, ListInit, ListStep, PTL DEF Spec
-----------------------------------------------------------------------------
(***************************************************************************)
(* Sleepers: what a process waits for is held by another, which is not     *)
(* waiting for it in turn.                                                 *)
(***************************************************************************)

(* The inode that a sleeper waits for stays locked, wanted and the same    *)
(* inode, and so does s_ilock, until he is woken.                          *)
WaitOK(p) ==
    /\ proc[p].pc \in {"isleep", "psleep"} => Entry(p).ilock /\ Entry(p).iwant
    /\ proc[p].pc = "isleep" => Entry(p).hashed /\ Entry(p).number = proc[p].ino
    /\ proc[p].pc \in {"asleep", "fsleep"} => s_ilock

WaitInv == \A p \in Procs : WaitOK(p)

(* Those who sleep on the inode in t find it as it was ...                 *)
Keeps(t) ==
    inode[t].ilock => /\ inode'[t].ilock /\ (inode[t].iwant => inode'[t].iwant)
                      /\ (inode[t].hashed => inode'[t].hashed) /\ inode'[t].number = inode[t].number

(* ... or are woken by p.                                                  *)
Rouses(p, t) ==
    \A q \in Procs \ {p} :
        proc[q].ip = t /\ proc[q].pc \in {"isleep", "psleep"} /\ inode[t].iwant =>
            proc'[q].pc \notin {"isleep", "psleep"}

Tells(p) ==
    \A q \in Procs \ {p} :
        proc[q].pc \in {"asleep", "fsleep"} => proc'[q].pc \notin {"asleep", "fsleep"}

Told(p) == (\A t \in Slot : Keeps(t) \/ Rouses(p, t)) /\ ((s_ilock => s_ilock') \/ Tells(p))

LEMMA ToldKeeps ==
    ASSUME IInv, IInv', WaitInv, NEW p \in Procs, Lookup(p) \/ Use(p) \/ Iput(p) \/ Ialloc(p),
           Told(p), WaitOK(p)'
    PROVE  WaitInv'
<1> SUFFICES ASSUME NEW q \in Procs \ {p} PROVE WaitOK(q)'
  BY DEF WaitInv
<1>1. Woke(proc[q], proc'[q]) /\ proc[q] \in ProcState /\ ProcOK(q)
  BY OthersStep, Types DEF Others, IInv
<1>2. CASE proc'[q].pc \in {"isleep", "psleep", "asleep", "fsleep"}
  <2>1. proc'[q] = proc[q]
    BY <1>1, <1>2 DEF Woke, ProcState
  <2>2. CASE proc[q].pc \in {"isleep", "psleep"}
    <3>1. proc[q].ip \in Slot /\ Entry(q).ilock /\ Entry(q).iwant
      BY <1>1, <2>2 DEF ProcOK, NoInode, WaitInv, WaitOK
    <3>2. ~Rouses(p, proc[q].ip)
      BY <1>2, <2>1, <2>2, <3>1 DEF Rouses, Entry
    <3>3. Keeps(proc[q].ip)
      BY <3>1, <3>2 DEF Told
    <3>4. /\ Entry(q)'.ilock /\ Entry(q)'.iwant /\ Entry(q)'.number = Entry(q).number
          /\ Entry(q).hashed => Entry(q)'.hashed
      BY <2>1, <3>1, <3>3 DEF Keeps, Entry
    <3>5. QED
      BY <2>1, <2>2, <3>4 DEF WaitOK, WaitInv
  <2>3. CASE proc[q].pc \in {"asleep", "fsleep"}
    <3>1. s_ilock /\ ~Tells(p)
      BY <2>1, <2>3 DEF WaitInv, WaitOK, Tells
    <3>2. s_ilock'
      BY <3>1 DEF Told
    <3>3. QED
      BY <2>1, <2>3, <3>2 DEF WaitOK
  <2>4. QED
    BY <1>2, <2>1, <2>2, <2>3
<1>3. QED
  BY <1>2 DEF WaitOK

(* Whom wakeup wakes. *)
LEMMA Roused ==
    ASSUME IInv, NEW s \in Slot
    PROVE  /\ \A q \in Procs : proc[q].ip = s /\ proc[q].pc \in {"isleep", "psleep"} /\ inode[s].iwant =>
                /\ Awakened(proc, s)[q].pc \notin {"isleep", "psleep"}
                /\ WakeIlock(Awakened(proc, s))[q].pc \notin {"isleep", "psleep"}
           /\ \A P \in [Procs -> ProcState] : \A q \in Procs : WakeIlock(P)[q].pc \notin {"asleep", "fsleep"}
<1>1. ASSUME NEW x \in ProcState
      PROVE  /\ [x EXCEPT !.pc = "iget", !.ip = None].pc = "iget"
             /\ [x EXCEPT !.pc = "plock"].pc = "plock"
             /\ [x EXCEPT !.pc = "ialloc"].pc = "ialloc"
             /\ [x EXCEPT !.pc = "ifree"].pc = "ifree"
  BY DEF ProcState
<1>2. ASSUME NEW P \in [Procs -> ProcState], NEW q \in Procs
      PROVE  /\ WakeIlock(P)[q].pc \notin {"asleep", "fsleep"}
             /\ P[q].pc \notin {"isleep", "psleep"} => WakeIlock(P)[q].pc \notin {"isleep", "psleep"}
  BY <1>1, <1>2 DEF WakeIlock
<1>3. proc \in [Procs -> ProcState] /\ Awakened(proc, s) \in [Procs -> ProcState]
  BY Types, Wakeups
<1>4. ASSUME NEW q \in Procs, proc[q].ip = s, proc[q].pc \in {"isleep", "psleep"}, inode[s].iwant
      PROVE  Awakened(proc, s)[q].pc \notin {"isleep", "psleep"}
  <2>1. Awakened(proc, s) = WakeInode(proc, s)
    BY <1>4 DEF Awakened
  <2>2. WakeInode(proc, s)[q].pc \in {"iget", "plock"}
    BY <1>1, <1>3, <1>4 DEF WakeInode
  <2>3. QED
    BY <2>1, <2>2
<1>5. QED
  BY <1>2, <1>3, <1>4
--------------------------------------------------------------------------------
(* The actions that release nothing. *)

LEMMA LookupKeepsLocks ==
    ASSUME IInv, NEW p \in Procs,
           (\E n \in Ino : IgetBusy(p, n) \/ IgetFound(p, n) \/ IgetReads(p, n)) \/ Iread(p)
    PROVE  Told(p)
<1>1. inode \in [Slot -> EntryState] /\ s_ilock' = s_ilock
  BY Types DEF IgetBusy, IgetFound, IgetReads, Iread, super
<1>2. \A t \in Slot : Keeps(t)
  <2>1. CASE \E n \in Ino : IgetBusy(p, n)
    <3>1. \E s \in Slot : inode' = [inode EXCEPT ![s].iwant = TRUE]
      BY <2>1 DEF IgetBusy, Cached
    <3>2. QED
      BY <1>1, <3>1 DEF Keeps, EntryState
  <2>2. CASE \E n \in Ino : IgetFound(p, n) \/ IgetReads(p, n)
    <3>1. PICK s \in Slot : ~inode[s].ilock /\ \E e : inode' = [inode EXCEPT ![s] = e]
      <4>1. CASE \E n \in Ino : IgetFound(p, n)
        <5>1. PICK s \in Slot : ~inode[s].ilock /\ inode' = [inode EXCEPT ![s].ilock = TRUE, ![s].count = @ + 1]
          BY <4>1 DEF IgetFound, Cached
        <5>2. inode' = [inode EXCEPT ![s] = inode'[s]]
          BY <1>1, <5>1
        <5>3. QED
          BY <5>1, <5>2
      <4>2. CASE \E n \in Ino : IgetReads(p, n)
        BY <4>2 DEF IgetReads, Unlocked
      <4>3. QED
        BY <2>2, <4>1, <4>2
    <3>2. QED
      BY <1>1, <3>1 DEF Keeps
  <2>3. CASE Iread(p)
    BY <1>1, <2>3 DEF Iread, Keeps, EntryState
  <2>4. QED
    BY <2>1, <2>2, <2>3
<1>3. QED
  BY <1>1, <1>2 DEF Told

LEMMA UseKeepsLocks ==
    ASSUME IInv, NEW p \in Procs, Use(p), ~Prele(p)
    PROVE  Told(p)
<1>1. inode \in [Slot -> EntryState] /\ s_ilock' = s_ilock
  BY Types DEF Use, PlockWaits, PlockLocks, Link, Linked, Unlink, Open, Closef, Sync, Updates, fs, super
<1>2. \A t \in Slot : Keeps(t)
  <2>1. CASE PlockWaits(p) \/ PlockLocks(p)
    BY <1>1, <2>1 DEF PlockWaits, PlockLocks, Keeps, EntryState, Entry
  <2>2. CASE Link(p) \/ Linked(p) \/ Unlink(p) \/ Updates(p, "sync", "iput")
    BY <1>1, <2>2 DEF Link, Linked, Unlink, Updates, Keeps, EntryState
  <2>3. CASE Open(p) \/ Closef(p)
    BY <2>3 DEF Open, Closef, table, Keeps
  <2>4. CASE Sync(p)
    <3>1. PICK s \in Slot : ~inode[s].ilock /\ inode' = [inode EXCEPT ![s].ilock = TRUE, ![s].count = @ + 1]
      BY <2>4 DEF Sync
    <3>2. QED
      BY <1>1, <3>1 DEF Keeps
  <2>5. QED
    BY <2>1, <2>2, <2>3, <2>4 DEF Use
<1>3. QED
  BY <1>1, <1>2 DEF Told

LEMMA IputKeepsLocks ==
    ASSUME IInv, NEW p \in Procs, Iput(p), ~IputShared(p), ~IputFrees(p), ~Freed(p)
    PROVE  Told(p)
<1>1. inode \in [Slot -> EntryState] /\ (s_ilock => s_ilock')
  BY Types DEF Iput, IputTruncates, Truncated, IputFreed, IputUpdates, Updates, FreeWaits, FreeLocks, super
<1>2. \A t \in Slot : Keeps(t)
  <2>1. CASE IputTruncates(p) \/ IputFreed(p) \/ Updates(p, "update", "put") \/ FreeLocks(p)
    BY <1>1, <2>1 DEF IputTruncates, IputFreed, Updates, FreeLocks, Keeps, EntryState
  <2>2. CASE Truncated(p) \/ IputUpdates(p) \/ FreeWaits(p)
    BY <2>2 DEF Truncated, IputUpdates, FreeWaits, table, Keeps
  <2>3. QED
    BY <2>1, <2>2 DEF Iput
<1>3. QED
  BY <1>1, <1>2 DEF Told

LEMMA IallocKeepsLocks ==
    ASSUME IInv, NEW p \in Procs, Ialloc(p), ~Allocated(p), ~NoSpace(p)
    PROVE  Told(p)
<1>1. inode \in [Slot -> EntryState] /\ (s_ilock => s_ilock')
  BY Types DEF Ialloc, AllocWaits, AllocLocks, AllocPops, AllocChecks, Updates, AllocScans, ScanBlock,
               ScanFails, ScanEnds, super
<1>2. \A t \in Slot : Keeps(t)
  <2>1. CASE AllocChecks(p) \/ Updates(p, "ataken", "iput")
    <3>1. CASE AllocChecks(p) /\ Entry(p).mode = "free"
      <4>1. inode' = [inode EXCEPT ![proc[p].ip] = [@ EXCEPT !.mode = "file", !.nlink = 1, !.changed = TRUE]]
        BY <3>1 DEF AllocChecks
      <4>2. QED
        BY <1>1, <4>1 DEF Keeps, EntryState
    <3>2. CASE AllocChecks(p) /\ Entry(p).mode # "free"
      BY <3>2 DEF AllocChecks, Keeps
    <3>3. CASE Updates(p, "ataken", "iput")
      BY <1>1, <3>3 DEF Updates, Keeps, EntryState
    <3>4. QED
      BY <2>1, <3>1, <3>2, <3>3
  <2>2. CASE AllocWaits(p) \/ AllocLocks(p) \/ AllocPops(p) \/ AllocScans(p) \/ ScanBlock(p)
             \/ ScanFails(p) \/ ScanEnds(p)
    BY <2>2 DEF AllocWaits, AllocLocks, AllocPops, AllocScans, ScanBlock, ScanFails, ScanEnds, table, Keeps
  <2>3. QED
    BY <2>1, <2>2 DEF Ialloc
<1>3. QED
  BY <1>1, <1>2 DEF Told
--------------------------------------------------------------------------------
(* The actions that release an inode, or s_ilock. *)

(* Only the entry in s is touched, and who sleeps on it is woken.          *)
LEMMA ReleaseTells ==
    ASSUME IInv, NEW p \in Procs, NEW s \in Slot, NEW e, inode' = [inode EXCEPT ![s] = e],
           \A q \in Procs \ {p} : \/ proc'[q] = Awakened(proc, s)[q]
                                  \/ proc'[q] = WakeIlock(Awakened(proc, s))[q]
    PROVE  \A t \in Slot : Keeps(t) \/ Rouses(p, t)
<1>1. \A t \in Slot \ {s} : Keeps(t)
  BY Types DEF Keeps
<1>2. Rouses(p, s)
  BY Roused DEF Rouses
<1>3. QED
  BY <1>1, <1>2

LEMMA InodeReleased ==
    ASSUME IInv, NEW p \in Procs, Prele(p) \/ IputShared(p) \/ IputFrees(p)
    PROVE  Told(p)
<1>1. proc[p].pc \in {"iput", "locked", "put"}
  BY DEF Prele, IputShared, IputFrees, Iputs, At
<1>2. proc[p].ip \in Slot
  BY <1>1, Holder DEF Idles, NoInode
<1>3. \E e : inode' = [inode EXCEPT ![proc[p].ip] = e]
  <2>1. CASE Prele(p)
    <3>1. inode' = [inode EXCEPT ![proc[p].ip] = Released(inode[proc[p].ip])]
      BY <2>1 DEF Prele
    <3>2. QED
      BY <3>1
  <2>2. CASE IputShared(p) \/ IputFrees(p)
    BY <2>2 DEF IputShared, IputFrees
  <2>3. QED
    BY <2>1, <2>2
<1>4. Awakened(proc, proc[p].ip) \in [Procs -> ProcState]
  BY <1>1, <1>2, NotWoken
<1>5. \A q \in Procs \ {p} : proc'[q] = Awakened(proc, proc[p].ip)[q]
  <2>1. CASE Prele(p)
    BY <1>4, <2>1 DEF Prele
  <2>2. CASE IputShared(p) \/ IputFrees(p)
    <3>1. Done(p, Awakened(proc, proc[p].ip))
      BY <2>2 DEF IputShared, IputFrees
    <3>2. QED
      BY <1>4, <3>1 DEF Done
  <2>3. QED
    BY <2>1, <2>2
<1>6. s_ilock' = s_ilock
  BY DEF Prele, IputShared, IputFrees, super
<1>7. QED
  BY <1>2, <1>3, <1>5, <1>6, ReleaseTells DEF Told

LEMMA NullTells ==
    ASSUME IInv, NEW p \in Procs, NEW P \in [Procs -> ProcState], WakeIlock(P) \in [Procs -> ProcState],
           GetsNull(P, p)
    PROVE  /\ \A q \in Procs \ {p} : proc'[q] = P[q] \/ proc'[q] = WakeIlock(P)[q]
           /\ (s_ilock => s_ilock') \/ Tells(p)
           /\ proc'[p] = Idle
<1>1. PICK s \in Slot : TRUE
  BY TableAssumption DEF Slot
<1>2. CASE P[p].by = "user"
  BY <1>2 DEF GetsNull, super
<1>3. CASE P[p].by # "user"
  <2>1. proc' = [WakeIlock(P) EXCEPT ![p] = Idle]
    BY <1>3 DEF GetsNull
  <2>2. \A q \in Procs : WakeIlock(P)[q].pc \notin {"asleep", "fsleep"}
    BY <1>1, Roused
  <2>3. QED
    BY <2>1, <2>2 DEF Tells
<1>4. QED
  BY <1>2, <1>3

LEMMA LookupFails ==
    ASSUME IInv, NEW p \in Procs, (\E n \in Ino : IgetOverflow(p, n)) \/ IreadFails(p)
    PROVE  Told(p) /\ proc'[p] = Idle
<1>1. CASE \E n \in Ino : IgetOverflow(p, n)
  <2>1. proc[p].pc \in {"user", "iget"} /\ GetsNull(proc, p) /\ inode' = inode
    BY <1>1 DEF IgetOverflow, Seeks, At, table
  <2>2. 1 \in Slot
    BY TableAssumption DEF Slot
  <2>3. proc \in [Procs -> ProcState] /\ WakeIlock(proc) \in [Procs -> ProcState]
    BY <2>1, <2>2, NotWoken, Types
  <2>4. ((s_ilock => s_ilock') \/ Tells(p)) /\ proc'[p] = Idle
    BY <2>1, <2>3, NullTells
  <2>5. QED
    BY <2>1, <2>4 DEF Told, Keeps
<1>2. CASE IreadFails(p)
  <2>1. /\ proc[p].pc = "iread" /\ GetsNull(Awakened(proc, proc[p].ip), p)
        /\ inode' = [inode EXCEPT ![proc[p].ip] = Vacant]
    BY <1>2 DEF IreadFails, At
  <2>2. proc[p].ip \in Slot
    BY <2>1, Holder DEF Idles, NoInode
  <2>3. /\ Awakened(proc, proc[p].ip) \in [Procs -> ProcState]
        /\ WakeIlock(Awakened(proc, proc[p].ip)) \in [Procs -> ProcState]
    BY <2>1, <2>2, NotWoken
  <2>4. /\ \A q \in Procs \ {p} : \/ proc'[q] = Awakened(proc, proc[p].ip)[q]
                                  \/ proc'[q] = WakeIlock(Awakened(proc, proc[p].ip))[q]
        /\ (s_ilock => s_ilock') \/ Tells(p)
        /\ proc'[p] = Idle
    BY <2>1, <2>3, NullTells
  <2>5. QED
    BY <2>1, <2>2, <2>4, ReleaseTells DEF Told
<1>3. QED
  BY <1>1, <1>2

LEMMA IlockReleased ==
    ASSUME IInv, NEW p \in Procs, Freed(p) \/ Allocated(p) \/ NoSpace(p)
    PROVE  Told(p)
<1>1. PICK s \in Slot : TRUE
  BY TableAssumption DEF Slot
<1>2. /\ WakeIlock(proc) \in [Procs -> ProcState]
      /\ \A q \in Procs : WakeIlock(proc)[q].pc \notin {"asleep", "fsleep"}
  BY <1>1, Types, Wakeups, Roused
<1>3. \A q \in Procs \ {p} : proc'[q] = WakeIlock(proc)[q]
  BY <1>2 DEF Freed, Allocated, NoSpace
<1>4. \A t \in Slot : Keeps(t)
  <2>1. CASE Freed(p) \/ Allocated(p)
    <3>1. inode' = [inode EXCEPT ![proc[p].ip].changed = FALSE]
      BY <2>1 DEF Freed, Allocated
    <3>2. QED
      BY Types, <3>1 DEF Keeps, EntryState
  <2>2. CASE NoSpace(p)
    BY <2>2 DEF NoSpace, table, Keeps
  <2>3. QED
    BY <2>1, <2>2
<1>5. QED
  BY <1>2, <1>3, <1>4 DEF Told, Tells
--------------------------------------------------------------------------------
LEMMA AllTold ==
    ASSUME IInv, NEW p \in Procs, Lookup(p) \/ Use(p) \/ Iput(p) \/ Ialloc(p)
    PROVE  Told(p)
<1>1. CASE Lookup(p)
  BY <1>1, LookupKeepsLocks, LookupFails DEF Lookup
<1>2. CASE Use(p)
  BY <1>2, UseKeepsLocks, InodeReleased
<1>3. CASE Iput(p)
  BY <1>3, IputKeepsLocks, InodeReleased, IlockReleased
<1>4. CASE Ialloc(p)
  BY <1>4, IallocKeepsLocks, IlockReleased
<1>5. QED
  BY <1>1, <1>2, <1>3, <1>4

(* Who goes to sleep finds locked what he waits for. *)
LEMMA GoesToSleep ==
    ASSUME IInv, IInv', AllocInv, ListInv, NEW p \in Procs, Lookup(p) \/ Use(p) \/ Iput(p) \/ Ialloc(p)
    PROVE  WaitOK(p)'
<1>1. proc \in [Procs -> ProcState] /\ inode \in [Slot -> EntryState]
  BY Types
<1>2. CASE Lookup(p)
  <2>1. CASE \E n \in Ino : IgetBusy(p, n)
    <3>1. PICK n \in Ino : IgetBusy(p, n)
      BY <2>1
    <3>2. PICK s \in Slot :
            /\ inode[s].hashed /\ inode[s].number = n /\ inode[s].ilock
            /\ inode' = [inode EXCEPT ![s].iwant = TRUE]
            /\ proc' = [proc EXCEPT ![p].pc = "isleep", ![p].ip = s, ![p].ino = n]
      BY <3>1 DEF IgetBusy, Cached
    <3>3. proc'[p].pc = "isleep" /\ proc'[p].ip = s /\ proc'[p].ino = n
      BY <1>1, <3>2 DEF ProcState
    <3>4. inode'[s].ilock /\ inode'[s].iwant /\ inode'[s].hashed /\ inode'[s].number = n
      BY <1>1, <3>2 DEF EntryState
    <3>5. QED
      BY <3>3, <3>4 DEF WaitOK, Entry
  <2>2. CASE \E n \in Ino : IgetReads(p, n)
    <3>1. \E s \in Slot : proc' = [proc EXCEPT ![p].pc = "iread", ![p].ip = s, ![p].ino = 0]
      BY <2>2 DEF IgetReads
    <3>2. proc'[p].pc = "iread"
      BY <1>1, <3>1 DEF ProcState
    <3>3. QED
      BY <3>2 DEF WaitOK
  <2>3. CASE (\E n \in Ino : IgetFound(p, n)) \/ Iread(p)
    <3>1. \E s : Got(p, s)
      BY <2>3 DEF IgetFound, Iread
    <3>2. proc'[p].pc \in {"locked", "agot"}
      BY <1>1, <3>1 DEF Got, ProcState
    <3>3. QED
      BY <3>2 DEF WaitOK
  <2>4. CASE (\E n \in Ino : IgetOverflow(p, n)) \/ IreadFails(p)
    BY <2>4, LookupFails DEF WaitOK, Idle
  <2>5. QED
    BY <1>2, <2>1, <2>2, <2>3, <2>4 DEF Lookup
<1>3. CASE Use(p)
  <2>1. proc'[p].pc \in {"user", "psleep", "locked", "linked", "sync", "iput"}
    BY <1>3, UsePasses
  <2>2. CASE PlockWaits(p)
    <3>1. /\ proc[p].ip \in Slot /\ proc'[p].ip = proc[p].ip /\ proc'[p].pc = "psleep"
      <4>1. proc'[p].ip = proc[p].ip /\ proc'[p].pc = "psleep"
        BY <1>1, <2>2 DEF PlockWaits, SleepsTo, ProcState
      <4>2. proc'[p].ip \in Slot
        BY <4>1 DEF IInv, ProcOK, NoInode
      <4>3. QED
        BY <4>1, <4>2
    <3>2. inode[proc[p].ip].ilock /\ inode' = [inode EXCEPT ![proc[p].ip].iwant = TRUE]
      BY <2>2 DEF PlockWaits, Entry
    <3>3. inode'[proc[p].ip].ilock /\ inode'[proc[p].ip].iwant
      BY <1>1, <3>1, <3>2 DEF EntryState
    <3>4. QED
      BY <3>1, <3>3 DEF WaitOK, Entry
  <2>3. CASE ~PlockWaits(p)
    <3>1. proc'[p].pc # "psleep"
      <4>1. CASE Prele(p)
        <5>1. proc[p].pc = "locked"
          BY <4>1 DEF Prele, At
        <5>2. proc[p].ip \in Slot
          BY <5>1, Holder DEF Idles, NoInode
        <5>3. /\ Awakened(proc, proc[p].ip)[p] = proc[p]
              /\ Awakened(proc, proc[p].ip) \in [Procs -> ProcState]
          BY <5>1, <5>2, NotWoken
        <5>4. QED
          BY <4>1, <5>3 DEF Prele, ProcState
      <4>2. CASE Unlink(p) \/ Open(p) \/ Closef(p)
        BY <1>1, <4>2 DEF Unlink, Open, Closef, At, ProcState
      <4>3. CASE PlockLocks(p) \/ Link(p) \/ Linked(p) \/ Updates(p, "sync", "iput")
        BY <1>1, <4>3 DEF PlockLocks, Link, Linked, Updates, SleepsTo, RunsOn, ProcState
      <4>4. CASE Sync(p)
        <5>1. \E s : proc' = [proc EXCEPT ![p].pc = "sync", ![p].ip = s]
          BY <4>4 DEF Sync
        <5>2. QED
          BY <1>1, <5>1 DEF ProcState
      <4>5. QED
        BY <1>3, <2>3, <4>1, <4>2, <4>3, <4>4 DEF Use
    <3>2. QED
      BY <2>1, <3>1 DEF WaitOK
  <2>4. QED
    BY <2>2, <2>3
<1>4. CASE Iput(p)
  <2>1. proc'[p].pc \in {"user", "apop", "itrunc", "ifree", "update", "put", "fsleep", "fupdate"}
    BY <1>4, IputPlace
  <2>2. CASE FreeWaits(p)
    <3>1. s_ilock'
      BY <2>2 DEF FreeWaits, super
    <3>2. QED
      BY <2>1, <3>1 DEF WaitOK
  <2>3. CASE ~FreeWaits(p)
    <3>1. proc'[p].pc # "fsleep"
      <4>1. CASE IputShared(p) \/ IputFrees(p)
        <5>1. Done(p, Awakened(proc, proc[p].ip)) /\ proc[p].by = "user"
          BY <1>4, <4>1, IputPlace DEF IputShared, IputFrees
        <5>2. proc[p].pc \in {"iput", "locked", "put"} /\ proc[p].ip \in Slot
          <6>1. proc[p].pc \in {"iput", "locked", "put"}
            BY <4>1 DEF IputShared, IputFrees, Iputs, At
          <6>2. QED
            BY <6>1, Holder DEF Idles, NoInode
        <5>3. Awakened(proc, proc[p].ip) \in [Procs -> ProcState]
          BY <5>2, NotWoken
        <5>4. QED
          BY <5>1, <5>3 DEF Done, Idle
      <4>2. CASE IputTruncates(p) \/ Truncated(p) \/ IputFreed(p) \/ IputUpdates(p)
                 \/ Updates(p, "update", "put") \/ FreeLocks(p)
        <5>1. \E l \in {"itrunc", "ifree", "update", "put", "fupdate"} : proc' = [proc EXCEPT ![p].pc = l]
          BY <4>2 DEF IputTruncates, Truncated, IputFreed, IputUpdates, Updates, FreeLocks, SleepsTo, RunsOn
        <5>2. QED
          BY <1>1, <5>1 DEF ProcState
      <4>3. CASE Freed(p)
        <5>1. proc' = [WakeIlock(proc) EXCEPT ![p].pc = "put"]
          BY <4>3 DEF Freed
        <5>2. 1 \in Slot
          BY TableAssumption DEF Slot
        <5>3. WakeIlock(proc) \in [Procs -> ProcState]
          BY <1>1, <5>2, Wakeups
        <5>4. QED
          BY <5>1, <5>3 DEF ProcState
      <4>4. QED
        BY <1>4, <2>3, <4>1, <4>2, <4>3 DEF Iput
    <3>2. QED
      BY <2>1, <3>1 DEF WaitOK
  <2>4. QED
    BY <2>2, <2>3
<1>5. CASE Ialloc(p)
  <2>1. CASE AllocWaits(p)
    <3>1. s_ilock' /\ proc' = [proc EXCEPT ![p].pc = "asleep", ![p].by = "ialloc"]
      BY <2>1 DEF AllocWaits, super
    <3>2. proc'[p].pc = "asleep"
      BY <1>1, <3>1 DEF ProcState
    <3>3. QED
      BY <3>1, <3>2 DEF WaitOK
  <2>2. CASE Allocated(p) \/ NoSpace(p)
    <3>1. 1 \in Slot
      BY TableAssumption DEF Slot
    <3>2. WakeIlock(proc) \in [Procs -> ProcState]
      BY <1>1, <3>1, Wakeups
    <3>3. proc'[p].pc \in {"locked", "user"}
      BY <2>2, <3>2 DEF Allocated, NoSpace, ProcState, Idle
    <3>4. QED
      BY <3>3 DEF WaitOK
  <2>3. CASE AllocLocks(p) \/ AllocPops(p) \/ AllocScans(p) \/ AllocChecks(p)
             \/ Updates(p, "ataken", "iput")
    <3>1. proc'[p].pc \in {"apop", "iget", "scan", "aupdate", "ataken", "iput"}
      <4>1. CASE AllocLocks(p) \/ AllocPops(p) \/ AllocScans(p)
        BY <1>1, <4>1 DEF AllocLocks, AllocPops, AllocScans, ProcState
      <4>2. CASE AllocChecks(p) \/ Updates(p, "ataken", "iput")
        BY <1>1, <4>2 DEF AllocChecks, Updates, SleepsTo, RunsOn, ProcState
      <4>3. QED
        BY <2>3, <4>1, <4>2
    <3>2. QED
      BY <3>1 DEF WaitOK
  <2>4. CASE ScanBlock(p) \/ ScanFails(p) \/ ScanEnds(p)
    <3>1. proc'[p].pc \in {"scan", "apop", "nospace"}
      <4>1. CASE ScanBlock(p) \/ ScanFails(p)
        BY <1>1, <4>1 DEF ScanBlock, ScanFails, At, ProcState
      <4>2. CASE ScanEnds(p)
        BY <1>1, <4>2 DEF ScanEnds, ProcState
      <4>3. QED
        BY <2>4, <4>1, <4>2
    <3>2. QED
      BY <3>1 DEF WaitOK
  <2>5. QED
    BY <1>5, <2>1, <2>2, <2>3, <2>4 DEF Ialloc
<1>6. QED
  BY <1>2, <1>3, <1>4, <1>5
--------------------------------------------------------------------------------
LEMMA WaitStep == IInv /\ IInv' /\ AllocInv /\ ListInv /\ WaitInv /\ [Next]_vars => WaitInv'
<1> SUFFICES ASSUME IInv, IInv', AllocInv, ListInv, WaitInv, [Next]_vars PROVE WaitInv'
  OBVIOUS
<1>1. ASSUME NEW p \in Procs, Lookup(p) \/ Use(p) \/ Iput(p) \/ Ialloc(p) PROVE WaitInv'
  BY <1>1, AllTold, GoesToSleep, ToldKeeps
<1>2. ASSUME NEW k \in Slot, Iflush(k) PROVE WaitInv'
  <2>1. proc' = proc /\ s_ilock' = s_ilock
    BY <1>2 DEF Iflush, super
  <2>2. \A s \in Slot : inode[s].ilock => inode'[s] = inode[s]
    <3>1. \A s \in Slot : s <= k => s \in 1..k
      BY TableAssumption DEF Slot
    <3>2. QED
      BY <1>2, <3>1 DEF Iflush
  <2>3. \A p \in Procs : proc[p].pc \in {"isleep", "psleep"} => proc[p].ip \in Slot
    BY DEF IInv, ProcOK, NoInode
  <2>4. QED
    BY <2>1, <2>2, <2>3 DEF WaitInv, WaitOK, Entry
<1>3. CASE UNCHANGED vars
  BY <1>3 DEF vars, table, fs, super, WaitInv, WaitOK, Entry
<1>4. QED
  BY <1>1, <1>2, <1>3 DEF Next

LEMMA WaitInit == Init => WaitInv
  BY DEF Init, Idle, WaitInv, WaitOK

(* A process asleep in iget or plock, or for s_ilock, waits for another.   *)
LEMMA SleeperWaits ==
    ASSUME IInv, AllocInv, WaitInv, NEW p \in Procs,
           proc[p].pc \in {"isleep", "psleep", "asleep", "fsleep"}
    PROVE  \E q \in Procs : WaitsFor(p, q)
<1>1. CASE proc[p].pc \in {"isleep", "psleep"}
  <2>1. proc[p].ip \in Slot /\ Entry(p).ilock /\ Entry(p).iwant
    BY <1>1 DEF IInv, ProcOK, NoInode, WaitInv, WaitOK
  <2>2. PICK q \in Procs : Locks(q, proc[p].ip)
    BY <2>1 DEF IInv, SlotOK, Entry
  <2>3. q # p
    BY <1>1, <2>2 DEF Locks, Refers
  <2>4. QED
    BY <1>1, <2>1, <2>2, <2>3 DEF WaitsFor
<1>2. CASE proc[p].pc \in {"asleep", "fsleep"}
  <2>1. PICK q \in Procs : Allocs(q)
    BY <1>2 DEF WaitInv, WaitOK, AllocInv, OneAllocates
  <2>2. QED
    BY <1>2, <2>1 DEF WaitsFor, Allocs
<1>3. QED
  BY <1>1, <1>2

(* Of those who sleep only who waits in s5ifree has an inode locked, ...   *)
LEMMA LockedAsleep ==
    ASSUME IInv, NEW q \in Procs, NEW s \in Slot, Locks(q, s),
           proc[q].pc \in {"isleep", "psleep", "asleep", "fsleep"}
    PROVE  proc[q].pc = "fsleep"
<1>1. proc[q].ip = s /\ proc[q].pc \notin {"isleep", "psleep"} /\ s # None
  BY DEF Locks, Refers, Slot, None
<1>2. proc[q].pc # "asleep"
  BY <1>1 DEF IInv, ProcOK, NoInode
<1>3. QED
  BY <1>1, <1>2

(* ... and s5ialloc does not ask for that one: its number is not free.     *)
LEMMA FreeNotAsked ==
    ASSUME IInv, ListInv, WaitInv, NEW p \in Procs, proc[p].pc = "isleep", proc[p].by = "ialloc",
           NEW q \in Procs, Locks(q, proc[p].ip)
    PROVE  proc[q].pc # "fsleep"
<1> SUFFICES ASSUME proc[q].pc = "fsleep" PROVE FALSE
  OBVIOUS
<1> DEFINE s == proc[p].ip
           n == proc[p].ino
<1>1. proc[q].ip = s /\ s \in Slot
  BY DEF Locks, Refers, IInv, ProcOK, NoInode
<1>2. inode[s].hashed /\ inode[s].number = n
  BY DEF WaitInv, WaitOK, Entry
<1>3. inode[s].mode = "file"
  BY <1>1 DEF IInv, ProcOK, Entry
<1>4. SlotOK(s)
  BY <1>1 DEF IInv
<1>5. n \in Ino
  BY <1>2, <1>4 DEF SlotOK
<1>6. \A r \in Procs : ~Reads(r, s)
  <2> SUFFICES ASSUME NEW r \in Procs, Reads(r, s) PROVE FALSE
    OBVIOUS
  <2>1. Locks(r, s)
    BY <1>1, Implied
  <2>2. r = q
    BY <1>4, <2>1 DEF SlotOK
  <2>3. QED
    BY <2>2 DEF Reads
<1>7. ilist[n].mode = "file"
  <2>1. InCore(s, n)
    BY <1>2, <1>6 DEF InCore
  <2>2. ilist[n] = Val(s)
    BY <1>1, <1>5, <2>1, ListHere
  <2>3. QED
    BY <1>3, <2>2 DEF Val
<1>8. n \in FreeSet
  BY DEF ListInv, HeldOK, Holds, Number, Fresh
<1>9. QED
  BY <1>7, <1>8 DEF FreeSet

(* Whoever sleeps will be woken: what he waits for is held by another      *)
(* process, and never round in a circle, although s5ialloc waits for       *)
(* inodes with s_ilock and iput waits for s_ilock with an inode: the inode *)
(* that s5ialloc waits for is free (iget, plock, s5ialloc, s5ifree).       *)
THEOREM NobodyInACircle == Spec => []NoCircle
<1>1. ASSUME IInv, AllocInv, ListInv, WaitInv PROVE NoCircle
  <2> DEFINE Asleep == {p \in Procs : proc[p].pc \in {"isleep", "psleep", "asleep", "fsleep"}}
  <2>1. \A p \in Asleep : \E q \in Procs : WaitsFor(p, q)
    BY <1>1, SleeperWaits
  <2>2. ASSUME NEW C \in (SUBSET Asleep) \ {{}} PROVE \E p \in C : \A q \in C : ~WaitsFor(p, q)
    <3>1. \A p \in C : p \in Procs /\ proc[p].pc \in {"isleep", "psleep", "asleep", "fsleep"}
      BY <2>2
    <3>2. ASSUME NEW p \in C, NEW q \in C, proc[p].pc \in {"isleep", "psleep"}, WaitsFor(p, q)
          PROVE  proc[q].pc = "fsleep" /\ Locks(q, proc[p].ip)
      <4>1. Locks(q, proc[p].ip)
        BY <3>2 DEF WaitsFor
      <4>2. proc[p].ip \in Slot
        BY <1>1, <3>1, <3>2 DEF IInv, ProcOK, NoInode
      <4>3. QED
        BY <1>1, <3>1, <4>1, <4>2, LockedAsleep
    <3>3. CASE \E p \in C : proc[p].pc = "isleep" /\ proc[p].by = "ialloc"
      <4>1. PICK p \in C : proc[p].pc = "isleep" /\ proc[p].by = "ialloc"
        BY <3>3
      <4>2. ASSUME NEW q \in C PROVE ~WaitsFor(p, q)
        BY <1>1, <3>1, <3>2, <4>1, FreeNotAsked
      <4>3. QED
        BY <4>2
    <3>4. CASE \E p \in C : proc[p].pc \in {"asleep", "fsleep"}
      <4>1. CASE \A p \in C : ~(proc[p].pc = "isleep" /\ proc[p].by = "ialloc")
        <5>1. PICK p \in C : proc[p].pc \in {"asleep", "fsleep"}
          BY <3>4
        <5>2. ASSUME NEW q \in C, WaitsFor(p, q) PROVE FALSE
          <6>1. proc[q].by = "ialloc" /\ proc[q].pc \in {"psleep", "fsleep"}
            BY <3>1, <4>1, <5>1, <5>2 DEF WaitsFor
          <6>2. CallOK(q) /\ Straight(q)
            BY <1>1, <3>1 DEF AllocInv, ListInv
          <6>3. QED
            BY <6>1, <6>2 DEF CallOK, Straight, Releasing
        <5>3. QED
          BY <5>2
      <4>2. QED
        BY <3>3, <4>1
    <3>5. CASE \A p \in C : proc[p].pc \in {"isleep", "psleep"}
      <4>1. PICK p \in C : TRUE
        BY <2>2
      <4>2. ASSUME NEW q \in C PROVE ~WaitsFor(p, q)
        <5>1. proc[q].pc # "fsleep"
          BY <3>5
        <5>2. QED
          BY <3>2, <3>5, <5>1
      <4>3. QED
        BY <4>2
    <3>6. QED
      BY <3>1, <3>4, <3>5
  <2>3. QED
    BY <2>1, <2>2 DEF NoCircle
<1>2. QED
  BY <1>1, Invariance, AllocInit, AllocStep, ListInit, ListStep, WaitInit, WaitStep, PTL DEF Spec
================================================================================
