------------------------------- MODULE InodeList -------------------------------
(***************************************************************************)
(* What the inode table and the allocation of inodes promise to those who  *)
(* use them: every inode of a file system has one contents, which changes  *)
(* only under its lock, and it is not free before its last link and its    *)
(* last reference are gone.                                                *)
(***************************************************************************)
EXTENDS Naturals

CONSTANTS Procs, Inodes, MAXLINK

VARIABLES
    ilist,      \* the inodes: whether each is allocated, and its links
    file,       \* the inode of the open file, or zero
    ref,        \* the inode a process has a reference to, or zero
    locked      \* the processes that have theirs locked

vars == <<ilist, file, ref, locked>>

Init ==
    /\ ilist = [n \in Inodes |-> [mode |-> "free", nlink |-> 0]]
    /\ file = 0
    /\ ref = [p \in Procs |-> 0]
    /\ locked = {}

Unlocked(n) == \A q \in locked : ref[q] # n

(* A reference to an inode, which it locks ... *)
Get(p) ==
    /\ ref[p] = 0 /\ ref'[p] # 0 /\ Unlocked(ref'[p])
    /\ ref' = [ref EXCEPT ![p] = ref'[p]]
    /\ locked' = locked \cup {p}
    /\ UNCHANGED <<ilist, file>>

(* ... and may lock again after it was unlocked. *)
Lock(p) ==
    /\ ref[p] # 0 /\ Unlocked(ref[p])
    /\ locked' = locked \cup {p}
    /\ UNCHANGED <<ilist, file, ref>>

(* A reference goes to the open file, or comes from there. *)
Open(p) ==
    /\ ref[p] # 0 /\ p \notin locked /\ file = 0
    /\ file' = ref[p]
    /\ ref' = [ref EXCEPT ![p] = 0]
    /\ UNCHANGED <<ilist, locked>>

Close(p) ==
    /\ ref[p] = 0 /\ file # 0
    /\ ref' = [ref EXCEPT ![p] = file]
    /\ file' = 0
    /\ UNCHANGED <<ilist, locked>>

(* What a process does with an inode it has locked. *)
Unlock(p) ==
    /\ locked' = locked \ {p}
    /\ UNCHANGED <<ilist, file, ref>>

Put(p) ==
    /\ locked' = locked \ {p}
    /\ ref' = [ref EXCEPT ![p] = 0]
    /\ UNCHANGED <<ilist, file>>

(* Links come and go. *)
Change(p) ==
    /\ \E k \in 0..MAXLINK : ilist' = [ilist EXCEPT ![ref[p]].nlink = k]
    /\ UNCHANGED <<file, ref, locked>>

(* A new file gets an inode that is free. *)
Allocate(p) ==
    /\ ilist[ref[p]].mode = "free"
    /\ ilist' = [ilist EXCEPT ![ref[p]] = [mode |-> "file", nlink |-> 1]]
    /\ UNCHANGED <<file, ref, locked>>

(* A file goes with its last link and its last reference. *)
Deallocate(p) ==
    /\ ilist[ref[p]] = [mode |-> "file", nlink |-> 0]
    /\ file # ref[p] /\ \A q \in Procs \ {p} : ref[q] # ref[p]
    /\ ilist' = [ilist EXCEPT ![ref[p]].mode = "free"]
    /\ UNCHANGED <<file, ref, locked>>

Next ==
    \/ \E p \in Procs : Get(p) \/ Lock(p) \/ Open(p) \/ Close(p)
    \/ \E p \in locked :
        Unlock(p) \/ Put(p) \/ Change(p) \/ Allocate(p) \/ Deallocate(p)

Spec == Init /\ [][Next]_vars
================================================================================
