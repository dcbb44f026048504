------------------------------- MODULE ByteLocks -------------------------------
(***************************************************************************)
(* What record locking promises, without lists of records: each owner has  *)
(* each byte of a file locked for reading, for writing or not at all; a    *)
(* request concerns all the bytes from its start to its end.               *)
(***************************************************************************)
EXTENDS Naturals

CONSTANTS Procs, Servers, Files, Bytes, Requests, NoRequest

VARIABLES
    held,       \* the locks: <<file, owner, byte, type>>
    req,        \* the request an owner has made and has no answer to
    ret         \* the answer that was given last

vars == <<held, req, ret>>

Against(t, u) == "F_WRLCK" \in {t, u}

(* The locks without those of p on the bytes B of f. *)
Without(f, p, B) == {x \in held : ~(x[1] = f /\ x[2] = p /\ x[3] \in B)}

Init ==
    /\ held = {}
    /\ req = [p \in Procs |-> NoRequest]
    /\ ret = "none"

Ask(p) ==
    /\ req[p] = NoRequest /\ req'[p] \in Requests
    /\ req' = [req EXCEPT ![p] = req'[p]]
    /\ ret' = "none"
    /\ UNCHANGED held

(* Nobody else has a lock against that of the request of p. *)
Clear(p) ==
    \A x \in held :
        x[1] = req[p].file /\ x[2] # p /\ x[3] \in req[p].start..req[p].end
            => ~Against(req[p].type, x[4])

Answer(p, r) ==
    /\ req[p] # NoRequest
    /\ req' = [req EXCEPT ![p] = NoRequest]
    /\ ret' = r

(* All of the bytes are given up ... *)
Unlock(p) ==
    /\ Answer(p, "ok") /\ req[p].type = "F_UNLCK"
    /\ held' = Without(req[p].file, p, req[p].start..req[p].end)

(* ... or locked, whatever lock p had on them. *)
Lock(p) ==
    LET B == req[p].start..req[p].end
    IN  /\ Answer(p, "ok") /\ req[p].type # "F_UNLCK" /\ req[p].op # "check" /\ Clear(p)
        /\ held' = Without(req[p].file, p, B)
                      \cup {<<req[p].file, p, b, req[p].type>> : b \in B}

(* Out of records: some of the bytes may have lost their lock. *)
RunOut(p) ==
    /\ Answer(p, "ENOLCK")
    /\ \E B \in SUBSET (req[p].start..req[p].end) : held' = Without(req[p].file, p, B)

(* Answers that change nothing. *)
Tell(p) ==
    /\ \/ Answer(p, "clear") /\ req[p].op = "check" /\ Clear(p)
       \/ Answer(p, "EAGAIN") /\ req[p].op = "set" /\ ~Clear(p)
       \/ Answer(p, "EDEADLK") /\ req[p].op # "set" /\ ~Clear(p)
       \/ Answer(p, "EBUSY") /\ p \in Servers /\ ~Clear(p)
       \/ Answer(p, "EINTR") /\ req[p].op # "set"
    /\ UNCHANGED held

(* All locks of the owners P on a file go. *)
Drop(f, P) ==
    /\ held' = {x \in held : x[1] # f \/ x[2] \notin P}
    /\ ret' = "none"
    /\ UNCHANGED req

(* Somebody sleeps or is woken. *)
Wait == ret' = "none" /\ UNCHANGED <<held, req>>

Next ==
    \/ \E p \in Procs : Ask(p) \/ Unlock(p) \/ Lock(p) \/ RunOut(p) \/ Tell(p)
    \/ \E f \in Files : Drop(f, Servers) \/ \E p \in Procs : Drop(f, {p})
    \/ Wait

Spec == Init /\ [][Next]_vars
-----------------------------------------------------------------------------
(* No byte is locked by two owners, one of them for writing. *)
Exclusive ==
    \A x, y \in held :
        x[1] = y[1] /\ x[3] = y[3] /\ x[2] # y[2] => ~Against(x[4], y[4])
=============================================================================
