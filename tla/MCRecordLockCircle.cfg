SPECIFICATION Spec
CONSTANTS
    p1 = p1  p2 = p2  p3 = p3 
    f1 = f1
    r1 = r1  r2 = r2  r3 = r3  r4 = r4  r5 = r5 
    Procs = {p1, p2, p3}
    Servers = {}
    Files = {f1}
    MaxByte = 2
    Recs = {r1, r2, r3, r4, r5}
    Requests <- CircleRequests
    NoProc = NoProc  NoRec = NoRec  Wanted = Wanted
SYMMETRY Symmetry
INVARIANTS
    SleeperBlocked
    NoCircle
