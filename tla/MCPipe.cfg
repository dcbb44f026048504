SPECIFICATION Spec
CONSTANTS
    w1 = w1
    w2 = w2
    r1 = r1
    r2 = r2
    Procs = {w1, w2, r1, r2}
    Modes <- McModes
    Counts <- McCounts
    Blk = 2
    NBlk = 2
    Garbage = Garbage
SYMMETRY Symmetry
INVARIANTS
    TypeOK
    Contiguous
    SleepersBlocked
PROPERTIES
    ImplementsFifo
