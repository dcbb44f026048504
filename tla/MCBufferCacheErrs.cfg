SPECIFICATION Spec
CONSTANTS
    p1 = p1  p2 = p2  p3 = p3
    k1 = k1  k2 = k2
    d1 = d1
    b1 = b1  b2 = b2  b3 = b3
    Procs = {p1, p2, p3}
    Bufs = {b1, b2}
    Blocks = {k1, k2}
    Devs = {d1}
    DevOf <- OneDev
    RaLists <- AheadOne
    MaxHold = 1
    MaxWrites = 1
    MaxErrs = 1
    BawriteFree = 0
    NoProc = NoProc  NoBuf = NoBuf  NoBlk = NoBlk
    NoChan = NoChan  FreeList = FreeList  BaSync = BaSync  AllDevs = AllDevs
SYMMETRY Symmetry
INVARIANTS
    TypeOK
    FreeIffIdle
    UniqueBlock
    BusyIsOwned
    NoLostWakeup
    FreeNotStranded
