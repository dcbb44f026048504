SPECIFICATION Spec
CONSTANTS
    p1 = p1
    p2 = p2
    p3 = p3
    Procs = {p1, p2, p3}
    SemMni = 1
    Blocks = 1
    SetSize = 2
    SemVmx = 1
    SemAem = 1
    SemUme = 1
    SemMnu = 2
    OpLists <- McOpLists
    MaxSeq = 1
    MaxFaults = 1
    Nowhere = Nowhere
SYMMETRY Symmetry
VIEW View
INVARIANTS
    TypeOK
    SleepersCounted
    SleepersBlocked
PROPERTIES
    AllOrNothing
