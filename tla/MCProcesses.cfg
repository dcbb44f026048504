SPECIFICATION Spec
CONSTANTS
    one = one
    q1 = q1
    q2 = q2
    q3 = q3
    Slot = {one, q1, q2}
    InitProc = one
    Signals <- McSignals
    MayFail = {q1, q2}
    Handlers = {q1, q2}
    Posted = {q1, q2}
    Nobody = Nobody
    Nowhere = Nowhere
SYMMETRY Symmetry
INVARIANTS
    TypeOK
    FamilyTree
    NoSignalSlept
    NoZombieMissed
