SPECIFICATION Spec
CONSTANTS
    one = one
    q1 = q1
    q2 = q2
    q3 = q3
    Slot = {one, q1, q2, q3}
    InitProc = one
    Signals <- McSignals
    MayFail = {one}
    Handlers = {}
    Posted = {one, q1, q2, q3}
    Nobody = Nobody
    Nowhere = Nowhere
INVARIANTS
    AdoptedListed
