SPECIFICATION FairSpec
CONSTANTS
    one = one
    q1 = q1
    q2 = q2
    q3 = q3
    Slot = {one, q1, q2}
    InitProc = one
    Signals <- McSignals
    MayFail = {}
    Handlers = {}
    Posted = {one, q1, q2}
    Nobody = Nobody
    Nowhere = Nowhere
PROPERTIES
    KillKills
    ZombiesLaidToRest
