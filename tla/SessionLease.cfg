SPECIFICATION Spec
CONSTANTS
    a1 = a1
    a2 = a2
    b1 = b1
    None = None
    Workers = {a1, a2}
    Host <- MCHost
    StrongHosts <- MCStrongHosts
    TTL = 2
    Second = 1
    MaxRev = 4
    MaxDrops = 1
SYMMETRY Twins
INVARIANTS TypeOK ConfirmedHolderOwnsRecord FencesOrdered ReleaseHits
PROPERTIES NeverEvictsLiveHolder ImplementsRegister
CHECK_DEADLOCK FALSE
