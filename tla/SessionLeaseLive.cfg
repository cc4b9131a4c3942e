SPECIFICATION FairSpec
CONSTANTS
    a1 = a1
    a2 = a2
    b1 = b1
    None = None
    Workers = {a1, b1}
    Host <- MCHost
    StrongHosts <- MCStrongHosts
    TTL = 2
    Second = 1
    MaxRev = 3
    MaxDrops = 1
PROPERTIES ZombieNotices DeadHolderFreed
CHECK_DEADLOCK FALSE
