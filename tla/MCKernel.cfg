SPECIFICATION MCSpec
CONSTANTS
    PtSize = 5
    HashSize = 2
    KernelEnd = 1
    FirstFree = 2
    PageSize = 4
    KSEG0 = 100
    UserPids <- MCUserPids
    Vaddrs <- MCVaddrs
    MaxBlock = 2
    b1 = b1
    b2 = b2
    b3 = b3
    Nobody = Nobody
INVARIANTS TypeOK BlocksDisjoint FifoExact HashExact PageIdentifiesFrame NoNullFollowed
PROPERTIES RemovesExactly ImplementsFifoQueue ReadyRuns
