SPECIFICATION Spec
CONSTANTS
    PtSize = 5
    HashSize = 2
    KernelEnd = 1
    FirstFree = 2
    PageSize = 4
    KSEG0 = 100
    UserPids <- MCUserPids
    Vaddrs <- MCVaddrs
    MaxBlock = 2
INVARIANTS LockHeldAtRelease
