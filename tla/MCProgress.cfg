SPECIFICATION MCSpec
CONSTANTS
    PtSize = 5
    HashSize = 2
    KernelEnd = 1
    FirstFree = 1
    PageSize = 4
    KSEG0 = 100
    UserPids <- MCUserPids
    Vaddrs <- TwoPages
    NumTlb = 2
    UintRange = 4
    SwapPages = 2
    MaxProc = 3
    StackPages <- MCStackPages
    Writable <- MCWritable
    InFile <- MCInFile
    Values <- OneValue
    MaxLive = 2
    MaxKernel = 0
    ReusePids = FALSE
    Overlap = TRUE
    Nobody = Nobody
    SynchThreads = {s1, s2, s3}
    MaxCount = 2
    MAX_PROC = 4
    Procs = {k, p1, p2}
    kproc = k
    ProcThreads = {m, t1, t2}
    Menu = m
    Users = {u1, u2}
    Printer = pr
    TwoHandles = {h1, h2}
INVARIANTS  TransfersExact HandlesExact
PROPERTIES FaultServed WaitersServed WaitReturns DevicesReleased
CHECK_DEADLOCK FALSE
