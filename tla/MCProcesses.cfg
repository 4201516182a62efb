SPECIFICATION MCSpec
CONSTANTS
    NULL = NULL
    MAX_PROC = 5
    Procs = {k, p1, p2, p3}
    kproc = k
    Threads = {m, t1, t2, t3}
    Menu = m
    ExitCodes = {258}
    WaitPids <- Children
    LoadFails = TRUE
    SemFails = FALSE
    SynchThreads = {s1, s2, s3}
    MaxCount = 2
    FileProcs = {q1, q2}
    Files = {v1, v2}
    SYSTEM_OPEN_MAX = 2
    FirstFd = 3
    OPEN_MAX = 5
    CallFds = {3, 4}
    MaxOffset = 1
SYMMETRY Symmetry
INVARIANTS
    PidNamesProcess OnlyReference StatusDelivered 
    WakeupsKept
      ChainExact
PROPERTIES ImplementsMonitor
CHECK_DEADLOCK FALSE
