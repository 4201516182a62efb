SPECIFICATION MCSpec
CONSTANTS
    Cpus = {1, 2}
    b1 = b1
    b2 = b2
    Threads = {b1, b2, b3}
    BootThread <- TwoBootThreads
    MaxLocks = 2
    MaxFrames = 2
    NULL = NULL
    c1 = c1
    c2 = c2
    c3 = c3
    Callers = {h1, h2}
    Users = {u1, u2}
    Menu = m
    TwoNames = {x, y}
SYMMETRY Symmetry
INVARIANTS
    CountExact IrqTracksCount HandlersBalanced
    ThreadsAccountedFor StacksKept
    HeapExact
      ReferenceKeepsFs
PROPERTIES ImplementsFileStore
CHECK_DEADLOCK FALSE
