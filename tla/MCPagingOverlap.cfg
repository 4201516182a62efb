SPECIFICATION Spec
CONSTANTS
    PtSize = 3
    HashSize = 2
    KernelEnd = 1
    FirstFree = 1
    PageSize = 4
    KSEG0 = 100
    UserPids <- MCUserPids
    Vaddrs <- TwoPages
    NumTlb = 2
    UintRange = 4
    SwapPages = 4
    MaxProc = 3
    StackPages <- MCStackPages
    Writable <- MCWritable
    InFile <- MCInFile
    Values <- OneValue
    MaxLive = 2
    MaxKernel = 0
    ReusePids = FALSE
    Overlap = TRUE
INVARIANTS SlotIdentifiesPage
