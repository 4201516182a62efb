SPECIFICATION Spec
CONSTANTS
    KernelEnd = 1
    FirstFree = 1
    PageSize = 4
    KSEG0 = 100
    NumTlb = 2
    UintRange = 4
    Values <- OneValue
INVARIANTS TlbCoherent OneCopy NothingLeaked 
 
