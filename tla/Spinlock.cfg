SPECIFICATION FairSpec
CONSTANTS
    CPUs = {c1, c2, c3}
    NoCPU = NoCPU
INVARIANTS
    TypeOK
    LockInv
PROPERTIES
    ImplementsMutex
    KeepsGranting
