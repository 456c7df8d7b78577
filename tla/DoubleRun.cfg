SPECIFICATION Spec
CONSTANTS
    NR_CPUS = 2
    NENV = 3
    NBoot = 3
    Pinned <- NoPins
    Pri <- OneSlice
    Ops <- SendRecv
    MaxId = 3
    NoCPU = NoCPU
    NoEnv = NoEnv
INVARIANTS NoDoubleRun
