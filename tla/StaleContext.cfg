SPECIFICATION Spec
CONSTANTS
    NR_CPUS = 2
    NENV = 3
    NBoot = 3
    Pinned <- NoPins
    Pri <- OneSlice
    Ops <- OnlyYield
    MaxId = 3
    NoCPU = NoCPU
    NoEnv = NoEnv
PROPERTIES ResumesLatest
