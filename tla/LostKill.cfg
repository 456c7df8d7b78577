SPECIFICATION FairSpec
CONSTANTS
    NR_CPUS = 2
    NENV = 2
    NBoot = 1
    Pinned <- NoPins
    Pri <- OneSlice
    Ops <- Kills
    MaxId = 2
    NoCPU = NoCPU
    NoEnv = NoEnv
PROPERTIES DestroyReturns
