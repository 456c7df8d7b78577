SPECIFICATION Spec
CONSTANTS
    NR_CPUS = 2
    NENV = 3
    NBoot = 2
    Pinned <- NoPins
    Pri <- OneSlice
    Ops <- SendsToVictim
    MaxId = 3
    NoCPU = NoCPU
    NoEnv = NoEnv
INVARIANTS NothingLeftQueued
