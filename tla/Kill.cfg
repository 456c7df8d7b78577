SPECIFICATION Spec
CONSTANTS
    NR_CPUS = 2
    NENV = 3
    NBoot = 1
    Pinned <- NoPins
    Pri <- OneSlice
    Ops <- Kills
    MaxId = 3
    NoCPU = NoCPU
    NoEnv = NoEnv
INVARIANTS TypeOK QueueExact NoDoubleRun RunsLiveEnv
PROPERTIES FreedOnce
ACTION_CONSTRAINT CreateFirst
