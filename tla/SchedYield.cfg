SPECIFICATION FairSpec
CONSTANTS
    NR_CPUS = 2
    NENV = 3
    NBoot = 3
    Pinned <- PinFirst
    Pri <- TwoSlices
    Ops <- OnlyYield
    MaxId = 3
    NoCPU = NoCPU
    NoEnv = NoEnv
INVARIANTS QueueExact NoDoubleRun RunningMarked
PROPERTIES EveryEnvRuns
