SPECIFICATION Spec
CONSTANTS
    NR_CPUS = 1
    NENV = 3
    NBoot = 2
    Pinned <- NoPins
    Pri <- OneSlice
    Ops <- Lifecycle
    MaxId = 5
    NoCPU = NoCPU
    NoEnv = NoEnv
INVARIANTS QueueExact FreeListExact RunsLiveEnv
PROPERTIES ResumesLatest
