SPECIFICATION Spec
CONSTANTS
    NR_CPUS = 1
    NENV = 2
    NBoot = 1
    Pinned <- NoPins
    Pri <- OneSlice
    Ops <- WakesReceiver
    MaxId = 2
    NoCPU = NoCPU
    NoEnv = NoEnv
INVARIANTS QueueExact
