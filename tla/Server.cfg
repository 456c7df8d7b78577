SPECIFICATION FairSpec
CONSTANTS
    NR_CPUS = 2
    NENV = 3
    NBoot = 3
    Pinned <- PinFirst
    Pri <- OneSlice
    Ops <- Server
    MaxId = 3
    NoCPU = NoCPU
    NoEnv = NoEnv
INVARIANTS QueueExact NoDoubleRun OneSender
PROPERTIES SendsToReceiver ClaimResolved
