SPECIFICATION FairSpec
CONSTANTS
    NR_CPUS = 2
    v1 = v1
    v2 = v2
    nest = nest
    Calls = {v1, v2}
    Nesting = {}
    Base <- AllCall
    Inner = {}
    Nil = Nil
    NoCPU = NoCPU
INVARIANTS TypeOK IpiInv OneCallAtATime
PROPERTIES ImplementsRemoteCall CallReturns
