SPECIFICATION FairSpec
CONSTANTS
    NR_CPUS = 2
    v1 = v1
    v2 = v2
    nest = nest
    Calls = {v1, nest}
    Nesting = {nest}
    Base <- CallBack
    Inner = {v1}
    Nil = Nil
    NoCPU = NoCPU
INVARIANTS OneCallAtATime
PROPERTIES ImplementsRemoteCall CallReturns
