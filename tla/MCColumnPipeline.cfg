CONSTANTS
    w1 = w1
    w2 = w2
    RunOp <- Compute
    Blank <- EmptyTensor
    None = None
    kQ8BlockSize = 2
    libm <- MCLibm
    Worker <- MCWorker
    Programs <- MCPrograms
SPECIFICATION Spec
INVARIANTS
    NoConflict
    ScheduleFree
    Runnable
    Quiescent
    StatsAgree
    FetchedIsMeaning
PROPERTIES
    StoreStable
    ComputeReturns
CHECK_DEADLOCK FALSE
