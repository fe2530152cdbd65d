CONSTANTS
    w1 = w1
    w2 = w2
    RunOp <- Compute
    Blank <- EmptyTensor
    None = None
    kQ8BlockSize = 2
    libm <- MCLibm
    Worker <- MCWorker
    Programs <- MCDocumented
SPECIFICATION Spec
INVARIANTS
    LiteralArgumentsWork
CHECK_DEADLOCK FALSE
