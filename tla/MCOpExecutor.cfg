CONSTANTS
    All = All
    NoItem = NoItem
    MaxThrows = 1
    Worker = {w1, w2}
    Registry <- MCRegistry
    Jobs <- MCJobs
    Sources <- MCSources
SPECIFICATION Spec
INVARIANTS RunsAfterDeps DrainedOnReturn ReducedInOrder
PROPERTY ExecuteReturns
CHECK_DEADLOCK FALSE
