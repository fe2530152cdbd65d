SPECIFICATION FairSpec
CONSTANTS
    a = a
    b = b
    c = c
    Unknown = Unknown
    Empty = Empty
    Registered = {a, b, c}
    Node = {a, b, c}
    Graphs <- MCGraphs
    IoWorker = {w1, w2}
    ComputeWorker = {k1}
    Main = Main
    None = None
    MaxRuns = 2
INVARIANTS
    TypeOK
    Quiescent
    PromiseOnce
    ResumedOnce
    BuildsExactlyDags
PROPERTIES
    ImplementsSchedule
