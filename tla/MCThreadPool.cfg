SPECIFICATION FairSpec
CONSTANTS
    Worker = {w1, w2}
    Client = {c1, c2}
    Handle = {h1, h2, h3}
    NoHandle = NoHandle
    MaxQueue = 2
    MaxEnqueues = 2
INVARIANTS
    TypeOK
    HandleOnce
    NoLostWakeup
    DrainedAtExit
PROPERTIES
    EveryHandleRuns
    DestructorReturns
