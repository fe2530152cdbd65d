SPECIFICATION FairSpec
CONSTANTS
    p = p
    q = q
    d = d
    e = e
    g = g
    h = h
    Source = {p, q}
    Derived = {d, e}
    Shapes <- MCShapes
    MaxInputs = 2
    Getter = {g, h}
    Timed = {g}
    Client = Client
    Pool = Pool
    None = None
INVARIANTS
    TypeOK
    AllOfCorrect
    AnyOfCorrect
    NoForgottenWaiter
PROPERTIES
    ResolvedOnce
    TimeoutMeansUnresolved
    EverythingResolves
