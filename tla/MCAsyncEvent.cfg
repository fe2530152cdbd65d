SPECIFICATION FairSpec
CONSTANTS
    Waiter = {w1, w2}
    Setter = {s1, s2}
    Null = Null
    This = This
    MaxAwaits = 2
    MaxSets = 2
    MaxResets = 2
INVARIANTS
    ListsAgree
    SuspendedOnce
PROPERTY
    ImplementsEvent
