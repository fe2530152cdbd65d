SPECIFICATION Spec
CONSTANTS
    Key = {a, b, c}
    Thread = {s, t}
    Capacity = 2
    DefaultTtl = 0
    RemoteTtl = 1
    Ttls = {0, 1}
    MaxTime = 2
SYMMETRY Symmetry
INVARIANTS
    TypeOK
    ListMatchesMap
PROPERTIES
    EvictsLeastRecent
    HitIsFresh
