\* A graph has an end.
CHECK_DEADLOCK FALSE
SPECIFICATION Spec
CONSTANTS
    Names = {"x", "y"}
    Outs = {"y", "z"}
    Scalars <- MCScalars
    Given <- MCGiven
    Feeds <- MCFeeds
    MaxNodes = 2
    kQ8BlockSize = 2
    libm <- MClibm
INVARIANTS
    TableConsistent
PROPERTIES
    ImplementsRows
