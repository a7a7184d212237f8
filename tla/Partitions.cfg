SPECIFICATION MCSpec
CONSTANTS
    Sessions = {s1, s2}
    Entities = {"local", "mapped"}
    Keys = {1}
    Partitioned = {"root", "middle"}
    Leaves = {"low", "high", "other"}
    Homes <- MCHomes
    Tree0 <- MCTree0
    Read0 <- MCRead0
    Reads <- MCReads
    Kind <- MCKind
    MaxNamed = 2
    MaxStatements = 3
    MaxChanges = 2
    Revision = 1
    Preparing = FALSE
SYMMETRY MCSymmetry
INVARIANTS
    FollowsTree
    TriggersAsExpected
    CacheIsCurrent
    NothingUndoneIsRemembered
