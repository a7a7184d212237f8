SPECIFICATION MCSpec
CONSTANTS
    Parts = {"ddl", "lifecycle"}
    Sessions = {s1, s2}
    Entities = {"post", "feed"}
    Roles = {"ann", "bob"}
    Places = {"app", "open"}
    DefaultReaders <- MCDefaultReaders
    Tables = {"tb", "mv"}
    Matviews = {"mv"}
    BaseOwner = "ann"
    Definitions <- MCDefinitions
    Registered0 <- MCRegistered0
    QuietStarts = TRUE
    MaxStatements = 3
    None = None
    Gone = Gone
    MaxWrites = 1
    MaxCrashes = 1
    MaxAlters = 1
SYMMETRY MCSymmetry
INVARIANTS
    RegisteredIsWhole
    RowsAreView
    NothingReadsItself
    TrustedIsFull
    CheckedIsFull
PROPERTIES
    KeptUnlessOwned
