SPECIFICATION MCSpec
CONSTANTS
    Parts = {"ddl"}
    Sessions = {s1, s2}
    Entities = {"post"}
    Roles = {"ann", "bob"}
    Places = {"app", "open"}
    DefaultReaders <- MCDefaultReaders
    Tables = {"tb", "mv"}
    Matviews = {"mv"}
    BaseOwner = "ann"
    Definitions <- ThroughDefs
    Registered0 <- NothingRegistered
    QuietStarts = TRUE
    MaxStatements = 3
    None = None
    Gone = Gone
    MaxWrites = 1
    MaxCrashes = 1
    MaxAlters = 1
SYMMETRY MCSymmetry
INVARIANTS
    RowsAreView
