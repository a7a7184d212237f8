SPECIFICATION MCSpec
CONSTANTS
    RowKey = {k1, k2}
    AllKey = {a1}
    FanoutKey = {g1}
    Field = {f1}
    Value = {v1, v2}
    Absent = Absent
    Queued = Queued
    Poisoned = Poisoned
    MaxQueue = 2
    MaxOpen = 2
    MaxUndo = 4
    p = p
    q = q
    c = c
    NoId = {}
    Limits = {1}
    MaxTracked = 2
    KeptBytes = 5
    MessageBytes = 7
    MaxMessages = 2
    EmptyLen = 1
    Nowhere = Nowhere
    Replacing = FALSE
    MaxWrites = 3
    MaxBooksOpen = 1
SYMMETRY Interchangeable
CONSTRAINT FewTransactions
INVARIANTS
    LogInStep
    PatchesRideOnKeys
    ReportIsNet
    PublishedIsNet
    StaleIsAnnounced
PROPERTIES
    SavepointsAreSnapshots
