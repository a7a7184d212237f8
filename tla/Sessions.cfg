SPECIFICATION MCSpec
CONSTANTS
    post = post
    user = user
    RowKey <- MCRowKey
    AllKey = {}
    FanoutKey = {}
    Field = {"own"}
    Value <- MCValue
    Absent = Absent
    Queued = Queued
    Poisoned = Poisoned
    Kinds = {"read", "write", "copy"}
    Patches = {FALSE}
    MaxWrites = 3
    MaxNest = 3
    MaxSuspend = 2
    MaxOpen = 2
INVARIANTS
    FramesFollowStatements
    StaleIsCovered
    CommittedIsFresh
PROPERTIES
    NestedIsFlushed
    NestedFromFinalState
