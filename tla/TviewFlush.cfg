SPECIFICATION FairSpec
CONSTANTS
    user = user
    post = post
    feed = feed
    cat = cat
    author = author
    topic = topic
    item = item
    i1 = i1
    i2 = i2
    v1 = v1
    v2 = v2
    Absent = Absent
    Queued = Queued
    Poisoned = Poisoned
    NoRow = NoRow
    RowKey <- MCRowKey
    AllKey <- MCAllKey
    FanoutKey <- MCFanoutKey
    Field <- MCField
    Value = {v1, v2}
    Table <- MCTable
    Tview <- MCTview
    Order <- MCOrder
    Ref <- MCRef
    From <- MCFrom
    To <- MCTo
    Place <- MCPlace
    Id = {i1, i2}
    RowsOf <- MCRowsOf
    Fires <- MCTriggers
    Truncatable = {user, post, cat}
    Base0 <- MCBase0
    MaxWrites = 2
    MaxDepth = 4
INVARIANTS
    StaleIsCovered
PROPERTIES
    PatchEqualsRecompute
    FlushEnds
