SPECIFICATION Spec
CONSTANTS
    user = user
    post = post
    digest = digest
    list = list
    stat = stat
    author = author
    editor = editor
    lead = lead
    element = element
    subject = subject
    i1 = i1
    i2 = i2
    v1 = v1
    v2 = v2
    Absent = Absent
    Queued = Queued
    Poisoned = Poisoned
    NoRow = NoRow
    RowKey <- MCRowKey
    AllKey <- MCAllKey
    FanoutKey = {}
    Field <- MCField
    Value = {v1, v2}
    Table <- MCTable
    Tview <- MCTable
    Order <- MCOrder
    Ref <- MCRef
    From <- MCFrom
    To <- MCTo
    Place <- MCPlace
    Id = {i1, i2}
    RowsOf <- MCRowsOf
    Fires = {}
    Truncatable = {user, post}
    Base0 <- MCBase0
    MaxWrites = 3
    MaxDepth = 9
INVARIANTS
    StaleIsCovered
PROPERTIES
    FlushLeavesNothing
