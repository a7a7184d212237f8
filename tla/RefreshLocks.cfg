CONSTANTS
    a = a
    b = b
    Session = {a, b}
    User = {1, 2}
    Post = {11, 12}
    Absent = Absent
    Old = Old
    None = None
    Starts <- MCStarts
    Scripts <- MCScripts
    Levels <- MCLevels
    Ways = {"mapping", "fanout", "embed"}
    Key = {t1, t2, t3, u}
    Elsewhere = {u}
    Capacity = 3
    MaxAdds = 2
    FREE = FREE
SPECIFICATION MCSpec
INVARIANTS
    CommittedIsFresh
    ComputedRowsAreLocked
    ValueWritesDoNotDeadlock
    TrackedIsFound
