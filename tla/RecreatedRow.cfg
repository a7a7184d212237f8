CONSTANTS
    a = a
    b = b
    c = c
    Session = {a, b, c}
    User = {1, 2}
    Post = {11}
    Absent = Absent
    Old = Old
    None = None
    Starts <- MCStarts
    Scripts <- MCScripts
    Levels <- MCLevels
    Ways = {"embed"}
SPECIFICATION Spec
INVARIANTS
    CommittedIsFresh
