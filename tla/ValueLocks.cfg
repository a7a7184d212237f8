SPECIFICATION Spec
CONSTANTS
    Session = {a, b}
    Relation = {users}
    Hash = {1, 2}
    Threshold = 1
    MaxLocks = 2
    MaxNest = 1
SYMMETRY Sessions
CONSTRAINT OneLinks
INVARIANTS
    RegistryIsHeld
    WriterExcludes
    FirstCallsDoNotDeadlock
PROPERTIES
    KeepsPromise
