SPECIFICATION MCSpec
CONSTANTS
  Definitions <- MCDefinitions
  Embedded = {"Child"}
  Tables = {"r", "s", "t"}
  Small = {"s"}
  Joint = {"Parents"}
  Nodes = {n1, n2, n3}
  NoValue = NoValue
  NoParent = NoParent
  Names <- MCNames
  Scope <- MCScope
  Registrations <- MCRegistrations
  LevelTemplate <- MCLevelTemplate
  FlatTemplate <- MCFlatTemplate
  InsertRows = 2
  UpdateRows = 1
  SubtreeMoves = FALSE
  Keys = {"a", "b"}
  RootKeys = {"a"}
  ElementKeys = {"a"}
  ElementPaths <- MCElementPaths
  Numbers = {0, 1}
  Ids = {1, 2}
  MaxItems = 3
  MaxPath = 2
  MaxDepth = 2
  Keyless = FALSE
SYMMETRY MCSymmetry
CONSTRAINT OnTheTree
INVARIANTS
  TviewIsView
  IdentifierFollowsAncestors
  UniqueInScope
  PatchesAgree
  StaysSorted
PROPERTIES
  ReadSetsMeetWrites
