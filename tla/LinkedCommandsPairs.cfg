SPECIFICATION Spec
CONSTANTS
  Procs = {"p1", "p2"}
  Dirs = {"d1", "d2"}
  DirPaths = {"data", "out"}
  Names <- MCNames
  Files = {"f1", "f2", "f3"}
  Contents = {"m1", "m2", "a1", "a2", "policy1"}
  Declared <- MCDeclared
  Manifest = "manifest"
  Null = "null"
  Partial = "partial"
  Commands <- Touching
  Where0 <- MCWhere
  Tree0 <- MCTree
  Bytes0 <- MCBytes
  Edits <- MCEdits
  MaxMoves = 2
PROPERTIES InputsSurvive WritesAtomically
CHECK_DEADLOCK FALSE
