SPECIFICATION Spec
CONSTANTS
  Datasets <- MCDatasets
  Roles = {"training", "validation"}
  Null = Null
INVARIANTS GroupsAreComponents NoLeakage VerdictJustified
PROPERTIES Reconstructs
CHECK_DEADLOCK FALSE
