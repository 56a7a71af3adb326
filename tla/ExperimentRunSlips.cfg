CONSTANTS
  None = None
  Enough = 1
  Manifests <- Plans
  MaxWait = 1
SPECIFICATION ExperimentSpec
CHECK_DEADLOCK FALSE
INVARIANTS VerifiedEffect HonestAccepted
