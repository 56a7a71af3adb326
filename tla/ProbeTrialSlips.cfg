CONSTANTS
  Null = Null
  Warmup = 2
  LeastBefore = 4
  LeastDuring = 4
  LeastAfter = 3
SPECIFICATION Spec
CHECK_DEADLOCK FALSE
INVARIANTS TrialTrue HonestAccepted
