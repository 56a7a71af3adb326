CONSTANTS
  Null = Null
  Samples = {3, 4}
  Wall = {2, 3}
  WindowTimes = {2, 3}
  CpuTimes = {2, 3}
  TraceTimes = {8, 9, 10, 11, 12, 13, 14, 15, 16, 17, 18, 19, 20}
  Lengths = {3, 4}
  Lags = {5, 6}
SPECIFICATION Spec
CHECK_DEADLOCK FALSE
INVARIANTS ControlTrue FailuresTrue HonestMet
