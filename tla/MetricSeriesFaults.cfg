SPECIFICATION Spec
CONSTANTS
  Null = Null
  Largest = 4
  Tiniest = 1
  Scale = 1
  Definitions <- FaultyDefinitions
  Modulus = 3
  Start = 1
  End = 3
  MaxClock = 3
  MaxGrowth = 4
  MaxRows = 3
  MaxRestarts = 1
  MaxFaults = 1
INVARIANTS SummaryHonest DeltasTrue CompleteIsTrue
CHECK_DEADLOCK FALSE
