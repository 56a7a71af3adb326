INIT FromBase
NEXT Bounded
CONSTANTS
  Features <- MCFeatures
  Groups <- MCGroups
  Labels = {"A", "B", "healthy"}
  Partitions = {"p", "q"}
  Receipts <- MCGroups
  Null = Null
  MinGroups = 2
  MinFeatures = 3
  Reports <- MCReports
  MaxSnapshots = 3
  MaxRevisions = 1
INVARIANTS OnlyVotesCount ReviewsKeepEvidence ScoresEarned
PROPERTIES LabelBlind
CHECK_DEADLOCK FALSE
