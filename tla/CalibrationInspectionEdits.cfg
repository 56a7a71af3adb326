\* Derivations, weaknesses and contradictions, pools, and one changed file.
CONSTANTS
  None = None
  Features = 22
  Shared = 4
  Share = 75
  LeastFeatures = 17
  LeastGroups = 2
  Available = 80
  LeastSamples = 2
  Durations <- MCDurations
  Modes = {"validation"}
  Collections <- MCCollections
  Altered <- MCAltered
INIT PassiveInit
NEXT PassiveNext
INVARIANTS EligibleEarned CountedOnce RefusedWhenContradictory BaselineTrue
