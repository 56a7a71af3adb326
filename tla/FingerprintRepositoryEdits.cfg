CONSTANTS
  Null = Null
  Scale = 20
  Metrics <- MCMetrics
  Policy <- MCPolicy
  Digest <- MCDigest
  Captures <- MCCaptures
  Directories <- MCDirectories
  Genuine <- MCGenuine
SPECIFICATION Spec
CHECK_DEADLOCK FALSE
INVARIANTS MatchEarned NothingOverlooked VerifiedUnchanged HonestServed
