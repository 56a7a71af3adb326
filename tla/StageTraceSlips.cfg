CONSTANTS
  Null = Null
  MaxFrames = 2
  MaxEvents = 2
  MaxStreams = 2
  Settings <- Recordings
  MaxOffered = 3
  MaxAttempted = 3
  MaxClock = 1
SPECIFICATION Spec
CHECK_DEADLOCK FALSE
INVARIANTS LedgerTrue TimingsTrue NothingHonestRefused
