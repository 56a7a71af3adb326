CONSTANTS
  None = None
  Scenarios <- MCScenarios
  Repeats = 1
  EnoughPairs = 25
  EnoughProbes = 3
  Plans <- MCPlans
  Busy = 1
SPECIFICATION CampaignSpec
CHECK_DEADLOCK FALSE
INVARIANTS CampaignTrue OverheadTrue HonestAccepted
