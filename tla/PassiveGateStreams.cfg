SPECIFICATION AuditSpec
CONSTANTS
  Windows <- StreamWindows
  Keys <- StreamKeys
  Null = Null
  StartMs = 0
  EventTimes = {5, 8}
  Center = 20
  EntryWindows = 2
  EntryMs = 3
  RecoveryWindows = 2
  RecoveryMs = 4
  StaleMs = 3
  CooldownMs = 3
  MaxProposals = 2
  MinWindowMs = 1
  MaxWindowMs = 2
INVARIANTS FreshEvidence CreditAfterBarrier ProbesJustified LedgerTrue
PROPERTIES Hysteresis BudgetKept
