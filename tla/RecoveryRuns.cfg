CONSTANTS
  MaxSessions = 3
  MaxRounds = 1
  Credentials = {1}
  GlobalActiveRuns = 2
  PerCredentialActiveRuns = 2
  MaxAwaitingSessions = 2
  Requests = {r1, r2}
  Prompts = {1}
  Values = {1}
  LedgerV2 = FALSE
  MaxFaults = 0
  MaxRestarts = 1
SPECIFICATION Spec
SYMMETRY RequestSymmetry
INVARIANTS OneRunPerAgent OneRunPerResults
CHECK_DEADLOCK FALSE
