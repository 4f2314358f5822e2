CONSTANTS
  MaxSessions = 2
  MaxRounds = 2
  Credentials = {1}
  GlobalActiveRuns = 2
  PerCredentialActiveRuns = 1
  MaxAwaitingSessions = 2
  Requests = {r1, r2}
  Prompts = {1}
  Values = {1}
  LedgerV2 = TRUE
  MaxFaults = 1
  MaxRestarts = 1
SPECIFICATION Spec
SYMMETRY RequestSymmetry
INVARIANTS TypeOK ActivatedRunsWithinLimits DrainedStaysEmpty LineageIsCurrent ResumedBatchIsTheLast
PROPERTY BoundTextIsNotResent
CHECK_DEADLOCK FALSE
