CONSTANTS
  Keys = {k1, k2}
  NoKey = NoKey
  MaxAccounts = 3
  Priorities = {1, 2}
  CatalogTtl = 1
  MaxTime = 1
  Requests = {r1, r2}
  PerCredentialActiveRuns = 1
  Viewers = {v1}
  CapacitySteps = {1, 2}
  Operators = {o1, o2}
  Fields = {f1, f2}
  Lowest = 1
  Highest = 2
  Tokens = {t1}
  k2 = k2
  OnFile <- MCOnFile
  Seed = k1
  AnchorTtl = 1
  MaxAnchors = 1
  Budgets <- MCBudgets
SPECIFICATION Spec
SYMMETRY Symmetry
INVARIANT ClaimNeverLosesTheKey
CHECK_DEADLOCK FALSE
