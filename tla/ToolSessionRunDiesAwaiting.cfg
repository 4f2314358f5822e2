SPECIFICATION FairSpec
CONSTANTS
  Calls = {c1}
  Requests = {r1, r2}
  Answers = {a1}
  MaxRuns = 1
  NoDigest = NoDigest
PROPERTIES
  EveryRequestAnswered
CHECK_DEADLOCK FALSE
