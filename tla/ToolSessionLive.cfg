SPECIFICATION FairSpec
CONSTANTS
  Calls = {c1, c2}
  Requests = {r1, r2}
  Answers = {a1}
  MaxRuns = 2
  NoDigest = NoDigest
PROPERTIES
  WaiterOnLiveRunAnswered
CHECK_DEADLOCK FALSE
