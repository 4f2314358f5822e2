SPECIFICATION Spec
CONSTANTS
  sdkAgent = sdkAgent
  sandAgent = sandAgent
  Agents = {sdkAgent, sandAgent}
  Profile <- MCProfile
  Policies = {p1, p2}
  Keys = {k1, k2}
  Runs = {r1, r2}
  ToolCalls = {t1}
  Receipts = {c1, c2}
  NoReceipt = NoReceipt
  MaxGeneration = 1
CONSTRAINTS CallsOfOneRun CallsOrReceipts
SYMMETRY Symmetry
INVARIANTS
  TypeOK
  OneRunPerKey
  ReceiptsMatchRuns
  AgentFencesRuns
PROPERTIES
  LateOwnerWritesNothing
  CallHistoryIsKept
  SettlementSpec
CHECK_DEADLOCK FALSE
