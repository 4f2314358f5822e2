SPECIFICATION Spec
CONSTANTS
  askA = askA
  askB = askB
  askC = askC
  askD = askD
  first = first
  afterA = afterA
  afterB = afterB
  afterC = afterC
  afterD = afterD
  Turns = {askA, askB, askC, askD}
  NoTurn = NoTurn
  Keys = {first, afterA, afterB, afterC, afterD}
  Mixed = Mixed
  Key <- MCKey
  After <- MCNext
  TurnIndex <- MCIndex
  Requests = {r1, r2, r3}
  MaxSessions = 2
  MaxRestarts = 1
CONSTRAINT HeaderOnly
SYMMETRY Symmetry
INVARIANT ReplayIsOwnAnswer
CHECK_DEADLOCK FALSE
