CONSTANTS
  Clients = {c1, c2}
  Calls = {t1, t2}
  Hello = Hello
  More = More
  MaxDeltas = 4
SPECIFICATION Spec
SYMMETRY Symmetry
INVARIANTS AnswersAreWhole FramesNest EchoFindsItsAgent ResultsContinueTheirBatch
CHECK_DEADLOCK FALSE
