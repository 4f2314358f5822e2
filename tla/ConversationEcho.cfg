CONSTANTS
  Clients = {c1, c2}
  Calls = {t1, t2}
  Hello = Hello
  More = More
  MaxDeltas = 3
SPECIFICATION Spec
SYMMETRY Symmetry
INVARIANT EveryEchoFindsItsAgent
CHECK_DEADLOCK FALSE
