SPECIFICATION Spec
CONSTANTS
  Calls = {c1, c2, c3}
  Requests = {r1, r2, r3}
  Answers = {a1, a2}
  MaxRuns = 2
  NoDigest = NoDigest
SYMMETRY Symmetry
INVARIANTS
  TypeOK
  SegmentFidelity
  DigestFidelity
  AppliedOnce
  ShownBatchIsExact
  NoStrandedCall
CHECK_DEADLOCK FALSE
