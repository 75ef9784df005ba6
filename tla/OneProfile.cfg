CONSTANTS
  User = {u1}
  Collector = {c1}
  Worker = {w1, w2}
  MaxCodes = 1
  None = None

SPECIFICATION Spec

INVARIANTS
  OneProfile
