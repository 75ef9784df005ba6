CONSTANTS
  Collector = {c1, c2}
  Order = {}
  MaxRecords = 1
  BatchSize = 1
  MaxAttempts = 2
  None = None

SPECIFICATION Spec

INVARIANTS
  SentByItsOwner
