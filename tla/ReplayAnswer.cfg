CONSTANTS
  Collector = {c1}
  Order = {o1}
  MaxRecords = 1
  BatchSize = 1
  MaxAttempts = 2
  None = None

SPECIFICATION Spec

PROPERTIES
  ReplaysAreAnswered
