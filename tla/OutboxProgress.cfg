CONSTANTS
  Collector = {c1}
  Order = {}
  MaxRecords = 2
  BatchSize = 1
  MaxAttempts = 2
  None = None

SPECIFICATION FairSpec

PROPERTIES
  RowsGetResolved
