CONSTANTS
  Account = {a}
  Admin = a
  Caller = {w1, w2}
  Tab = {t1}
  Outages = TRUE
  MaxPairs = 2
  MaxDrawn = 0
  Null = Null

SPECIFICATION FairConsole

PROPERTIES
  CallsEnd
  KeptUntilRefused

\* Pairs of tokens are bounded: all of them may be spent.
CHECK_DEADLOCK FALSE
