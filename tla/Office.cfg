\* Two collections, three prices and two requests; four hours around a
\* change of week and year.
CONSTANTS
  Transaction = {t1, t2}
  Price = {p1, p2, p3}
  Worker = {w1, w2}
  Instant <- MCInstant
  Years <- MCYears
  Days <- MCDays
  None = None
\* A week and a day, deliveries dated a day off at most, one lot of storage.
  LastDay = 7
  Skew = 1
  Load = {1, 2}
  Size = {4, 5}
  MaxStorage = 7
  Nobody = Nobody
\* Just enough history, and one collection that gets verdicts.
  m1 = m1
  m2 = m2
  Entry <- MCEntry
  Density = 900
  Verdict = {CONFIRMED_ANOMALY}
  MaxReviewed = 1
  Nothing = Nothing
SPECIFICATION MCSpec
SYMMETRY Symmetry
INVARIANTS
  PeriodsTile
  OnePricePerInstant
  PaymentsArePriced
  AuditsAddUp
  OutlookIsHonest
  SnapshotStands
PROPERTIES
  PaymentIsFinal
  FullIsForetold
\* Days and collections are bounded.
CHECK_DEADLOCK FALSE
