\* One order, so that every order of server, outbox, worker, restarts and
\* screens is seen; one form per attempt, killed or not; one delivery note.
CONSTANTS
  Order = {o1}
  MaxRoutes = 1
  MaxForms = 2
  MaxNotes = 1
  None = None
\* Any of eight orders, and vehicles that hold one to all of them.
  collector = collector
  near = near
  west = west
  far = far
  Place = {near, west, far}
  Origin = collector
  Metres <- Street
  Listings <- AnyListing
  Vehicles = {1000, 2000, 2900, 4500}
  Missing = Missing
\* Two desks over two wards, a merchant and two containers.
  oldCode = oldCode
  newCode = newCode
  prefix = prefix
  Ward = {ward1, ward2}
  Merchant = {m1}
  WardCode = {oldCode, newCode}
  Prefix <- OnePrefix
  Typed <- TypedLabels
  Precise = 2
  Doubles = {3}
  MaxLabels = 2
  Desk = {desk1, desk2}
  Nil = Nil
SYMMETRY Names
SPECIFICATION CollectorSpec
INVARIANTS
  OneRowPerOrder
  EntriesAreRecorded
  DraftHasDelivery
  DeliversReceived
  ClosedShiftIsSettled
  UrgentFirst
  WarningIsHonest
  OnlyRacesAreRefused
\* Shifts, notes and labels are bounded, and a plan is made once.
CHECK_DEADLOCK FALSE
