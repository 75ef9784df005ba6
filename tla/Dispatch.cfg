CONSTANTS
  Merchant = {m1}
  Collector = {c1, c2}
  Container = {k1, k2}
  Order = {o1, o2}
  Route = {r1, r2}
  Uuid = {u1, u2}
  DeliveryUuid = {}
  Station = {}
  Liters = {1}
  Worker = {w1, w2}
  Serves <- MCServes
  Capacity <- MCCapacity
  None = None

SPECIFICATION Spec
SYMMETRY Symmetry

INVARIANTS
  AssignedIffPendingStop
  CollectedIffOneReceipt
  OneOpenOrderPerMerchantContainer
  EndedRouteIsSettled

PROPERTIES
  AssignedStaysWithCollector
  ImplementsLedger
