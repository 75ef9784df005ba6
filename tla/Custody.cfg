CONSTANTS
  Merchant = {m1, m2}
  Collector = {c1}
  Container = {k1}
  Order = {o1, o2, o3}
  Route = {}
  Uuid = {u1, u2, u3}
  DeliveryUuid = {d1, d2}
  Station = {s1}
  Liters = {1, 2}
  Worker = {w1, w2}
  Serves <- MCServes
  Capacity <- MCCapacity
  None = None

SPECIFICATION Spec
SYMMETRY Symmetry

INVARIANTS
  InTransitCarriesOil
  DeliveriesAccounted

PROPERTIES
  ReceiptsAreFinal
