---------------------------- MODULE RoutePlanning ---------------------------
(***************************************************************************)
(* How the API plans the route of a collector: buildRoutePreview of        *)
(* orders.service.ts, with merchant-pickup-priority.ts,                    *)
(* merchant-pickup-volume-forecast.ts, collection-route-optimizer.ts and   *)
(* collector-route-capacity-risk.ts.                                       *)
(*                                                                         *)
(* The loops of the code are steps: an order is taken into the plan or the *)
(* selection ends, then a stop is put next on the way.  Volumes are in     *)
(* hundredths of a litre, as the columns are, and the distance between two *)
(* places is any number of metres.  Coordinates are those of the columns   *)
(* and of the device, which are valid.                                     *)
(***************************************************************************)
EXTENDS Integers, Sequences, FiniteSets, Folds, Functions

CONSTANTS
  Place,     \* where merchants are
  Origin,    \* where the collector is
  Metres,    \* distance of two places
  Listings,  \* sets of ready orders, as findReadyOrdersForRoute may list them
  Vehicles,  \* what collectors may carry
  Missing    \* null

Row == [id : Nat, place : Place, liters : Nat, capacity : Nat \cup {Missing},
        days : Nat \cup {Missing}, priority : Nat,
        history : Seq([liters : Nat, late : BOOLEAN])]

ASSUME MetresAssumption ==
  Metres \in [Place \cup {Origin} -> [Place \cup {Origin} -> Nat]]

ASSUME ListingsAssumption ==
  \A rows \in Listings :
    /\ rows \subseteq Row
    /\ IsFiniteSet(rows)
    /\ \A a, b \in rows : a.id = b.id => a = b

ASSUME VehiclesAssumption == Vehicles \subseteq Nat \ {0}

VARIABLES
  step,     \* "select", then "order", then "done"
  listed,   \* the orders listed, which the code has in an array
  vehicle,  \* maxCapacity
  taken,    \* orders taken, the most pressing first
  total,    \* liters expected of them
  way       \* the order they are visited in

planVars == <<step, listed, vehicle, taken, total, way>>

-----------------------------------------------------------------------------
(* scoreMerchantPickupPriority.  No order listed has an active pickup.     *)
Known(r) == r.capacity # Missing /\ r.capacity > 0

FillScore(r) ==
  CASE 10 * r.liters >= 9 * r.capacity -> 60
    [] 4 * r.liters >= 3 * r.capacity /\ 10 * r.liters < 9 * r.capacity -> 45
    [] 2 * r.liters >= r.capacity /\ 4 * r.liters < 3 * r.capacity -> 25
    [] OTHER -> 5

WaitScore(r) ==
  CASE r.days = Missing -> 0
    [] r.days # Missing /\ r.days >= 14 -> 25
    [] r.days # Missing /\ r.days \in 7..13 -> 15
    [] r.days # Missing /\ r.days \in 3..6 -> 5
    [] OTHER -> 0

Distance(r) == Metres[Origin][r.place]

NearScore(r) ==
  CASE Distance(r) <= 2000 -> 10
    [] Distance(r) \in 2001..5000 -> 5
    [] OTHER -> 0

Score(r) == IF Known(r) THEN FillScore(r) + WaitScore(r) + NearScore(r) ELSE 0

(* scoreGroup, in SCORE_GROUP_ORDER; no score is negative.                 *)
Group(r) ==
  CASE Score(r) >= 80 -> 1
    [] Score(r) \in 60..79 -> 2
    [] Score(r) \in 30..59 -> 3
    [] OTHER -> 4

(* ORDER BY of findReadyOrdersForRoute; ids number the orders as they were *)
(* requested.                                                              *)
ListedBefore(a, b) ==
  \/ a.priority > b.priority
  \/ a.priority = b.priority /\ Distance(a) < Distance(b)
  \/ a.priority = b.priority /\ Distance(a) = Distance(b) /\ a.id < b.id

(* The sort of scoredRows, whose last two keys are those of the query.     *)
Before(a, b) == Score(a) > Score(b) \/ (Score(a) = Score(b) /\ ListedBefore(a, b))

-----------------------------------------------------------------------------
Total(f) == SumFunction(f)

(* findRecentCollectionHistoryByMerchantIds reads the last five            *)
(* collections, whether the forecast can use them or not: not if they are  *)
(* dated after it, or are more than the container holds.                   *)
Recent(r) ==
  {i \in 1..5 : i \in DOMAIN r.history /\ r.history[i].liters <= r.capacity /\ ~r.history[i].late}

(* HISTORY_WEIGHTS: 5 for the latest that can be used, 4 for the next, ... *)
Weight(r, i) == 5 - Cardinality({j \in Recent(r) : j < i})

(* roundOneDecimal of a / b hundredths of a litre.                         *)
Rounded(a, b) == 10 * ((2 * a + 10 * b) \div (20 * b))

(* forecastMerchantPickupVolume: recent collections, weighted 5 to 1, and  *)
(* the merchant's own estimate, for a fifth with three of them and for two *)
(* fifths with less.                                                       *)
Predicted(r) ==
  LET declared == IF r.liters > r.capacity THEN r.capacity ELSE r.liters
      weighted == Total([i \in Recent(r) |-> Weight(r, i) * r.history[i].liters])
      weights == Total([i \in Recent(r) |-> Weight(r, i)])
      share == IF Cardinality(Recent(r)) >= 3 THEN 4 ELSE 3
  IN CASE ~Known(r) -> Missing
       [] Known(r) /\ Recent(r) = {} -> Rounded(declared, 1)
       [] OTHER -> Rounded(share * weighted + (5 - share) * weights * declared, 5 * weights)

(* confidenceFor: at least n collections, and the squares of a coefficient *)
(* of variation of at most 1/k.                                            *)
Steady(r, n, k) ==
  LET sum == Total([i \in Recent(r) |-> r.history[i].liters])
      squares == Total([i \in Recent(r) |-> r.history[i].liters * r.history[i].liters])
  IN /\ Cardinality(Recent(r)) >= n
     /\ k * k * (Cardinality(Recent(r)) * squares - sum * sum) <= sum * sum

Confidence(r) ==
  CASE ~Known(r) -> "INSUFFICIENT_DATA"
    [] Known(r) /\ Steady(r, 5, 4) -> "HIGH"
    [] Known(r) /\ Steady(r, 3, 2) /\ ~Steady(r, 5, 4) -> "MEDIUM"
    [] OTHER -> "LOW"

-----------------------------------------------------------------------------
(* assessCollectorRouteCapacityRisk.  Every order has an estimate, 0 if    *)
(* the merchant gave none, so that every stop counts.  A container of      *)
(* capacity 0 bounds nothing.                                              *)
Base(r) ==
  LET volume == IF Predicted(r) = Missing THEN r.liters ELSE Predicted(r)
  IN IF Known(r) /\ volume > r.capacity THEN r.capacity ELSE volume

Percent(r) ==
  CASE Confidence(r) = "HIGH" -> 105
    [] Confidence(r) = "MEDIUM" -> 110
    [] Confidence(r) = "LOW" -> 120
    [] OTHER -> 125

(* Mutant: the buffer goes beyond what the container holds.                *)
AtWorst_mutant(r) == Base(r) * Percent(r)

(* What the stop may yield at worst, in hundredths of hundredths.          *)
AtWorst(r) ==
  LET volume == Base(r) * Percent(r)
  IN IF Known(r) /\ volume > 100 * r.capacity THEN 100 * r.capacity ELSE volume

Worst(s) == Total([i \in DOMAIN s |-> AtWorst(s[i])])

Utilization(s) == (2 * Worst(s) + vehicle) \div (2 * vehicle)

RiskLevel(s) ==
  CASE s = <<>> -> "INSUFFICIENT_DATA"
    [] s # <<>> /\ Utilization(s) > 100 -> "OVER_CAPACITY"
    [] s # <<>> /\ Utilization(s) \in 85..100 -> "NEAR_CAPACITY"
    [] s # <<>> /\ Utilization(s) \in 60..84 -> "BALANCED"
    [] OTHER -> "UNDERUTILIZED"

(* A stop without capacity has no forecast, and makes coverage less than   *)
(* all and the confidence LOW.                                             *)
RiskConfidence(s) ==
  LET sure == {Confidence(s[i]) : i \in DOMAIN s}
  IN CASE s = <<>> -> "INSUFFICIENT_DATA"
       [] sure = {"HIGH"} -> "HIGH"
       [] sure \in {{"MEDIUM"}, {"HIGH", "MEDIUM"}} -> "MEDIUM"
       [] OTHER -> "LOW"

-----------------------------------------------------------------------------
Elements(s) == {s[i] : i \in DOMAIN s}

Left == listed \ Elements(taken)

(* The next row of the selection loop.                                     *)
MostPressing(r) == r \in Left /\ \A o \in Left \ {r} : Before(r, o)

PlanInit ==
  /\ step = "select"
  /\ listed \in Listings
  /\ vehicle \in Vehicles
  /\ taken = <<>>
  /\ total = 0
  /\ way = <<>>

Take ==
  /\ step = "select"
  /\ \E r \in Left :
       /\ MostPressing(r)
       /\ total + r.liters <= vehicle
       /\ taken' = Append(taken, r)
       /\ total' = total + r.liters
  /\ UNCHANGED <<step, listed, vehicle, way>>

(* The loop breaks at the first order that does not fit, even if one after *)
(* it would.                                                               *)
EndSelection ==
  /\ step = "select"
  /\ \A r \in Left : MostPressing(r) => total + r.liters > vehicle
  /\ step' = "order"
  /\ UNCHANGED <<listed, vehicle, taken, total, way>>

Unvisited == Elements(taken) \ Elements(way)

Position == IF way = <<>> THEN Origin ELSE way[Len(way)].place

(* compareTieBreakers; original_index is the place of a stop in taken.     *)
WinsTie(a, b) ==
  \/ Score(a) > Score(b)
  \/ Score(a) = Score(b) /\ a.priority > b.priority
  \/ /\ Score(a) = Score(b) /\ a.priority = b.priority
     /\ \E i, j \in DOMAIN taken : taken[i] = a /\ taken[j] = b /\ i < j

Nearer(a, b) ==
  LET from == Metres[Position]
  IN from[a.place] < from[b.place] \/ (from[a.place] = from[b.place] /\ WinsTie(a, b))

(* Mutant: the nearest stop of all, whatever its group.                    *)
VisitNext_mutant ==
  /\ step = "order"
  /\ \E r \in Unvisited :
       /\ \A o \in Unvisited \ {r} : Nearer(r, o)
       /\ way' = Append(way, r)
  /\ UNCHANGED <<step, listed, vehicle, taken, total>>

(* optimizeCollectionRoute and optimizeGroup: the nearest stop of the most *)
(* pressing group that has one left.                                       *)
VisitNext ==
  /\ step = "order"
  /\ \E r \in Unvisited :
       /\ \A o \in Unvisited : Group(r) <= Group(o)
       /\ \A o \in Unvisited \ {r} : Group(o) = Group(r) => Nearer(r, o)
       /\ way' = Append(way, r)
  /\ UNCHANGED <<step, listed, vehicle, taken, total>>

EndOrdering ==
  /\ step = "order"
  /\ Unvisited = {}
  /\ step' = "done"
  /\ UNCHANGED <<listed, vehicle, taken, total, way>>

PlanNext == Take \/ EndSelection \/ VisitNext \/ EndOrdering

PlanSpec == PlanInit /\ [][PlanNext]_planVars

(* The preview that is shown, and stored when the route starts.            *)
DistanceOf(s) ==
  Total([i \in DOMAIN s |-> Metres[IF i = 1 THEN Origin ELSE s[i - 1].place][s[i].place]])

CurrentRoutePlan ==
  [stops |-> way, total |-> total,
   remaining |-> IF vehicle > total THEN vehicle - total ELSE 0,
   saved |-> IF DistanceOf(taken) > DistanceOf(way) THEN DistanceOf(taken) - DistanceOf(way) ELSE 0,
   applied |-> way # taken,
   predicted |-> Total([i \in DOMAIN taken |-> Base(taken[i])]),
   worst |-> Worst(taken), level |-> RiskLevel(taken), confidence |-> RiskConfidence(taken)]

-----------------------------------------------------------------------------
(* Urgency decides: no stop of the plan comes after one of a less pressing *)
(* group, although the nearest stop is sought, every order that is left    *)
(* for another day is less pressing than each that is taken, and what is   *)
(* taken is visited, each once, and fits the vehicle.                      *)
UrgentFirst ==
  step = "done" =>
    /\ \A i, j \in DOMAIN way : i < j => Group(way[i]) <= Group(way[j])
    /\ \A i \in DOMAIN way : \A o \in Left : Before(way[i], o)
    /\ Len(way) = Len(taken) /\ Elements(way) = Elements(taken)
    /\ total = Total([i \in DOMAIN way |-> way[i].liters]) /\ total <= vehicle

(* The warning of the plan means something: containers that fit the        *)
(* vehicle altogether are never reported as too much for it, and a         *)
(* forecast beyond the vehicle, by more than the rounding, always is.      *)
WarningIsHonest ==
  step = "done" /\ way # <<>> =>
    LET containers == Total([i \in DOMAIN way |-> way[i].capacity])
    IN /\ (\A i \in DOMAIN way : Known(way[i])) /\ containers <= vehicle
            => CurrentRoutePlan.level # "OVER_CAPACITY"
       /\ 200 * CurrentRoutePlan.predicted > 201 * vehicle
            => CurrentRoutePlan.level = "OVER_CAPACITY"
=============================================================================
