------------------------ MODULE RoutePlanningProofs ------------------------
(***************************************************************************)
(* Theorems of RoutePlanning, for any orders, distances and vehicles.      *)
(***************************************************************************)
EXTENDS RoutePlanning, SumLemmas

(* What is expected of the orders listed.                                  *)
Expected == [r \in listed |-> r.liters]

(* The plan so far: distinct orders, taken while they fit, the most        *)
(* pressing first, and put on the way once each, by their groups.          *)
IsPlan(s) ==
  /\ s \in Seq(listed)
  /\ \A i, j \in DOMAIN s : s[i] = s[j] => i = j

PlanInv ==
  /\ step \in {"select", "order", "done"}
  /\ listed \in Listings
  /\ vehicle \in Nat \ {0}
  /\ IsPlan(taken) /\ IsPlan(way)
  /\ total = SumFunctionOnSet(Expected, Elements(taken)) /\ total <= vehicle
  /\ Elements(way) \subseteq Elements(taken)
  /\ step = "select" => way = <<>>
  /\ step = "done" => Unvisited = {}
  /\ \A r \in Elements(taken), o \in Left : Before(r, o)
  /\ \A i, j \in DOMAIN way : i < j => Group(way[i]) <= Group(way[j])
  /\ \A i \in DOMAIN way, o \in Unvisited : Group(way[i]) <= Group(o)

(* The elements of a sequence that is a plan are finitely many orders.     *)
LEMMA PlanElements ==
  ASSUME NEW rows, NEW s \in Seq(rows)
  PROVE  /\ DOMAIN s = 1..Len(s) /\ Len(s) \in Nat
         /\ IsFiniteSet(DOMAIN s)
         /\ Elements(s) \subseteq rows
         /\ \A r : /\ Elements(Append(s, r)) = Elements(s) \cup {r}
                   /\ DOMAIN Append(s, r) = 1..(Len(s) + 1)
                   /\ Append(s, r)[Len(s) + 1] = r
                   /\ \A i \in DOMAIN s : Append(s, r)[i] = s[i]
<1>1. /\ DOMAIN s = 1..Len(s) /\ Len(s) \in Nat
      /\ \A i \in DOMAIN s : s[i] \in rows
  OBVIOUS
<1>2. IsFiniteSet(DOMAIN s)
  BY <1>1, FS_Interval
<1>3. Elements(s) \subseteq rows
  BY <1>1 DEF Elements
<1>4. ASSUME NEW r
      PROVE  /\ Elements(Append(s, r)) = Elements(s) \cup {r}
             /\ DOMAIN Append(s, r) = 1..(Len(s) + 1)
             /\ Append(s, r)[Len(s) + 1] = r
             /\ \A i \in DOMAIN s : Append(s, r)[i] = s[i]
  <2>1. /\ DOMAIN Append(s, r) = 1..(Len(s) + 1)
        /\ Append(s, r)[Len(s) + 1] = r
        /\ \A i \in DOMAIN s : Append(s, r)[i] = s[i]
    BY <1>1
  <2>2. Elements(Append(s, r)) = Elements(s) \cup {r}
    BY <1>1, <2>1 DEF Elements
  <2> QED BY <2>1, <2>2
<1> QED BY <1>1, <1>2, <1>3, <1>4

(* Another order makes another plan.                                       *)
LEMMA LongerPlan ==
  ASSUME NEW s, IsPlan(s), NEW r \in listed, r \notin Elements(s)
  PROVE  IsPlan(Append(s, r))
<1>1. /\ DOMAIN s = 1..Len(s) /\ Len(s) \in Nat
      /\ DOMAIN Append(s, r) = 1..(Len(s) + 1)
      /\ Append(s, r)[Len(s) + 1] = r
      /\ \A i \in DOMAIN s : Append(s, r)[i] = s[i]
  BY PlanElements DEF IsPlan
<1>2. \A i \in DOMAIN s : s[i] # r
  BY DEF Elements
<1>3. ASSUME NEW i \in DOMAIN Append(s, r), NEW j \in DOMAIN Append(s, r),
             Append(s, r)[i] = Append(s, r)[j]
      PROVE  i = j
  <2>1. CASE i \in DOMAIN s /\ j \in DOMAIN s
    BY <1>1, <1>3, <2>1 DEF IsPlan
  <2>2. CASE i \in DOMAIN s /\ j = Len(s) + 1
    BY <1>1, <1>2, <1>3, <2>2
  <2>3. CASE i = Len(s) + 1 /\ j \in DOMAIN s
    BY <1>1, <1>2, <1>3, <2>3
  <2>4. CASE i = Len(s) + 1 /\ j = Len(s) + 1
    BY <2>4
  <2> QED BY <1>1, <1>3, <2>1, <2>2, <2>3, <2>4
<1>4. Append(s, r) \in Seq(listed)
  BY DEF IsPlan
<1> QED BY <1>3, <1>4 DEF IsPlan

(* What ListingsAssumption says of the orders listed.                      *)
LEMMA ListedRows ==
  ASSUME PlanInv
  PROVE  /\ listed \subseteq Row /\ IsFiniteSet(listed)
         /\ \A r \in listed : r.liters \in Nat /\ Expected[r] = r.liters
BY ListingsAssumption DEF PlanInv, Row, Expected

(* An order is taken: the most pressing of those left, if it fits.         *)
LEMMA TakeKeepsPlan ==
  ASSUME PlanInv, Take
  PROVE  PlanInv'
<1>1. PICK r \in Left : /\ MostPressing(r)
                        /\ total + r.liters <= vehicle
                        /\ taken' = Append(taken, r)
                        /\ total' = total + r.liters
  BY DEF Take
<1>2. UNCHANGED <<step, listed, vehicle, way>> /\ step = "select" /\ way = <<>>
  BY DEF Take, PlanInv
<1>3. r \in listed /\ r \notin Elements(taken)
  BY DEF Left
<1>4. Elements(taken)' = Elements(taken) \cup {r} /\ Elements(taken) \subseteq listed
  <2>1. Elements(taken') = Elements(taken) \cup {r} /\ Elements(taken) \subseteq listed
    BY <1>1, PlanElements DEF PlanInv, IsPlan
  <2> QED BY <2>1 DEF Elements
<1>5. IsPlan(taken)' /\ IsPlan(way)'
  <2>1. IsPlan(Append(taken, r))
    BY <1>3, LongerPlan DEF PlanInv
  <2> QED BY <1>1, <1>2, <2>1 DEF IsPlan, PlanInv
<1>6. total' = SumFunctionOnSet(Expected, Elements(taken))' /\ total' <= vehicle'
  <2>1. IsFiniteSet(Elements(taken))
    BY <1>4, ListedRows, FS_Subset
  <2>2. Expected[r] = r.liters /\ r.liters \in Nat
    BY <1>3, ListedRows
  <2>3. \A o \in Elements(taken) : Expected[o] \in Nat
    BY <1>4, ListedRows
  <2>4. SumFunctionOnSet(Expected, Elements(taken) \cup {r}) = total + r.liters
    BY <1>3, <2>1, <2>2, <2>3, SumAdd DEF PlanInv
  <2>5. Expected' = Expected
    BY <1>2 DEF Expected
  <2> QED BY <1>1, <1>2, <1>4, <2>4, <2>5
<1>7. Elements(way)' = {} /\ DOMAIN way' = {}
  BY <1>2 DEF Elements
<1>8. ASSUME NEW a \in Elements(taken)', NEW o \in Left' PROVE Before(a, o)
  <2>1. o \in Left \ {r}
    BY <1>2, <1>4, <1>8 DEF Left
  <2> QED BY <1>1, <1>4, <1>8, <2>1 DEF MostPressing, PlanInv
<1> QED
  BY <1>2, <1>5, <1>6, <1>7, <1>8 DEF PlanInv

(* A stop is put next on the way.                                          *)
LEMMA VisitKeepsPlan ==
  ASSUME PlanInv, VisitNext
  PROVE  PlanInv'
<1>1. PICK r \in Unvisited : /\ \A o \in Unvisited : Group(r) <= Group(o)
                             /\ way' = Append(way, r)
  BY DEF VisitNext
<1>2. UNCHANGED <<step, listed, vehicle, taken, total>> /\ step = "order"
  BY DEF VisitNext
<1>3. r \in Elements(taken) /\ r \notin Elements(way) /\ r \in listed
  BY PlanElements DEF Unvisited, PlanInv, IsPlan
<1>4. /\ Elements(way') = Elements(way) \cup {r}
      /\ DOMAIN way = 1..Len(way) /\ Len(way) \in Nat
      /\ DOMAIN way' = 1..(Len(way) + 1)
      /\ way'[Len(way) + 1] = r
      /\ \A i \in DOMAIN way : way'[i] = way[i]
  BY <1>1, PlanElements DEF PlanInv, IsPlan
<1>5. IsPlan(taken)' /\ IsPlan(way)'
  <2>1. IsPlan(Append(way, r))
    BY <1>3, LongerPlan DEF PlanInv
  <2> QED BY <1>1, <1>2, <2>1 DEF IsPlan, PlanInv
<1>6. Elements(way)' = Elements(way') /\ Elements(taken)' = Elements(taken)
  BY <1>2 DEF Elements
<1>7. Unvisited' = Unvisited \ {r}
  BY <1>4, <1>6 DEF Unvisited
<1>8. \A i \in DOMAIN way' : /\ i \in DOMAIN way => Group(way[i]) <= Group(r) /\ way'[i] = way[i]
                             /\ i \notin DOMAIN way => i = Len(way) + 1 /\ way'[i] = r
  BY <1>4 DEF PlanInv
<1>9. \A i, j \in DOMAIN way' : i < j => Group(way'[i]) <= Group(way'[j])
  <2> SUFFICES ASSUME NEW i \in DOMAIN way', NEW j \in DOMAIN way', i < j
               PROVE  Group(way'[i]) <= Group(way'[j])
    OBVIOUS
  <2>1. i \in DOMAIN way
    BY <1>4
  <2>2. CASE j \in DOMAIN way
    BY <1>8, <2>1, <2>2 DEF PlanInv
  <2>3. CASE j \notin DOMAIN way
    BY <1>8, <2>1, <2>3
  <2> QED BY <2>2, <2>3
<1>10. \A i \in DOMAIN way', o \in Unvisited' : Group(way'[i]) <= Group(o)
  BY <1>1, <1>7, <1>8 DEF PlanInv
<1>11. Left' = Left /\ Expected' = Expected
  BY <1>2, <1>6 DEF Left, Expected
<1> QED
  BY <1>2, <1>3, <1>4, <1>5, <1>6, <1>9, <1>10, <1>11 DEF PlanInv

(* The invariant holds of every plan.                                      *)
LEMMA PlanInvHolds == PlanSpec => []PlanInv
<1>1. PlanInit => PlanInv
  <2> SUFFICES ASSUME PlanInit PROVE PlanInv
    OBVIOUS
  <2>1. /\ step = "select" /\ listed \in Listings /\ vehicle \in Nat \ {0} /\ total = 0
        /\ taken = <<>> /\ way = <<>>
    BY VehiclesAssumption DEF PlanInit
  <2>2. Elements(taken) = {} /\ Elements(way) = {} /\ DOMAIN way = {} /\ DOMAIN taken = {}
    BY <2>1 DEF Elements
  <2>3. IsPlan(taken) /\ IsPlan(way)
    BY <2>1, <2>2 DEF IsPlan
  <2>4. SumFunctionOnSet(Expected, Elements(taken)) = 0
    BY <2>2, SumEmpty
  <2> QED BY <2>1, <2>2, <2>3, <2>4 DEF PlanInv
<1>2. PlanInv /\ [PlanNext]_planVars => PlanInv'
  <2> SUFFICES ASSUME PlanInv, [PlanNext]_planVars PROVE PlanInv'
    OBVIOUS
  <2>1. ASSUME UNCHANGED <<listed, vehicle, taken, total, way>>,
               step' \in {"select", "order", "done"},
               step' = "select" => step = "select",
               step' = "done" => Unvisited = {}
        PROVE  PlanInv'
    <3>1. /\ Elements(way)' = Elements(way) /\ Elements(taken)' = Elements(taken)
          /\ Expected' = Expected
          /\ IsPlan(taken)' /\ IsPlan(way)'
      BY <2>1 DEF PlanInv, IsPlan, Elements, Expected
    <3>2. Unvisited' = Unvisited /\ Left' = Left
      BY <2>1, <3>1 DEF Unvisited, Left
    <3> QED BY <2>1, <3>1, <3>2 DEF PlanInv
  <2>2. CASE EndSelection
    BY <2>1, <2>2 DEF EndSelection
  <2>3. CASE EndOrdering
    BY <2>1, <2>3 DEF EndOrdering
  <2>4. CASE UNCHANGED planVars
    BY <2>1, <2>4 DEF planVars, PlanInv
  <2> QED
    BY <2>2, <2>3, <2>4, TakeKeepsPlan, VisitKeepsPlan DEF PlanNext
<1> QED
  BY <1>1, <1>2, PTL DEF PlanSpec

-----------------------------------------------------------------------------
(* A plan is as long as it has orders, and a sum along it is a sum over    *)
(* them, in whatever order they come.                                      *)
LEMMA PlanLength ==
  ASSUME NEW s, IsPlan(s)
  PROVE  IsFiniteSet(Elements(s)) /\ Cardinality(Elements(s)) = Len(s)
<1>1. DOMAIN s = 1..Len(s) /\ Len(s) \in Nat /\ s \in [1..Len(s) -> listed]
  BY DEF IsPlan
<1>2. s \in Bijection(1..Len(s), Elements(s))
  BY <1>1 DEF IsPlan, Elements, Bijection, Injection, Surjection, IsInjective
<1>3. IsFiniteSet(1..Len(s)) /\ Cardinality(1..Len(s)) = Len(s)
  BY <1>1, FS_Interval
<1> QED BY <1>2, <1>3, FS_Bijection DEF ExistsBijection

(* A sum along a plan is the sum over the orders in it, whatever their     *)
(* order.                                                                  *)
LEMMA SumAlong ==
  ASSUME NEW s, IsPlan(s), NEW f, DOMAIN f = DOMAIN s, NEW g, \A r \in listed : g[r] \in Nat,
         \A i \in DOMAIN s : f[i] = g[s[i]]
  PROVE  Total(f) = SumFunctionOnSet(g, Elements(s))
<1>1. IsFiniteSet(DOMAIN s) /\ \A i \in DOMAIN s : s[i] \in listed
  BY PlanElements DEF IsPlan
<1>2. SumFunctionOnSet(f, DOMAIN s) = SumFunctionOnSet(g, {s[i] : i \in DOMAIN s})
  <2>1. \A i \in DOMAIN s : f[i] \in Nat /\ f[i] = g[s[i]]
    BY <1>1
  <2>2. \A i, j \in DOMAIN s : s[i] = s[j] => i = j
    BY DEF IsPlan
  <2> QED BY <1>1, <2>1, <2>2, SumReindexed
<1> QED BY <1>2 DEF Total, SumFunction, Elements

(* The plan that is shown visits what was taken.                           *)
LEMMA DonePlan ==
  ASSUME PlanInv, step = "done"
  PROVE  Elements(way) = Elements(taken) /\ Len(way) = Len(taken)
<1>1. Elements(way) = Elements(taken)
  BY DEF PlanInv, Unvisited
<1> QED BY <1>1, PlanLength DEF PlanInv

(* buildRoutePreview takes the most pressing orders the vehicle holds, for *)
(* any orders and distances, and optimizeCollectionRoute visits each once, *)
(* none before one of a more pressing group.                               *)
THEOREM UrgentOrdersFirst == PlanSpec => []UrgentFirst
<1>1. ASSUME PlanInv, step = "done"
      PROVE  /\ \A i, j \in DOMAIN way : i < j => Group(way[i]) <= Group(way[j])
             /\ \A i \in DOMAIN way : \A o \in Left : Before(way[i], o)
             /\ Len(way) = Len(taken) /\ Elements(way) = Elements(taken)
             /\ total = Total([i \in DOMAIN way |-> way[i].liters]) /\ total <= vehicle
  <2>1. Len(way) = Len(taken) /\ Elements(way) = Elements(taken)
    BY <1>1, DonePlan
  <2>2. \A i \in DOMAIN way : way[i] \in Elements(taken) /\ way[i] \in listed
    BY <1>1, <2>1, PlanElements DEF Elements, PlanInv, IsPlan
  <2>3. \A i \in DOMAIN way : \A o \in Left : Before(way[i], o)
    BY <1>1, <2>2 DEF PlanInv
  <2>4. total = Total([i \in DOMAIN way |-> way[i].liters])
    <3> DEFINE f == [i \in DOMAIN way |-> way[i].liters]
    <3>1. DOMAIN f = DOMAIN way /\ \A i \in DOMAIN way : f[i] = Expected[way[i]]
      BY <1>1, <2>2, ListedRows
    <3>2. \A r \in listed : Expected[r] \in Nat
      BY <1>1, ListedRows
    <3>3. IsPlan(way)
      BY <1>1 DEF PlanInv
    <3> HIDE DEF f
    <3>4. Total(f) = SumFunctionOnSet(Expected, Elements(way))
      BY <3>1, <3>2, <3>3, SumAlong
    <3> QED BY <1>1, <2>1, <3>4 DEF PlanInv, f
  <2> QED BY <1>1, <2>1, <2>3, <2>4 DEF PlanInv
<1>2. PlanInv => UrgentFirst
  BY <1>1 DEF UrgentFirst
<1> QED
  BY <1>2, PlanInvHolds, PTL

-----------------------------------------------------------------------------
(* The five collections of the history that are read.                      *)
LEMMA FiveIsFinite == IsFiniteSet(1..5) /\ Cardinality(1..5) = 5
<1> DEFINE five == 5
<1>1. /\ IsFiniteSet(1..five)
      /\ Cardinality(1..five) = IF 1 > five THEN 0 ELSE five - 1 + 1
  <2>1. 1 \in Int /\ five \in Int
    OBVIOUS
  <2> HIDE DEF five
  <2> QED BY <2>1, FS_Interval
<1> QED BY <1>1

(* The forecast of a merchant is a number of litres.                       *)
LEMMA WeightsArePositive ==
  ASSUME NEW r, NEW i \in Recent(r)
  PROVE  Weight(r, i) \in 1..5
<1> DEFINE newer == {j \in Recent(r) : j < i}
           others == (1..5) \ {i}
<1>1. newer \subseteq others /\ i \in 1..5
  BY DEF Recent
<1>2. IsFiniteSet(1..5) /\ Cardinality(1..5) = 5
  BY FiveIsFinite
<1>3. IsFiniteSet(others) /\ Cardinality(others) = 4
  BY <1>1, <1>2, FS_RemoveElement
<1> HIDE DEF newer, others
<1>4. IsFiniteSet(newer) /\ Cardinality(newer) <= Cardinality(others)
  BY <1>1, <1>3, FS_Subset
<1>5. Cardinality(newer) \in Nat
  BY <1>4, FS_CardinalityType
<1> QED BY <1>3, <1>4, <1>5 DEF Weight, newer

(* Of those, the ones the forecast can use.                                *)
LEMMA RecentIsFinite ==
  ASSUME NEW r \in Row
  PROVE  /\ IsFiniteSet(Recent(r))
         /\ \A i \in Recent(r) : r.history[i].liters \in Nat
<1>1. Recent(r) \subseteq 1..5
  BY DEF Recent
<1>2. IsFiniteSet(Recent(r))
  BY <1>1, FiveIsFinite, FS_Subset
<1>3. r.history \in Seq([liters : Nat, late : BOOLEAN])
  BY DEF Row
<1>4. \A i \in Recent(r) : r.history[i].liters \in Nat
  <2> SUFFICES ASSUME NEW i \in Recent(r) PROVE r.history[i].liters \in Nat
    OBVIOUS
  <2>1. i \in DOMAIN r.history
    BY DEF Recent
  <2>2. r.history[i] \in [liters : Nat, late : BOOLEAN]
    <3>1. ASSUME NEW points, NEW s \in Seq(points), NEW j \in DOMAIN s PROVE s[j] \in points
      OBVIOUS
    <3> QED BY <1>3, <2>1, <3>1
  <2> QED BY <2>2
<1> QED BY <1>2, <1>4

(* roundOneDecimal of a quotient is a volume.                              *)
LEMMA RoundedType ==
  ASSUME NEW a \in Nat, NEW b \in Nat \ {0}
  PROVE  Rounded(a, b) \in Nat
<1>1. ASSUME NEW m \in Nat, NEW n \in Nat \ {0} PROVE m \div n \in Nat
  BY <1>1, SMTT(30)
<1>2. 2 * a + 10 * b \in Nat /\ 20 * b \in Nat \ {0}
  OBVIOUS
<1>3. (2 * a + 10 * b) \div (20 * b) \in Nat
  BY <1>1, <1>2
<1> QED BY <1>3 DEF Rounded

(* The forecast divides by a positive weight, so it is a volume.           *)
LEMMA PredictedType ==
  ASSUME NEW r \in Row, Known(r)
  PROVE  Predicted(r) \in Nat
<1> DEFINE declared == IF r.liters > r.capacity THEN r.capacity ELSE r.liters
           amounts == [i \in Recent(r) |-> Weight(r, i) * r.history[i].liters]
           shares == [i \in Recent(r) |-> Weight(r, i)]
           weighted == Total(amounts)
           weights == Total(shares)
           share == IF Cardinality(Recent(r)) >= 3 THEN 4 ELSE 3
<1>1. r.liters \in Nat /\ r.capacity \in Nat /\ declared \in Nat /\ share \in 3..4
  BY DEF Row, Known
<1>2. CASE Recent(r) = {}
  <2>1. Predicted(r) = Rounded(declared, 1)
    BY <1>2 DEF Predicted
  <2> HIDE DEF declared
  <2> QED BY <1>1, <2>1, RoundedType
<1>3. CASE Recent(r) # {}
  <2>1. IsFiniteSet(Recent(r)) /\ \A i \in Recent(r) : r.history[i].liters \in Nat
    BY RecentIsFinite
  <2>2. \A i \in Recent(r) : shares[i] \in Nat \ {0}
    BY WeightsArePositive
  <2>3. \A i \in Recent(r) : amounts[i] \in Nat
    <3> SUFFICES ASSUME NEW i \in Recent(r) PROVE amounts[i] \in Nat
      OBVIOUS
    <3>1. Weight(r, i) \in Nat /\ r.history[i].liters \in Nat
      BY <2>1, WeightsArePositive
    <3>2. \A a, b \in Nat : a * b \in Nat
      OBVIOUS
    <3> QED BY <3>1, <3>2
  <2>4. weighted \in Nat
    <3>1. DOMAIN amounts = Recent(r)
      OBVIOUS
    <3> HIDE DEF amounts
    <3> QED BY <2>1, <2>3, <3>1, SumType DEF Total, SumFunction
  <2>5. weights \in Nat \ {0}
    <3>1. DOMAIN shares = Recent(r)
      OBVIOUS
    <3> HIDE DEF shares
    <3>2. PICK i \in Recent(r) : TRUE
      BY <1>3
    <3>3. IsFiniteSet(Recent(r) \ {i})
      BY <2>1, FS_RemoveElement
    <3>4. SumFunctionOnSet(shares, Recent(r) \ {i}) \in Nat
      BY <2>2, <3>3, SumType
    <3>5. weights = shares[i] + SumFunctionOnSet(shares, Recent(r) \ {i})
      BY <2>1, <2>2, <3>1, SumRemove DEF Total, SumFunction
    <3> QED BY <2>2, <3>2, <3>4, <3>5
  <2>6. Predicted(r) = Rounded(share * weighted + (5 - share) * weights * declared, 5 * weights)
    BY <1>3 DEF Predicted
  <2> HIDE DEF declared, weighted, weights, share
  <2>7. share * weighted + (5 - share) * weights * declared \in Nat
    <3>1. \A a, b \in Nat : a * b \in Nat
      OBVIOUS
    <3>2. 5 - share \in Nat /\ share \in Nat
      BY <1>1
    <3>3. (5 - share) * weights * declared \in Nat
      BY <1>1, <2>5, <3>1, <3>2
    <3> QED BY <2>4, <3>1, <3>2, <3>3
  <2> QED BY <2>5, <2>6, <2>7, RoundedType
<1> QED BY <1>2, <1>3

(* What a stop may yield at worst is no less than what is expected of it,  *)
(* and no more than its container holds.                                   *)
LEMMA AtWorstBounds ==
  ASSUME NEW r \in Row
  PROVE  /\ Base(r) \in Nat /\ AtWorst(r) \in Nat
         /\ 100 * Base(r) <= AtWorst(r)
         /\ Known(r) => r.capacity \in Nat /\ AtWorst(r) <= 100 * r.capacity
<1>1. r.liters \in Nat /\ (Known(r) => r.capacity \in Nat)
  BY DEF Row, Known
<1>2. Predicted(r) # Missing => Predicted(r) \in Nat
  <2>1. CASE Known(r)
    BY <2>1, PredictedType
  <2>2. CASE ~Known(r)
    BY <2>2 DEF Predicted
  <2> QED BY <2>1, <2>2
<1>3. Base(r) \in Nat /\ (Known(r) => Base(r) <= r.capacity)
  BY <1>1, <1>2 DEF Base
<1>4. Percent(r) \in {105, 110, 120, 125}
  BY DEF Percent
<1>5. Base(r) * Percent(r) \in Nat /\ 100 * Base(r) <= Base(r) * Percent(r)
  BY <1>3, <1>4
<1> QED BY <1>1, <1>3, <1>5 DEF AtWorst

(* The level of the plan by what its stops may yield at worst.             *)
LEMMA OverCapacity ==
  ASSUME NEW worst \in Nat, NEW v \in Nat \ {0}
  PROVE  /\ worst <= 100 * v => ~((2 * worst + v) \div (2 * v) > 100)
         /\ 2 * worst > 201 * v => (2 * worst + v) \div (2 * v) > 100
<1> DEFINE q == (2 * worst + v) \div (2 * v)
<1>1. q \in Nat /\ (2 * v) * q <= 2 * worst + v /\ 2 * worst + v < (2 * v) * q + 2 * v
  <2>1. ASSUME NEW m \in Nat, NEW n \in Nat \ {0}
        PROVE  m \div n \in Nat /\ n * (m \div n) <= m /\ m < n * (m \div n) + n
    BY <2>1, SMTT(60)
  <2>2. 2 * worst + v \in Nat /\ 2 * v \in Nat \ {0}
    OBVIOUS
  <2> QED BY <2>1, <2>2
<1> HIDE DEF q
<1>2. q > 100 => (2 * v) * 101 <= (2 * v) * q
  BY <1>1, SMTT(60)
<1>3. ~(q > 100) => (2 * v) * q <= (2 * v) * 100
  BY <1>1, SMTT(60)
<1>4. (2 * v) * q \in Nat
  BY <1>1
<1>5. worst <= 100 * v => ~(q > 100)
  BY <1>1, <1>2, <1>4
<1>6. 2 * worst > 201 * v => q > 100
  BY <1>1, <1>3, <1>4
<1> QED BY <1>5, <1>6 DEF q

(* The same for the plan as a whole: what it may yield at worst lies       *)
(* between the forecast and its containers.                                *)
LEMMA WorstBounds ==
  ASSUME PlanInv, step = "done"
  PROVE  LET predicted == Total([i \in DOMAIN taken |-> Base(taken[i])])
             containers == Total([i \in DOMAIN way |-> way[i].capacity])
         IN /\ predicted \in Nat /\ Worst(taken) \in Nat /\ 100 * predicted <= Worst(taken)
            /\ (\A i \in DOMAIN way : Known(way[i])) =>
                 containers \in Nat /\ Worst(taken) <= 100 * containers
<1> DEFINE bases == [i \in DOMAIN taken |-> Base(taken[i])]
           worsts == [i \in DOMAIN taken |-> AtWorst(taken[i])]
           hundreds == [i \in DOMAIN taken |-> 100 * Base(taken[i])]
           held == [i \in DOMAIN taken |-> taken[i].capacity]
           helds == [i \in DOMAIN taken |-> 100 * taken[i].capacity]
           sizes == [i \in DOMAIN way |-> way[i].capacity]
<1>1. /\ IsFiniteSet(DOMAIN taken) /\ IsFiniteSet(DOMAIN way)
      /\ \A i \in DOMAIN taken : taken[i] \in Row /\ taken[i] \in listed
      /\ \A i \in DOMAIN way : way[i] \in Row /\ way[i] \in listed
  BY PlanElements, ListedRows DEF PlanInv, IsPlan
<1>2. \A i \in DOMAIN taken : bases[i] \in Nat /\ hundreds[i] = 100 * bases[i]
                              /\ worsts[i] \in Nat /\ hundreds[i] <= worsts[i]
  BY <1>1, AtWorstBounds
<1>3. Total(bases) \in Nat /\ Worst(taken) \in Nat /\ 100 * Total(bases) <= Worst(taken)
  <2>1. DOMAIN bases = DOMAIN taken /\ DOMAIN worsts = DOMAIN taken
    OBVIOUS
  <2>2. Worst(taken) = Total(worsts)
    BY DEF Worst
  <2> HIDE DEF bases, worsts, hundreds
  <2>3. /\ SumFunctionOnSet(bases, DOMAIN taken) \in Nat
        /\ SumFunctionOnSet(worsts, DOMAIN taken) \in Nat
    BY <1>1, <1>2, SumType
  <2>4. SumFunctionOnSet(hundreds, DOMAIN taken) = 100 * SumFunctionOnSet(bases, DOMAIN taken)
    BY <1>1, <1>2, SumScaled
  <2>5. \A i \in DOMAIN taken : hundreds[i] \in Nat
    BY <1>2
  <2>6. SumFunctionOnSet(hundreds, DOMAIN taken) <= SumFunctionOnSet(worsts, DOMAIN taken)
    BY <1>1, <1>2, <2>5, SumMonotone
  <2> QED BY <2>1, <2>2, <2>3, <2>4, <2>6 DEF Total, SumFunction
<1>4. ASSUME \A i \in DOMAIN way : Known(way[i])
      PROVE  Total(sizes) \in Nat /\ Worst(taken) <= 100 * Total(sizes)
  <2>1. Elements(way) = Elements(taken)
    BY DonePlan
  <2>2. \A i \in DOMAIN taken : Known(taken[i])
    BY <1>4, <2>1 DEF Elements
  <2>3. \A i \in DOMAIN taken : held[i] \in Nat /\ helds[i] = 100 * held[i]
                                /\ worsts[i] \in Nat /\ worsts[i] <= helds[i]
    BY <1>1, <2>2, AtWorstBounds
  <2>4. \A i \in DOMAIN way : sizes[i] \in Nat
    BY <1>1, <1>4, AtWorstBounds
  <2>5. Total(sizes) = Total(held)
    <3> DEFINE known == [r \in listed |-> IF Known(r) THEN r.capacity ELSE 0]
    <3>1. \A r \in listed : known[r] \in Nat
      BY AtWorstBounds, ListedRows DEF PlanInv
    <3>2. \A i \in DOMAIN way : sizes[i] = known[way[i]]
      BY <1>1, <1>4
    <3>3. \A i \in DOMAIN taken : held[i] = known[taken[i]]
      BY <1>1, <2>2
    <3>4. DOMAIN sizes = DOMAIN way /\ DOMAIN held = DOMAIN taken
      OBVIOUS
    <3>5. IsPlan(way) /\ IsPlan(taken)
      BY DEF PlanInv
    <3> HIDE DEF known, sizes, held
    <3>6. Total(sizes) = SumFunctionOnSet(known, Elements(way))
      BY <3>1, <3>2, <3>4, <3>5, SumAlong
    <3>7. Total(held) = SumFunctionOnSet(known, Elements(taken))
      BY <3>1, <3>3, <3>4, <3>5, SumAlong
    <3> QED BY <2>1, <3>6, <3>7
  <2>6. Worst(taken) = SumFunctionOnSet(worsts, DOMAIN taken)
    BY DEF Worst, Total, SumFunction
  <2>7. Total(held) = SumFunctionOnSet(held, DOMAIN taken)
    BY DEF Total, SumFunction
  <2> HIDE DEF held, helds, worsts, sizes
  <2>8. SumFunctionOnSet(held, DOMAIN taken) \in Nat
    BY <1>1, <2>3, SumType
  <2>9. SumFunctionOnSet(helds, DOMAIN taken) = 100 * SumFunctionOnSet(held, DOMAIN taken)
    BY <1>1, <2>3, SumScaled
  <2>10. \A i \in DOMAIN taken : helds[i] \in Nat
    BY <2>3
  <2>11. SumFunctionOnSet(worsts, DOMAIN taken) <= SumFunctionOnSet(helds, DOMAIN taken)
    BY <1>1, <2>3, <2>10, SumMonotone
  <2> QED BY <2>5, <2>6, <2>7, <2>8, <2>9, <2>11
<1> QED BY <1>3, <1>4

(* assessCollectorRouteCapacityRisk, for any orders, histories and         *)
(* vehicles: containers that fit the vehicle raise no warning, and a       *)
(* forecast beyond it, by more than the rounding, does.                    *)
THEOREM WarningsAreHonest == PlanSpec => []WarningIsHonest
<1>1. ASSUME PlanInv, step = "done", way # <<>>
      PROVE  LET containers == Total([i \in DOMAIN way |-> way[i].capacity])
             IN /\ (\A i \in DOMAIN way : Known(way[i])) /\ containers <= vehicle
                     => CurrentRoutePlan.level # "OVER_CAPACITY"
                /\ 200 * CurrentRoutePlan.predicted > 201 * vehicle
                     => CurrentRoutePlan.level = "OVER_CAPACITY"
  <2> DEFINE predicted == Total([i \in DOMAIN taken |-> Base(taken[i])])
             containers == Total([i \in DOMAIN way |-> way[i].capacity])
  <2>1. taken # <<>>
    <3>1. Len(way) = Len(taken)
      BY <1>1, DonePlan
    <3> QED BY <1>1, <3>1 DEF PlanInv, IsPlan
  <2>2. CurrentRoutePlan.level = RiskLevel(taken) /\ CurrentRoutePlan.predicted = predicted
    BY DEF CurrentRoutePlan
  <2>3. RiskLevel(taken) = "OVER_CAPACITY" <=> Utilization(taken) > 100
    <3>1. CASE Utilization(taken) > 100
      <4>1. /\ Utilization(taken) \notin 85..100
            /\ Utilization(taken) \notin 60..84
        BY <3>1
      <4> QED BY <2>1, <3>1, <4>1 DEF RiskLevel
    <3>2. CASE ~(Utilization(taken) > 100)
      <4>1. CASE Utilization(taken) \in 85..100
        <5>1. Utilization(taken) \notin 60..84
          BY <4>1
        <5> QED BY <2>1, <3>2, <4>1, <5>1 DEF RiskLevel
      <4>2. CASE Utilization(taken) \in 60..84
        <5>1. Utilization(taken) \notin 85..100
          BY <4>2
        <5> QED BY <2>1, <3>2, <4>2, <5>1 DEF RiskLevel
      <4>3. CASE Utilization(taken) \notin 85..100 /\ Utilization(taken) \notin 60..84
        BY <2>1, <3>2, <4>3 DEF RiskLevel
      <4> QED BY <4>1, <4>2, <4>3
    <3> QED BY <3>1, <3>2
  <2>4. /\ predicted \in Nat /\ Worst(taken) \in Nat /\ 100 * predicted <= Worst(taken)
        /\ (\A i \in DOMAIN way : Known(way[i])) =>
             containers \in Nat /\ Worst(taken) <= 100 * containers
    BY <1>1, WorstBounds
  <2>5. vehicle \in Nat \ {0}
    BY <1>1 DEF PlanInv
  <2>6. /\ Worst(taken) <= 100 * vehicle => ~(Utilization(taken) > 100)
        /\ 2 * Worst(taken) > 201 * vehicle => Utilization(taken) > 100
    BY <2>4, <2>5, OverCapacity DEF Utilization
  <2> HIDE DEF predicted, containers
  <2>7. 200 * predicted > 201 * vehicle => 2 * Worst(taken) > 201 * vehicle
    BY <2>4, <2>5
  <2>8. (\A i \in DOMAIN way : Known(way[i])) /\ containers <= vehicle
          => Worst(taken) <= 100 * vehicle
    BY <2>4, <2>5
  <2> QED BY <2>2, <2>3, <2>6, <2>7, <2>8 DEF containers
<1>2. PlanInv => WarningIsHonest
  BY <1>1 DEF WarningIsHonest
<1> QED
  BY <1>2, PlanInvHolds, PTL
=============================================================================
