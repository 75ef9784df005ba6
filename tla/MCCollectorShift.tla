-------------------------- MODULE MCCollectorShift --------------------------
(***************************************************************************)
(* Small instances of the day of a collector: the registers of wards,      *)
(* merchants and labels that are there before, the plan of the route, and  *)
(* the shift.  They share no variable: a behaviour moves one of them, so   *)
(* that every state of each is reached and no product of them.             *)
(***************************************************************************)
EXTENDS CollectorShift, RoutePlanning, BackOffice, TLC

CONSTANTS collector, near, west, far, oldCode, newCode, prefix

(* A street, with distances on both sides of 2 and of 5 km.                *)
Mark == collector :> 0 @@ near :> 1500 @@ west :> -4000 @@ far :> 9000

Street ==
  [a \in DOMAIN Mark |->
    [b \in DOMAIN Mark |-> IF Mark[a] > Mark[b] THEN Mark[a] - Mark[b] ELSE Mark[b] - Mark[a]]]

OnTime(liters) == [liters |-> liters, late |-> FALSE]

(* Orders of every group, with every confidence of a forecast, one whose   *)
(* capacity is not known, and histories of which a part does not count.    *)
OrderRow(id, place, liters, size, days, priority, history) ==
  [id |-> id, place |-> place, liters |-> liters, capacity |-> size, days |-> days,
   priority |-> priority, history |-> history]

Catalogue == {
  OrderRow(1, near, 950, 1000, 14, 95, <<OnTime(900), OnTime(920), OnTime(910)>>),
  OrderRow(2, west, 900, 1000, 20, 90, <<OnTime(300), [liters |-> 900, late |-> TRUE], OnTime(990)>>),
  OrderRow(3, near, 200, 1000, 1, 12, <<>>),
  OrderRow(4, far, 760, 1000, 8, 60,
        <<OnTime(800), OnTime(800), OnTime(800), OnTime(800), OnTime(810), OnTime(10)>>),
  OrderRow(5, west, 500, 1000, Missing, 30, <<OnTime(1001), OnTime(100)>>),
  OrderRow(6, near, 300, Missing, 3, 0, <<>>),
  OrderRow(7, near, 990, 1000, 15, 80, <<OnTime(990), OnTime(10), OnTime(500), OnTime(250)>>),
  OrderRow(8, far, 990, 1000, 15, 80,
        <<OnTime(1000), OnTime(1000), OnTime(1000), OnTime(1000), OnTime(1000)>>) }

AnyListing == SUBSET Catalogue

(* Two codes that are normalised to one; a label typed without zeros, and  *)
(* one typed with a number that is too large to count on from.             *)
OnePrefix == [c \in {oldCode, newCode} |-> prefix]
TypedLabels == {[prefix |-> prefix, number |-> 1, padded |-> FALSE],
                [prefix |-> prefix, number |-> 2, padded |-> TRUE]}

(* Two desks have nothing but their names to differ in.                    *)
Names == Permutations(Desk)

CollectorInit == ShiftInit /\ PlanInit /\ OfficeInit

(* The plan the other parts are checked beside.                            *)
NoPlan == PlanInit /\ listed = {} /\ \A v \in Vehicles : vehicle <= v

collectorVars == <<shiftVars, planVars, officeVars>>

CollectorNext ==
  \/ /\ NoPlan /\ OfficeInit
     /\ ShiftNext
     /\ UNCHANGED <<planVars, officeVars>>
  \/ /\ ShiftInit /\ OfficeInit
     /\ PlanNext
     /\ UNCHANGED <<shiftVars, officeVars>>
  \/ /\ ShiftInit /\ NoPlan
     /\ OfficeNext
     /\ UNCHANGED <<shiftVars, planVars>>

CollectorSpec == CollectorInit /\ [][CollectorNext]_collectorVars
=============================================================================
