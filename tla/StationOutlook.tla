--------------------------- MODULE StationOutlook ---------------------------
(***************************************************************************)
(* The stock of a station and what the console says of it: deliveries and  *)
(* changes of the capacity (station-deliveries.service.ts,                 *)
(* stations.service.ts), the forecast (station-fill-forecast.ts) and the   *)
(* alert raised from it (station-fill-alert.ts).                           *)
(*                                                                         *)
(* Instants are days.  A delivery is dated by the device that sends it, so *)
(* it may lie in the past, or, by a wrong clock, in the future.  Averages  *)
(* are in thousandths of a litre and durations in tenths of a day, as the  *)
(* code rounds them.                                                       *)
(***************************************************************************)
EXTENDS Integers, FiniteSets, Folds, Functions, FiniteSetsExt

CONSTANTS
  LastDay,     \* bound: days looked at
  Skew,        \* days by which a delivery may be dated off
  Load,        \* liters a delivery may bring
  Size,        \* capacities a station may be given
  MaxStorage,  \* STATION_MAX_STORAGE_DAYS
  Nobody       \* no administrator is at the form

ASSUME OutlookAssumption ==
  /\ LastDay \in Nat /\ Skew \in Nat /\ MaxStorage \in Nat \ {0}
  /\ Load \subseteq Nat \ {0} /\ Size \subseteq Nat \ {0}
  /\ Nobody \notin Size

VARIABLES
  today,     \* the day of the server's clock
  incoming,  \* liters of the deliveries dated each day
  stock,     \* current_volume_l
  capacity,  \* capacity_l
  form       \* the capacity an update has checked and is about to write

outlookVars == <<today, incoming, stock, capacity, form>>

Day == 0..LastDay

-----------------------------------------------------------------------------
(* Mutant: a week is always averaged.                                      *)
HistoryDays_mutant == (today - 6)..today

(* dailyIncomingByStation: the days from the first delivery of the last    *)
(* seven days on, today with what has come so far.                         *)
HistoryDays ==
  LET delivered == {d \in Day : d \in (today - 6)..today /\ incoming[d] > 0}
  IN IF delivered = {} THEN {} ELSE Min(delivered)..today

HistorySize == Cardinality(HistoryDays)

Incoming(days) == SumFunctionOnSet(incoming, days \cap Day)

(* forecastStationFill.                                                    *)
AverageDailyIncoming ==
  IF HistoryDays = {} THEN 0
  ELSE (2000 * Incoming(HistoryDays) + HistorySize) \div (2 * HistorySize)

AlreadyFull == stock >= capacity

RemainingCapacity == IF AlreadyFull THEN 0 ELSE 1000 * (capacity - stock)

HasEstimate == AlreadyFull \/ AverageDailyIncoming > 0

(* Mutant: the whole capacity has yet to be filled.                        *)
EstimatedDaysUntilFull_mutant ==
  IF AlreadyFull THEN 0
  ELSE (20000 * capacity + AverageDailyIncoming) \div (2 * AverageDailyIncoming)

EstimatedDaysUntilFull ==
  IF AlreadyFull THEN 0
  ELSE (20 * RemainingCapacity + AverageDailyIncoming) \div (2 * AverageDailyIncoming)

FullWithin(tenths) == HasEstimate /\ EstimatedDaysUntilFull <= tenths

FillStatus ==
  CASE AlreadyFull -> "FULL"
    [] ~AlreadyFull /\ HistorySize < 3 -> "INSUFFICIENT_DATA"
    [] ~AlreadyFull /\ HistorySize >= 3 /\ FullWithin(30) -> "CRITICAL"
    [] ~AlreadyFull /\ HistorySize >= 3 /\ FullWithin(70) /\ ~FullWithin(30) -> "WATCH"
    [] OTHER -> "STABLE"

(* Projected volume in k days.                                             *)
Projected(k) ==
  LET volume == 1000 * stock + k * AverageDailyIncoming
  IN IF AlreadyFull \/ volume > 1000 * capacity THEN 1000 * capacity ELSE volume

(* oldestStoredByStation: nothing marks a delivery as processed, so it is  *)
(* the first of all.  Of one dated in the future no age is known.          *)
Stored == {d \in Day : incoming[d] > 0}

HasAge == stock > 0 /\ Stored # {} /\ Min(Stored) <= today

StorageAge == today - Min(Stored)

StorageAgeStatus ==
  CASE ~HasAge -> "INSUFFICIENT_DATA"
    [] HasAge /\ StorageAge >= MaxStorage -> "OVERDUE"
    [] HasAge /\ StorageAge \in (MaxStorage - 2)..(MaxStorage - 1) -> "CRITICAL"
    [] HasAge /\ StorageAge < MaxStorage - 2 /\ StorageAge >= 7 -> "WATCH"
    [] OTHER -> "STABLE"

(* buildStationFillAlertCandidate: the age counts only when the capacity   *)
(* needs no action.                                                        *)
AlertStatus ==
  CASE FillStatus \in {"FULL", "CRITICAL", "WATCH"} -> FillStatus
    [] FillStatus \notin {"FULL", "CRITICAL", "WATCH"}
         /\ StorageAgeStatus \in {"CRITICAL", "OVERDUE"} -> "CRITICAL"
    [] FillStatus \notin {"FULL", "CRITICAL", "WATCH"}
         /\ StorageAgeStatus = "WATCH" -> "WATCH"
    [] OTHER -> "NONE"

AlertSeverity ==
  CASE AlertStatus = "NONE" -> "NONE"
    [] AlertStatus = "WATCH" -> "MEDIUM"
    [] OTHER -> "HIGH"

-----------------------------------------------------------------------------
OutlookInit ==
  /\ today = 0
  /\ incoming = [d \in Day |-> 0]
  /\ stock = 0
  /\ capacity \in Size
  /\ form = Nobody

NextDay ==
  /\ today < LastDay
  /\ today' = today + 1
  /\ UNCHANGED <<incoming, stock, capacity, form>>

(* The station row is locked: volume and capacity are as of the delivery.  *)
DeliverToStation ==
  \E l \in Load, d \in Day \cap ((today - Skew)..(today + Skew)) :
    /\ stock + l <= capacity
    /\ incoming' = [incoming EXCEPT ![d] = @ + l]
    /\ stock' = stock + l
    /\ UNCHANGED <<today, capacity, form>>

(* StationsService.update: the volume is read, and the capacity written    *)
(* whatever was delivered in between.                                      *)
CheckCapacity ==
  /\ form = Nobody
  /\ \E c \in Size \ {capacity} : c >= stock /\ form' = c
  /\ UNCHANGED <<today, incoming, stock, capacity>>

WriteCapacity ==
  /\ form # Nobody
  /\ capacity' = form
  /\ form' = Nobody
  /\ UNCHANGED <<today, incoming, stock>>

OutlookNext == NextDay \/ DeliverToStation \/ CheckCapacity \/ WriteCapacity

OutlookSpec == OutlookInit /\ [][OutlookNext]_outlookVars

-----------------------------------------------------------------------------
(* A station does not fill up by surprise: where oil has come over three   *)
(* days or more, a delivery of at most what three of them brought on the   *)
(* average leaves the station full only if the console already showed a    *)
(* HIGH alert for it.                                                      *)
FillsForetold ==
  LET days == (CHOOSE d \in Day : d \in (today - 6)..today /\ incoming[d] > 0
                 /\ \A e \in (today - 6)..(d - 1) : e \in Day => incoming[e] = 0)..today
      known == \E d \in Day : d \in (today - 6)..(today - 2) /\ incoming[d] > 0
      ordinary == (stock' - stock) * Cardinality(days) <= 3 * Incoming(days)
  IN stock < capacity /\ stock' = capacity /\ stock' > stock /\ known /\ ordinary
       => AlertSeverity = "HIGH"

FullIsForetold == [][FillsForetold]_outlookVars

(* What the console says fits the stock.  A station that is full, or that  *)
(* a stale change of its capacity leaves with more than it holds, has a    *)
(* HIGH alert and no room; and a STABLE one is not projected to be full    *)
(* within the week.                                                        *)
OutlookIsHonest ==
  /\ stock >= capacity => AlertSeverity = "HIGH" /\ RemainingCapacity = 0
  /\ FillStatus = "STABLE" => Projected(7) < 1000 * capacity
=============================================================================
