-------------------------- MODULE FieldOperations --------------------------
(***************************************************************************)
(* The field operations of the UCO platform: merchants report a full       *)
(* container, collectors claim orders into a route, collect the oil and    *)
(* deliver it to a station, and administrators move containers around.     *)
(*                                                                         *)
(* The variables are the tables of the database (one row per function      *)
(* entry), and job, the HTTP requests the API process has in flight.       *)
(* A handler that reads rows and writes them under row locks in one        *)
(* PostgreSQL transaction is one action, taken when it commits.  A         *)
(* handler that uses, when it commits, something it read earlier without   *)
(* a lock is two or more actions: what it read is kept in its job.         *)
(* PostgreSQL runs at READ COMMITTED, so each such read sees the latest    *)
(* committed rows.  What a transaction reads of merchants and wards        *)
(* without a lock is taken to hold when it commits.                        *)
(*                                                                         *)
(* A request that the code answers from existing rows (a replayed UUID, an *)
(* already active route) or refuses before it keeps anything writes        *)
(* nothing and is a stuttering step.                                       *)
(***************************************************************************)
EXTENDS Naturals, FiniteSets, FiniteSetsExt

CONSTANTS
  Merchant,      \* merchants with a profile and a ward
  Collector,     \* active collectors
  Container,     \* registered containers, all in service
  Order,         \* identities of orders: bounds how many are ever created
  Route,         \* client UUIDs of routes: bounds how many are ever started
  Uuid,          \* client UUIDs of collections
  DeliveryUuid,  \* client UUIDs of station deliveries
  Station,       \* active stations
  Liters,        \* quantities a delivery may report
  Worker,        \* requests that may be in flight at the same time
  Serves,        \* Serves[c]: the merchants of the wards of collector c
  Capacity,      \* Capacity[s]: capacity in liters of station s
  None           \* SQL NULL

ASSUME SetsAssumption ==
  None \notin Merchant \cup Collector \cup Container \cup Order \cup DeliveryUuid \cup Station

ASSUME ServesAssumption == Serves \in [Collector -> SUBSET Merchant]

ASSUME QuantityAssumption ==
  /\ Liters \subseteq Nat \ {0}
  /\ Capacity \in [Station -> Nat]

VARIABLES
  approved,    \* merchants whose approvalStatus is APPROVED
  container,   \* containers
  order,       \* collection_orders
  route,       \* collection_routes
  stop,        \* collection_route_stops: stop[r][o], "NONE" if there is no row
  txn,         \* collection_transactions, by client_uuid
  delivery,    \* station_deliveries, by client_uuid
  volume,      \* stations.current_volume_l
  job          \* the requests in flight, with what each has read

vars == <<approved, container, order, route, stop, txn, delivery, volume, job>>

-----------------------------------------------------------------------------
(* Rows                                                                    *)

ContainerRow ==
  [state : {"AT_MERCHANT", "IN_TRANSIT", "AT_STATION"},
   merchant : Merchant \cup {None}]

OrderRow ==
  [status : {"NONE", "READY", "ASSIGNED", "COLLECTED", "CANCELLED"},
   merchant : Merchant \cup {None},
   container : Container \cup {None},
   collector : Collector \cup {None}]

RouteRow ==
  [status : {"NONE", "ACTIVE", "COMPLETED", "CANCELLED"},
   collector : Collector \cup {None}]

StopStatus == {"NONE", "PENDING", "COLLECTED", "SKIPPED"}

TxnRow ==
  [order : Order \cup {None},
   container : Container \cup {None},
   collector : Collector \cup {None},
   delivery : DeliveryUuid \cup {None}]

DeliveryRow ==
  [collector : Collector \cup {None},
   station : Station \cup {None},
   liters : Liters \cup {0}]

NoOrder == [status |-> "NONE", merchant |-> None, container |-> None, collector |-> None]
NoRoute == [status |-> "NONE", collector |-> None]
NoTxn == [order |-> None, container |-> None, collector |-> None, delivery |-> None]
NoDelivery == [collector |-> None, station |-> None, liters |-> 0]

(* What a request keeps from its reads until it commits.                   *)
Idle == [op |-> "idle"]

CreateReadyJob == [op : {"createReady"}, merchant : Merchant, container : Container]
CancelJob == [op : {"cancel"}, order : Order]
StartRouteJob ==
  [op : {"startRoute"}, collector : Collector, route : Route, orders : SUBSET Order]
CompleteRouteJob == [op : {"completeRoute"}, route : Route, stopsRead : BOOLEAN]
CancelRouteJob == [op : {"cancelRoute"}, route : Route]
ReturnContainerJob == [op : {"returnContainer"}, container : Container, merchant : Merchant]

Job ==
  {Idle} \cup CreateReadyJob \cup CancelJob \cup StartRouteJob
  \cup CompleteRouteJob \cup CancelRouteJob \cup ReturnContainerJob

-----------------------------------------------------------------------------
(* Queries                                                                 *)

IsOpen(o) == order[o].status \in {"READY", "ASSIGNED"}
IsLive(u) == txn[u].order # None

ActiveRoutes(c) == {r \in Route : route[r].status = "ACTIVE" /\ route[r].collector = c}
StopsIn(r, status) == {o \in Order : stop[r][o] = status}

Undelivered(k) ==
  {u \in Uuid : IsLive(u) /\ txn[u].container = k /\ txn[u].delivery = None}

(* READY orders a route preview of c may show.  Which of them it keeps     *)
(* (scores, greedy filling of the vehicle, optimised sequence) is left     *)
(* open: any non-empty subset.                                             *)
FindReadyOrdersForRoute(c) ==
  {o \in Order :
     /\ order[o].status = "READY"
     /\ order[o].collector = None
     /\ order[o].merchant \in approved \cap Serves[c]}

HasActiveCollection(k) ==
  \/ \E o \in Order : IsOpen(o) /\ order[o].container = k
  \/ Undelivered(k) # {}

-----------------------------------------------------------------------------
(* What handlers check again under their locks, and what they then write.  *)
(* The definitions named ..._mutant are not part of the specification:     *)
(* each is the definition after it with a plausible bug, and shows which   *)
(* property would notice.                                                  *)

NoOpenOrder_mutant(m, k) ==
  \A o \in Order :
    ~(order[o].status = "READY" /\ order[o].merchant = m /\ order[o].container = k)

(* The search for an open order is for this merchant and this container.   *)
NoOpenOrder(m, k) ==
  \A o \in Order : ~(IsOpen(o) /\ order[o].merchant = m /\ order[o].container = k)

IsCancellable_mutant(o) == order[o].status # "CANCELLED"

IsCancellable(o) == order[o].status = "READY"

AreClaimable_mutant(S) == \A o \in S : IsOpen(o)

(* updateMany's condition, which must hold of every order of the preview.  *)
AreClaimable(S) == \A o \in S : order[o].status = "READY" /\ order[o].collector = None

IsRouteCancellable_mutant(r) == route[r].status = "ACTIVE"

IsRouteCancellable(r) == route[r].status = "ACTIVE" /\ StopsIn(r, "COLLECTED") = {}

(* The orders a cancelled route gives back: its stops' orders that are     *)
(* still assigned to its collector.                                        *)
ReleasedOrders(r) ==
  {o \in Order : /\ stop[r][o] # "NONE"
                 /\ order[o].status = "ASSIGNED"
                 /\ order[o].collector = route[r].collector}

IsCollectable_mutant(c, o) == IsOpen(o)

IsCollectable(c, o) ==
  \/ order[o].status = "READY"
  \/ order[o].status = "ASSIGNED" /\ order[o].collector = c

Receipt_mutant(c, o) ==
  [order |-> order[o].container, container |-> o, collector |-> c, delivery |-> None]

Receipt(c, o) ==
  [order |-> o, container |-> order[o].container, collector |-> c, delivery |-> None]

StopsAfterCollecting_mutant(c, o) == stop

(* The PENDING stop of the order on the collector's ACTIVE route, if any   *)
(* (the unique index leaves one such route).                               *)
StopsAfterCollecting(c, o) ==
  [r \in Route |-> IF r \in ActiveRoutes(c) /\ stop[r][o] = "PENDING"
                   THEN [stop[r] EXCEPT ![o] = "COLLECTED"]
                   ELSE stop[r]]

AreDeliverable_mutant(c, T) == \A u \in T : IsLive(u) /\ txn[u].collector = c

(* processOne sets synced_at on every transaction it records, so none is   *)
(* refused for not being synchronised.                                     *)
AreDeliverable(c, T) ==
  \A u \in T : IsLive(u) /\ txn[u].collector = c /\ txn[u].delivery = None

UnloadedContainers_mutant(T) == {}

(* The containers a delivery marks AT_STATION: those of its transactions,  *)
(* wherever they are by now.                                               *)
UnloadedContainers(T) == {txn[u].container : u \in T}

FitsStation_mutant(s, l) == volume[s] <= Capacity[s]

FitsStation(s, l) == volume[s] + l <= Capacity[s]

-----------------------------------------------------------------------------
Init ==
  /\ approved = {}
  /\ container = [k \in Container |-> [state |-> "AT_MERCHANT", merchant |-> None]]
  /\ order = [o \in Order |-> NoOrder]
  /\ route = [r \in Route |-> NoRoute]
  /\ stop = [r \in Route |-> [o \in Order |-> "NONE"]]
  /\ txn = [u \in Uuid |-> NoTxn]
  /\ delivery = [d \in DeliveryUuid |-> NoDelivery]
  /\ volume = [s \in Station |-> 0]
  /\ job = [w \in Worker |-> Idle]

Begin(w, request) ==
  /\ job[w] = Idle
  /\ job' = [job EXCEPT ![w] = request]
  /\ UNCHANGED <<approved, container, order, route, stop, txn, delivery, volume>>

Finish(w) == job' = [job EXCEPT ![w] = Idle]

(* The request ends without an effect: a recheck under the lock failed and *)
(* the transaction threw, the transaction was aborted, or the API process  *)
(* stopped before it committed.                                            *)
Abandon(w) ==
  /\ job[w] # Idle
  /\ Finish(w)
  /\ UNCHANGED <<approved, container, order, route, stop, txn, delivery, volume>>

-----------------------------------------------------------------------------
(* Orders: the merchant's side                                             *)

(* The merchant's approval and the choice of a container of theirs, both   *)
(* read before the transaction.                                            *)
CreateReadyRead(w, m, k) ==
  /\ m \in approved
  /\ container[k] = [state |-> "AT_MERCHANT", merchant |-> m]
  /\ Begin(w, [op |-> "createReady", merchant |-> m, container |-> k])

(* The transaction locks the container and checks it again.                *)
CreateReadyCommit(w) ==
  /\ job[w].op = "createReady"
  /\ LET m == job[w].merchant
         k == job[w].container
     IN /\ container[k] = [state |-> "AT_MERCHANT", merchant |-> m]
        /\ NoOpenOrder(m, k)
        /\ \E o \in Order :
             /\ order[o].status = "NONE"
             /\ order' = [order EXCEPT ![o] =
                  [status |-> "READY", merchant |-> m, container |-> k, collector |-> None]]
  /\ Finish(w)
  /\ UNCHANGED <<approved, container, route, stop, txn, delivery, volume>>

CancelRead(w, o) ==
  /\ order[o].status # "NONE"
  /\ order[o].merchant \in approved
  /\ Begin(w, [op |-> "cancel", order |-> o])

CancelCommit(w) ==
  /\ job[w].op = "cancel"
  /\ IsCancellable(job[w].order)
  /\ order' = [order EXCEPT ![job[w].order].status = "CANCELLED"]
  /\ Finish(w)
  /\ UNCHANGED <<approved, container, route, stop, txn, delivery, volume>>

-----------------------------------------------------------------------------
(* Routes: the collector's shift                                           *)

(* Outside the transaction: the UUID is new, the collector has no active   *)
(* route, and the preview chose the orders S.                              *)
StartRouteRead(w, c, r, S) ==
  /\ route[r].status = "NONE"
  /\ ActiveRoutes(c) = {}
  /\ S \subseteq FindReadyOrdersForRoute(c)
  /\ S # {}
  /\ Begin(w, [op |-> "startRoute", collector |-> c, route |-> r, orders |-> S])

(* The claim must take all of them; the unique indexes on client_uuid and  *)
(* on the collector's ACTIVE route refuse a second row.                    *)
StartRouteCommit(w) ==
  /\ job[w].op = "startRoute"
  /\ LET c == job[w].collector
         r == job[w].route
         S == job[w].orders
     IN /\ AreClaimable(S)
        /\ route[r].status = "NONE"
        /\ ActiveRoutes(c) = {}
        /\ order' = [o \in Order |->
             IF o \in S THEN [order[o] EXCEPT !.status = "ASSIGNED", !.collector = c]
                        ELSE order[o]]
        /\ route' = [route EXCEPT ![r] = [status |-> "ACTIVE", collector |-> c]]
        /\ stop' = [stop EXCEPT ![r] = [o \in Order |-> IF o \in S THEN "PENDING" ELSE "NONE"]]
  /\ Finish(w)
  /\ UNCHANGED <<approved, container, txn, delivery, volume>>

(* completeRoute reads the ACTIVE route and then, in a second query, its   *)
(* stops; the update that follows takes no lock and has no condition.      *)
CompleteRouteRead(w, r) ==
  /\ route[r].status = "ACTIVE"
  /\ Begin(w, [op |-> "completeRoute", route |-> r, stopsRead |-> FALSE])

CompleteRouteReadStops(w) ==
  /\ job[w].op = "completeRoute"
  /\ ~job[w].stopsRead
  /\ StopsIn(job[w].route, "PENDING") = {}
  /\ job' = [job EXCEPT ![w].stopsRead = TRUE]
  /\ UNCHANGED <<approved, container, order, route, stop, txn, delivery, volume>>

CompleteRouteCommit(w) ==
  /\ job[w].op = "completeRoute"
  /\ job[w].stopsRead
  /\ route' = [route EXCEPT ![job[w].route].status = "COMPLETED"]
  /\ Finish(w)
  /\ UNCHANGED <<approved, container, order, stop, txn, delivery, volume>>

CancelRouteRead(w, r) ==
  /\ IsRouteCancellable(r)
  /\ Begin(w, [op |-> "cancelRoute", route |-> r])

(* Under the collector's advisory lock and the locks of the stops and the  *)
(* route, both conditions are checked again.                               *)
CancelRouteCommit(w) ==
  /\ job[w].op = "cancelRoute"
  /\ LET r == job[w].route
     IN /\ IsRouteCancellable(r)
        /\ order' = [o \in Order |->
             IF o \in ReleasedOrders(r)
             THEN [order[o] EXCEPT !.status = "READY", !.collector = None]
             ELSE order[o]]
        /\ stop' = [stop EXCEPT ![r] =
             [o \in Order |-> IF stop[r][o] = "PENDING" THEN "SKIPPED" ELSE stop[r][o]]]
        /\ route' = [route EXCEPT ![r].status = "CANCELLED"]
  /\ Finish(w)
  /\ UNCHANGED <<approved, container, txn, delivery, volume>>

-----------------------------------------------------------------------------
(* Collection and delivery                                                 *)

(* One transaction under the collector's advisory lock and the order's row *)
(* lock.  INSERT ... ON CONFLICT (client_uuid) DO NOTHING makes a used     *)
(* UUID a replay; the partial unique index on order_id refuses a second    *)
(* live row of the order.  The container's state is overwritten whatever   *)
(* it was.                                                                 *)
ProcessOne(c, u, o) ==
  /\ IsCollectable(c, o)
  /\ order[o].merchant \in approved \cap Serves[c]
  /\ ~IsLive(u)
  /\ \A v \in Uuid : txn[v].order # o
  /\ txn' = [txn EXCEPT ![u] = Receipt(c, o)]
  /\ order' = [order EXCEPT ![o].status = "COLLECTED"]
  /\ container' = [container EXCEPT ![order[o].container].state = "IN_TRANSIT"]
  /\ stop' = StopsAfterCollecting(c, o)
  /\ UNCHANGED <<approved, route, delivery, volume, job>>

(* One transaction that locks the station and the transactions it takes.   *)
(* A used UUID is a replay.                                                *)
CreateDelivery(c, d, s, T, l) ==
  /\ delivery[d] = NoDelivery
  /\ T # {}
  /\ AreDeliverable(c, T)
  /\ FitsStation(s, l)
  /\ delivery' = [delivery EXCEPT ![d] = [collector |-> c, station |-> s, liters |-> l]]
  /\ txn' = [u \in Uuid |-> IF u \in T THEN [txn[u] EXCEPT !.delivery = d] ELSE txn[u]]
  /\ container' = [k \in Container |->
       IF k \in UnloadedContainers(T)
       THEN [container[k] EXCEPT !.state = "AT_STATION"]
       ELSE container[k]]
  /\ volume' = [volume EXCEPT ![s] = @ + l]
  /\ UNCHANGED <<approved, order, route, stop, job>>

-----------------------------------------------------------------------------
(* Administration                                                          *)

ApproveMerchant(m) ==
  /\ approved' = approved \cup {m}
  /\ UNCHANGED <<container, order, route, stop, txn, delivery, volume, job>>

RejectMerchant(m) ==
  /\ approved' = approved \ {m}
  /\ UNCHANGED <<container, order, route, stop, txn, delivery, volume, job>>

AssignContainer(k, m) ==
  /\ container[k].state # "IN_TRANSIT"
  /\ ~HasActiveCollection(k)
  /\ container[k].merchant \in {None, m}
  /\ container' = [container EXCEPT ![k] = [state |-> "AT_MERCHANT", merchant |-> m]]
  /\ UNCHANGED <<approved, order, route, stop, txn, delivery, volume, job>>

UnassignContainer(k) ==
  /\ container[k].state # "IN_TRANSIT"
  /\ ~HasActiveCollection(k)
  /\ container' = [container EXCEPT ![k] = [state |-> "AT_MERCHANT", merchant |-> None]]
  /\ UNCHANGED <<approved, order, route, stop, txn, delivery, volume, job>>

CancelContainerTransit(k) ==
  /\ container[k].state = "IN_TRANSIT"
  /\ container[k].merchant # None
  /\ container' = [container EXCEPT ![k].state = "AT_MERCHANT"]
  /\ UNCHANGED <<approved, order, route, stop, txn, delivery, volume, job>>

(* The return is one transaction that takes no lock: it reads the          *)
(* container and the receiving merchant, then writes the container.        *)
ReturnContainerRead(w, k, m) ==
  /\ container[k].state = "AT_STATION"
  /\ m \in approved
  /\ Begin(w, [op |-> "returnContainer", container |-> k, merchant |-> m])

ReturnContainerCommit(w) ==
  /\ job[w].op = "returnContainer"
  /\ container' = [container EXCEPT ![job[w].container] =
                     [state |-> "AT_MERCHANT", merchant |-> job[w].merchant]]
  /\ Finish(w)
  /\ UNCHANGED <<approved, order, route, stop, txn, delivery, volume>>

-----------------------------------------------------------------------------
Merchants(w) ==
  \/ \E m \in Merchant, k \in Container : CreateReadyRead(w, m, k)
  \/ CreateReadyCommit(w)
  \/ \E o \in Order : CancelRead(w, o)
  \/ CancelCommit(w)

Shifts(w) ==
  \/ \E c \in Collector, r \in Route, S \in SUBSET Order : StartRouteRead(w, c, r, S)
  \/ StartRouteCommit(w)
  \/ \E r \in Route : CompleteRouteRead(w, r)
  \/ CompleteRouteReadStops(w)
  \/ CompleteRouteCommit(w)
  \/ \E r \in Route : CancelRouteRead(w, r)
  \/ CancelRouteCommit(w)

Returns(w) ==
  \/ \E k \in Container, m \in Merchant : ReturnContainerRead(w, k, m)
  \/ ReturnContainerCommit(w)

Field ==
  \/ \E c \in Collector, u \in Uuid, o \in Order : ProcessOne(c, u, o)
  \/ \E c \in Collector, d \in DeliveryUuid, s \in Station, T \in SUBSET Uuid, l \in Liters :
       CreateDelivery(c, d, s, T, l)

Administration ==
  \/ \E m \in Merchant : ApproveMerchant(m) \/ RejectMerchant(m)
  \/ \E k \in Container, m \in Merchant : AssignContainer(k, m)
  \/ \E k \in Container : UnassignContainer(k) \/ CancelContainerTransit(k)

Next ==
  \/ \E w \in Worker : Merchants(w) \/ Shifts(w) \/ Returns(w) \/ Abandon(w)
  \/ Field
  \/ Administration

Spec == Init /\ [][Next]_vars
-----------------------------------------------------------------------------
(* Properties                                                              *)

(* Every row and every request in flight has its shape.                    *)
TypeOK ==
  /\ approved \subseteq Merchant
  /\ container \in [Container -> ContainerRow]
  /\ order \in [Order -> OrderRow]
  /\ route \in [Route -> RouteRow]
  /\ stop \in [Route -> [Order -> StopStatus]]
  /\ txn \in [Uuid -> TxnRow]
  /\ delivery \in [DeliveryUuid -> DeliveryRow]
  /\ volume \in [Station -> Nat]
  /\ job \in [Worker -> Job]

(* An order is ASSIGNED to a collector exactly when it is a PENDING stop   *)
(* of that collector's active route, and a collector has one active route  *)
(* at most, however starts, cancels, completions and collections           *)
(* interleave.  This is of the tables at one moment: currentRoute reads    *)
(* the route and the orders in two queries, and a start that commits       *)
(* between them is answered ASSIGNED_ORDERS_WITHOUT_ACTIVE_ROUTE though    *)
(* nothing is wrong in the tables.                                         *)
AssignedIffPendingStop ==
  /\ \A o \in Order : order[o].status = "ASSIGNED" =>
       \E r \in ActiveRoutes(order[o].collector) : stop[r][o] = "PENDING"
  /\ \A r \in Route, o \in Order : stop[r][o] = "PENDING" =>
       /\ order[o].status = "ASSIGNED"
       /\ r \in ActiveRoutes(order[o].collector)
  /\ \A r1, r2 \in Route :
       /\ route[r1].status = "ACTIVE"
       /\ r2 \in ActiveRoutes(route[r1].collector)
       => r1 = r2

(* An order is COLLECTED exactly when there is a collection transaction of *)
(* it, of its container, and there is never a second one: a cancelled or   *)
(* released order is never paid for and a collected one never lost.        *)
CollectedIffOneReceipt ==
  /\ \A o \in Order : order[o].status = "COLLECTED" <=> \E u \in Uuid : txn[u].order = o
  /\ \A u, v \in Uuid : IsLive(u) /\ txn[u].order = txn[v].order => u = v
  /\ \A u \in Uuid : IsLive(u) => txn[u].container = order[txn[u].order].container

(* A merchant never has two open orders on one of its containers           *)
(* (ORDER_ALREADY_OPEN), although the check reads orders that other        *)
(* handlers change without the container's lock.                           *)
OneOpenOrderPerMerchantContainer ==
  \A o, p \in Order :
    IsOpen(o) /\ IsOpen(p) /\ order[o].merchant = order[p].merchant
              /\ order[o].container = order[p].container => o = p

(* A container on the road carries oil that no station has received: its   *)
(* state goes IN_TRANSIT only with a transaction, and a delivery of the    *)
(* last undelivered one takes it off the road, whatever the administrators *)
(* did in between.                                                         *)
InTransitCarriesOil ==
  \A k \in Container : container[k].state = "IN_TRANSIT" => Undelivered(k) # {}

(* A route that has ended leaves nothing to do on it, and one that a       *)
(* collector has collected from cannot be cancelled: only an ACTIVE or a   *)
(* COMPLETED route has COLLECTED stops, and a route mixes no COLLECTED     *)
(* with SKIPPED stops.                                                     *)
EndedRouteIsSettled ==
  \A r \in Route :
    /\ route[r].status \in {"COMPLETED", "CANCELLED"} => StopsIn(r, "PENDING") = {}
    /\ route[r].status = "CANCELLED" => StopsIn(r, "COLLECTED") = {}
    /\ StopsIn(r, "SKIPPED") # {} => StopsIn(r, "COLLECTED") = {}

(* Every delivery took at least one transaction, all of its own collector, *)
(* and a station's volume is the sum of what its deliveries reported and   *)
(* never above its capacity.                                               *)
DeliveriesAccounted ==
  /\ \A d \in DeliveryUuid : delivery[d] # NoDelivery =>
       \E u \in Uuid : txn[u].delivery = d
  /\ \A u \in Uuid : txn[u].delivery # None =>
       /\ IsLive(u)
       /\ delivery[txn[u].delivery].collector = txn[u].collector
  /\ \A s \in Station :
       /\ volume[s] = SumFunctionOnSet([d \in DeliveryUuid |-> delivery[d].liters],
                                       {d \in DeliveryUuid : delivery[d].station = s})
       /\ volume[s] <= Capacity[s]

(* A receipt is never rewritten, by a replayed UUID or by a second         *)
(* delivery: once written, only its delivery is ever filled in, once.      *)
ReceiptStep ==
  \A u \in Uuid : IsLive(u) =>
    /\ txn'[u].order = txn[u].order
    /\ txn'[u].container = txn[u].container
    /\ txn'[u].collector = txn[u].collector
    /\ txn[u].delivery # None => txn'[u].delivery = txn[u].delivery

ReceiptsAreFinal == [][ReceiptStep]_txn

(* An order assigned to a collector is collected by that collector only,   *)
(* and leaves the collector's hands only by being collected or by the      *)
(* cancellation of the whole route.                                        *)
HandOverStep ==
  \A o \in Order : order[o].status = "ASSIGNED" /\ order'[o] # order[o] =>
    \/ /\ order'[o].status = "COLLECTED"
       /\ order'[o].collector = order[o].collector
       /\ \E u \in Uuid : ~IsLive(u) /\ txn'[u].order = o
                                     /\ txn'[u].collector = order[o].collector
    \/ /\ order'[o].status = "READY"
       /\ \A p \in Order : order[p].collector = order[o].collector =>
                             order'[p].status # "ASSIGNED"

AssignedStaysWithCollector == [][HandOverStep]_order

(* The order desk keeps the promises of OrderLedger: claims and releases   *)
(* are all-or-nothing, a collector claims only while holding nothing, and  *)
(* every collection leaves one receipt of an order its collector may take. *)
LedgerPhase == [o \in Order |-> order[o].status]
LedgerHolder ==
  [o \in Order |-> IF order[o].status = "ASSIGNED" THEN order[o].collector ELSE None]
LedgerReceipts == {<<txn[u].order, txn[u].collector>> : u \in {v \in Uuid : IsLive(v)}}

Ledger == INSTANCE OrderLedger WITH
  phase <- LedgerPhase, holder <- LedgerHolder, receipts <- LedgerReceipts

ImplementsLedger == Ledger!LSpec

(* What the proofs need besides: a request that is about to complete a     *)
(* route can rely on what it read, since no PENDING stop ever appears on a *)
(* route that exists; and a route with SKIPPED stops is not ACTIVE.        *)
CompletionsAreSafe ==
  \A w \in Worker : job[w].op = "completeRoute" =>
    /\ route[job[w].route].status # "NONE"
    /\ job[w].stopsRead => StopsIn(job[w].route, "PENDING") = {}

RoutesAreOwned ==
  \A r \in Route :
    /\ route[r].status # "NONE" => route[r].collector # None
    /\ StopsIn(r, "SKIPPED") # {} => route[r].status \in {"CANCELLED", "COMPLETED"}

(* The invariants of orders, routes, receipts and containers together with *)
(* the two above are preserved by every step.                              *)
OrderDeskInv ==
  /\ TypeOK
  /\ AssignedIffPendingStop
  /\ CollectedIffOneReceipt
  /\ OneOpenOrderPerMerchantContainer
  /\ EndedRouteIsSettled
  /\ InTransitCarriesOil
  /\ CompletionsAreSafe
  /\ RoutesAreOwned
=============================================================================
