----------------------- MODULE FieldOperationsProofs -----------------------
(***************************************************************************)
(* Theorems of FieldOperations, for every number of merchants, collectors, *)
(* containers, orders, UUIDs and requests in flight.                       *)
(***************************************************************************)
EXTENDS FieldOperations, SumLemmas

(* The tables start with the rows their types describe.                    *)
LEMMA InitTypeOK == Init => TypeOK
  BY SetsAssumption
     DEF Init, TypeOK, ContainerRow, OrderRow, RouteRow, StopStatus, TxnRow, DeliveryRow,
         NoOrder, NoRoute, NoTxn, NoDelivery, Job

(* The op of a request in flight tells what else it has kept.              *)
LEMMA JobOfOp ==
  ASSUME NEW j \in Job
  PROVE  /\ j.op = "createReady" => j \in CreateReadyJob
         /\ j.op = "cancel" => j \in CancelJob
         /\ j.op = "startRoute" => j \in StartRouteJob
         /\ j.op = "completeRoute" => j \in CompleteRouteJob
         /\ j.op = "cancelRoute" => j \in CancelRouteJob
         /\ j.op = "returnContainer" => j \in ReturnContainerJob
<1>1. j = Idle => j.op = "idle"
  BY DEF Idle
<1>2. j \in CreateReadyJob => j.op = "createReady"
  BY DEF CreateReadyJob
<1>3. j \in CancelJob => j.op = "cancel"
  BY DEF CancelJob
<1>4. j \in StartRouteJob => j.op = "startRoute"
  BY DEF StartRouteJob
<1>5. j \in CompleteRouteJob => j.op = "completeRoute"
  BY DEF CompleteRouteJob
<1>6. j \in CancelRouteJob => j.op = "cancelRoute"
  BY DEF CancelRouteJob
<1>7. j \in ReturnContainerJob => j.op = "returnContainer"
  BY DEF ReturnContainerJob
<1>8. QED
  BY <1>1, <1>2, <1>3, <1>4, <1>5, <1>6, <1>7 DEF Job

(* The same facts about the requests of a well-formed state.               *)
LEMMA JobTypeOK ==
  ASSUME TypeOK, NEW w \in Worker
  PROVE  /\ job[w].op = "createReady" => job[w] \in CreateReadyJob
         /\ job[w].op = "cancel" => job[w] \in CancelJob
         /\ job[w].op = "startRoute" => job[w] \in StartRouteJob
         /\ job[w].op = "completeRoute" => job[w] \in CompleteRouteJob
         /\ job[w].op = "cancelRoute" => job[w] \in CancelRouteJob
         /\ job[w].op = "returnContainer" => job[w] \in ReturnContainerJob
<1>1. job[w] \in Job
  BY DEF TypeOK
<1>2. QED
  BY <1>1, JobOfOp

(* A claim and a release turn rows of orders into rows of orders.          *)
LEMMA OrderRowUpdates ==
  ASSUME NEW row \in OrderRow, NEW c \in Collector
  PROVE  /\ [row EXCEPT !.status = "ASSIGNED", !.collector = c] \in OrderRow
         /\ [row EXCEPT !.status = "READY", !.collector = None] \in OrderRow
  BY DEF OrderRow

(* A request that begins with a well-formed job, one that ends, and one    *)
(* that is abandoned keep the tables' shape.                               *)
LEMMA BeginTypeOK ==
  ASSUME TypeOK, NEW w \in Worker, NEW request \in Job, Begin(w, request)
  PROVE  TypeOK'
  BY DEF Begin, TypeOK

(* A request that ends leaves the other requests in flight as they are.    *)
LEMMA FinishTypeOK ==
  ASSUME TypeOK, NEW w \in Worker, Finish(w)
  PROVE  job' \in [Worker -> Job]
  BY DEF Finish, TypeOK, Job

(* Every step of every handler keeps the shape of the tables and of the    *)
(* requests in flight.                                                     *)
LEMMA StepTypeOK == TypeOK /\ [Next]_vars => TypeOK'
<1> SUFFICES ASSUME TypeOK, [Next]_vars
             PROVE  TypeOK'
  OBVIOUS
<1>1. ASSUME NEW w \in Worker, Merchants(w)
      PROVE  TypeOK'
  <2>1. ASSUME NEW m \in Merchant, NEW k \in Container, CreateReadyRead(w, m, k)
        PROVE  TypeOK'
    BY <2>1, BeginTypeOK DEF CreateReadyRead, Job, CreateReadyJob
  <2>2. CASE CreateReadyCommit(w)
    <3>1. job[w] \in CreateReadyJob
      BY <2>2, JobTypeOK DEF CreateReadyCommit
    <3>2. order' \in [Order -> OrderRow]
      BY <2>2, <3>1 DEF CreateReadyCommit, CreateReadyJob, TypeOK, OrderRow
    <3>3. QED
      BY <2>2, <3>2, FinishTypeOK DEF CreateReadyCommit, TypeOK
  <2>3. ASSUME NEW o \in Order, CancelRead(w, o)
        PROVE  TypeOK'
    BY <2>3, BeginTypeOK DEF CancelRead, Job, CancelJob
  <2>4. CASE CancelCommit(w)
    <3>1. order' \in [Order -> OrderRow]
      BY <2>4 DEF CancelCommit, TypeOK, OrderRow
    <3>2. QED
      BY <2>4, <3>1, FinishTypeOK DEF CancelCommit, TypeOK
  <2>5. QED
    BY <1>1, <2>1, <2>2, <2>3, <2>4 DEF Merchants
<1>2. ASSUME NEW w \in Worker, Shifts(w)
      PROVE  TypeOK'
  <2>1. ASSUME NEW c \in Collector, NEW r \in Route, NEW S \in SUBSET Order,
               StartRouteRead(w, c, r, S)
        PROVE  TypeOK'
    BY <2>1, BeginTypeOK DEF StartRouteRead, Job, StartRouteJob
  <2>2. CASE StartRouteCommit(w)
    <3>1. job[w] \in StartRouteJob
      BY <2>2, JobTypeOK DEF StartRouteCommit
    <3>2. order' \in [Order -> OrderRow]
      <4> DEFINE S == job[w].orders
                 c == job[w].collector
      <4>1. order' = [o \in Order |->
               IF o \in S THEN [order[o] EXCEPT !.status = "ASSIGNED", !.collector = c]
                          ELSE order[o]]
        BY <2>2 DEF StartRouteCommit
      <4>2. c \in Collector
        BY <3>1 DEF StartRouteJob
      <4>3. \A o \in Order : order[o] \in OrderRow
        BY DEF TypeOK
      <4>4. QED
        BY <4>1, <4>2, <4>3, OrderRowUpdates
    <3>3. route' \in [Route -> RouteRow]
      BY <2>2, <3>1 DEF StartRouteCommit, StartRouteJob, TypeOK, RouteRow
    <3>4. stop' \in [Route -> [Order -> StopStatus]]
      BY <2>2, <3>1 DEF StartRouteCommit, StartRouteJob, TypeOK, StopStatus
    <3>5. QED
      BY <2>2, <3>2, <3>3, <3>4, FinishTypeOK DEF StartRouteCommit, TypeOK
  <2>3. ASSUME NEW r \in Route, CompleteRouteRead(w, r)
        PROVE  TypeOK'
    BY <2>3, BeginTypeOK DEF CompleteRouteRead, Job, CompleteRouteJob
  <2>4. CASE CompleteRouteReadStops(w)
    <3>1. job[w] \in CompleteRouteJob
      BY <2>4, JobTypeOK DEF CompleteRouteReadStops
    <3>2. [job[w] EXCEPT !.stopsRead = TRUE] \in Job
      BY <3>1 DEF CompleteRouteJob, Job
    <3>3. job' = [job EXCEPT ![w] = [job[w] EXCEPT !.stopsRead = TRUE]]
      BY <2>4 DEF CompleteRouteReadStops
    <3>4. job' \in [Worker -> Job]
      BY <3>2, <3>3 DEF TypeOK
    <3>5. QED
      BY <2>4, <3>4 DEF CompleteRouteReadStops, TypeOK
  <2>5. CASE CompleteRouteCommit(w)
    <3>1. route' \in [Route -> RouteRow]
      BY <2>5 DEF CompleteRouteCommit, TypeOK, RouteRow
    <3>2. QED
      BY <2>5, <3>1, FinishTypeOK DEF CompleteRouteCommit, TypeOK
  <2>6. ASSUME NEW r \in Route, CancelRouteRead(w, r)
        PROVE  TypeOK'
    BY <2>6, BeginTypeOK DEF CancelRouteRead, Job, CancelRouteJob
  <2>7. CASE CancelRouteCommit(w)
    <3>1. order' \in [Order -> OrderRow]
      BY <2>7 DEF CancelRouteCommit, TypeOK, OrderRow
    <3>2. route' \in [Route -> RouteRow]
      BY <2>7 DEF CancelRouteCommit, TypeOK, RouteRow
    <3>3. stop' \in [Route -> [Order -> StopStatus]]
      BY <2>7 DEF CancelRouteCommit, TypeOK, StopStatus
    <3>4. QED
      BY <2>7, <3>1, <3>2, <3>3, FinishTypeOK DEF CancelRouteCommit, TypeOK
  <2>8. QED
    BY <1>2, <2>1, <2>2, <2>3, <2>4, <2>5, <2>6, <2>7 DEF Shifts
<1>3. ASSUME NEW w \in Worker, Returns(w)
      PROVE  TypeOK'
  <2>1. ASSUME NEW k \in Container, NEW m \in Merchant, ReturnContainerRead(w, k, m)
        PROVE  TypeOK'
    BY <2>1, BeginTypeOK DEF ReturnContainerRead, Job, ReturnContainerJob
  <2>2. CASE ReturnContainerCommit(w)
    <3>1. job[w] \in ReturnContainerJob
      BY <2>2, JobTypeOK DEF ReturnContainerCommit
    <3>2. container' \in [Container -> ContainerRow]
      BY <2>2, <3>1 DEF ReturnContainerCommit, ReturnContainerJob, TypeOK, ContainerRow
    <3>3. QED
      BY <2>2, <3>2, FinishTypeOK DEF ReturnContainerCommit, TypeOK
  <2>3. QED
    BY <1>3, <2>1, <2>2 DEF Returns
<1>4. ASSUME NEW w \in Worker, Abandon(w)
      PROVE  TypeOK'
  BY <1>4, FinishTypeOK DEF Abandon, TypeOK
<1>5. ASSUME NEW c \in Collector, NEW u \in Uuid, NEW o \in Order, ProcessOne(c, u, o)
      PROVE  TypeOK'
  <2>1. txn' \in [Uuid -> TxnRow]
    BY <1>5 DEF ProcessOne, Receipt, TypeOK, TxnRow, OrderRow
  <2>2. order' \in [Order -> OrderRow]
    BY <1>5 DEF ProcessOne, TypeOK, OrderRow
  <2>3. container' \in [Container -> ContainerRow]
    BY <1>5 DEF ProcessOne, TypeOK, ContainerRow
  <2>4. stop' \in [Route -> [Order -> StopStatus]]
    BY <1>5 DEF ProcessOne, StopsAfterCollecting, TypeOK, StopStatus
  <2>5. QED
    BY <1>5, <2>1, <2>2, <2>3, <2>4 DEF ProcessOne, TypeOK
<1>6. ASSUME NEW c \in Collector, NEW d \in DeliveryUuid, NEW s \in Station,
             NEW T \in SUBSET Uuid, NEW l \in Liters, CreateDelivery(c, d, s, T, l)
      PROVE  TypeOK'
  <2>1. delivery' \in [DeliveryUuid -> DeliveryRow]
    BY <1>6 DEF CreateDelivery, TypeOK, DeliveryRow
  <2>2. txn' \in [Uuid -> TxnRow]
    BY <1>6 DEF CreateDelivery, TypeOK, TxnRow
  <2>3. container' \in [Container -> ContainerRow]
    BY <1>6 DEF CreateDelivery, TypeOK, ContainerRow
  <2>4. volume' \in [Station -> Nat]
    BY <1>6, QuantityAssumption DEF CreateDelivery, TypeOK
  <2>5. QED
    BY <1>6, <2>1, <2>2, <2>3, <2>4 DEF CreateDelivery, TypeOK
<1>7. CASE Administration
  <2>1. ASSUME NEW m \in Merchant, ApproveMerchant(m) \/ RejectMerchant(m)
        PROVE  TypeOK'
    BY <2>1 DEF ApproveMerchant, RejectMerchant, TypeOK
  <2>2. ASSUME NEW k \in Container, NEW m \in Merchant, AssignContainer(k, m)
        PROVE  TypeOK'
    BY <2>2 DEF AssignContainer, TypeOK, ContainerRow
  <2>3. ASSUME NEW k \in Container, UnassignContainer(k) \/ CancelContainerTransit(k)
        PROVE  TypeOK'
    BY <2>3 DEF UnassignContainer, CancelContainerTransit, TypeOK, ContainerRow
  <2>4. QED
    BY <1>7, <2>1, <2>2, <2>3 DEF Administration
<1>8. CASE UNCHANGED vars
  BY <1>8 DEF vars, TypeOK
<1>9. QED
  BY <1>1, <1>2, <1>3, <1>4, <1>5, <1>6, <1>7, <1>8 DEF Next, Field

(* Every reachable state has well-formed rows and well-formed requests in  *)
(* flight.                                                                 *)
THEOREM TypeCorrect == Spec => []TypeOK
  BY InitTypeOK, StepTypeOK, PTL DEF Spec
-----------------------------------------------------------------------------
(* The order desk                                                          *)

(* The steps that change orders, routes, stops or receipts; all others     *)
(* leave these four tables alone.                                          *)
LEMMA DeskSteps ==
  ASSUME [Next]_vars
  PROVE  \/ \E w \in Worker : \/ CreateReadyCommit(w)
                              \/ CancelCommit(w)
                              \/ StartRouteCommit(w)
                              \/ CompleteRouteCommit(w)
                              \/ CancelRouteCommit(w)
         \/ \E c \in Collector, u \in Uuid, o \in Order : ProcessOne(c, u, o)
         \/ \E c \in Collector, d \in DeliveryUuid, s \in Station, T \in SUBSET Uuid,
               l \in Liters : CreateDelivery(c, d, s, T, l)
         \/ UNCHANGED <<order, route, stop, txn>>
<1>1. ASSUME NEW w \in Worker, Merchants(w)
      PROVE  CreateReadyCommit(w) \/ CancelCommit(w) \/ UNCHANGED <<order, route, stop, txn>>
  BY <1>1 DEF Merchants, CreateReadyRead, CancelRead, Begin
<1>2. ASSUME NEW w \in Worker, Shifts(w)
      PROVE  \/ StartRouteCommit(w) \/ CompleteRouteCommit(w) \/ CancelRouteCommit(w)
             \/ UNCHANGED <<order, route, stop, txn>>
  BY <1>2 DEF Shifts, StartRouteRead, CompleteRouteRead, CompleteRouteReadStops,
              CancelRouteRead, Begin
<1>3. ASSUME NEW w \in Worker, Returns(w) \/ Abandon(w)
      PROVE  UNCHANGED <<order, route, stop, txn>>
  BY <1>3 DEF Returns, ReturnContainerRead, ReturnContainerCommit, Begin, Abandon
<1>4. ASSUME Administration
      PROVE  UNCHANGED <<order, route, stop, txn>>
  BY <1>4 DEF Administration, ApproveMerchant, RejectMerchant, AssignContainer,
              UnassignContainer, CancelContainerTransit
<1>5. ASSUME UNCHANGED vars
      PROVE  UNCHANGED <<order, route, stop, txn>>
  BY <1>5 DEF vars
<1>6. QED
  BY <1>1, <1>2, <1>3, <1>4, <1>5 DEF Next, Field

(* What the commits that change orders do to each order, in a form that    *)
(* later steps can cite.                                                   *)
LEMMA CreateReadyEffect ==
  ASSUME TypeOK, NEW w \in Worker, CreateReadyCommit(w)
  PROVE  /\ NoOpenOrder(job[w].merchant, job[w].container)
         /\ \E o \in Order :
              /\ order[o].status = "NONE"
              /\ order'[o].status = "READY"
              /\ order'[o].merchant = job[w].merchant
              /\ order'[o].container = job[w].container
              /\ \A p \in Order \ {o} : order'[p] = order[p]
         /\ UNCHANGED <<route, stop, txn>>
  BY DEF CreateReadyCommit, TypeOK

(* A cancellation takes a READY order, and nothing else changes on the     *)
(* desk.                                                                   *)
LEMMA CancelEffect ==
  ASSUME TypeOK, NEW w \in Worker, CancelCommit(w)
  PROVE  /\ \E o \in Order :
              /\ order[o].status = "READY"
              /\ order'[o].status = "CANCELLED"
              /\ order'[o].merchant = order[o].merchant
              /\ order'[o].container = order[o].container
              /\ \A p \in Order \ {o} : order'[p] = order[p]
         /\ UNCHANGED <<route, stop, txn>>
<1>1. job[w] \in CancelJob
  BY JobTypeOK DEF CancelCommit
<1>2. job[w].order \in Order /\ order[job[w].order] \in OrderRow
  BY <1>1 DEF CancelJob, TypeOK
<1>3. QED
  BY <1>2 DEF CancelCommit, IsCancellable, TypeOK, OrderRow

(* A claim assigns READY orders to a collector who had no active route,    *)
(* whose new route then has them as its only PENDING stops.                *)
LEMMA StartRouteEffect ==
  ASSUME TypeOK, NEW w \in Worker, StartRouteCommit(w)
  PROVE  \E c \in Collector, r \in Route, S \in SUBSET Order :
           /\ AreClaimable(S)
           /\ route[r].status = "NONE"
           /\ ActiveRoutes(c) = {}
           /\ \A o \in S : /\ order'[o].status = "ASSIGNED"
                           /\ order'[o].collector = c
                           /\ order'[o].merchant = order[o].merchant
                           /\ order'[o].container = order[o].container
           /\ \A o \in Order \ S : order'[o] = order[o]
           /\ route'[r].status = "ACTIVE" /\ route'[r].collector = c
           /\ \A q \in Route \ {r} : route'[q] = route[q] /\ stop'[q] = stop[q]
           /\ \A o \in Order : stop'[r][o] = IF o \in S THEN "PENDING" ELSE "NONE"
           /\ UNCHANGED txn
<1> DEFINE c == job[w].collector
           r == job[w].route
           S == job[w].orders
<1>1. job[w] \in StartRouteJob
  BY JobTypeOK DEF StartRouteCommit
<1>2. c \in Collector /\ r \in Route /\ S \in SUBSET Order
  BY <1>1 DEF StartRouteJob
<1>3. /\ AreClaimable(S)
      /\ route[r].status = "NONE"
      /\ ActiveRoutes(c) = {}
      /\ UNCHANGED txn
  BY DEF StartRouteCommit
<1>4. /\ order' = [o \in Order |->
            IF o \in S THEN [order[o] EXCEPT !.status = "ASSIGNED", !.collector = c]
                       ELSE order[o]]
      /\ route' = [route EXCEPT ![r] = [status |-> "ACTIVE", collector |-> c]]
      /\ stop' = [stop EXCEPT ![r] = [o \in Order |-> IF o \in S THEN "PENDING" ELSE "NONE"]]
  BY DEF StartRouteCommit
<1> HIDE DEF c, r, S
<1>5. ASSUME NEW o \in S
      PROVE  /\ order'[o].status = "ASSIGNED"
             /\ order'[o].collector = c
             /\ order'[o].merchant = order[o].merchant
             /\ order'[o].container = order[o].container
  <2>1. order[o] \in OrderRow
    BY <1>2 DEF TypeOK
  <2>2. order'[o] = [order[o] EXCEPT !.status = "ASSIGNED", !.collector = c]
    BY <1>2, <1>4
  <2>3. QED
    BY <2>1, <2>2 DEF OrderRow
<1>6. \A o \in Order \ S : order'[o] = order[o]
  BY <1>4
<1>7. /\ route'[r].status = "ACTIVE" /\ route'[r].collector = c
      /\ \A q \in Route \ {r} : route'[q] = route[q] /\ stop'[q] = stop[q]
      /\ \A o \in Order : stop'[r][o] = IF o \in S THEN "PENDING" ELSE "NONE"
  BY <1>2, <1>4 DEF TypeOK
<1>8. QED
  BY <1>2, <1>3, <1>5, <1>6, <1>7

(* A completion only ends its route, which has no PENDING stop.            *)
LEMMA CompleteRouteEffect ==
  ASSUME TypeOK, CompletionsAreSafe, NEW w \in Worker, CompleteRouteCommit(w)
  PROVE  \E r \in Route :
           /\ route[r].status # "NONE"
           /\ StopsIn(r, "PENDING") = {}
           /\ route'[r].status = "COMPLETED"
           /\ route'[r].collector = route[r].collector
           /\ \A q \in Route \ {r} : route'[q] = route[q]
           /\ UNCHANGED <<order, stop, txn>>
<1>1. job[w] \in CompleteRouteJob
  BY JobTypeOK DEF CompleteRouteCommit
<1>2. job[w].route \in Route /\ route[job[w].route] \in RouteRow
  BY <1>1 DEF CompleteRouteJob, TypeOK
<1>3. route[job[w].route].status # "NONE" /\ StopsIn(job[w].route, "PENDING") = {}
  BY DEF CompletionsAreSafe, CompleteRouteCommit
<1>4. QED
  BY <1>2, <1>3 DEF CompleteRouteCommit, TypeOK, RouteRow

(* A cancellation ends an ACTIVE route without COLLECTED stops, skips its  *)
(* PENDING ones and gives its orders back.                                 *)
LEMMA CancelRouteEffect ==
  ASSUME TypeOK, NEW w \in Worker, CancelRouteCommit(w)
  PROVE  \E r \in Route :
           /\ IsRouteCancellable(r)
           /\ \A o \in ReleasedOrders(r) : /\ order'[o].status = "READY"
                                           /\ order'[o].collector = None
                                           /\ order'[o].merchant = order[o].merchant
                                           /\ order'[o].container = order[o].container
           /\ \A o \in Order \ ReleasedOrders(r) : order'[o] = order[o]
           /\ route'[r].status = "CANCELLED"
           /\ route'[r].collector = route[r].collector
           /\ \A q \in Route \ {r} : route'[q] = route[q] /\ stop'[q] = stop[q]
           /\ \A o \in Order :
                stop'[r][o] = IF stop[r][o] = "PENDING" THEN "SKIPPED" ELSE stop[r][o]
           /\ UNCHANGED txn
<1> DEFINE r == job[w].route
<1>1. job[w] \in CancelRouteJob
  BY JobTypeOK DEF CancelRouteCommit
<1>2. r \in Route /\ route[r] \in RouteRow
  BY <1>1 DEF CancelRouteJob, TypeOK
<1>3. /\ IsRouteCancellable(r)
      /\ order' = [o \in Order |->
           IF o \in ReleasedOrders(r)
           THEN [order[o] EXCEPT !.status = "READY", !.collector = None]
           ELSE order[o]]
      /\ stop' = [stop EXCEPT ![r] =
           [o \in Order |-> IF stop[r][o] = "PENDING" THEN "SKIPPED" ELSE stop[r][o]]]
      /\ route' = [route EXCEPT ![r].status = "CANCELLED"]
      /\ UNCHANGED txn
  BY DEF CancelRouteCommit
<1> HIDE DEF r
<1>4. ReleasedOrders(r) \subseteq Order
  BY DEF ReleasedOrders
<1>5. ASSUME NEW o \in ReleasedOrders(r)
      PROVE  /\ order'[o].status = "READY"
             /\ order'[o].collector = None
             /\ order'[o].merchant = order[o].merchant
             /\ order'[o].container = order[o].container
  <2>1. order[o] \in OrderRow
    BY <1>4 DEF TypeOK
  <2>2. order'[o] = [order[o] EXCEPT !.status = "READY", !.collector = None]
    BY <1>3, <1>4
  <2>3. QED
    BY <2>1, <2>2 DEF OrderRow
<1>6. \A o \in Order \ ReleasedOrders(r) : order'[o] = order[o]
  BY <1>3
<1>7. /\ route'[r].status = "CANCELLED"
      /\ route'[r].collector = route[r].collector
      /\ \A q \in Route \ {r} : route'[q] = route[q] /\ stop'[q] = stop[q]
      /\ \A o \in Order :
           stop'[r][o] = IF stop[r][o] = "PENDING" THEN "SKIPPED" ELSE stop[r][o]
  BY <1>2, <1>3 DEF TypeOK, RouteRow
<1>8. QED
  BY <1>2, <1>3, <1>5, <1>6, <1>7

(* A collection takes an order its collector may collect, writes its one   *)
(* receipt and ticks its PENDING stop.                                     *)
LEMMA ProcessOneEffect ==
  ASSUME TypeOK, NEW c \in Collector, NEW u \in Uuid, NEW o \in Order, ProcessOne(c, u, o)
  PROVE  /\ IsCollectable(c, o)
         /\ ~IsLive(u)
         /\ \A v \in Uuid : txn[v].order # o
         /\ order'[o].status = "COLLECTED"
         /\ order'[o].merchant = order[o].merchant
         /\ order'[o].container = order[o].container
         /\ order'[o].collector = order[o].collector
         /\ \A p \in Order \ {o} : order'[p] = order[p]
         /\ txn'[u].order = o
         /\ txn'[u].container = order[o].container
         /\ txn'[u].collector = c
         /\ txn'[u].delivery = None
         /\ \A v \in Uuid \ {u} : txn'[v] = txn[v]
         /\ \A r \in Route, p \in Order :
              stop'[r][p] = IF r \in ActiveRoutes(c) /\ p = o /\ stop[r][o] = "PENDING"
                            THEN "COLLECTED" ELSE stop[r][p]
         /\ UNCHANGED route
<1>1. order[o] \in OrderRow
  BY DEF TypeOK
<1>2. /\ order'[o].status = "COLLECTED"
      /\ order'[o].merchant = order[o].merchant
      /\ order'[o].container = order[o].container
      /\ order'[o].collector = order[o].collector
      /\ \A p \in Order \ {o} : order'[p] = order[p]
  BY <1>1 DEF ProcessOne, TypeOK, OrderRow
<1>3. /\ txn'[u] = Receipt(c, o)
      /\ \A v \in Uuid \ {u} : txn'[v] = txn[v]
  BY DEF ProcessOne, TypeOK
<1>4. \A r \in Route, p \in Order :
        stop'[r][p] = IF r \in ActiveRoutes(c) /\ p = o /\ stop[r][o] = "PENDING"
                      THEN "COLLECTED" ELSE stop[r][p]
  BY DEF ProcessOne, StopsAfterCollecting, TypeOK
<1>5. QED
  BY <1>2, <1>3, <1>4 DEF ProcessOne, Receipt

(* A delivery fills in the delivery of receipts that had none and marks    *)
(* their containers AT_STATION.                                            *)
LEMMA CreateDeliveryEffect ==
  ASSUME TypeOK, NEW c \in Collector, NEW d \in DeliveryUuid, NEW s \in Station,
         NEW T \in SUBSET Uuid, NEW l \in Liters, CreateDelivery(c, d, s, T, l)
  PROVE  /\ T # {}
         /\ AreDeliverable(c, T)
         /\ \A u \in Uuid : /\ txn'[u].order = txn[u].order
                            /\ txn'[u].container = txn[u].container
                            /\ txn'[u].collector = txn[u].collector
                            /\ txn'[u].delivery = IF u \in T THEN d ELSE txn[u].delivery
         /\ UNCHANGED <<order, route, stop>>
<1>1. ASSUME NEW u \in Uuid
      PROVE  /\ txn'[u].order = txn[u].order
             /\ txn'[u].container = txn[u].container
             /\ txn'[u].collector = txn[u].collector
             /\ txn'[u].delivery = IF u \in T THEN d ELSE txn[u].delivery
  <2>1. txn[u] \in TxnRow
    BY DEF TypeOK
  <2>2. txn'[u] = IF u \in T THEN [txn[u] EXCEPT !.delivery = d] ELSE txn[u]
    BY DEF CreateDelivery
  <2>3. QED
    BY <2>1, <2>2 DEF TxnRow
<1>2. QED
  BY <1>1 DEF CreateDelivery

(* The tables of the desk start empty.                                     *)
LEMMA InitDesk == Init => OrderDeskInv
<1> SUFFICES ASSUME Init
             PROVE  OrderDeskInv
  OBVIOUS
<1>1. /\ \A o \in Order : order[o].status = "NONE"
      /\ \A r \in Route : route[r].status = "NONE"
      /\ \A r \in Route, o \in Order : stop[r][o] = "NONE"
      /\ \A u \in Uuid : txn[u].order = None
      /\ \A k \in Container : container[k].state = "AT_MERCHANT"
      /\ \A w \in Worker : job[w].op = "idle"
  BY DEF Init, NoOrder, NoRoute, NoTxn, Idle
<1>2. AssignedIffPendingStop
  BY <1>1 DEF AssignedIffPendingStop
<1>3. CollectedIffOneReceipt
  BY <1>1, SetsAssumption DEF CollectedIffOneReceipt, IsLive
<1>4. OneOpenOrderPerMerchantContainer /\ InTransitCarriesOil
  BY <1>1 DEF OneOpenOrderPerMerchantContainer, InTransitCarriesOil, IsOpen
<1>5. EndedRouteIsSettled /\ CompletionsAreSafe /\ RoutesAreOwned
  BY <1>1 DEF EndedRouteIsSettled, CompletionsAreSafe, RoutesAreOwned, StopsIn
<1>6. QED
  BY <1>2, <1>3, <1>4, <1>5, InitTypeOK DEF OrderDeskInv

(* Claims, releases and collections keep assigned orders and PENDING stops *)
(* in step, and a collector's ACTIVE route unique.                         *)
LEMMA StepAssigned ==
  ASSUME OrderDeskInv, [Next]_vars
  PROVE  AssignedIffPendingStop'
<1> USE DEF OrderDeskInv
<1>1. ASSUME NEW w \in Worker, CreateReadyCommit(w)
      PROVE  AssignedIffPendingStop'
  BY <1>1, CreateReadyEffect DEF AssignedIffPendingStop, ActiveRoutes
<1>2. ASSUME NEW w \in Worker, CancelCommit(w)
      PROVE  AssignedIffPendingStop'
  BY <1>2, CancelEffect DEF AssignedIffPendingStop, ActiveRoutes
<1>3. ASSUME NEW w \in Worker, StartRouteCommit(w)
      PROVE  AssignedIffPendingStop'
  BY <1>3, StartRouteEffect DEF AssignedIffPendingStop, ActiveRoutes, AreClaimable
<1>4. ASSUME NEW w \in Worker, CompleteRouteCommit(w)
      PROVE  AssignedIffPendingStop'
  BY <1>4, CompleteRouteEffect DEF AssignedIffPendingStop, ActiveRoutes, StopsIn
<1>5. ASSUME NEW w \in Worker, CancelRouteCommit(w)
      PROVE  AssignedIffPendingStop'
  BY <1>5, CancelRouteEffect
     DEF AssignedIffPendingStop, ActiveRoutes, IsRouteCancellable, ReleasedOrders
<1>6. ASSUME NEW c \in Collector, NEW u \in Uuid, NEW o \in Order, ProcessOne(c, u, o)
      PROVE  AssignedIffPendingStop'
  BY <1>6, ProcessOneEffect DEF AssignedIffPendingStop, ActiveRoutes, IsCollectable
<1>7. ASSUME UNCHANGED <<order, route, stop>>
      PROVE  AssignedIffPendingStop'
  BY <1>7 DEF AssignedIffPendingStop, ActiveRoutes
<1>8. QED
  BY <1>1, <1>2, <1>3, <1>4, <1>5, <1>6, <1>7, DeskSteps, CreateDeliveryEffect

(* A collection writes the one receipt of its order; no other step writes  *)
(* or removes one, or changes an order that is collected.                  *)
LEMMA StepCollected ==
  ASSUME OrderDeskInv, [Next]_vars
  PROVE  CollectedIffOneReceipt'
<1> USE DEF OrderDeskInv
<1> DEFINE CollectedKept ==
             /\ UNCHANGED txn
             /\ \A o \in Order : order[o].status = "COLLECTED" => order'[o] = order[o]
             /\ \A o \in Order : order'[o].status = "COLLECTED" => order'[o] = order[o]
<1>1. \A u \in Uuid : IsLive(u) => txn[u].order \in Order
  BY DEF IsLive, TypeOK, TxnRow
<1>2. ASSUME CollectedKept
      PROVE  CollectedIffOneReceipt'
  BY <1>1, <1>2 DEF CollectedIffOneReceipt, IsLive
<1>3. ASSUME NEW w \in Worker, CreateReadyCommit(w)
      PROVE  CollectedKept
  BY <1>3, CreateReadyEffect
<1>4. ASSUME NEW w \in Worker, CancelCommit(w)
      PROVE  CollectedKept
  BY <1>4, CancelEffect
<1>5. ASSUME NEW w \in Worker, StartRouteCommit(w)
      PROVE  CollectedKept
  BY <1>5, StartRouteEffect DEF AreClaimable
<1>6. ASSUME NEW w \in Worker, CancelRouteCommit(w)
      PROVE  CollectedKept
  BY <1>6, CancelRouteEffect DEF ReleasedOrders
<1>7. ASSUME NEW c \in Collector, NEW u \in Uuid, NEW o \in Order, ProcessOne(c, u, o)
      PROVE  CollectedIffOneReceipt'
  <2>1. order[o].status # "COLLECTED"
    BY <1>7, ProcessOneEffect DEF IsCollectable
  <2>2. ASSUME NEW p \in Order
        PROVE  order'[p].status = "COLLECTED" <=> \E v \in Uuid : txn'[v].order = p
    <3>1. CASE p = o
      BY <1>7, <3>1, ProcessOneEffect
    <3>2. CASE p # o
      <4>1. order'[p] = order[p] /\ txn'[u].order # p
        BY <1>7, <3>2, ProcessOneEffect
      <4>2. txn[u].order # p
        BY <1>7, SetsAssumption, ProcessOneEffect DEF IsLive
      <4>3. \A v \in Uuid : txn'[v].order = p <=> txn[v].order = p
        BY <1>7, <4>1, <4>2, ProcessOneEffect
      <4>4. QED
        BY <4>1, <4>3 DEF CollectedIffOneReceipt
    <3>3. QED
      BY <3>1, <3>2
  <2>3. (\A v1, v2 \in Uuid :
           IsLive(v1) /\ txn[v1].order = txn[v2].order => v1 = v2)'
    BY <1>7, ProcessOneEffect, SetsAssumption DEF CollectedIffOneReceipt, IsLive
  <2>4. (\A v \in Uuid : IsLive(v) => txn[v].container = order[txn[v].order].container)'
    BY <1>1, <1>7, ProcessOneEffect DEF CollectedIffOneReceipt, IsLive
  <2>5. QED
    BY <2>2, <2>3, <2>4 DEF CollectedIffOneReceipt
<1>8. ASSUME NEW c \in Collector, NEW d \in DeliveryUuid, NEW s \in Station,
             NEW T \in SUBSET Uuid, NEW l \in Liters, CreateDelivery(c, d, s, T, l)
      PROVE  CollectedIffOneReceipt'
  <2>1. /\ UNCHANGED order
        /\ \A u \in Uuid : /\ txn'[u].order = txn[u].order
                           /\ txn'[u].container = txn[u].container
    BY <1>8, CreateDeliveryEffect
  <2>2. (\A o \in Order : order[o].status = "COLLECTED" <=> \E u \in Uuid : txn[u].order = o)'
    BY <2>1 DEF CollectedIffOneReceipt
  <2>3. QED
    BY <2>1, <2>2 DEF CollectedIffOneReceipt, IsLive
<1>9. ASSUME UNCHANGED <<order, txn>>
      PROVE  CollectedIffOneReceipt'
  BY <1>9 DEF CollectedIffOneReceipt, IsLive
<1>10. ASSUME NEW w \in Worker, CompleteRouteCommit(w)
       PROVE  UNCHANGED <<order, txn>>
  BY <1>10, CompleteRouteEffect
<1> HIDE DEF CollectedKept, OrderDeskInv
<1>11. QED
  BY <1>2, <1>3, <1>4, <1>5, <1>6, <1>7, <1>8, <1>9, <1>10, DeskSteps

(* Only a creation opens an order, and it looks for one first; claims and  *)
(* releases keep an open order open.                                       *)
LEMMA StepOneOpen ==
  ASSUME OrderDeskInv, [Next]_vars
  PROVE  OneOpenOrderPerMerchantContainer'
<1> USE DEF OrderDeskInv
<1>1. ASSUME NEW w \in Worker, CreateReadyCommit(w)
      PROVE  OneOpenOrderPerMerchantContainer'
  BY <1>1, CreateReadyEffect DEF OneOpenOrderPerMerchantContainer, IsOpen, NoOpenOrder
<1>2. ASSUME NEW w \in Worker, CancelCommit(w)
      PROVE  OneOpenOrderPerMerchantContainer'
  BY <1>2, CancelEffect DEF OneOpenOrderPerMerchantContainer, IsOpen
<1>3. ASSUME NEW w \in Worker, StartRouteCommit(w)
      PROVE  OneOpenOrderPerMerchantContainer'
  BY <1>3, StartRouteEffect DEF OneOpenOrderPerMerchantContainer, IsOpen, AreClaimable
<1>4. ASSUME NEW w \in Worker, CancelRouteCommit(w)
      PROVE  OneOpenOrderPerMerchantContainer'
  BY <1>4, CancelRouteEffect DEF OneOpenOrderPerMerchantContainer, IsOpen, ReleasedOrders
<1>5. ASSUME NEW c \in Collector, NEW u \in Uuid, NEW o \in Order, ProcessOne(c, u, o)
      PROVE  OneOpenOrderPerMerchantContainer'
  BY <1>5, ProcessOneEffect DEF OneOpenOrderPerMerchantContainer, IsOpen
<1>6. ASSUME UNCHANGED order
      PROVE  OneOpenOrderPerMerchantContainer'
  BY <1>6 DEF OneOpenOrderPerMerchantContainer, IsOpen
<1>7. QED
  BY <1>1, <1>2, <1>3, <1>4, <1>5, <1>6, DeskSteps, CompleteRouteEffect, CreateDeliveryEffect

(* Routes end without PENDING stops, and cancelled ones without COLLECTED  *)
(* stops; every route keeps its collector.                                 *)
LEMMA StepSettled ==
  ASSUME OrderDeskInv, [Next]_vars
  PROVE  EndedRouteIsSettled' /\ RoutesAreOwned'
<1> USE DEF OrderDeskInv
<1>1. ASSUME NEW w \in Worker, StartRouteCommit(w)
      PROVE  EndedRouteIsSettled' /\ RoutesAreOwned'
  BY <1>1, StartRouteEffect, SetsAssumption DEF EndedRouteIsSettled, RoutesAreOwned, StopsIn
<1>2. ASSUME NEW w \in Worker, CompleteRouteCommit(w)
      PROVE  EndedRouteIsSettled' /\ RoutesAreOwned'
  BY <1>2, CompleteRouteEffect DEF EndedRouteIsSettled, RoutesAreOwned, StopsIn
<1>3. ASSUME NEW w \in Worker, CancelRouteCommit(w)
      PROVE  EndedRouteIsSettled' /\ RoutesAreOwned'
  BY <1>3, CancelRouteEffect
     DEF EndedRouteIsSettled, RoutesAreOwned, StopsIn, IsRouteCancellable
<1>4. ASSUME NEW c \in Collector, NEW u \in Uuid, NEW o \in Order, ProcessOne(c, u, o)
      PROVE  EndedRouteIsSettled' /\ RoutesAreOwned'
  BY <1>4, ProcessOneEffect DEF EndedRouteIsSettled, RoutesAreOwned, StopsIn, ActiveRoutes
<1>5. ASSUME UNCHANGED <<route, stop>>
      PROVE  EndedRouteIsSettled' /\ RoutesAreOwned'
  BY <1>5 DEF EndedRouteIsSettled, RoutesAreOwned, StopsIn
<1>6. QED
  BY <1>1, <1>2, <1>3, <1>4, <1>5, DeskSteps, CreateReadyEffect, CancelEffect,
     CreateDeliveryEffect

(* No PENDING stop appears on a route that exists, and none stops existing.*)
LEMMA NoNewPendingStops ==
  ASSUME OrderDeskInv, [Next]_vars, NEW r \in Route, route[r].status # "NONE"
  PROVE  /\ route'[r].status # "NONE"
         /\ StopsIn(r, "PENDING") = {} => StopsIn(r, "PENDING")' = {}
<1> USE DEF OrderDeskInv
<1>1. ASSUME NEW w \in Worker, StartRouteCommit(w)
      PROVE  route'[r] = route[r] /\ stop'[r] = stop[r]
  BY <1>1, StartRouteEffect
<1>2. ASSUME NEW w \in Worker, CompleteRouteCommit(w)
      PROVE  route'[r].status # "NONE" /\ stop'[r] = stop[r]
  BY <1>2, CompleteRouteEffect
<1>3. ASSUME NEW w \in Worker, CancelRouteCommit(w)
      PROVE  /\ route'[r].status # "NONE"
             /\ \A o \in Order : stop'[r][o] = "PENDING" => stop[r][o] = "PENDING"
  BY <1>3, CancelRouteEffect
<1>4. ASSUME NEW c \in Collector, NEW u \in Uuid, NEW o \in Order, ProcessOne(c, u, o)
      PROVE  /\ route'[r] = route[r]
             /\ \A p \in Order : stop'[r][p] = "PENDING" => stop[r][p] = "PENDING"
  BY <1>4, ProcessOneEffect
<1>5. /\ route'[r].status # "NONE"
      /\ \A o \in Order : stop'[r][o] = "PENDING" => stop[r][o] = "PENDING"
  BY <1>1, <1>2, <1>3, <1>4, DeskSteps, CreateReadyEffect, CancelEffect, CreateDeliveryEffect
<1>6. QED
  BY <1>5 DEF StopsIn

(* A request that has read that a route has no PENDING stop may rely on it.*)
LEMMA StepCompletions ==
  ASSUME OrderDeskInv, [Next]_vars
  PROVE  CompletionsAreSafe'
<1> SUFFICES ASSUME NEW w \in Worker, job'[w].op = "completeRoute"
             PROVE  /\ route'[job'[w].route].status # "NONE"
                    /\ (job[w].stopsRead => StopsIn(job[w].route, "PENDING") = {})'
  BY DEF CompletionsAreSafe
<1>0. job \in [Worker -> Job]
  BY DEF OrderDeskInv, TypeOK
<1>1. CASE job'[w] = job[w]
  <2>1. job[w] \in CompleteRouteJob
    BY <1>1, JobTypeOK DEF OrderDeskInv
  <2>2. job[w].route \in Route
    BY <2>1 DEF CompleteRouteJob
  <2>3. /\ route[job[w].route].status # "NONE"
        /\ job[w].stopsRead => StopsIn(job[w].route, "PENDING") = {}
    BY <1>1 DEF OrderDeskInv, CompletionsAreSafe
  <2>4. QED
    BY <1>1, <2>2, <2>3, NoNewPendingStops
<1>2. ASSUME NEW r \in Route, CompleteRouteRead(w, r)
      PROVE  /\ route'[job'[w].route].status # "NONE"
             /\ ~job'[w].stopsRead
  <2>1. /\ job'[w] = [op |-> "completeRoute", route |-> r, stopsRead |-> FALSE]
        /\ route' = route
        /\ route[r].status = "ACTIVE"
    BY <1>0, <1>2 DEF CompleteRouteRead, Begin
  <2>2. QED
    BY <2>1
<1>3. ASSUME CompleteRouteReadStops(w)
      PROVE  /\ route'[job'[w].route].status # "NONE"
             /\ (StopsIn(job[w].route, "PENDING") = {})'
  <2>1. job[w] \in CompleteRouteJob
    BY <1>3, JobTypeOK DEF CompleteRouteReadStops, OrderDeskInv
  <2>2. job'[w].route = job[w].route
    <3>1. job'[w] = [job[w] EXCEPT !.stopsRead = TRUE]
      BY <1>0, <1>3 DEF CompleteRouteReadStops
    <3>2. QED
      BY <2>1, <3>1 DEF CompleteRouteJob
  <2>3. /\ StopsIn(job[w].route, "PENDING") = {}
        /\ UNCHANGED <<route, stop>>
    BY <1>3 DEF CompleteRouteReadStops
  <2>4. route[job[w].route].status # "NONE"
    BY <1>3 DEF CompleteRouteReadStops, OrderDeskInv, CompletionsAreSafe
  <2>5. QED
    BY <2>2, <2>3, <2>4 DEF StopsIn
<1>4. \/ job'[w] = job[w]
      \/ \E r \in Route : CompleteRouteRead(w, r)
      \/ CompleteRouteReadStops(w)
  <2>1. ASSUME NEW v \in Worker, NEW request, Begin(v, request), job'[w] # job[w]
        PROVE  v = w /\ job'[w] = request
    BY <1>0, <2>1 DEF Begin
  <2>2. ASSUME NEW v \in Worker, Finish(v)
        PROVE  job'[w] = job[w]
    <3>1. v = w => job'[w] = Idle
      BY <1>0, <2>2 DEF Finish
    <3>2. v # w
      BY <3>1 DEF Idle
    <3>3. QED
      BY <1>0, <2>2, <3>2 DEF Finish
  <2>3. ASSUME NEW v \in Worker, Merchants(v)
        PROVE  job'[w] = job[w]
    <3>1. ASSUME NEW m \in Merchant, NEW k \in Container, CreateReadyRead(v, m, k),
                 job'[w] # job[w]
          PROVE  FALSE
      BY <2>1, <3>1 DEF CreateReadyRead
    <3>2. ASSUME NEW o \in Order, CancelRead(v, o), job'[w] # job[w]
          PROVE  FALSE
      BY <2>1, <3>2 DEF CancelRead
    <3>3. CreateReadyCommit(v) \/ CancelCommit(v) => Finish(v)
      BY DEF CreateReadyCommit, CancelCommit
    <3>4. QED
      BY <2>2, <2>3, <3>1, <3>2, <3>3 DEF Merchants
  <2>4. ASSUME NEW v \in Worker, Shifts(v), job'[w] # job[w]
        PROVE  (\E r \in Route : CompleteRouteRead(w, r)) \/ CompleteRouteReadStops(w)
    <3>1. ASSUME NEW c \in Collector, NEW r \in Route, NEW S \in SUBSET Order,
                 StartRouteRead(v, c, r, S)
          PROVE  FALSE
      BY <2>1, <2>4, <3>1 DEF StartRouteRead
    <3>2. ASSUME NEW r \in Route, CompleteRouteRead(v, r)
          PROVE  v = w
      BY <2>1, <2>4, <3>2 DEF CompleteRouteRead
    <3>3. ASSUME CompleteRouteReadStops(v)
          PROVE  v = w
      BY <1>0, <2>4, <3>3 DEF CompleteRouteReadStops
    <3>4. ASSUME NEW r \in Route, CancelRouteRead(v, r)
          PROVE  FALSE
      BY <2>1, <2>4, <3>4 DEF CancelRouteRead
    <3>5. ASSUME StartRouteCommit(v) \/ CompleteRouteCommit(v) \/ CancelRouteCommit(v)
          PROVE  FALSE
      BY <2>2, <2>4, <3>5 DEF StartRouteCommit, CompleteRouteCommit, CancelRouteCommit
    <3>6. QED
      BY <2>4, <3>1, <3>2, <3>3, <3>4, <3>5 DEF Shifts
  <2>5. ASSUME NEW v \in Worker, Returns(v)
        PROVE  job'[w] = job[w]
    <3>1. ASSUME NEW k \in Container, NEW m \in Merchant, ReturnContainerRead(v, k, m),
                 job'[w] # job[w]
          PROVE  FALSE
      BY <2>1, <3>1 DEF ReturnContainerRead
    <3>2. QED
      BY <2>2, <2>5, <3>1 DEF Returns, ReturnContainerCommit
  <2>6. ASSUME NEW v \in Worker, Abandon(v)
        PROVE  job'[w] = job[w]
    BY <2>2, <2>6 DEF Abandon
  <2>7. ASSUME Field \/ Administration \/ UNCHANGED vars
        PROVE  job'[w] = job[w]
    BY <2>7 DEF Field, ProcessOne, CreateDelivery, Administration, ApproveMerchant,
                RejectMerchant, AssignContainer, UnassignContainer, CancelContainerTransit, vars
  <2>8. QED
    BY <2>3, <2>4, <2>5, <2>6, <2>7 DEF Next
<1>5. QED
  BY <1>1, <1>2, <1>3, <1>4

(* A container goes on the road with an undelivered receipt, and the       *)
(* delivery that takes its last one marks it AT_STATION.                   *)
LEMMA StepInTransit ==
  ASSUME OrderDeskInv, [Next]_vars
  PROVE  InTransitCarriesOil'
<1> SUFFICES ASSUME NEW k \in Container, container'[k].state = "IN_TRANSIT"
             PROVE  \E u \in Uuid : /\ txn'[u].order # None
                                    /\ txn'[u].container = k
                                    /\ txn'[u].delivery = None
  BY DEF InTransitCarriesOil, Undelivered, IsLive
<1>1. container \in [Container -> ContainerRow]
  BY DEF OrderDeskInv, TypeOK
<1>2. container[k].state = "IN_TRANSIT" =>
        \E u \in Uuid : txn[u].order # None /\ txn[u].container = k /\ txn[u].delivery = None
  BY DEF OrderDeskInv, InTransitCarriesOil, Undelivered, IsLive
<1>3. ASSUME NEW c \in Collector, NEW u \in Uuid, NEW o \in Order, ProcessOne(c, u, o)
      PROVE  \E v \in Uuid : txn'[v].order # None /\ txn'[v].container = k /\ txn'[v].delivery = None
  <2>1. CASE k = order[o].container
    BY <1>3, <2>1, ProcessOneEffect, SetsAssumption DEF OrderDeskInv
  <2>2. CASE k # order[o].container
    <3>1. container'[k] = container[k]
      BY <1>1, <1>3, <2>2 DEF ProcessOne
    <3>2. PICK v \in Uuid : txn[v].order # None /\ txn[v].container = k /\ txn[v].delivery = None
      BY <1>2, <3>1
    <3>3. txn'[v] = txn[v]
      BY <1>3, <3>2, ProcessOneEffect DEF OrderDeskInv, IsLive
    <3>4. QED
      BY <3>2, <3>3
  <2>3. QED
    BY <2>1, <2>2
<1>4. ASSUME NEW c \in Collector, NEW d \in DeliveryUuid, NEW s \in Station,
             NEW T \in SUBSET Uuid, NEW l \in Liters, CreateDelivery(c, d, s, T, l)
      PROVE  \E v \in Uuid : txn'[v].order # None /\ txn'[v].container = k /\ txn'[v].delivery = None
  <2>1. k \notin UnloadedContainers(T) /\ container'[k] = container[k]
    <3>1. container'[k] = IF k \in UnloadedContainers(T)
                          THEN [container[k] EXCEPT !.state = "AT_STATION"]
                          ELSE container[k]
      BY <1>4 DEF CreateDelivery
    <3>2. [container[k] EXCEPT !.state = "AT_STATION"].state = "AT_STATION"
      BY <1>1 DEF ContainerRow
    <3>3. QED
      BY <3>1, <3>2
  <2>2. PICK v \in Uuid : txn[v].order # None /\ txn[v].container = k /\ txn[v].delivery = None
    BY <1>2, <2>1
  <2>3. v \notin T
    BY <2>1, <2>2 DEF UnloadedContainers
  <2>4. QED
    BY <1>4, <2>2, <2>3, CreateDeliveryEffect DEF OrderDeskInv
<1>5. ASSUME UNCHANGED <<container, txn>>
      PROVE  \E v \in Uuid : txn'[v].order # None /\ txn'[v].container = k /\ txn'[v].delivery = None
  BY <1>2, <1>5
<1>6. ASSUME NEW w \in Worker, Merchants(w) \/ Shifts(w) \/ Abandon(w)
      PROVE  UNCHANGED <<container, txn>>
  BY <1>6 DEF Merchants, Shifts, Abandon, Begin, CreateReadyRead, CreateReadyCommit, CancelRead,
              CancelCommit, StartRouteRead, StartRouteCommit, CompleteRouteRead,
              CompleteRouteReadStops, CompleteRouteCommit, CancelRouteRead, CancelRouteCommit
<1>7. ASSUME NEW w \in Worker, Returns(w)
      PROVE  container'[k] = container[k] /\ UNCHANGED txn
  <2>1. ASSUME NEW j \in Container, NEW m \in Merchant, ReturnContainerRead(w, j, m)
        PROVE  UNCHANGED <<container, txn>>
    BY <2>1 DEF ReturnContainerRead, Begin
  <2>2. ASSUME ReturnContainerCommit(w)
        PROVE  container'[k] = container[k] /\ UNCHANGED txn
    BY <1>1, <2>2 DEF ReturnContainerCommit
  <2>3. QED
    BY <1>7, <2>1, <2>2 DEF Returns
<1>8. ASSUME Administration
      PROVE  container'[k] = container[k] /\ UNCHANGED txn
  <2>1. ASSUME NEW j \in Container, NEW m \in Merchant, AssignContainer(j, m)
        PROVE  container'[k] = container[k] /\ UNCHANGED txn
    BY <1>1, <2>1 DEF AssignContainer
  <2>2. ASSUME NEW j \in Container, UnassignContainer(j)
        PROVE  container'[k] = container[k] /\ UNCHANGED txn
    BY <1>1, <2>2 DEF UnassignContainer
  <2>3. ASSUME NEW j \in Container, CancelContainerTransit(j)
        PROVE  container'[k] = container[k] /\ UNCHANGED txn
    BY <1>1, <2>3 DEF CancelContainerTransit, ContainerRow
  <2>4. QED
    BY <1>8, <2>1, <2>2, <2>3 DEF Administration, ApproveMerchant, RejectMerchant
<1>9. QED
  BY <1>2, <1>3, <1>4, <1>5, <1>6, <1>7, <1>8 DEF Next, Field, vars

(* The order desk's invariant is inductive.                                *)
LEMMA StepDesk == OrderDeskInv /\ [Next]_vars => OrderDeskInv'
<1> SUFFICES ASSUME OrderDeskInv, [Next]_vars
             PROVE  OrderDeskInv'
  OBVIOUS
<1>1. TypeOK'
  BY StepTypeOK DEF OrderDeskInv
<1>2. QED
  BY <1>1, StepAssigned, StepCollected, StepOneOpen, StepSettled, StepInTransit, StepCompletions
     DEF OrderDeskInv

(* Orders, routes, receipts and containers agree in every reachable state. *)
THEOREM OrderDeskCorrect == Spec => []OrderDeskInv
  BY InitDesk, StepDesk, PTL DEF Spec

(* An order is ASSIGNED exactly while it is a PENDING stop of the active   *)
(* route of its collector, who has no other active route.                  *)
THEOREM AssignmentsCorrect == Spec => []AssignedIffPendingStop
<1>1. OrderDeskInv => AssignedIffPendingStop
  BY DEF OrderDeskInv
<1>2. QED
  BY <1>1, OrderDeskCorrect, PTL

(* An order is COLLECTED exactly when it has a receipt, and has only one.  *)
THEOREM ReceiptsCorrect == Spec => []CollectedIffOneReceipt
<1>1. OrderDeskInv => CollectedIffOneReceipt
  BY DEF OrderDeskInv
<1>2. QED
  BY <1>1, OrderDeskCorrect, PTL

(* A merchant never has two open orders on one container.                  *)
THEOREM OpenOrdersCorrect == Spec => []OneOpenOrderPerMerchantContainer
<1>1. OrderDeskInv => OneOpenOrderPerMerchantContainer
  BY DEF OrderDeskInv
<1>2. QED
  BY <1>1, OrderDeskCorrect, PTL

(* Ended routes have no PENDING stop, cancelled ones no COLLECTED stop.    *)
THEOREM RoutesCorrect == Spec => []EndedRouteIsSettled
<1>1. OrderDeskInv => EndedRouteIsSettled
  BY DEF OrderDeskInv
<1>2. QED
  BY <1>1, OrderDeskCorrect, PTL

(* A container on the road carries oil no station has received.            *)
THEOREM CustodyCorrect == Spec => []InTransitCarriesOil
<1>1. OrderDeskInv => InTransitCarriesOil
  BY DEF OrderDeskInv
<1>2. QED
  BY <1>1, OrderDeskCorrect, PTL

(* Once written, a receipt changes only by gaining its delivery, once.     *)
LEMMA StepReceipts ==
  ASSUME OrderDeskInv, [Next]_vars
  PROVE  [ReceiptStep]_txn
<1>1. ASSUME NEW c \in Collector, NEW u \in Uuid, NEW o \in Order, ProcessOne(c, u, o)
      PROVE  ReceiptStep
  BY <1>1, ProcessOneEffect DEF ReceiptStep, OrderDeskInv
<1>2. ASSUME NEW c \in Collector, NEW d \in DeliveryUuid, NEW s \in Station,
             NEW T \in SUBSET Uuid, NEW l \in Liters, CreateDelivery(c, d, s, T, l)
      PROVE  ReceiptStep
  BY <1>2, CreateDeliveryEffect DEF ReceiptStep, AreDeliverable, OrderDeskInv
<1>3. ASSUME NEW w \in Worker,
             \/ CreateReadyCommit(w) \/ CancelCommit(w) \/ StartRouteCommit(w)
             \/ CompleteRouteCommit(w) \/ CancelRouteCommit(w)
      PROVE  UNCHANGED txn
  BY <1>3 DEF CreateReadyCommit, CancelCommit, StartRouteCommit, CompleteRouteCommit,
              CancelRouteCommit
<1>4. QED
  BY <1>1, <1>2, <1>3, DeskSteps

(* A receipt that processOne wrote changes only once more, when a station  *)
(* delivery takes it; replays, retries and later deliveries leave it       *)
(* alone.                                                                  *)
THEOREM ReceiptsFinal == Spec => ReceiptsAreFinal
<1>1. OrderDeskInv /\ [Next]_vars => [ReceiptStep]_txn
  BY StepReceipts
<1>2. QED
  BY <1>1, OrderDeskCorrect, PTL DEF Spec, ReceiptsAreFinal

(* Whatever holds an order of a collector who also holds orders of the     *)
(* route r holds it for r: the route's cancellation releases all of them.  *)
LEMMA ReleaseIsTotal ==
  ASSUME OrderDeskInv, NEW r \in Route, route[r].status = "ACTIVE", NEW o \in Order,
         order[o].status = "ASSIGNED", order[o].collector = route[r].collector
  PROVE  o \in ReleasedOrders(r)
<1>1. PICK q \in ActiveRoutes(order[o].collector) : stop[q][o] = "PENDING"
  BY DEF OrderDeskInv, AssignedIffPendingStop
<1>2. q \in Route /\ q \in ActiveRoutes(route[r].collector)
  BY <1>1 DEF ActiveRoutes
<1>3. q = r
  BY <1>2 DEF OrderDeskInv, AssignedIffPendingStop
<1>4. QED
  BY <1>1, <1>3 DEF ReleasedOrders

(* An assigned order changes only by its collector's collection or by the  *)
(* release of everything that collector holds.                             *)
LEMMA StepHandOver ==
  ASSUME OrderDeskInv, [Next]_vars
  PROVE  [HandOverStep]_order
<1> USE DEF OrderDeskInv
<1>1. ASSUME NEW w \in Worker, CreateReadyCommit(w)
      PROVE  HandOverStep
  BY <1>1, CreateReadyEffect DEF HandOverStep
<1>2. ASSUME NEW w \in Worker, CancelCommit(w)
      PROVE  HandOverStep
  BY <1>2, CancelEffect DEF HandOverStep
<1>3. ASSUME NEW w \in Worker, StartRouteCommit(w)
      PROVE  HandOverStep
  BY <1>3, StartRouteEffect DEF HandOverStep, AreClaimable
<1>4. ASSUME NEW w \in Worker, CompleteRouteCommit(w)
      PROVE  UNCHANGED order
  BY <1>4, CompleteRouteEffect
<1>5. ASSUME NEW w \in Worker, CancelRouteCommit(w)
      PROVE  HandOverStep
  <2>1. PICK r \in Route :
          /\ IsRouteCancellable(r)
          /\ \A o \in ReleasedOrders(r) : order'[o].status = "READY"
          /\ \A o \in Order \ ReleasedOrders(r) : order'[o] = order[o]
    BY <1>5, CancelRouteEffect
  <2>2. SUFFICES ASSUME NEW o \in Order, order[o].status = "ASSIGNED", order'[o] # order[o]
                 PROVE  /\ order'[o].status = "READY"
                        /\ \A p \in Order : order[p].collector = order[o].collector =>
                                              order'[p].status # "ASSIGNED"
    BY DEF HandOverStep
  <2>3. o \in ReleasedOrders(r)
    BY <2>1, <2>2
  <2>4. order[o].collector = route[r].collector /\ route[r].status = "ACTIVE"
    BY <2>1, <2>3 DEF ReleasedOrders, IsRouteCancellable
  <2>5. ASSUME NEW p \in Order, order[p].collector = order[o].collector
        PROVE  order'[p].status # "ASSIGNED"
    <3>1. CASE order[p].status = "ASSIGNED"
      BY <2>1, <2>4, <2>5, <3>1, ReleaseIsTotal
    <3>2. CASE order[p].status # "ASSIGNED"
      BY <2>1, <3>2
    <3>3. QED
      BY <3>1, <3>2
  <2>6. QED
    BY <2>1, <2>3, <2>5
<1>6. ASSUME NEW c \in Collector, NEW u \in Uuid, NEW o \in Order, ProcessOne(c, u, o)
      PROVE  HandOverStep
  BY <1>6, ProcessOneEffect DEF HandOverStep, IsCollectable
<1>7. ASSUME NEW c \in Collector, NEW d \in DeliveryUuid, NEW s \in Station,
             NEW T \in SUBSET Uuid, NEW l \in Liters, CreateDelivery(c, d, s, T, l)
      PROVE  UNCHANGED order
  BY <1>7 DEF CreateDelivery
<1> HIDE DEF OrderDeskInv
<1>8. QED
  BY <1>1, <1>2, <1>3, <1>4, <1>5, <1>6, <1>7, DeskSteps

(* An order assigned by startRoute leaves its collector only by that       *)
(* collector's receipt or by the cancellation that releases all they hold: *)
(* no other handler takes it from them.                                    *)
THEOREM HandOversCorrect == Spec => AssignedStaysWithCollector
<1>1. OrderDeskInv /\ [Next]_vars => [HandOverStep]_order
  BY StepHandOver
<1>2. QED
  BY <1>1, OrderDeskCorrect, PTL DEF Spec, AssignedStaysWithCollector

-----------------------------------------------------------------------------
(* The order desk implements OrderLedger                                   *)

(* Without orders and receipts the ledger is in its initial state.         *)
LEMMA InitLedger == Init => Ledger!LInit
  BY DEF Init, Ledger!LInit, LedgerPhase, LedgerHolder, LedgerReceipts, NoOrder, NoTxn, IsLive

(* Receipts of the ledger change only when a receipt is written.           *)
LEMMA SameReceipts ==
  ASSUME \A u \in Uuid : txn'[u].order = txn[u].order /\ txn'[u].collector = txn[u].collector
  PROVE  LedgerReceipts' = LedgerReceipts
  BY DEF LedgerReceipts, IsLive

(* A creation opens an order, a cancellation withdraws one.                *)
LEMMA CreateReadyOpens ==
  ASSUME OrderDeskInv, NEW w \in Worker, CreateReadyCommit(w)
  PROVE  \E o \in Order : Ledger!Open(o)
<1>1. PICK o \in Order :
        /\ order[o].status = "NONE"
        /\ order'[o].status = "READY"
        /\ \A p \in Order \ {o} : order'[p] = order[p]
  BY CreateReadyEffect DEF OrderDeskInv
<1>2. LedgerPhase' = [LedgerPhase EXCEPT ![o] = "READY"]
  BY <1>1 DEF LedgerPhase
<1>3. LedgerHolder' = LedgerHolder
  BY <1>1 DEF LedgerHolder
<1>4. LedgerReceipts' = LedgerReceipts
  BY CreateReadyEffect, SameReceipts DEF OrderDeskInv
<1>5. LedgerPhase[o] = "NONE"
  BY <1>1 DEF LedgerPhase
<1>6. QED
  BY <1>2, <1>3, <1>4, <1>5 DEF Ledger!Open

(* A cancellation withdraws an open order of the ledger.                   *)
LEMMA CancelWithdraws ==
  ASSUME OrderDeskInv, NEW w \in Worker, CancelCommit(w)
  PROVE  \E o \in Order : Ledger!Withdraw(o)
<1>1. PICK o \in Order :
        /\ order[o].status = "READY"
        /\ order'[o].status = "CANCELLED"
        /\ \A p \in Order \ {o} : order'[p] = order[p]
  BY CancelEffect DEF OrderDeskInv
<1>2. LedgerPhase' = [LedgerPhase EXCEPT ![o] = "CANCELLED"]
  BY <1>1 DEF LedgerPhase
<1>3. LedgerHolder' = LedgerHolder
  BY <1>1 DEF LedgerHolder
<1>4. LedgerReceipts' = LedgerReceipts
  BY CancelEffect, SameReceipts DEF OrderDeskInv
<1>5. LedgerPhase[o] = "READY"
  BY <1>1 DEF LedgerPhase
<1>6. QED
  BY <1>2, <1>3, <1>4, <1>5 DEF Ledger!Withdraw

(* Starting a route claims its orders, for a collector who holds none: an  *)
(* order it held would be on an active route.  A start that claims no      *)
(* order changes nothing in the ledger.                                    *)
LEMMA StartRouteClaims ==
  ASSUME OrderDeskInv, NEW w \in Worker, StartRouteCommit(w)
  PROVE  \/ \E c \in Collector, S \in SUBSET Order : Ledger!Claim(c, S)
         \/ UNCHANGED <<LedgerPhase, LedgerHolder, LedgerReceipts>>
<1>1. PICK c \in Collector, r \in Route, S \in SUBSET Order :
        /\ AreClaimable(S)
        /\ ActiveRoutes(c) = {}
        /\ \A o \in S : order'[o].status = "ASSIGNED" /\ order'[o].collector = c
        /\ \A o \in Order \ S : order'[o] = order[o]
        /\ UNCHANGED txn
  BY StartRouteEffect DEF OrderDeskInv
<1>2. LedgerPhase' = [o \in Order |-> IF o \in S THEN "ASSIGNED" ELSE LedgerPhase[o]]
  BY <1>1 DEF LedgerPhase
<1>3. LedgerHolder' = [o \in Order |-> IF o \in S THEN c ELSE LedgerHolder[o]]
  BY <1>1 DEF LedgerHolder
<1>4. LedgerReceipts' = LedgerReceipts
  BY <1>1, SameReceipts
<1>5. \A o \in S : LedgerPhase[o] = "READY"
  BY <1>1 DEF LedgerPhase, AreClaimable
<1>6. Ledger!Held(c) = {}
  <2>1. ASSUME NEW o \in Order, LedgerPhase[o] = "ASSIGNED", LedgerHolder[o] = c
        PROVE  FALSE
    <3>1. order[o].status = "ASSIGNED" /\ order[o].collector = c
      BY <2>1 DEF LedgerPhase, LedgerHolder
    <3>2. QED
      BY <1>1, <3>1 DEF OrderDeskInv, AssignedIffPendingStop
  <2>2. QED
    BY <2>1 DEF Ledger!Held
<1>7. CASE S = {}
  <2>1. LedgerPhase' = LedgerPhase /\ LedgerHolder' = LedgerHolder
    BY <1>1, <1>7 DEF LedgerPhase, LedgerHolder
  <2>2. QED
    BY <1>4, <2>1
<1>8. CASE S # {}
  BY <1>2, <1>3, <1>4, <1>5, <1>6, <1>8 DEF Ledger!Claim
<1>9. QED
  BY <1>7, <1>8

(* Cancelling a route releases everything its collector holds, if that is  *)
(* anything.                                                               *)
LEMMA CancelRouteReleases ==
  ASSUME OrderDeskInv, NEW w \in Worker, CancelRouteCommit(w)
  PROVE  \/ \E c \in Collector : Ledger!Release(c)
         \/ UNCHANGED <<LedgerPhase, LedgerHolder, LedgerReceipts>>
<1>1. PICK r \in Route :
        /\ IsRouteCancellable(r)
        /\ \A o \in ReleasedOrders(r) : order'[o].status = "READY" /\ order'[o].collector = None
        /\ \A o \in Order \ ReleasedOrders(r) : order'[o] = order[o]
        /\ UNCHANGED txn
  BY CancelRouteEffect DEF OrderDeskInv
<1> DEFINE c == route[r].collector
           R == ReleasedOrders(r)
<1>2. c \in Collector /\ route[r].status = "ACTIVE"
  BY <1>1 DEF OrderDeskInv, RoutesAreOwned, TypeOK, RouteRow, IsRouteCancellable
<1>3. \A o \in Order : o \in R <=> order[o].status = "ASSIGNED" /\ order[o].collector = c
  BY <1>2, ReleaseIsTotal DEF ReleasedOrders
<1>4. R = Ledger!Held(c)
  <2>1. R \subseteq Order
    BY DEF ReleasedOrders
  <2>2. \A o \in Order : o \in R <=> LedgerPhase[o] = "ASSIGNED" /\ LedgerHolder[o] = c
    BY <1>3 DEF LedgerPhase, LedgerHolder
  <2>3. QED
    BY <2>1, <2>2 DEF Ledger!Held
<1> HIDE DEF R
<1>5. LedgerPhase' = [o \in Order |-> IF o \in R THEN "READY" ELSE LedgerPhase[o]]
  BY <1>1 DEF LedgerPhase, R
<1>6. LedgerHolder' = [o \in Order |-> IF o \in R THEN None ELSE LedgerHolder[o]]
  BY <1>1 DEF LedgerHolder, R
<1>7. LedgerReceipts' = LedgerReceipts
  BY <1>1, SameReceipts
<1>8. CASE R = {}
  <2>1. LedgerPhase' = LedgerPhase /\ LedgerHolder' = LedgerHolder
    BY <1>1, <1>8 DEF LedgerPhase, LedgerHolder, R
  <2>2. QED
    BY <1>7, <2>1
<1>9. CASE R # {}
  BY <1>2, <1>4, <1>5, <1>6, <1>7, <1>9 DEF Ledger!Release
<1>10. QED
  BY <1>8, <1>9

(* A collection is the ledger's Collect, with the one new receipt.         *)
LEMMA ProcessOneCollects ==
  ASSUME OrderDeskInv, NEW c \in Collector, NEW u \in Uuid, NEW o \in Order, ProcessOne(c, u, o)
  PROVE  Ledger!Collect(o, c)
<1>1. /\ IsCollectable(c, o)
      /\ ~IsLive(u)
      /\ order'[o].status = "COLLECTED"
      /\ \A p \in Order \ {o} : order'[p] = order[p]
      /\ txn'[u].order = o
      /\ txn'[u].collector = c
      /\ \A v \in Uuid \ {u} : txn'[v] = txn[v]
  BY ProcessOneEffect DEF OrderDeskInv
<1>2. LedgerPhase' = [LedgerPhase EXCEPT ![o] = "COLLECTED"]
  BY <1>1 DEF LedgerPhase
<1>3. LedgerHolder' = [LedgerHolder EXCEPT ![o] = None]
  BY <1>1 DEF LedgerHolder
<1>4. LedgerReceipts' = LedgerReceipts \cup {<<o, c>>}
  <2>1. LedgerReceipts' \subseteq LedgerReceipts \cup {<<o, c>>}
    BY <1>1 DEF LedgerReceipts, IsLive
  <2>2. LedgerReceipts \subseteq LedgerReceipts'
    BY <1>1 DEF LedgerReceipts, IsLive
  <2>3. <<o, c>> \in LedgerReceipts'
    BY <1>1, SetsAssumption DEF LedgerReceipts, IsLive
  <2>4. QED
    BY <2>1, <2>2, <2>3
<1>5. LedgerPhase[o] = "READY" \/ o \in Ledger!Held(c)
  BY <1>1 DEF IsCollectable, Ledger!Held, LedgerPhase, LedgerHolder
<1>6. QED
  BY <1>2, <1>3, <1>4, <1>5 DEF Ledger!Collect

(* Every step of the order desk is a step of the ledger or leaves it alone.*)
LEMMA StepLedger ==
  ASSUME OrderDeskInv, [Next]_vars
  PROVE  Ledger!LNext \/ UNCHANGED <<LedgerPhase, LedgerHolder, LedgerReceipts>>
<1>1. ASSUME UNCHANGED order,
             \A u \in Uuid : txn'[u].order = txn[u].order /\ txn'[u].collector = txn[u].collector
      PROVE  UNCHANGED <<LedgerPhase, LedgerHolder, LedgerReceipts>>
  BY <1>1, SameReceipts DEF LedgerPhase, LedgerHolder
<1>2. ASSUME NEW w \in Worker, CompleteRouteCommit(w)
      PROVE  UNCHANGED <<LedgerPhase, LedgerHolder, LedgerReceipts>>
  BY <1>1, <1>2 DEF CompleteRouteCommit
<1>3. ASSUME NEW c \in Collector, NEW d \in DeliveryUuid, NEW s \in Station,
             NEW T \in SUBSET Uuid, NEW l \in Liters, CreateDelivery(c, d, s, T, l)
      PROVE  UNCHANGED <<LedgerPhase, LedgerHolder, LedgerReceipts>>
  BY <1>1, <1>3, CreateDeliveryEffect DEF OrderDeskInv
<1>4. CASE UNCHANGED <<order, route, stop, txn>>
  BY <1>1, <1>4
<1>5. QED
  BY <1>2, <1>3, <1>4, DeskSteps, CreateReadyOpens, CancelWithdraws, StartRouteClaims,
     CancelRouteReleases, ProcessOneCollects DEF Ledger!LNext

(* The field operations implement the order ledger.                        *)
THEOREM LedgerImplemented == Spec => ImplementsLedger
<1>1. OrderDeskInv /\ [Next]_vars => [Ledger!LNext]_(Ledger!lvars)
  BY StepLedger DEF Ledger!lvars
<1>2. QED
  BY <1>1, InitLedger, OrderDeskCorrect, PTL DEF Spec, ImplementsLedger, Ledger!LSpec

-----------------------------------------------------------------------------
(* Deliveries                                                              *)

(* What was reported of each delivery, and the deliveries of a station, of *)
(* which there are finitely many at any time.                              *)
Reported == [d \in DeliveryUuid |-> delivery[d].liters]
DeliveriesTo(s) == {d \in DeliveryUuid : delivery[d].station = s}

DeliveriesInv ==
  /\ DeliveriesAccounted
  /\ \A u \in Uuid : IsLive(u) => txn[u].collector \in Collector
  /\ \A s \in Station : IsFiniteSet(DeliveriesTo(s))

(* Only collections and deliveries change what deliveries are about.       *)
LEMMA DeliverySteps ==
  ASSUME [Next]_vars
  PROVE  \/ \E c \in Collector, u \in Uuid, o \in Order : ProcessOne(c, u, o)
         \/ \E c \in Collector, d \in DeliveryUuid, s \in Station, T \in SUBSET Uuid,
               l \in Liters : CreateDelivery(c, d, s, T, l)
         \/ UNCHANGED <<txn, delivery, volume>>
<1>1. ASSUME NEW w \in Worker, Merchants(w)
      PROVE  UNCHANGED <<txn, delivery, volume>>
  BY <1>1 DEF Merchants, CreateReadyRead, CreateReadyCommit, CancelRead, CancelCommit, Begin
<1>2. ASSUME NEW w \in Worker, Shifts(w)
      PROVE  UNCHANGED <<txn, delivery, volume>>
  BY <1>2 DEF Shifts, StartRouteRead, StartRouteCommit, CompleteRouteRead,
              CompleteRouteReadStops, CompleteRouteCommit, CancelRouteRead, CancelRouteCommit, Begin
<1>3. ASSUME NEW w \in Worker, Returns(w) \/ Abandon(w)
      PROVE  UNCHANGED <<txn, delivery, volume>>
  BY <1>3 DEF Returns, ReturnContainerRead, ReturnContainerCommit, Begin, Abandon
<1>4. ASSUME Administration
      PROVE  UNCHANGED <<txn, delivery, volume>>
  BY <1>4 DEF Administration, ApproveMerchant, RejectMerchant, AssignContainer,
              UnassignContainer, CancelContainerTransit
<1>5. ASSUME UNCHANGED vars
      PROVE  UNCHANGED <<txn, delivery, volume>>
  BY <1>5 DEF vars
<1>6. QED
  BY <1>1, <1>2, <1>3, <1>4, <1>5 DEF Next, Field

(* At the start there are no deliveries.                                   *)
LEMMA InitDeliveries == Init => DeliveriesInv
<1> SUFFICES ASSUME Init PROVE DeliveriesInv
  OBVIOUS
<1>1. ASSUME NEW s \in Station PROVE DeliveriesTo(s) = {}
  BY <1>1, SetsAssumption DEF Init, DeliveriesTo, NoDelivery
<1>2. ASSUME NEW s \in Station
      PROVE  volume[s] = SumFunctionOnSet(Reported, DeliveriesTo(s)) /\ volume[s] <= Capacity[s]
  <2>1. SumFunctionOnSet(Reported, DeliveriesTo(s)) = 0
    BY <1>1, SumEmpty
  <2> QED BY <2>1, QuantityAssumption DEF Init
<1>3. \A s \in Station : IsFiniteSet(DeliveriesTo(s))
  BY <1>1, FS_EmptySet
<1>4. /\ \A d \in DeliveryUuid : delivery[d] = NoDelivery
      /\ \A u \in Uuid : txn[u].delivery = None /\ ~IsLive(u)
  BY DEF Init, NoTxn, IsLive
<1> QED
  BY <1>2, <1>3, <1>4 DEF DeliveriesInv, DeliveriesAccounted, Reported, DeliveriesTo

(* A collection is in no delivery yet.                                     *)
LEMMA CollectionKeepsDeliveries ==
  ASSUME TypeOK, DeliveriesInv,
         NEW c \in Collector, NEW u \in Uuid, NEW o \in Order, ProcessOne(c, u, o)
  PROVE  DeliveriesInv'
<1>1. /\ ~IsLive(u) /\ txn'[u].order = o /\ txn'[u].collector = c /\ txn'[u].delivery = None
      /\ \A v \in Uuid \ {u} : txn'[v] = txn[v]
      /\ UNCHANGED <<delivery, volume>>
  <2>1. UNCHANGED <<delivery, volume>>
    BY DEF ProcessOne
  <2> QED BY <2>1, ProcessOneEffect
<1>2. txn[u].delivery = None
  BY <1>1 DEF DeliveriesInv, DeliveriesAccounted
<1>3. \A d \in DeliveryUuid : delivery'[d] # NoDelivery => \E v \in Uuid : txn'[v].delivery = d
  BY <1>1, <1>2, SetsAssumption DEF DeliveriesInv, DeliveriesAccounted
<1>4. \A v \in Uuid : txn'[v].delivery # None =>
        /\ txn'[v].order # None
        /\ delivery'[txn'[v].delivery].collector = txn'[v].collector
  BY <1>1 DEF DeliveriesInv, DeliveriesAccounted, IsLive
<1>5. \A v \in Uuid : txn'[v].order # None => txn'[v].collector \in Collector
  BY <1>1 DEF DeliveriesInv, IsLive
<1> QED
  BY <1>1, <1>3, <1>4, <1>5 DEF DeliveriesInv, DeliveriesAccounted, DeliveriesTo, IsLive

(* A delivery adds what it reports to the sum of its station, and to no    *)
(* other.                                                                  *)
LEMMA DeliveryAdds ==
  ASSUME TypeOK, DeliveriesInv,
         NEW c \in Collector, NEW d \in DeliveryUuid, NEW s \in Station,
         NEW T \in SUBSET Uuid, NEW l \in Liters, CreateDelivery(c, d, s, T, l),
         NEW t \in Station
  PROVE  /\ IsFiniteSet(DeliveriesTo(t)')
         /\ volume'[t] = SumFunctionOnSet(Reported', DeliveriesTo(t)')
         /\ volume'[t] <= Capacity[t]
<1>1. /\ delivery[d] = NoDelivery
      /\ delivery'[d] = [collector |-> c, station |-> s, liters |-> l]
      /\ \A e \in DeliveryUuid \ {d} : delivery'[e] = delivery[e]
      /\ volume[s] + l <= Capacity[s] /\ volume'[s] = volume[s] + l
      /\ t # s => volume'[t] = volume[t]
  BY DEF CreateDelivery, TypeOK, FitsStation
<1>2. /\ IsFiniteSet(DeliveriesTo(t)) /\ d \notin DeliveriesTo(t)
      /\ volume[t] = SumFunctionOnSet(Reported, DeliveriesTo(t))
      /\ volume[t] <= Capacity[t]
  <2>1. delivery[d].station = None
    BY <1>1 DEF NoDelivery
  <2>2. d \notin DeliveriesTo(t)
    BY <2>1, SetsAssumption DEF DeliveriesTo
  <2>3. /\ volume[t] = SumFunctionOnSet(Reported, DeliveriesTo(t))
        /\ volume[t] <= Capacity[t]
    BY DEF DeliveriesInv, DeliveriesAccounted, DeliveriesTo, Reported
  <2> QED BY <2>2, <2>3 DEF DeliveriesInv
<1>3. \A e \in DeliveryUuid : Reported[e] \in Nat /\ (e # d => Reported'[e] = Reported[e])
  BY <1>1, QuantityAssumption DEF Reported, TypeOK, DeliveryRow
<1>4. Reported'[d] = l /\ l \in Nat
  BY <1>1, QuantityAssumption DEF Reported
<1>5. SumFunctionOnSet(Reported', DeliveriesTo(t)) = SumFunctionOnSet(Reported, DeliveriesTo(t))
  <2>1. \A e \in DeliveriesTo(t) : Reported[e] \in Nat /\ Reported[e] = Reported'[e]
    BY <1>2, <1>3 DEF DeliveriesTo
  <2> QED BY <1>2, <2>1, SumEqual
<1>6. CASE t = s
  <2>1. DeliveriesTo(t)' = DeliveriesTo(t) \cup {d}
    BY <1>1, <1>6 DEF DeliveriesTo
  <2>2. \A e \in DeliveriesTo(t) : Reported'[e] \in Nat
    BY <1>2, <1>3 DEF DeliveriesTo
  <2>3. SumFunctionOnSet(Reported', DeliveriesTo(t) \cup {d}) =
          SumFunctionOnSet(Reported', DeliveriesTo(t)) + l
    BY <1>2, <1>4, <2>2, SumAdd
  <2>4. IsFiniteSet(DeliveriesTo(t) \cup {d})
    BY <1>2, FS_AddElement
  <2> QED BY <1>1, <1>2, <1>5, <1>6, <2>1, <2>3, <2>4
<1>7. CASE t # s
  <2>1. DeliveriesTo(t)' = DeliveriesTo(t)
    BY <1>1, <1>2, <1>7 DEF DeliveriesTo
  <2> QED BY <1>1, <1>2, <1>5, <1>7, <2>1
<1> QED BY <1>6, <1>7

(* It takes receipts of its collector that were in none.                   *)
LEMMA DeliveryKeepsDeliveries ==
  ASSUME TypeOK, DeliveriesInv,
         NEW c \in Collector, NEW d \in DeliveryUuid, NEW s \in Station,
         NEW T \in SUBSET Uuid, NEW l \in Liters, CreateDelivery(c, d, s, T, l)
  PROVE  DeliveriesInv'
<1>1. /\ T # {}
      /\ AreDeliverable(c, T)
      /\ \A u \in Uuid : /\ txn'[u].order = txn[u].order
                         /\ txn'[u].collector = txn[u].collector
                         /\ txn'[u].delivery = IF u \in T THEN d ELSE txn[u].delivery
  BY CreateDeliveryEffect
<1>2. /\ delivery[d] = NoDelivery
      /\ delivery'[d].collector = c
      /\ \A e \in DeliveryUuid \ {d} : delivery'[e] = delivery[e]
  BY DEF CreateDelivery, TypeOK
<1>3. \A u \in Uuid : txn[u].delivery # None => txn[u].delivery \in DeliveryUuid
  BY DEF TypeOK, TxnRow
<1>4. ASSUME NEW e \in DeliveryUuid, delivery'[e] # NoDelivery
      PROVE  \E u \in Uuid : txn'[u].delivery = e
  <2>1. CASE e = d
    BY <1>1, <2>1
  <2>2. CASE e # d
    <3>1. PICK u \in Uuid : txn[u].delivery = e
      BY <1>2, <1>4, <2>2 DEF DeliveriesInv, DeliveriesAccounted
    <3>2. u \notin T
      BY <1>1, <3>1, SetsAssumption DEF AreDeliverable
    <3> QED BY <1>1, <3>1, <3>2
  <2> QED BY <2>1, <2>2
<1>5. ASSUME NEW u \in Uuid, txn'[u].delivery # None
      PROVE  /\ txn'[u].order # None
             /\ delivery'[txn'[u].delivery].collector = txn'[u].collector
  <2>1. CASE u \in T
    BY <1>1, <1>2, <2>1 DEF AreDeliverable, IsLive
  <2>2. CASE u \notin T
    <3>1. /\ txn[u].delivery # None /\ txn[u].order # None
          /\ delivery[txn[u].delivery].collector = txn[u].collector
      BY <1>1, <1>5, <2>2 DEF DeliveriesInv, DeliveriesAccounted, IsLive
    <3>2. txn[u].delivery # d
      <4>1. txn[u].collector # None
        BY <3>1, SetsAssumption DEF DeliveriesInv, IsLive
      <4> QED BY <1>2, <3>1, <4>1 DEF NoDelivery
    <3> QED BY <1>1, <1>2, <1>3, <2>2, <3>1, <3>2
  <2> QED BY <2>1, <2>2
<1>6. \A t \in Station : /\ IsFiniteSet(DeliveriesTo(t)')
                         /\ volume'[t] = SumFunctionOnSet(Reported', DeliveriesTo(t)')
                         /\ volume'[t] <= Capacity[t]
  BY DeliveryAdds
<1>7. \A u \in Uuid : txn'[u].order # None => txn'[u].collector \in Collector
  BY <1>1 DEF DeliveriesInv, IsLive
<1> QED
  BY <1>4, <1>5, <1>6, <1>7 DEF DeliveriesInv, DeliveriesAccounted, DeliveriesTo, Reported, IsLive

(* The invariant of the deliveries holds in every state.                   *)
LEMMA DeliveriesInvHolds == Spec => []DeliveriesInv
<1>1. TypeOK /\ DeliveriesInv /\ [Next]_vars => DeliveriesInv'
  <2> SUFFICES ASSUME TypeOK, DeliveriesInv, [Next]_vars PROVE DeliveriesInv'
    OBVIOUS
  <2>1. CASE UNCHANGED <<txn, delivery, volume>>
    BY <2>1 DEF DeliveriesInv, DeliveriesAccounted, DeliveriesTo, IsLive
  <2> QED
    BY <2>1, DeliverySteps, CollectionKeepsDeliveries, DeliveryKeepsDeliveries
<1> QED
  BY <1>1, InitDeliveries, TypeCorrect, PTL DEF Spec

(* However collections, deliveries and administrators interleave, and for  *)
(* any number of them, a station holds exactly what its deliveries         *)
(* reported, within its capacity, and each delivery took receipts of its   *)
(* own collector.                                                          *)
THEOREM DeliveriesCorrect == Spec => []DeliveriesAccounted
<1>1. DeliveriesInv => DeliveriesAccounted
  BY DEF DeliveriesInv
<1> QED
  BY <1>1, DeliveriesInvHolds, PTL
=============================================================================
