# UCO platform: TLA+ models and proofs

The UCO platform collects used cooking oil. Merchants report a full container,
collectors claim orders into a route, collect the oil and deliver it to a
station; administrators approve merchants, keep the registers, move containers,
look at stations and suspicious collections, and pay. This directory holds TLA+
specifications of that system, the TLC runs that check them and proofs checked
by TLAPS. Every definition is translated from the source; `PROJECT.json` maps
each to its file and lines, lists the hazards of the code with the properties
that watch them, and says of each component how far it is modelled.

## The system

| Part | State | Operations | What is hard |
|---|---|---|---|
| Orders and routes (`orders.service.ts`) | `collection_orders`, `collection_routes`, `collection_route_stops` | create, cancel; start, complete, cancel a route | decisions taken on rows read before the transaction; several handlers write one order |
| Route planning (`merchant-pickup-*.ts`, `collection-route-optimizer.ts`, `collector-route-capacity-risk.ts`) | none | preview of a route | forecasts, rounding and an order among orders at numeric boundaries |
| Collections (`collections.service.ts`) | `collection_transactions`, the order, its stop, its container | `processOne`, directly or from a batch | idempotency by `client_uuid`; two collectors and one order; races with cancellations |
| Station deliveries (`station-deliveries.service.ts`) | `station_deliveries`, receipts, containers, the station's volume | `create` | a receipt delivered once, capacity, late deliveries |
| Containers (`containers.service.ts`, `admin.service.ts`) | `containers` | register, assign, unassign, cancel transit, return | administrators act while the field does; numbers made up from what was read |
| Wards and merchants (`admin.service.ts`, `merchants.service.ts`) | profiles, approval, wards | register, approve, reject, update, disable | what is written was decided on what was read before |
| Stations (`stations.service.ts`, fill forecast and alert) | `stations` | administration, forecast, alert | capacity checked against a volume read earlier; roundings |
| Anomalies (`transaction-anomaly-scorer.ts`, `admin.service.ts`) | verdicts with their scores | list, verdict, statistics | scores of a history that is still arriving |
| Payments (`payments.service.ts`) | `oil_prices`, `payments` | price changes, runs, confirmations | prices read outside the run's transaction; weeks and time zones |
| Collectors and invites (`admin.service.ts`, `auth.service.ts`) | `collectors`, one-time keys in Redis | create, renew, lock, accept | Redis and PostgreSQL change in two steps |
| Sessions (`auth.service.ts`, `jwt-auth.guard.ts`) | `refresh_tokens`, hand-over codes in Redis | sign in and out, refresh | rotation races, crashes between statements |
| Synchronisation (`sync.service.ts`) | none | a batch, item by item | part of a batch fails, answers get lost |
| Outbox of the mini app (`outbox-db.ts`, `outbox-sync.ts`) | IndexedDB rows, the run in flight | enqueue, sync, retry, recover, delete | awaits, kills, failing writes, accounts that change |
| Session of the mini app (`auth-store.ts`, `api.ts`, `storage.ts`) | stored tokens and profile, the refresh in flight | sign in and out, refresh, restart | a refresh that outlives its session |
| Collector screens (`CollectorFlow.tsx`, `StationDeliveryFlow.tsx`) | the shift, in memory and stored; the form of a stop; the delivery draft | collect, deliver, close the shift | rows, cached route, server and stored shift disagree; analyses overtake each other |
| Devices (`browser-qr-scanner.ts`, `zalo-client.ts`, `zalo-location.provider.ts`) | camera, timers, location tokens | scan, locate | answers after the timer or the button |
| Administration web app (`auth.tsx`, `api-client`) | tokens in `localStorage` and cookies, a refresh per tab | call, refresh, sign in and out | calls that wait for a refresh which fails |

They interact as follows. The mini app stores what the collector does in the
outbox; the outbox worker calls `/sync/batch` and `/station-deliveries` with the
stored token; these call `processOne` and `create`, which change orders, stops,
containers and stations in PostgreSQL transactions under row locks and, for
collections, starts and cancellations, an advisory lock per collector. The
screens of the mini app read the outbox and a route that comes from the server
or from a cache. Merchants' and administrators' requests reach the same tables
at the same time. Payments, station outlook and anomaly scores read receipts and
deliveries; approvals and sessions are read everywhere.

## Modules

**`FieldOperations`** (`MCFieldOperations` instantiates it) models orders,
routes, collections, deliveries and the moves of containers. Its variables are
the tables, and `job`, the requests the API has in flight. A handler that reads
and writes under locks in one transaction is one action, taken at its commit
(`ProcessOne`, `CreateDelivery`, `AssignContainer`, ...). A handler that uses at
its commit what it read before without a lock is two or three actions, and what
it read is kept in its job: `CreateReadyRead`/`CreateReadyCommit`, `CancelRead`/
`CancelCommit`, `StartRouteRead`/`StartRouteCommit`, `CompleteRouteRead`/
`CompleteRouteReadStops`/`CompleteRouteCommit`, `CancelRouteRead`/
`CancelRouteCommit`, `ReturnContainerRead`/`ReturnContainerCommit`. `Abandon`
ends a request whose recheck failed, whose transaction was aborted or whose
process stopped. Abstracted: the choice among the READY orders of a route (any
non-empty set of eligible ones; `RoutePlanning` has the one that is made),
quantities other than what a delivery adds to a station, grades, photos,
positions, alerts and statistics. A replay that the code answers from existing
rows, or a request refused at once, changes nothing and is a stuttering step.
All merchants, collectors, containers and stations are active, and `Serves`, the
wards, is a constant.

**`OrderLedger`** is the abstract promise of the order desk: an order is opened,
withdrawn, claimed, released and collected; a claim takes a set of READY orders
for a collector who holds none, a release gives back all they hold, a collection
leaves one receipt. `FieldOperations` implements it under the mapping
`LedgerPhase`, `LedgerHolder`, `LedgerReceipts`.

**`RoutePlanning`** is `buildRoutePreview`: priorities, volume forecasts, the
selection of orders until one does not fit, the sequence (by group, nearest
first) and the capacity risk. Loops are steps, and volumes keep their hundredths
and roundings.

**`OutboxSync`** models one device: its outbox, the run of `performSync` in
flight (one action from each await to the next), the session with a token
refresh in flight, and the server as far as the device sees it (`receipts`).
Requests and answers get lost or late (`SyncError`, `LateArrives`, `LateLost`),
IndexedDB refuses writes (`SyncStoreFails`), the app is killed and restarted
(`Kill`, `Hydrate`), accounts sign in and out. A run writes back the rows as it
read them (`sync.records`), as the code does. Time is the flag `due` of a row.
Abstracted: payloads (a collection is known by its order), the exact delays, the
caches kept in the same database, and legacy rows without an owner, which the
worker never touches.

**`CollectorShift`** is the shift on the screens, one action from each await to
the next with the effects React runs because of it (`Render`): the route arrives
or comes from a cache that could not always be rewritten, is started, cancelled
and completed; stops are opened, saved and entered; what was collected is
delivered, kept as a receipt and closed. `reconcileRouteProgress` and
`getCandidates` are operators over the four sources the screen mixes. `Kill`
restarts the app with what storage has. The worker and the server are as coarse
here as the screens see them, for one collector.

**`CollectionEntry`** is the form of one stop: look-up of the code, photos,
analyses, the grade and its confirmation, volume, location and submission. An
analysis answers at any time, also after a newer one.

**`Devices`** has the QR scan of a browser (stream, frames, chosen photo, timer
and close button) and the location inside Zalo, from the shared acquisition to
the exchange of its token by the API.

**`CollectorAccounts`** (`MCCollectorAccounts`) models how an account becomes a
collector: `createCollector`, `regenerateCollectorInvite`, `updateCollector`
(locks), `acceptCollectorInvite` and a restaurant's `register`. The state is in
PostgreSQL (`role`, `merchant`, `row`) and in Redis (`invite`, `activeInvite`),
which no transaction spans, so an action is one call to Redis or one transaction
of the database; `request` holds what each request has in hand between them.
Every call may fail, a commit may succeed without its answer arriving, and the
server may stop (`Crash`). Invites expire in the database and in Redis at
different times (`Expire`, `DropExpired`). `lost` is a ghost: the codes a request
consumed and did not give back.

**`Sessions`** models sign-ins, the rotation of refresh tokens, sign-outs of one
or all devices, the guard and the hand-over codes of the OAuth redirect. An
action is one statement or one call to Redis; the rotation, the one transaction
with two writes, holds the row it revokes until it commits. `ended` and `raced`
are ghosts: the tokens a successful sign-out was about, and the tokens whose
rotation committed while a sign-out of the whole account was to revoke them.
**`MCAccounts`** instantiates it next to `CollectorAccounts`; an answer is taken
there before anything else moves, because nothing the server does depends on it.
**`AdminConsole`** extends it with the web app of the administrators: tabs that
share tokens and cookies, calls that get no answer, the one refresh of a tab that
others wait for, reloads and sign-outs.

**`BackOffice`** has the registers: wards, merchants and the labels of
containers. What a handler read before it writes occupies a desk; whether a
merchant is approved has no bearing on labels and is left out. The numbers of
labels are doubles, as in the code: from `Precise` (2^53) on, adding one gives
the number itself or a larger one.
**`StationOutlook`** is a station's stock with the forecast and the alert
computed from it, with late or misdated deliveries and a change of capacity that
compares with a volume read earlier. **`AnomalyReview`** computes the scores of
collections that arrive in any order and keeps verdicts with a snapshot.

**`PaymentPeriod`** is `payment-period.ts` as operators on instants in hours: the
ISO week of an instant in Vietnam time, and the bounds of a week. **`Payments`**
extends it with prices, collections, payment runs and confirmations.
`createOilPrice` is two actions (it reads the open price, then closes it and
inserts its own under the exclusion constraint), `run` three (it reads the
collections, then the prices, then inserts in one transaction), and `markPaid`
two (it takes the row lock, then updates). Abstracted: amounts, quantities and
units.

**`MCOffice`**, **`MCAccounts`**, **`MCCollectorScreens`** and
**`MCCollectorShift`** put small instances of components that share no state side
by side: a behaviour moves one of them and the others stay where they began, so
that every state of each is reached and no product of them.

`FieldOperationsProofs`, `OutboxSyncProofs`, `CollectorShiftProofs`,
`CollectorScreensProofs` (the form and the devices), `AccountsProofs` (collector
accounts, sessions and the web app), `OfficeProofs` (payments, stations, anomalies and the
administrators' forms) and `RoutePlanningProofs` hold the theorems, `SumLemmas`
what several of them need about sums over finite sets.

The definitions named `..._mutant` are not part of a specification. Each stands
before the definition it varies and gives it a plausible bug; substituting it
makes TLC report the property listed with it in `PROJECT.json`, which shows that
the property depends on that line of the code.

## Runs

| Run | Instance | Shows |
|---|---|---|
| `Dispatch` | 1 merchant, 2 collectors, containers, orders, routes, collections and requests in flight | orders, stops, routes and receipts agree in every interleaving; an assigned order stays with its collector; the order desk implements `OrderLedger` |
| `Custody` | 2 merchants, 1 container, 3 orders and collections, 2 deliveries, 2 requests in flight | a container on the road carries undelivered oil; receipts are final; the station's volume is the sum of its deliveries |
| `Outbox` | 1 collector, 1 order, 2 rows, batches of 1, 2 attempts; a form with 2 photos and 3 analyses; 2 scans; 2 screens and 2 location tokens | a row is SYNCED or deleted only once the server has its item; what is stored is the verdict on the stored photos and was confirmed; the camera is released and a location token used once |
| `OutboxProgress` | 1 collector, 2 deliveries, batches of 1, 2 attempts | a waiting row is in the end confirmed or offered for a manual retry, unless the device stays offline for good |
| `Shift` | a shift with 1 stop, 2 forms and 1 delivery; plans of every subset of 8 orders for 4 vehicles; 2 wards, 1 merchant, 2 labels and 2 requests, numbers up to 3, imprecise from 2 | one row per order, no entry without a row, no delivery of what the server has not, a closed shift is settled; plans visit the urgent first and their warning is honest; a made-up number is refused only in a race or after a typed number that is too large to count on from |
| `Accounts` | 2 accounts, 2 collectors, 2 invites, 2 requests; 1 account, 3 pairs of tokens, 1 hand-over code, 2 requests | a code is in Redis or in one request's hands and lost only by a failure or a refusal; nobody is linked twice; a refresh token is exchanged once, a hand-over opens one session; a sign-out revokes all it was about, and only a rotation during a sign-out of the whole account leaves a successor |
| `Console` | 1 tab, 2 calls at a time, 2 pairs of tokens, outages | every call ends; the browser gives its tokens up only for a sign-out, or when a refresh is refused for the token it presented |
| `Office` | 2 collections, 3 prices, 2 requests, 4 instants around a new year and week; the calendar of 1990-2050, every hour of 2020-2031; a station over 8 days; 8 collections of 2 merchants and a verdict | prices neither overlap nor leave a gap; payments are in the period of their collection, counted once, final; the forecast fits the stock and a station is not full by surprise; the score of a verdict is the one the list shows |
| `OwnToken`, `ReplayAnswer`, `OneProfile`, `DeliveredOnce` | the smallest instance that shows it | violated: see below |

*Why the bounds are enough.* A race needs two actors and the object they race
for: two collectors, two requests in flight and two of each object give every
pairwise race of handlers, including a claim of two orders that meets a
collection of one of them. `Custody` has three orders on one container because
the interesting histories reuse it: collected, returned or transport cancelled,
collected again, while a late delivery of the first collection is on its way.
Two rows and a batch of one let a row wait behind another; two attempts show the
first failure and the last. Two accounts, two collectors and two codes give
every way two links or two accounts can be confused, and a renewed invite beside
the one it replaced. Three pairs are a sign-in and two rotations, or two
sessions of which one rotates. In a shift, two forms of one order are what
`enqueueCollectionOnce` has to tell apart, and the proofs of the shift cover any
number of orders, routes and notes. Three analyses let two overtake the one that
counts. The eight orders have every group, every confidence of a forecast, an
unknown capacity and distances on both sides of the thresholds. Eight days are a
window of the forecast and a day that leaves it. Four instants lie two on each
side of the boundary of a period that is also a change of year, and three prices
can be closed, backdated and refused. A typed number below `Precise` and one at
it, with a larger double beyond, show what becomes of every kind of typed label.
The connection of the device changes in `OutboxProgress` only: safety does not
depend on when runs start.

*Symmetry* is used for sets of interchangeable names in runs without liveness
properties; `OutboxProgress` and `Console` use none.

*Deadlock* is checked in `Dispatch`, `Custody`, `OutboxProgress`, `OwnToken`,
`ReplayAnswer` and `OneProfile`. The others say `CHECK_DEADLOCK FALSE`, because
something bounded is used up in the end: pairs of tokens, days, forms, photos, or
the one plan that is made.

*Fairness.* `FairSpec` of the outbox assumes that the run of the worker goes
on once it has begun (every await ends: requests have a timeout), that waiting
times pass, and that IndexedDB does not refuse every write (strong fairness of
`SyncMark` and `SyncApply`, which a refusal interrupts). `kick` starts no run
while `navigator.onLine` is false, so a run is only assumed to start again and
again if the device is `online` again and again (`Kicked`): it is kicked when it
comes online. Whether it does, and whether a request then arrives, is not
assumed, nor is anything of users, accounts and the server. `RowsGetResolved` excludes users who
retry older rows by hand for ever: with those, newer rows can be kept out of
every batch. `FairConsole` assumes only the timer of `fetchWithTimeout`: a call
without an answer, a refresh included, fails in the end; it assumes nothing of
the server.

## Where the repository says otherwise

Four runs check what a document says and the code does not do.

* `OwnToken`: a token refresh in flight across a sign-out and a sign-in stores
  the first account's tokens under the second one's session.
* `ReplayAnswer`: `processOne` looks at the merchant before it looks for the
  recorded transaction, so a retry after the merchant's rejection is refused.
* `OneProfile`: `register` never looks for a collector and
  `linkCollectorInvite` reads the account without a lock, so an account that
  does both at once ends as a collector with a restaurant.
* `DeliveredOnce`: `submit` writes the delivery to the outbox before its draft is
  stored, and `getCandidates` takes every synced row, so after a restart in
  between a second note names the same transaction. The server refuses it.

## What the models show besides

Behaviours that no document speaks of. They are in the models, so that the
properties hold in their presence, or they were met while modelling.

* `completeRoute` updates without a condition, so it turns a route that was
  cancelled in between into a COMPLETED one; no order suffers
  (`CompletionsAreSafe`). A delivery marks its containers AT_STATION in whatever
  state they are, also after `cancelContainerTransit`. Two
  `returnContainerToMerchant` that race leave two merchants with an open order on
  one container: `OneOpenOrderPerMerchantContainer` is what remains.
* A renewal that races an acceptance leaves a linked collector PENDING_LINK with
  an invite nobody can accept; a link that is opened while its collector is
  locked is consumed by the refusal and not restored (it is then in `lost`).
* `finishShift` clears the stored shift, and the effect that persists the route
  stores it again, as long as the ended route is still shown. A collection that
  is entered after the draft of a delivery was stored is in no delivery, and is
  forgotten when the shift is closed. A cancelled route that comes back from a
  cache which could not be rewritten can be delivered from, and closed beside the
  one that followed it; `ClosedShiftIsSettled` says what holds nevertheless.
* `currentRoute` reads the route and the assigned orders in two queries. A start
  that commits between them is answered ASSIGNED_ORDERS_WITHOUT_ACTIVE_ROUTE,
  although `AssignedIffPendingStop` holds of the tables at every moment.
* A sign-out of the whole account revokes the tokens that exist when it starts: a
  rotation that commits while it is under way leaves a successor that lives on,
  and the sign-out is answered with success. The overview
  (`src/docs/PROJECT_OVERVIEW_REPORT.md:63`) has it revoke all tokens of the user.
* An outage in a refresh of the web app does sign the administrator out: the
  token whose exchange was not answered is still stored, and the next 401 has it
  refused. Such a refusal clears whatever is stored by then, also the tokens of a
  sign-in that was made meanwhile.
* A label typed with a number of 2^53 or more stops the registrations of its ward
  that leave the number to the service: the largest number plus one is that
  number, whose label is taken.
* A sign-out of the web app with an access token that has expired refreshes
  first, and revokes the refresh token it was called with, not the new one.
* The code field stays editable after the look-up has verified it, and the photo
  picker keeps the list of photos it was opened with, so that a photo removed
  meanwhile comes back.
* `update` of a merchant writes PENDING over an approval committed in between,
  and an owner's save writes the old ward back over an administrator's.
  `updateWard` counts the active merchants of a ward before its transaction, and
  a merchant may be reactivated into a closed ward. Neither it nor the
  registration of a container catches the violation of the unique index.
* The change of a station's capacity may end below its volume. Volumes only grow
  and `processed_at` is never written, so that after the longest storage time a
  station is OVERDUE for good.
* The nearest-neighbour sequence may be longer than the order of arrival (the
  saving is then shown as 0), the selection ends at the first order that does not
  fit, and the history of a forecast is cut to five rows before the rows that do
  not count are dropped.

## Proofs

TLAPS checks, for every value of the constants that satisfies the assumptions
named in the modules (finite bounds are naturals, null is not a value, the sets
of the tables are what they are taken for):

* `SumLemmas`. The library states nothing about sums, and its induction theorems
  are out of reach. The sum of a finite set is therefore reduced to that of the
  set without one of its elements, and what is to hold of every finite set is
  shown by a smallest counterexample: among the sets that refute it one has the
  least cardinality, and taking an element from it refutes that. From there:
  sums of naturals are naturals, grow with the set and with the weights, and
  differ by the one term that changed.
* `FieldOperationsProofs`. The properties of orders, routes, receipts and
  containers support one another, so `OrderDeskInv` is their conjunction with
  `CompletionsAreSafe` and `RoutesAreOwned`. `CompletionsAreSafe` is what makes
  the unlocked `completeRoute` harmless for orders: once it has read that no stop
  is PENDING, none can appear, because stops are only inserted with a new route.
  `StepTypeOK` treats types, `DeskSteps` reduces a step to the handlers that touch
  the desk, one lemma per handler says what it changes, and one lemma per
  conjunct shows it preserved. `AssignmentsCorrect`, `ReceiptsCorrect`,
  `OpenOrdersCorrect`, `RoutesCorrect`, `CustodyCorrect` and `TypeCorrect` follow,
  and from the same invariant the action properties `ReceiptsFinal` and
  `HandOversCorrect` and the refinement `LedgerImplemented`. `DeliveriesCorrect`
  adds the station: its volume is the sum of its deliveries, a delivery took
  receipts of its own collector, and a station never holds more than its capacity.
* `OutboxSyncProofs`. `NothingCollectedIsLost` holds because an answer counts as
  confirmation only once the receipt exists (`AnswersAreReceipts`), and the
  counter of attempts needs `AttemptsLeft`: whatever is about to be failed has
  attempts left. `OutboxInv` is inductive over every step, kills included.
* `CollectorShiftProofs`. Server and outbox only grow: a row keeps its order, an
  order its receipt, a note and a route do not vanish (`Grow`). `ShiftInv` says of
  every copy the device has that its claims hold of them: of the shown and the
  cached route and of the answer of a call that they tell only what was received,
  of the completed stops in memory and in storage that they point at their rows,
  of the rows last read that they are still of their orders. A step of the device
  copies such claims (`DeviceStep`, `RenderStep`), a step of the world keeps them
  true (`WorldStep`). All five properties of the shift follow, for any number of
  orders, routes, forms, notes and restarts.
* `CollectorScreensProofs`. In the form, the newest analysis is the only one
  heard, and it looks at the photos of the form (`HeardIsOfThePhotos`); what is
  being stored was put together while nothing blocked it (`PayloadStands`).
  `CamerasAreReleased` goes by cases of the stream that opens late;
  `TokensAreRedeemedOnce` holds because a token in a request is in `usedGps` and
  one acquisition at a time holds one.
* `AccountsProofs`, the collector accounts. `InvitesInv` adds to the properties
  where a code can be: what a request holds was drawn before (`InHand`), a code
  that is not in a row yet is known to one request and its key is in Redis
  (`Unwritten`, `OwnCodes`), and one that was replaced never returns to a row
  (`Discarded`, `CodesAreDrawn`). `AccountsHaveOneCollector` rests on the unique
  index, `LinksAreFinal` on the condition of the update.
* `AccountsProofs`, the sessions. A rotation holds the row of a token nobody else
  rotates and that is not revoked (`RotationHolds`), a token is revoked exactly when
  it was exchanged or signed out, and one that was exchanged during a sign-out of
  its account is in `raced` (`PairsAreLinked`), and a consumed code is with one
  request (`CodesAreSpent`). With these `RefreshedOnce`, `SignedOutForGood` and
  `HandoffsOpenOnce` are inductive.
* `AccountsProofs`, the web app. `ConsoleInv` follows a request from the browser
  into the server and back: a worker a tab waits for signs in or rotates, or is
  over (`SignsIn`, `Rotates`), and a call goes out again only after a rotation has
  revoked a token (`TabIsServed`). A step of the server leaves that true of every
  request somebody waits for (`GoesOn`), a step of a tab changes one call
  (`CallMoves`) or ends some (`EndStep`). `TokensKeptUntilRefused` follows: where the console
  clears its tokens there was a sign-out, or its refresh was refused, and what the
  server refuses it for lasts (`SpentLasts`).
* `OfficeProofs`, the payments. `PeriodsPartitionTime` is a theorem about the
  calendar: the bounds of an instant's period are those of its Monday, whatever
  the year, so every instant since 1970 is in exactly one period. `PeriodsTileTime`
  says of every year what the run enumerates for sixty: the periods `run` accepts
  are the weeks of the ISO calendar, 52 or 53 of them, and every hour is between
  the bounds of its own. From the partition, `PaymentsInv` carries what a run has
  read through its three steps (`RunsAreInPeriod`), and `NoGap`, inductive because
  a price begins where it closes another or is refused, gives with the exclusion
  constraint one price for each instant.
* `OfficeProofs`, the rest of the office. `VerdictsKeepTheirScore`: one
  collection scored alone, for a verdict, and all scored at once, for the list,
  are compared with the same earlier collections (`BatchDoesNotMatter`), so the
  two scores can differ only after an earlier one was recorded.
  `MadeUpLabelsAreFree`: the number a request made up is larger than all it read,
  if those are below 2^53 (`LabelsInv`), so that it can be taken only if something
  was registered since.
  `OutlookSaysTheTruth` and `FillsAreForetold` follow from the arithmetic of the
  forecast: rounding upwards and to the nearest, the two averages over a window
  without its empty days at the start, and the thresholds of the alert.
* `RoutePlanningProofs`. `UrgentOrdersFirst`: no order left out presses more than
  one taken, the way goes through the taken ones by their groups, and the running
  total is the sum of what is expected of them (`PlanInv`), however many orders
  there are and whatever their distances. `WarningsAreHonest`: the level compares
  the vehicle with the sum of the worst cases, each of which is at least what is
  predicted and at most the container (`AtWorstBounds`, `WorstBounds`,
  `OverCapacity`). The medians and means in between need only bounds.

The type invariants are theorems as well (`TypeCorrect`, `OutboxTypeCorrect`,
`ShiftTypeCorrect`, `EntryTypeCorrect`, `DevicesTypeCorrect`, `AccountsTypeCorrect`,
`SessionsTypeCorrect`, `PaymentsTypeCorrect`); of the stations, forms and
plans the invariants named above contain what is needed of their types. The runs
check what follows from them.

Assumed of the constants, besides sets and bounds: that the years and days whose
periods are looked at are not before 1970 (`CalendarAssumption`), where the
calendar of the model begins.

Only model-checked: `RowsGetResolved` and `CallsEnd`, because the provers know
neither fairness nor ENABLED, and the violations. Nothing proved rests on an
unproved fact.

## Not modelled

* Lock order. A transaction is one action taken at its commit, so the row locks
  it waits for are not seen; the order in which PostgreSQL takes the locks of one
  statement is not in the source, and it resolves deadlocks itself.
* The remedies for a route that can neither be completed nor cancelled, because
  its merchant was rejected.
* The approval of a merchant as a state of its own: `FieldOperations` has what a
  rejection does to orders, `BackOffice` the ward an approval assigns.
* The dashboard, reconciliation and the alerts of administrators: reads, and a
  `resolveAlert` that two administrators may both perform.
* The recommendation of a station and `priority.ts`, which computes the stored
  priority of an order; the backtest of the anomaly scores.
* The exchange with Zalo (external), decoding and compression of images, the
  picker of Zalo, telephone and maps.
* Merchant screens and the views of the administration app: they show what the
  server answers and keep nothing but forms and queries.
* Request schemas and types, which bound the inputs the actions take; start-up,
  error formatting, deployment, relays, seeds.
