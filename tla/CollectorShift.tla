--------------------------- MODULE CollectorShift ---------------------------
(***************************************************************************)
(* The shift of a collector in the mini app: CollectorFlow.tsx,            *)
(* StationDeliveryFlow.tsx, offline-cache.ts and the part of storage.ts    *)
(* that keeps the shift on the device.                                     *)
(*                                                                         *)
(* The screens combine four sources that change at their own pace: the     *)
(* route as the server last told it, the rows of the outbox as the screen  *)
(* last read them, the shift the screen remembers, and the shift stored on *)
(* the device.  The app may be killed at any time; storage and outbox stay.*)
(*                                                                         *)
(* An action is what runs from one await to the next, with the effects     *)
(* React runs because of it.  The form of one stop (scan, photos, grade)   *)
(* is in CollectionEntry, the worker that sends rows in OutboxSync and the *)
(* server in FieldOperations; here they are as coarse as the screens see   *)
(* them.  One collector on one device: nobody else changes its route.      *)
(***************************************************************************)
EXTENDS Naturals, FiniteSets

CONSTANTS
  Order,      \* orders of the collector's wards, each READY at first
  MaxRoutes,  \* bound: routes ever started
  MaxForms,   \* bound: entry forms ever opened
  MaxNotes,   \* bound: delivery notes ever drafted
  None        \* null

ASSUME ShiftAssumption == MaxRoutes \in Nat /\ MaxForms \in Nat /\ MaxNotes \in Nat

ASSUME NothingIsNone == None \notin Order \cup Nat

VARIABLES
  route,      \* server: routes and their stops
  receipt,    \* server: the client_uuid under which an order was collected
  stationed,  \* server: the delivery that took an order's transaction
  row,        \* outbox: the collection of each form
  note,       \* outbox: the delivery of each draft
  saved,      \* the shift stored on the device
  cache,      \* the route stored on the device
  kept,       \* drafts whose station receipt is stored on the device
  app,        \* what the screen holds
  call,       \* the call that starts, cancels or completes the route
  closed      \* routes whose end the screen was told

server == <<route, receipt, stationed>>
outbox == <<row, note>>
device == <<saved, cache, kept>>
shiftVars == <<server, outbox, device, app, call, closed>>

-----------------------------------------------------------------------------
Route == 1..MaxRoutes
Form == 1..MaxForms
Note == 1..MaxNotes

RouteStatus == {"none", "ACTIVE", "COMPLETED", "CANCELLED"}

(* waiting is pending or syncing.                                          *)
RowStatus == {"none", "waiting", "synced", "failed"}

NoRoute == [status |-> "none", stops |-> {}]
NoRow == [order |-> None, status |-> "none"]
NoNote == [orders |-> {}, status |-> "none"]

(* A route as the server tells it: id is null for a preview, done are the  *)
(* stops it has a transaction of, taken those a delivery has.              *)
Snapshot ==
  [id : Route \cup {None}, stops : SUBSET Order, done : SUBSET Order, taken : SUBSET Order]

NothingCompleted == [o \in Order |-> None]

Stored ==
  [completed : [Order -> Form \cup {None}], data : Snapshot \cup {None}, id : Route \cup {None},
   client : Route \cup {None}, draft : Note \cup {None}]

(* saved and submitted are the moments between the write to the outbox and *)
(* what the screen makes of it.                                            *)
Screen == {"route", "form", "saved", "review", "submitted", "receipt"}

Call == [kind : {"start", "cancel", "complete"}, ok : BOOLEAN, data : Snapshot \cup {None}]

(* client is the route that was started under the UUID of this mount, form *)
(* and order what is being entered, restored the route of the stored shift,*)
(* seen and noted the outbox as the screen last read it.                   *)
App ==
  [screen : Screen, completed : [Order -> Form \cup {None}], draft : Note \cup {None},
   started : BOOLEAN, restored : Route \cup {None}, client : Route \cup {None},
   fallback : Snapshot \cup {None}, data : Snapshot \cup {None}, form : Form \cup {None}, order : Order \cup {None},
   drafting : Note \cup {None}, seen : [Form -> [order : Order \cup {None}, status : RowStatus]],
   noted : [Note -> [orders : SUBSET Order, status : RowStatus]]]

(* A UUID nobody used.                                                     *)
Fresh(table, S) == CHOOSE n \in S : table[n].status = "none"

Full(table, S) == \A n \in S : table[n].status # "none"

-----------------------------------------------------------------------------
(* The server.                                                             *)
Active == {r \in Route : route[r].status = "ACTIVE"}

Ready(o) ==
  /\ receipt[o] = None
  /\ \A r \in Active : o \notin route[r].stops

Taken(S) == {o \in S : stationed[o] # None}

Serialized(r) ==
  LET done == {o \in route[r].stops : receipt[o] # None}
  IN [id |-> r, stops |-> route[r].stops, done |-> done, taken |-> Taken(done)]

Preview == [id |-> None, stops |-> {o \in Order : Ready(o)}, done |-> {}, taken |-> {}]

CurrentRoute == IF Active = {} THEN Preview ELSE Serialized(CHOOSE r \in Active : TRUE)

-----------------------------------------------------------------------------
(* reconcileRouteProgress, for what screen a holds.                        *)
Rows(a, o) == {f \in Form : a.seen[f].order = o}

CanUseStored(a) == a.restored = None \/ a.data.id = a.restored

FromRow(a, o) == IF Rows(a, o) = {} THEN None ELSE CHOOSE f \in Rows(a, o) : TRUE

Progress(a) ==
  [o \in Order |->
     IF o \in a.data.done THEN receipt[o]
     ELSE IF CanUseStored(a) /\ a.completed[o] # None THEN a.completed[o]
     ELSE IF o \in a.data.stops THEN FromRow(a, o)
     ELSE None]

Synced(a, o) == \E f \in Rows(a, o) : a.seen[f].status = "synced"

Confirmed(a) == {o \in Order : Progress(a)[o] # None /\ (o \in a.data.done \/ Synced(a, o))}

(* The stops the route screen lists.                                       *)
ActiveStops(a) ==
  {o \in a.data.stops \ a.data.done :
     o \in Confirmed(a) => \E f \in Rows(a, o) : a.seen[f].status # "synced"}

Entries(a) == {o \in Order : Progress(a)[o] # None}

(* getCandidates: the row is synced, or the server has a transaction that  *)
(* no delivery has.                                                        *)
Candidate(a, o) ==
  \/ \E f \in Form : f = Progress(a)[o] /\ a.seen[f].status = "synced"
  \/ o \in a.data.done \ a.data.taken

Waiting(a) == {o \in Entries(a) : ~Candidate(a, o)}

-----------------------------------------------------------------------------
(* The effects of a change of the route, the completed stops or the draft: *)
(* a route other than the restored one starts afresh, and a persisted route*)
(* is stored with the shift.                                               *)
OtherRoute(b) ==
  /\ b.data # None
  /\ b.data.id # None
  /\ b.restored \notin {None, b.data.id}
  /\ app.data = None \/ app.data.id # b.data.id

Settle(b) ==
  IF OtherRoute(b)
  THEN [b EXCEPT !.completed = NothingCompleted, !.draft = None, !.screen = "route"]
  ELSE b

(* The UUID of the route, or else of this mount.                           *)
Client(b) == IF b.data # None /\ b.data.id # None THEN b.data.id ELSE b.client

Save(b) ==
  [completed |-> b.completed, data |-> IF b.data # None /\ b.data.id # None THEN b.data ELSE None,
   id |-> IF b.data # None /\ b.data.id # None THEN b.data.id ELSE b.restored,
   client |-> Client(b), draft |-> b.draft]

Persisted(b) == b.data # None /\ b.data.id # None

(* otherwise: what storage holds when the route is not persisted.          *)
RenderOver(b, otherwise) ==
  LET c == Settle(b)
  IN /\ app' = IF Persisted(c) THEN [c EXCEPT !.started = TRUE] ELSE c
     /\ saved' = IF Persisted(c) THEN Save(c) ELSE otherwise

Render(b) == RenderOver(b, saved)

(* The app opens: the hooks of the outbox read it later.  The stored route *)
(* is kept for want of a cached one.                                       *)
Mounted(s) ==
  LET shift == IF s = None
               THEN [completed |-> NothingCompleted, data |-> None, id |-> None, client |-> None,
                     draft |-> None]
               ELSE s
  IN [screen |-> "route", completed |-> shift.completed, draft |-> shift.draft,
      started |-> shift.data # None, restored |-> shift.id, client |-> shift.client,
      fallback |-> IF cache = None THEN shift.data ELSE None, data |-> None, form |-> None, order |-> None, drafting |-> None,
      seen |-> [f \in Form |-> NoRow], noted |-> [n \in Note |-> NoNote]]

Kill ==
  /\ app # Mounted(saved)
  /\ app' = Mounted(saved)
  /\ call' = None
  /\ UNCHANGED <<server, outbox, device, closed>>

(* useOutboxRows reads the outbox after a change.                          *)
ReadOutbox ==
  /\ app.seen # row \/ app.noted # note
  /\ app' = [app EXCEPT !.seen = row, !.noted = note]
  /\ UNCHANGED <<server, outbox, device, call, closed>>

-----------------------------------------------------------------------------
(* loadRouteWithCache, by the query of the screen or by its refresh button.*)
(* A cache that cannot be written does not keep the route from the screen, *)
(* so that an older one may come back from it.                             *)
RouteArrives ==
  LET s == CurrentRoute
  IN /\ s # app.data \/ s # cache
     /\ cache' \in {s, cache}
     /\ Render([app EXCEPT !.data = s])
     /\ UNCHANGED <<server, outbox, kept, call, closed>>

(* Offline, or the server is down: the cached route, or else that of the   *)
(* restored shift.                                                         *)
RouteFromCache ==
  LET s == IF cache # None THEN cache ELSE app.fallback
  IN /\ s \notin {None, app.data}
     /\ Render([app EXCEPT !.data = s])
     /\ UNCHANGED <<server, outbox, cache, kept, call, closed>>

-----------------------------------------------------------------------------
(* startShift.  A route that is shown as persisted is not asked for again. *)
CanStart == app.screen = "route" /\ app.data # None /\ ~app.started /\ call = None

Respond(kind, ok, data) == call' = [kind |-> kind, ok |-> ok, data |-> data]

StartShown ==
  /\ CanStart
  /\ Persisted(app)
  /\ app' = [app EXCEPT !.started = TRUE]
  /\ saved' = Save(app)
  /\ cache' = app.data
  /\ UNCHANGED <<server, outbox, kept, call, closed>>

(* startRoute with the UUID of this mount: the route it started before,    *)
(* whatever became of it, or the active one, or a new one.                 *)
StartAgain ==
  /\ CanStart
  /\ ~Persisted(app)
  /\ app.client # None
  /\ IF route[app.client].status = "CANCELLED"
     THEN Respond("start", FALSE, None)
     ELSE Respond("start", TRUE, Serialized(app.client))
  /\ UNCHANGED <<server, outbox, device, app, closed>>

StartNew(S) ==
  /\ CanStart
  /\ ~Persisted(app)
  /\ app.client = None
  /\ \/ /\ Active # {}
        /\ Respond("start", TRUE, CurrentRoute)
        /\ UNCHANGED <<route, app>>
     \/ LET r == Fresh(route, Route)
        IN /\ Active = {}
           /\ ~Full(route, Route)
           /\ S # {} /\ \A o \in S : Ready(o)
           /\ route' = [route EXCEPT ![r] = [status |-> "ACTIVE", stops |-> S]]
           /\ app' = [app EXCEPT !.client = r]
           /\ Respond("start", TRUE,
                      [id |-> r, stops |-> S, done |-> {}, taken |-> {}])
  /\ UNCHANGED <<receipt, stationed, outbox, device, closed>>

Started ==
  /\ call # None
  /\ call.kind = "start"
  /\ call.ok
  /\ Render([app EXCEPT !.data = call.data])
  /\ cache' = call.data
  /\ call' = None
  /\ UNCHANGED <<server, outbox, kept, closed>>

(* The answer is a refusal, or does not come.                              *)
CallFails ==
  /\ call # None
  /\ call' = None
  /\ UNCHANGED <<server, outbox, device, app, closed>>

(* cancelShift: nothing completed, neither in memory nor on the screen.    *)
CancelShift ==
  /\ app.screen = "route"
  /\ app.started
  /\ app.data # None
  /\ app.completed = NothingCompleted
  /\ Entries(app) = {}
  /\ call = None
  /\ \/ /\ \E r \in Active :
             /\ \A o \in route[r].stops : receipt[o] = None
             /\ route' = [route EXCEPT ![r].status = "CANCELLED"]
        /\ Respond("cancel", TRUE, None)
     \/ /\ Active = {}
        /\ Respond("cancel", \E r \in Route : route[r].status = "CANCELLED", None)
        /\ UNCHANGED route
     \/ /\ \E r \in Active : \E o \in route[r].stops : receipt[o] # None
        /\ Respond("cancel", FALSE, None)
        /\ UNCHANGED route
  /\ UNCHANGED <<receipt, stationed, outbox, device, app, closed>>

(* The route stays on the screen until it is loaded again.                 *)
Cancelled ==
  /\ call # None
  /\ call.kind = "cancel"
  /\ call.ok
  /\ saved' = None
  /\ app' = [app EXCEPT !.started = FALSE]
  /\ call' = None
  /\ UNCHANGED <<server, outbox, cache, kept, closed>>

-----------------------------------------------------------------------------
(* The button of a stop is disabled while the screen knows a row of it.    *)
OpenForm(o) ==
  /\ app.screen = "route"
  /\ app.data # None
  /\ o \in ActiveStops(app)
  /\ Rows(app, o) = {}
  /\ ~Full(row, Form)
  /\ app' = [app EXCEPT !.screen = "form", !.order = o, !.form = Fresh(row, Form)]
  /\ UNCHANGED <<server, outbox, device, call, closed>>

Back_mutant ==
  /\ app.screen \in {"form", "review", "receipt"}
  /\ app' = [app EXCEPT !.order = None, !.form = None, !.drafting = None]
  /\ UNCHANGED <<server, outbox, device, call, closed>>

(* onBack of each screen.                                                  *)
Back ==
  /\ app.screen \in {"form", "review", "receipt"}
  /\ app' = [app EXCEPT !.screen = "route", !.order = None, !.form = None, !.drafting = None]
  /\ UNCHANGED <<server, outbox, device, call, closed>>

Existing_mutant(o) == {}

(* enqueueCollection looks for a row of the order before it adds one.      *)
Existing(o) == {f \in Form : row[f].order = o}

SavedUuid_mutant(o) == app.form

(* The row that was saved or found, not the form, is what was completed.   *)
SavedUuid(o) == IF Existing(o) = {} THEN app.form ELSE CHOOSE f \in Existing(o) : TRUE

EnqueueCollection ==
  LET o == app.order
  IN /\ app.screen = "form"
     /\ row' = IF Existing(o) = {}
               THEN [row EXCEPT ![app.form] = [order |-> o, status |-> "waiting"]] ELSE row
     /\ app' = [app EXCEPT !.screen = "saved", !.form = SavedUuid(o)]
     /\ UNCHANGED <<server, note, device, call, closed>>

(* onCollectionSaved stores the shift itself, for a preview as well.       *)
CollectionSaved ==
  LET b == [app EXCEPT !.completed[app.order] = app.form, !.screen = "route", !.order = None,
                       !.form = None]
  IN /\ app.screen = "saved"
     /\ RenderOver(b, Save(b))
     /\ UNCHANGED <<server, outbox, cache, kept, call, closed>>

-----------------------------------------------------------------------------
(* The worker sends a collection: the order is free, or collected already. *)
(* The answer may be lost.                                                 *)
SendCollection(f) ==
  LET o == row[f].order
      mine == receipt[o] \in {None, f}
  IN /\ row[f].status = "waiting"
     /\ receipt' = [receipt EXCEPT ![o] = IF @ = None THEN f ELSE @]
     /\ row' \in {[row EXCEPT ![f].status = IF mine THEN "synced" ELSE "failed"], row}
     /\ UNCHANGED <<route, stationed, note, device, app, call, closed>>

CollectionFails_mutant(f) ==
  /\ row[f].status = "waiting"
  /\ row' = [row EXCEPT ![f].status = "synced"]
  /\ UNCHANGED <<server, note, device, app, call, closed>>

(* Refused for its content, or never answered in ten attempts.             *)
CollectionFails(f) ==
  /\ row[f].status = "waiting"
  /\ row' = [row EXCEPT ![f].status = "failed"]
  /\ UNCHANGED <<server, note, device, app, call, closed>>

RetryCollection(f) ==
  /\ row[f].status = "failed"
  /\ row' = [row EXCEPT ![f].status = "waiting"]
  /\ UNCHANGED <<server, note, device, app, call, closed>>

(* A delivery takes transactions the server has and no other delivery has. *)
SendDelivery(n) ==
  LET ok == \A o \in note[n].orders : receipt[o] # None /\ stationed[o] \in {None, n}
  IN /\ note[n].status = "waiting"
     /\ stationed' = [o \in Order |-> IF ok /\ o \in note[n].orders THEN n ELSE stationed[o]]
     /\ note' \in {[note EXCEPT ![n].status = IF ok THEN "synced" ELSE "failed"], note}
     /\ UNCHANGED <<route, receipt, row, device, app, call, closed>>

(* The station is full, say.                                               *)
DeliveryFails(n) ==
  /\ note[n].status = "waiting"
  /\ note' = [note EXCEPT ![n].status = "failed"]
  /\ UNCHANGED <<server, row, device, app, call, closed>>

RetryDelivery ==
  /\ app.screen = "receipt"
  /\ app.draft # None
  /\ app.noted[app.draft].status = "failed"
  /\ note[app.draft].status = "failed"
  /\ note' = [note EXCEPT ![app.draft].status = "waiting"]
  /\ UNCHANGED <<server, row, device, app, call, closed>>

-----------------------------------------------------------------------------
(* From the summary, which needs a confirmed collection, to the delivery.  *)
CanDeliver == app.screen = "route" /\ app.data # None /\ Confirmed(app) # {}

(* Stations are looked for once nothing waits.                             *)
ChooseStation ==
  /\ CanDeliver
  /\ app.draft = None
  /\ Waiting(app) = {}
  /\ ~Full(note, Note)
  /\ app' = [app EXCEPT !.screen = "review", !.drafting = Fresh(note, Note)]
  /\ UNCHANGED <<server, outbox, device, call, closed>>

EnqueueDelivery ==
  /\ app.screen = "review"
  /\ app.data # None
  /\ note' = [note EXCEPT ![app.drafting] =
                [orders |-> {o \in Entries(app) : Candidate(app, o)}, status |-> "waiting"]]
  /\ app' = [app EXCEPT !.screen = "submitted"]
  /\ UNCHANGED <<server, row, device, call, closed>>

Submitted_mutant == app.screen \in {"review", "submitted"}

Submitted == app.screen = "submitted"

(* onSubmitted: the draft is stored with the shift.                        *)
DeliverySubmitted ==
  /\ Submitted
  /\ Render([app EXCEPT !.draft = app.drafting, !.drafting = None, !.screen = "receipt"])
  /\ UNCHANGED <<server, outbox, cache, kept, call, closed>>

OpenReceipt ==
  /\ CanDeliver
  /\ app.draft # None
  /\ app' = [app EXCEPT !.screen = "receipt"]
  /\ UNCHANGED <<server, outbox, device, call, closed>>

Answered == app.draft # None /\ app.noted[app.draft].status = "synced"

PersistReceipt ==
  /\ app.screen = "receipt"
  /\ Answered
  /\ app.draft \notin kept
  /\ kept' = kept \cup {app.draft}
  /\ UNCHANGED <<server, outbox, saved, cache, app, call, closed>>

-----------------------------------------------------------------------------
CanClose_mutant == Answered

(* closeOut awaits persistReceipt.                                         *)
CanClose == Answered /\ app.draft \in kept

(* finishShift: completeRoute ends the route, or finds it ended before.    *)
CompleteRoute ==
  LET pending == \E r \in Active : \E o \in route[r].stops : receipt[o] = None
      ended == \E r \in Route : route[r].status = "COMPLETED"
      ok == IF Active # {} THEN ~pending ELSE ended
  IN /\ app.screen = "receipt"
     /\ CanClose
     /\ call = None
     /\ Persisted(app)
     /\ Respond("complete", ok, None)
     /\ route' = IF ok THEN [r \in Route |-> IF r \in Active THEN [route[r] EXCEPT !.status = "COMPLETED"]
                                             ELSE route[r]] ELSE route
     /\ UNCHANGED <<receipt, stationed, outbox, device, app, closed>>

Fresher(b) == [b EXCEPT !.completed = NothingCompleted, !.draft = None, !.started = FALSE,
                        !.screen = "route"]

(* The effects that follow store the route again that is still shown.      *)
FinishShift ==
  /\ \/ call # None /\ call.kind = "complete" /\ call.ok
     \/ app.screen = "receipt" /\ CanClose /\ call = None /\ ~Persisted(app)
  /\ RenderOver(Fresher(app), None)
  /\ call' = None
  /\ closed' = IF Persisted(app) THEN closed \cup {app.data.id} ELSE closed
  /\ UNCHANGED <<server, outbox, cache, kept>>

-----------------------------------------------------------------------------
ShiftInit ==
  /\ route = [r \in Route |-> NoRoute]
  /\ receipt = [o \in Order |-> None]
  /\ stationed = [o \in Order |-> None]
  /\ row = [f \in Form |-> NoRow]
  /\ note = [n \in Note |-> NoNote]
  /\ saved = None
  /\ cache = None
  /\ kept = {}
  /\ app = Mounted(None)
  /\ call = None
  /\ closed = {}

Worker ==
  \/ \E f \in Form : SendCollection(f) \/ CollectionFails(f) \/ RetryCollection(f)
  \/ \E n \in Note : SendDelivery(n) \/ DeliveryFails(n)

ShowRoute == RouteArrives \/ RouteFromCache

ChangeShift ==
  \/ StartShown
  \/ StartAgain
  \/ \E S \in SUBSET Order : StartNew(S)
  \/ Started
  \/ CancelShift
  \/ Cancelled
  \/ CompleteRoute
  \/ FinishShift
  \/ CallFails

CollectStop == (\E o \in Order : OpenForm(o)) \/ EnqueueCollection \/ CollectionSaved

Deliver ==
  \/ ChooseStation
  \/ EnqueueDelivery
  \/ DeliverySubmitted
  \/ OpenReceipt
  \/ PersistReceipt
  \/ RetryDelivery

ShiftNext ==
  \/ Kill
  \/ ReadOutbox
  \/ ShowRoute
  \/ ChangeShift
  \/ CollectStop
  \/ Deliver
  \/ Back
  \/ Worker

ShiftSpec == ShiftInit /\ [][ShiftNext]_shiftVars

-----------------------------------------------------------------------------
(* Types; what is being entered has a form, a draft or neither.            *)
ShiftTypeOK ==
  /\ route \in [Route -> [status : RouteStatus, stops : SUBSET Order]]
  /\ receipt \in [Order -> Form \cup {None}]
  /\ stationed \in [Order -> Note \cup {None}]
  /\ row \in [Form -> [order : Order \cup {None}, status : RowStatus]]
  /\ note \in [Note -> [orders : SUBSET Order, status : RowStatus]]
  /\ saved \in Stored \cup {None}
  /\ cache \in Snapshot \cup {None}
  /\ kept \subseteq Note
  /\ app \in App
  /\ call \in Call \cup {None}
  /\ closed \subseteq Route
  /\ app.screen \in {"form", "saved"} => app.form # None /\ app.order # None
  /\ app.screen \in {"review", "submitted"} => app.drafting # None

(* However often the form of a stop is opened, left, killed and opened     *)
(* again before the screen knows of its row, the outbox has one collection *)
(* of an order (OpenForm's stale rows, enqueueCollectionOnce).             *)
OneRowPerOrder == \A f, g \in Form : row[f].order # None /\ row[f].order = row[g].order => f = g

(* Whatever the screen counts as completed is in the outbox or at the      *)
(* server, after any restart and any stale route: an entry without either  *)
(* would wait for ever and keep the shift from being delivered             *)
(* (onCollectionSaved, reconcileRouteProgress, getCandidates).             *)
EntriesAreRecorded ==
  \A o \in Order : app.data # None /\ Progress(app)[o] # None =>
    row[Progress(app)[o]].order = o

(* A draft that survives a reload has its delivery in the outbox: the      *)
(* receipt never waits for a delivery nobody sends (submit, onSubmitted).  *)
DraftHasDelivery ==
  /\ app.draft # None => note[app.draft].status # "none"
  /\ saved # None /\ saved.draft # None => note[saved.draft].status # "none"

(* A delivery names only transactions the server has, however stale the    *)
(* route and the rows on the screen are (getCandidates).                   *)
DeliversReceived == \A n \in Note : \A o \in note[n].orders : receipt[o] # None

(* A shift the screen has closed is over at the server, which has collected*)
(* all its stops unless it was cancelled before, and the receipt of a      *)
(* delivery is kept on the device (closeOut, completeRoute).  A route that *)
(* was cancelled may come back from a cache that could not be written and  *)
(* is closed along with the one that followed it.                          *)
ClosedShiftIsSettled ==
  \A r \in closed :
    /\ route[r].status \in {"COMPLETED", "CANCELLED"}
    /\ route[r].status = "COMPLETED" => \A o \in route[r].stops : receipt[o] # None
    /\ kept # {}

(* "không nộp lại giao dịch đã thuộc phiếu trạm": no transaction is in two *)
(* delivery notes.                                                         *)
DeliveredOnce == \A m, n \in Note : m # n => note[m].orders \cap note[n].orders = {}
=============================================================================
