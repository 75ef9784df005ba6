------------------------ MODULE CollectorShiftProofs ------------------------
(***************************************************************************)
(* Proofs about CollectorShift, for any number of orders, routes, forms    *)
(* and delivery notes, however often the app is killed and whatever it     *)
(* shows.                                                                  *)
(*                                                                         *)
(* The inductive invariant says of every copy the device has (the route it *)
(* shows, the one in the cache, the stored shift, the rows it last read)   *)
(* that what the copy claims still holds of the server and of the outbox.  *)
(* That is so because those only grow: a row keeps its order, an order its *)
(* receipt, a note and a route do not vanish.  Below, r are the rows, n    *)
(* the notes, c the receipts and t the routes a copy is held against.      *)
(***************************************************************************)
EXTENDS CollectorShift, TLAPS

KnownOK(x, t) == x # None => t[x].status # "none"

SnapOK(s, c, t) ==
  s # None =>
    /\ KnownOK(s.id, t)
    /\ \A o \in s.done : c[o] # None

DoneOK(d, r) == \A o \in Order : d[o] # None => r[d[o]].order = o

DraftOK(d, n) == d # None => n[d].status # "none"

StoredOK(s, r, n, c, t) ==
  s # None =>
    DoneOK(s.completed, r) /\ SnapOK(s.data, c, t) /\ KnownOK(s.client, t) /\ DraftOK(s.draft, n)

SeenOK(seen, r, c) ==
  \A f \in Form :
    /\ seen[f].order # None => r[f].order = seen[f].order
    /\ seen[f].status = "synced" => seen[f].order # None /\ c[seen[f].order] # None

ScreenOK(a, r, n) ==
  /\ a.screen = "form" => a.form # None /\ a.order # None /\ r[a.form].order = None
  /\ a.screen = "saved" => a.form # None /\ a.order # None /\ r[a.form].order = a.order
  /\ a.screen \in {"review", "submitted"} => a.drafting # None
  /\ a.screen = "submitted" => n[a.drafting].status # "none"

AppOK(a, r, n, c, t) ==
  /\ DoneOK(a.completed, r)
  /\ SnapOK(a.data, c, t)
  /\ SnapOK(a.fallback, c, t)
  /\ KnownOK(a.client, t)
  /\ DraftOK(a.draft, n)
  /\ SeenOK(a.seen, r, c)
  /\ ScreenOK(a, r, n)

CallOK(k, c, t, receipts) ==
  k # None =>
    /\ SnapOK(k.data, c, t)
    /\ k.kind = "complete" /\ k.ok => receipts # {} /\ \A r \in Route : t[r].status # "ACTIVE"

(* Rows and receipts are of each other, notes of what was received, and a  *)
(* completed route has been collected.                                     *)
TablesOK(r, n, c, t) ==
  /\ \A f \in Form : /\ r[f].order # None => r[f].status # "none"
                     /\ r[f].status # "none" => r[f].order # None
                     /\ r[f].status = "synced" => c[r[f].order] # None
  /\ \A o \in Order : c[o] # None => r[c[o]].order = o
  /\ \A k \in Note : \A o \in n[k].orders : c[o] # None
  /\ \A s \in Route : t[s].status = "COMPLETED" => \A o \in t[s].stops : c[o] # None

ClosedOK(s, t, receipts) ==
  \A r \in s : t[r].status \in {"COMPLETED", "CANCELLED"} /\ receipts # {}

ShiftInv ==
  /\ ShiftTypeOK
  /\ OneRowPerOrder
  /\ TablesOK(row, note, receipt, route)
  /\ AppOK(app, row, note, receipt, route)
  /\ SnapOK(cache, receipt, route)
  /\ StoredOK(saved, row, note, receipt, route)
  /\ CallOK(call, receipt, route, kept)
  /\ ClosedOK(closed, route, kept)

-----------------------------------------------------------------------------
(* What the tables and the copies are, one fact at a time.                 *)
LEMMA Typed ==
  ASSUME ShiftInv
  PROVE  /\ row \in [Form -> [order : Order \cup {None}, status : RowStatus]]
         /\ note \in [Note -> [orders : SUBSET Order, status : RowStatus]]
         /\ receipt \in [Order -> Form \cup {None}]
         /\ route \in [Route -> [status : RouteStatus, stops : SUBSET Order]]
         /\ stationed \in [Order -> Note \cup {None}]
         /\ app \in App /\ saved \in Stored \cup {None} /\ cache \in Snapshot \cup {None}
         /\ call \in Call \cup {None} /\ kept \subseteq Note /\ closed \subseteq Route
BY DEF ShiftInv, ShiftTypeOK

(* The screen and what is stored change, server and outbox do not.         *)
LEMMA DeviceStep ==
  ASSUME ShiftInv, UNCHANGED <<server, outbox>>,
         app' \in App, AppOK(app', row, note, receipt, route),
         saved' \in Stored \cup {None}, StoredOK(saved', row, note, receipt, route),
         cache' \in Snapshot \cup {None}, SnapOK(cache', receipt, route),
         kept \subseteq kept', kept' \subseteq Note,
         call' \in Call \cup {None}, CallOK(call', receipt, route, kept'),
         closed' \subseteq Route, ClosedOK(closed', route, kept')
  PROVE  ShiftInv'
<1>1. /\ row' = row /\ note' = note /\ receipt' = receipt /\ route' = route
      /\ stationed' = stationed
  BY DEF server, outbox
<1>2. ShiftTypeOK'
  BY <1>1 DEF ShiftInv, ShiftTypeOK, AppOK, ScreenOK
<1>3. OneRowPerOrder'
  BY <1>1 DEF ShiftInv, OneRowPerOrder
<1>4. TablesOK(row', note', receipt', route')
  BY <1>1 DEF ShiftInv
<1> QED BY <1>1, <1>2, <1>3, <1>4 DEF ShiftInv

(* The tables grow and the screen with them; what the device keeps stays   *)
(* true of them.                                                           *)
Grow ==
  /\ \A f \in Form : row[f].order # None => row'[f].order = row[f].order
  /\ \A k \in Note : note[k].status # "none" => note'[k].status # "none"
  /\ \A o \in Order : receipt[o] # None => receipt'[o] # None
  /\ \A r \in Route : route[r].status # "none" => route'[r].status # "none"

LEMMA SnapGrows ==
  ASSUME Grow, NEW s \in Snapshot \cup {None}, SnapOK(s, receipt, route)
  PROVE  SnapOK(s, receipt', route')
BY DEF Grow, SnapOK, KnownOK, Snapshot

LEMMA DoneGrows ==
  ASSUME Grow, NEW d \in [Order -> Form \cup {None}], DoneOK(d, row)
  PROVE  DoneOK(d, row')
BY NothingIsNone DEF Grow, DoneOK

LEMMA StoredGrows ==
  ASSUME Grow, NEW s \in Stored \cup {None}, StoredOK(s, row, note, receipt, route)
  PROVE  StoredOK(s, row', note', receipt', route')
<1> SUFFICES ASSUME s # None
             PROVE  /\ DoneOK(s.completed, row') /\ SnapOK(s.data, receipt', route')
                    /\ KnownOK(s.client, route') /\ DraftOK(s.draft, note')
  BY DEF StoredOK
<1>1. s.completed \in [Order -> Form \cup {None}] /\ s.data \in Snapshot \cup {None}
      /\ s.draft \in Note \cup {None} /\ s.client \in Route \cup {None}
  BY DEF Stored
<1>2. /\ DoneOK(s.completed, row) /\ SnapOK(s.data, receipt, route)
      /\ KnownOK(s.client, route) /\ DraftOK(s.draft, note)
  BY DEF StoredOK
<1>3. DraftOK(s.draft, note') /\ KnownOK(s.client, route')
  BY <1>1, <1>2 DEF DraftOK, KnownOK, Grow
<1> QED BY <1>1, <1>2, <1>3, DoneGrows, SnapGrows

(* The screen stays as it is, or goes where it may.                        *)
LEMMA AppGrows ==
  ASSUME Grow, NEW a \in App, AppOK(a, row, note, receipt, route),
         a.screen = "form" => row'[a.form].order = None
  PROVE  AppOK(a, row', note', receipt', route')
<1>1. /\ a.completed \in [Order -> Form \cup {None}] /\ a.data \in Snapshot \cup {None}
      /\ a.fallback \in Snapshot \cup {None} /\ a.draft \in Note \cup {None}
      /\ a.drafting \in Note \cup {None} /\ a.form \in Form \cup {None} /\ a.order \in Order \cup {None}
      /\ a.client \in Route \cup {None} /\ \A f \in Form : a.seen[f].order \in Order \cup {None}
  BY DEF App
<1>2. DoneOK(a.completed, row') /\ SnapOK(a.data, receipt', route') /\ SnapOK(a.fallback, receipt', route')
  BY <1>1, DoneGrows, SnapGrows DEF AppOK
<1>3. DraftOK(a.draft, note') /\ KnownOK(a.client, route')
  BY <1>1 DEF AppOK, DraftOK, KnownOK, Grow
<1>4. SeenOK(a.seen, row', receipt')
  <2> SUFFICES ASSUME NEW f \in Form
               PROVE  /\ a.seen[f].order # None => row'[f].order = a.seen[f].order
                      /\ a.seen[f].status = "synced" =>
                           a.seen[f].order # None /\ receipt'[a.seen[f].order] # None
    BY DEF SeenOK
  <2>1. /\ a.seen[f].order # None => row[f].order = a.seen[f].order
        /\ a.seen[f].status = "synced" =>
             a.seen[f].order # None /\ receipt[a.seen[f].order] # None
    BY DEF AppOK, SeenOK
  <2> QED BY <1>1, <2>1 DEF Grow
<1>5. ScreenOK(a, row', note')
  BY <1>1, NothingIsNone DEF AppOK, ScreenOK, Grow
<1> QED BY <1>2, <1>3, <1>4, <1>5 DEF AppOK

(* Server and outbox change, what the device keeps does not.               *)
LEMMA WorldStep ==
  ASSUME ShiftInv, Grow, UNCHANGED <<device, closed>>,
         row' \in [Form -> [order : Order \cup {None}, status : RowStatus]],
         note' \in [Note -> [orders : SUBSET Order, status : RowStatus]],
         receipt' \in [Order -> Form \cup {None}],
         route' \in [Route -> [status : RouteStatus, stops : SUBSET Order]],
         stationed' \in [Order -> Note \cup {None}],
         \A r \in Route : route[r].status \in {"COMPLETED", "CANCELLED"} => route'[r].status = route[r].status,
         TablesOK(row', note', receipt', route'), OneRowPerOrder',
         app' \in App, AppOK(app', row', note', receipt', route'),
         call' \in Call \cup {None}, CallOK(call', receipt', route', kept)
  PROVE  ShiftInv'
<1>1. saved' = saved /\ cache' = cache /\ kept' = kept /\ closed' = closed
  BY DEF device
<1>2. SnapOK(cache', receipt', route') /\ StoredOK(saved', row', note', receipt', route')
  BY <1>1, Typed, SnapGrows, StoredGrows DEF ShiftInv
<1>3. ClosedOK(closed', route', kept')
  BY <1>1, Typed DEF ShiftInv, ClosedOK
<1>4. ShiftTypeOK'
  BY <1>1 DEF ShiftInv, ShiftTypeOK, AppOK, ScreenOK
<1> QED BY <1>1, <1>2, <1>3, <1>4 DEF ShiftInv

-----------------------------------------------------------------------------
(* What the screen computes from what it holds.                            *)
LEMMA StartedTyped ==
  \A a \in App, b \in BOOLEAN :
    LET s == [a EXCEPT !.started = b]
    IN /\ s \in App
       /\ s.completed = a.completed /\ s.data = a.data /\ s.fallback = a.fallback /\ s.draft = a.draft
       /\ s.seen = a.seen /\ s.screen = a.screen /\ s.form = a.form /\ s.order = a.order
       /\ s.drafting = a.drafting /\ s.restored = a.restored /\ s.client = a.client
BY DEF App

(* Only what it says about, and not the other fields, matters to AppOK.    *)
LEMMA SameApp ==
  ASSUME NEW a, NEW b, NEW r, NEW n, NEW c, NEW t, AppOK(a, r, n, c, t),
         b.completed = a.completed, b.data = a.data, b.fallback = a.fallback, b.draft = a.draft,
         b.seen = a.seen, b.screen = a.screen, b.form = a.form, b.order = a.order,
         b.drafting = a.drafting, b.client = a.client
  PROVE  AppOK(b, r, n, c, t)
BY DEF AppOK, ScreenOK

LEMMA SettleOK ==
  ASSUME NEW b \in App, AppOK(b, row, note, receipt, route)
  PROVE  Settle(b) \in App /\ AppOK(Settle(b), row, note, receipt, route)
<1> DEFINE d == [b EXCEPT !.completed = NothingCompleted, !.draft = None, !.screen = "route"]
<1>1. /\ d \in App
      /\ d.completed = NothingCompleted /\ d.data = b.data /\ d.fallback = b.fallback /\ d.draft = None
      /\ d.seen = b.seen /\ d.screen = "route" /\ d.client = b.client
  BY DEF App, NothingCompleted, Screen
<1>2. DoneOK(d.completed, row) /\ DraftOK(d.draft, note) /\ ScreenOK(d, row, note)
  BY <1>1 DEF DoneOK, DraftOK, ScreenOK, NothingCompleted
<1>3. AppOK(d, row, note, receipt, route)
  BY <1>1, <1>2 DEF AppOK
<1> QED BY <1>1, <1>3 DEF Settle

LEMMA SaveOK ==
  ASSUME NEW b \in App, AppOK(b, row, note, receipt, route)
  PROVE  Save(b) \in Stored /\ StoredOK(Save(b), row, note, receipt, route)
<1>1. /\ b.completed \in [Order -> Form \cup {None}] /\ b.data \in Snapshot \cup {None}
      /\ b.draft \in Note \cup {None} /\ b.restored \in Route \cup {None} /\ b.client \in Route \cup {None}
  BY DEF App
<1>2. b.data # None /\ b.data.id # None => b.data.id \in Route
  BY <1>1 DEF Snapshot
<1>3. Client(b) \in Route \cup {None}
  BY <1>1, <1>2 DEF Client
<1>4. /\ Save(b).completed = b.completed /\ Save(b).draft = b.draft /\ Save(b).client = Client(b)
      /\ Save(b).data \in {b.data, None}
      /\ Save(b) \in Stored
  BY <1>1, <1>2, <1>3 DEF Save, Stored
<1>5. SnapOK(Save(b).data, receipt, route) /\ KnownOK(Client(b), route)
  BY <1>4 DEF AppOK, SnapOK, Client
<1> QED BY <1>4, <1>5 DEF AppOK, StoredOK

LEMMA RenderStep ==
  ASSUME NEW b \in App, AppOK(b, row, note, receipt, route),
         NEW otherwise \in Stored \cup {None}, StoredOK(otherwise, row, note, receipt, route),
         RenderOver(b, otherwise)
  PROVE  /\ app' \in App /\ AppOK(app', row, note, receipt, route)
         /\ saved' \in Stored \cup {None} /\ StoredOK(saved', row, note, receipt, route)
<1> DEFINE c == Settle(b)
<1>1. c \in App /\ AppOK(c, row, note, receipt, route)
  BY SettleOK
<1>2. /\ app' = IF Persisted(c) THEN [c EXCEPT !.started = TRUE] ELSE c
      /\ saved' = IF Persisted(c) THEN Save(c) ELSE otherwise
  BY DEF RenderOver
<1> HIDE DEF c
<1>3. [c EXCEPT !.started = TRUE] \in App /\ AppOK([c EXCEPT !.started = TRUE], row, note, receipt, route)
  BY <1>1, StartedTyped, SameApp
<1> QED BY <1>1, <1>2, <1>3, SaveOK

(* What the server tells of a route is true.                               *)
LEMMA SerializedOK ==
  ASSUME ShiftInv, NEW r \in Route, route[r].status # "none"
  PROVE  Serialized(r) \in Snapshot /\ SnapOK(Serialized(r), receipt, route)
BY Typed DEF Serialized, Taken, Snapshot, SnapOK, KnownOK

LEMMA CurrentRouteOK ==
  ASSUME ShiftInv
  PROVE  CurrentRoute \in Snapshot /\ SnapOK(CurrentRoute, receipt, route)
<1>1. CASE Active = {}
  <2>1. CurrentRoute = Preview
    BY <1>1 DEF CurrentRoute
  <2>2. Preview \in Snapshot /\ Preview.id = None /\ Preview.done = {}
    BY DEF Preview, Snapshot
  <2> QED BY <2>1, <2>2 DEF SnapOK, KnownOK
<1>2. CASE Active # {}
  <2> DEFINE r == CHOOSE r \in Active : TRUE
  <2>1. r \in Active /\ CurrentRoute = Serialized(r)
    BY <1>2 DEF CurrentRoute
  <2> HIDE DEF r
  <2>2. r \in Route /\ route[r].status # "none"
    BY <2>1 DEF Active
  <2> QED BY <2>1, <2>2, SerializedOK
<1> QED BY <1>1, <1>2

(* Whatever the screen counts as completed is in the outbox.               *)
LEMMA ProgressOK ==
  ASSUME ShiftInv, NEW o \in Order, Progress(app)[o] # None
  PROVE  Progress(app)[o] \in Form /\ row[Progress(app)[o]].order = o
<1>1. Progress(app)[o] = IF o \in app.data.done THEN receipt[o]
        ELSE IF CanUseStored(app) /\ app.completed[o] # None THEN app.completed[o]
        ELSE IF o \in app.data.stops THEN FromRow(app, o)
        ELSE None
  BY DEF Progress
<1>2. CASE Progress(app)[o] = receipt[o]
  BY <1>2, Typed DEF ShiftInv, TablesOK
<1>3. CASE Progress(app)[o] = app.completed[o]
  <2>1. app.completed \in [Order -> Form \cup {None}] /\ DoneOK(app.completed, row)
    BY Typed DEF App, ShiftInv, AppOK
  <2> QED BY <1>3, <2>1 DEF DoneOK
<1>4. CASE Progress(app)[o] = FromRow(app, o)
  <2>1. FromRow(app, o) \in Rows(app, o)
    BY <1>4 DEF FromRow
  <2>2. SeenOK(app.seen, row, receipt)
    BY DEF ShiftInv, AppOK
  <2> QED BY <1>4, <2>1, <2>2, NothingIsNone DEF Rows, SeenOK
<1> QED BY <1>1, <1>2, <1>3, <1>4

-----------------------------------------------------------------------------
(* The app opens, reads the outbox and shows a route.                      *)
LEMMA KillStep ==
  ASSUME ShiftInv, Kill
  PROVE  ShiftInv'
<1> DEFINE m == Mounted(saved)
           shift == IF saved = None
                    THEN [completed |-> NothingCompleted, data |-> None, id |-> None, client |-> None,
                          draft |-> None]
                    ELSE saved
<1>1. shift \in Stored
  BY Typed DEF Stored, NothingCompleted
<1>2. /\ DoneOK(shift.completed, row) /\ SnapOK(shift.data, receipt, route)
      /\ KnownOK(shift.client, route) /\ DraftOK(shift.draft, note)
  <2>1. saved # None => StoredOK(saved, row, note, receipt, route)
    BY DEF ShiftInv
  <2>2. \A o \in Order : NothingCompleted[o] = None
    BY DEF NothingCompleted
  <2> QED BY <2>1, <2>2 DEF StoredOK, DoneOK, SnapOK, KnownOK, DraftOK
<1>3. /\ m = [screen |-> "route", completed |-> shift.completed, draft |-> shift.draft,
              started |-> shift.data # None, restored |-> shift.id, client |-> shift.client,
              fallback |-> IF cache = None THEN shift.data ELSE None, data |-> None, form |-> None,
              order |-> None, drafting |-> None,
              seen |-> [f \in Form |-> NoRow], noted |-> [k \in Note |-> NoNote]]
  BY DEF Mounted
<1> HIDE DEF shift, m
<1>4. /\ shift.completed \in [Order -> Form \cup {None}] /\ shift.data \in Snapshot \cup {None}
      /\ shift.id \in Route \cup {None} /\ shift.client \in Route \cup {None}
      /\ shift.draft \in Note \cup {None}
  BY <1>1 DEF Stored
<1>5. m \in App
  <2>1. [f \in Form |-> NoRow] \in [Form -> [order : Order \cup {None}, status : RowStatus]]
    BY DEF NoRow, RowStatus
  <2>2. [k \in Note |-> NoNote] \in [Note -> [orders : SUBSET Order, status : RowStatus]]
    BY DEF NoNote, RowStatus
  <2>3. (shift.data # None) \in BOOLEAN
    OBVIOUS
  <2> QED BY <1>3, <1>4, <2>1, <2>2, <2>3 DEF App, Screen
<1>6. /\ m.completed = shift.completed /\ m.data = None /\ m.fallback \in {shift.data, None}
      /\ m.draft = shift.draft /\ m.screen = "route" /\ m.client = shift.client
      /\ \A f \in Form : m.seen[f].order = None /\ m.seen[f].status = "none"
  BY <1>3 DEF NoRow
<1>7. AppOK(m, row, note, receipt, route)
  BY <1>2, <1>6 DEF AppOK, SnapOK, SeenOK, ScreenOK
<1>8. app' = m /\ call' = None /\ UNCHANGED <<server, outbox, device, closed>>
  BY DEF Kill, m
<1> QED BY <1>5, <1>7, <1>8, Typed, DeviceStep DEF ShiftInv, device, CallOK

LEMMA ReadOutboxStep ==
  ASSUME ShiftInv, ReadOutbox
  PROVE  ShiftInv'
<1> DEFINE a == [app EXCEPT !.seen = row, !.noted = note]
<1>1. /\ a \in App
      /\ a.completed = app.completed /\ a.data = app.data /\ a.fallback = app.fallback
      /\ a.draft = app.draft /\ a.seen = row /\ a.screen = app.screen /\ a.form = app.form
      /\ a.order = app.order /\ a.drafting = app.drafting /\ a.client = app.client
  BY Typed DEF App
<1>2. SeenOK(row, row, receipt)
  BY DEF SeenOK, ShiftInv, TablesOK
<1>3. AppOK(a, row, note, receipt, route)
  BY <1>1, <1>2 DEF ShiftInv, AppOK, ScreenOK
<1>4. app' = a /\ UNCHANGED <<server, outbox, device, call, closed>>
  BY DEF ReadOutbox
<1> HIDE DEF a
<1> QED BY <1>1, <1>3, <1>4, Typed, DeviceStep DEF ShiftInv, device

(* Another route is shown.                                                 *)
LEMMA DataOK ==
  ASSUME ShiftInv, NEW s \in Snapshot \cup {None}, SnapOK(s, receipt, route)
  PROVE  [app EXCEPT !.data = s] \in App /\ AppOK([app EXCEPT !.data = s], row, note, receipt, route)
<1> DEFINE a == [app EXCEPT !.data = s]
<1>1. /\ a \in App
      /\ a.completed = app.completed /\ a.data = s /\ a.fallback = app.fallback
      /\ a.draft = app.draft /\ a.seen = app.seen /\ a.screen = app.screen /\ a.form = app.form
      /\ a.order = app.order /\ a.drafting = app.drafting /\ a.client = app.client
  BY Typed DEF App
<1> HIDE DEF a
<1>2. AppOK(a, row, note, receipt, route)
  BY <1>1 DEF ShiftInv, AppOK, ScreenOK
<1> QED BY <1>1, <1>2 DEF a

LEMMA ShowRouteStep ==
  ASSUME ShiftInv, ShowRoute
  PROVE  ShiftInv'
<1>1. CASE RouteArrives
  <2>1. CurrentRoute \in Snapshot /\ SnapOK(CurrentRoute, receipt, route)
    BY CurrentRouteOK
  <2>2. /\ cache' \in {CurrentRoute, cache} /\ Render([app EXCEPT !.data = CurrentRoute])
        /\ UNCHANGED <<server, outbox, kept, call, closed>>
    BY <1>1 DEF RouteArrives
  <2>3. /\ app' \in App /\ AppOK(app', row, note, receipt, route)
        /\ saved' \in Stored \cup {None} /\ StoredOK(saved', row, note, receipt, route)
    BY <2>1, <2>2, Typed, DataOK, RenderStep DEF Render, ShiftInv
  <2> QED BY <2>1, <2>2, <2>3, Typed, DeviceStep DEF ShiftInv
<1>2. CASE RouteFromCache
  <2> DEFINE s == IF cache # None THEN cache ELSE app.fallback
  <2>1. /\ s # None /\ Render([app EXCEPT !.data = s])
        /\ UNCHANGED <<server, outbox, cache, kept, call, closed>>
    BY <1>2 DEF RouteFromCache
  <2>2. app.fallback \in Snapshot \cup {None} /\ SnapOK(app.fallback, receipt, route)
    BY Typed DEF App, ShiftInv, AppOK
  <2>3. s \in Snapshot /\ SnapOK(s, receipt, route)
    BY <2>1, <2>2, Typed DEF ShiftInv
  <2> HIDE DEF s
  <2>4. /\ app' \in App /\ AppOK(app', row, note, receipt, route)
        /\ saved' \in Stored \cup {None} /\ StoredOK(saved', row, note, receipt, route)
    BY <2>1, <2>3, Typed, DataOK, RenderStep DEF Render, ShiftInv
  <2> QED BY <2>1, <2>4, Typed, DeviceStep DEF ShiftInv
<1> QED BY <1>1, <1>2 DEF ShowRoute

-----------------------------------------------------------------------------
(* The shift is started, cancelled and closed.                             *)
LEMMA RespondTyped ==
  ASSUME NEW kind \in {"start", "cancel", "complete"}, NEW ok \in BOOLEAN,
         NEW data \in Snapshot \cup {None}, Respond(kind, ok, data)
  PROVE  /\ call' \in Call /\ call'.kind = kind /\ call'.ok = ok /\ call'.data = data
BY DEF Respond, Call

LEMMA StartShownStep ==
  ASSUME ShiftInv, StartShown
  PROVE  ShiftInv'
<1>1. /\ app' = [app EXCEPT !.started = TRUE] /\ saved' = Save(app) /\ cache' = app.data
      /\ app.data # None /\ UNCHANGED <<server, outbox, kept, call, closed>>
  BY DEF StartShown, CanStart
<1>2. app' \in App /\ AppOK(app', row, note, receipt, route)
  BY <1>1, Typed, StartedTyped, SameApp DEF ShiftInv
<1>3. saved' \in Stored /\ StoredOK(saved', row, note, receipt, route)
  BY <1>1, Typed, SaveOK DEF ShiftInv
<1>4. cache' \in Snapshot \cup {None} /\ SnapOK(cache', receipt, route)
  BY <1>1, Typed DEF App, ShiftInv, AppOK
<1> QED BY <1>1, <1>2, <1>3, <1>4, Typed, DeviceStep DEF ShiftInv

LEMMA CallStep ==
  ASSUME ShiftInv, UNCHANGED <<server, outbox, device, app, closed>>,
         call' \in Call \cup {None}, CallOK(call', receipt, route, kept)
  PROVE  ShiftInv'
BY Typed, DeviceStep DEF ShiftInv, device

LEMMA StartAgainStep ==
  ASSUME ShiftInv, StartAgain
  PROVE  ShiftInv'
<1>1. app.client \in Route /\ route[app.client].status # "none"
  BY Typed DEF StartAgain, App, ShiftInv, AppOK, KnownOK
<1>2. Serialized(app.client) \in Snapshot /\ SnapOK(Serialized(app.client), receipt, route)
  BY <1>1, SerializedOK
<1>3. call' \in Call /\ call'.kind = "start" /\ call'.data \in {None, Serialized(app.client)}
  BY <1>2, RespondTyped DEF StartAgain
<1>4. CallOK(call', receipt, route, kept)
  BY <1>2, <1>3 DEF CallOK, SnapOK
<1> QED BY <1>3, <1>4, CallStep DEF StartAgain

LEMMA StartNewStep ==
  ASSUME ShiftInv, NEW S \in SUBSET Order, StartNew(S)
  PROVE  ShiftInv'
<1>1. CASE Respond("start", TRUE, CurrentRoute) /\ UNCHANGED <<route, app>>
  <2>1. call' \in Call /\ call'.kind = "start" /\ call'.data = CurrentRoute
    <3>1. CurrentRoute \in Snapshot \cup {None}
      BY CurrentRouteOK
    <3>2. Respond("start", TRUE, CurrentRoute)
      BY <1>1
    <3> HIDE DEF CurrentRoute
    <3> QED BY <3>1, <3>2 DEF Respond, Call
  <2>2. CallOK(call', receipt, route, kept)
    BY <2>1, CurrentRouteOK DEF CallOK
  <2> QED BY <1>1, <2>1, <2>2, CallStep DEF StartNew, server
<1>2. CASE LET r == Fresh(route, Route)
           IN /\ Active = {}
              /\ ~Full(route, Route)
              /\ S # {} /\ \A o \in S : Ready(o)
              /\ route' = [route EXCEPT ![r] = [status |-> "ACTIVE", stops |-> S]]
              /\ app' = [app EXCEPT !.client = r]
              /\ Respond("start", TRUE, [id |-> r, stops |-> S, done |-> {}, taken |-> {}])
  <2> DEFINE r == Fresh(route, Route)
             s == [id |-> r, stops |-> S, done |-> {}, taken |-> {}]
  <2>1. r \in Route /\ route[r].status = "none"
    BY <1>2 DEF Fresh, Full
  <2>2. /\ route' = [route EXCEPT ![r] = [status |-> "ACTIVE", stops |-> S]]
        /\ app' = [app EXCEPT !.client = r] /\ Respond("start", TRUE, s)
        /\ row' = row /\ note' = note /\ receipt' = receipt /\ stationed' = stationed
        /\ UNCHANGED <<device, closed>>
    BY <1>2 DEF StartNew, outbox
  <2> HIDE DEF r
  <2>3. s \in Snapshot /\ s.id = r /\ s.done = {}
    BY <2>1 DEF Snapshot
  <2> HIDE DEF s
  <2>4. /\ route' \in [Route -> [status : RouteStatus, stops : SUBSET Order]]
        /\ \A x \in Route : x # r => route'[x] = route[x]
        /\ route'[r].status = "ACTIVE"
    BY <2>1, <2>2, Typed DEF RouteStatus
  <2>5. Grow
    BY <2>1, <2>2, <2>4 DEF Grow
  <2>6. /\ app' \in App /\ app'.completed = app.completed /\ app'.data = app.data
        /\ app'.fallback = app.fallback /\ app'.draft = app.draft /\ app'.seen = app.seen
        /\ app'.screen = app.screen /\ app'.form = app.form /\ app'.order = app.order
        /\ app'.drafting = app.drafting /\ app'.client = r
    BY <2>1, <2>2, Typed DEF App
  <2>7. AppOK(app, row', note', receipt', route')
    BY <2>2, <2>5, Typed, AppGrows DEF ShiftInv, AppOK, ScreenOK
  <2>8. AppOK(app', row', note', receipt', route')
    BY <2>4, <2>6, <2>7 DEF AppOK, ScreenOK, KnownOK
  <2>9. call' \in Call /\ call'.kind = "start" /\ call'.data = s
    BY <2>2, <2>3, RespondTyped
  <2>10. CallOK(call', receipt', route', kept)
    BY <2>3, <2>4, <2>9 DEF CallOK, SnapOK, KnownOK
  <2>11. TablesOK(row', note', receipt', route')
    BY <2>2, <2>4 DEF ShiftInv, TablesOK
  <2>12. OneRowPerOrder'
    BY <2>2 DEF ShiftInv, OneRowPerOrder
  <2>13. \A x \in Route : route[x].status \in {"COMPLETED", "CANCELLED"} => route'[x].status = route[x].status
    BY <2>1, <2>4
  <2> QED BY <2>2, <2>4, <2>5, <2>6, <2>8, <2>9, <2>10, <2>11, <2>12, <2>13, Typed, WorldStep
<1> QED BY <1>1, <1>2 DEF StartNew

LEMMA StartedStep ==
  ASSUME ShiftInv, Started
  PROVE  ShiftInv'
<1>1. /\ call # None /\ Render([app EXCEPT !.data = call.data]) /\ cache' = call.data /\ call' = None
      /\ UNCHANGED <<server, outbox, kept, closed>>
  BY DEF Started
<1>2. call.data \in Snapshot \cup {None} /\ SnapOK(call.data, receipt, route)
  BY <1>1, Typed DEF Call, ShiftInv, CallOK
<1>3. [app EXCEPT !.data = call.data] \in App /\ AppOK([app EXCEPT !.data = call.data], row, note, receipt, route)
  BY <1>2, DataOK
<1>4. /\ app' \in App /\ AppOK(app', row, note, receipt, route)
      /\ saved' \in Stored \cup {None} /\ StoredOK(saved', row, note, receipt, route)
  BY <1>1, <1>3, Typed, RenderStep DEF Render, ShiftInv
<1> QED BY <1>1, <1>2, <1>4, Typed, DeviceStep DEF ShiftInv, CallOK

LEMMA CancelledStep ==
  ASSUME ShiftInv, Cancelled
  PROVE  ShiftInv'
<1>1. /\ app' = [app EXCEPT !.started = FALSE] /\ saved' = None /\ call' = None
      /\ UNCHANGED <<server, outbox, cache, kept, closed>>
  BY DEF Cancelled
<1>2. app' \in App /\ AppOK(app', row, note, receipt, route)
  BY <1>1, Typed, StartedTyped, SameApp DEF ShiftInv
<1> QED BY <1>1, <1>2, Typed, DeviceStep DEF ShiftInv, CallOK, StoredOK

LEMMA FinishShiftStep ==
  ASSUME ShiftInv, FinishShift
  PROVE  ShiftInv'
<1> DEFINE b == Fresher(app)
<1>1. /\ RenderOver(b, None) /\ call' = None
      /\ closed' = IF Persisted(app) THEN closed \cup {app.data.id} ELSE closed
      /\ UNCHANGED <<server, outbox, cache, kept>>
  BY DEF FinishShift
<1>2. b \in App /\ AppOK(b, row, note, receipt, route)
  <2> DEFINE d == [app EXCEPT !.completed = NothingCompleted, !.draft = None]
             e == [d EXCEPT !.started = FALSE]
  <2>1. /\ d \in App /\ d.completed = NothingCompleted /\ d.draft = None /\ d.data = app.data
        /\ d.fallback = app.fallback /\ d.seen = app.seen /\ d.client = app.client
    BY Typed DEF App, NothingCompleted
  <2> HIDE DEF d
  <2>2. /\ e \in App /\ e.completed = NothingCompleted /\ e.draft = None /\ e.data = app.data
        /\ e.fallback = app.fallback /\ e.seen = app.seen /\ e.client = app.client
    BY <2>1, StartedTyped
  <2>3. b = [e EXCEPT !.screen = "route"]
    BY DEF Fresher, d
  <2> HIDE DEF b, e
  <2>4. /\ b \in App /\ b.completed = NothingCompleted /\ b.draft = None /\ b.data = app.data
        /\ b.fallback = app.fallback /\ b.seen = app.seen /\ b.client = app.client /\ b.screen = "route"
    BY <2>2, <2>3 DEF App, Screen
  <2>5. DoneOK(b.completed, row)
    BY <2>4 DEF DoneOK, NothingCompleted
  <2> QED BY <2>4, <2>5 DEF ShiftInv, AppOK, DraftOK, ScreenOK
<1>3. /\ app' \in App /\ AppOK(app', row, note, receipt, route)
      /\ saved' \in Stored \cup {None} /\ StoredOK(saved', row, note, receipt, route)
  BY <1>1, <1>2, RenderStep DEF StoredOK
<1>4. closed' \subseteq Route /\ ClosedOK(closed', route, kept)
  <2>1. CASE ~Persisted(app)
    BY <1>1, <2>1, Typed DEF ShiftInv
  <2>2. CASE Persisted(app)
    <3>1. app.data.id \in Route /\ route[app.data.id].status # "none"
      BY <2>2, Typed DEF Persisted, App, Snapshot, ShiftInv, AppOK, SnapOK, KnownOK
    <3>2. call # None /\ call.kind = "complete" /\ call.ok
      BY <2>2 DEF FinishShift
    <3>3. kept # {} /\ route[app.data.id].status # "ACTIVE"
      BY <3>1, <3>2 DEF ShiftInv, CallOK
    <3>4. route[app.data.id].status \in {"COMPLETED", "CANCELLED"}
      BY <3>1, <3>3, Typed DEF RouteStatus
    <3> QED BY <1>1, <3>1, <3>3, <3>4, Typed DEF ShiftInv, ClosedOK
  <2> QED BY <2>1, <2>2
<1> QED BY <1>1, <1>3, <1>4, Typed, DeviceStep DEF ShiftInv, CallOK

(* Server and outbox move on while the screen stays: what it and the       *)
(* outstanding call know is still true.                                    *)
LEMMA OutboxStep ==
  ASSUME ShiftInv, Grow, UNCHANGED <<route, device, app, call, closed>>,
         row' \in [Form -> [order : Order \cup {None}, status : RowStatus]],
         \A f \in Form : row'[f].order = row[f].order,
         note' \in [Note -> [orders : SUBSET Order, status : RowStatus]],
         receipt' \in [Order -> Form \cup {None}],
         stationed' \in [Order -> Note \cup {None}],
         TablesOK(row', note', receipt', route)
  PROVE  ShiftInv'
<1>1. AppOK(app, row', note', receipt', route')
  <2>1. app.screen = "form" => app.form \in Form /\ row[app.form].order = None
    BY Typed DEF App, ShiftInv, AppOK, ScreenOK
  <2> QED BY <2>1, Typed, AppGrows DEF ShiftInv
<1>2. CallOK(call, receipt', route', kept)
  <2>1. call # None => call.data \in Snapshot \cup {None} /\ SnapOK(call.data, receipt, route)
    BY Typed DEF Call, ShiftInv, CallOK
  <2>2. call # None => SnapOK(call.data, receipt', route')
    BY <2>1, SnapGrows
  <2> QED BY <2>2 DEF ShiftInv, CallOK
<1>3. OneRowPerOrder'
  BY DEF ShiftInv, OneRowPerOrder
<1> QED BY <1>1, <1>2, <1>3, Typed, WorldStep

LEMMA CallFailsStep ==
  ASSUME ShiftInv, CallFails
  PROVE  ShiftInv'
BY CallStep DEF CallFails, CallOK

(* Routes end, the outbox and the screen stay.                             *)
LEMMA RouteStep ==
  ASSUME ShiftInv, UNCHANGED <<receipt, stationed, outbox, device, app, closed>>,
         route' \in [Route -> [status : RouteStatus, stops : SUBSET Order]],
         \A r \in Route : /\ route'[r].stops = route[r].stops
                          /\ route[r].status # "ACTIVE" => route'[r].status = route[r].status
                          /\ route'[r].status # "none" \/ route[r].status = "none",
         \A r \in Route : route'[r].status = "COMPLETED" => \A o \in route[r].stops : receipt[o] # None,
         call' \in Call, call'.data = None,
         call'.kind = "complete" /\ call'.ok => kept # {} /\ \A r \in Route : route'[r].status # "ACTIVE"
  PROVE  ShiftInv'
<1>1. row' = row /\ note' = note /\ receipt' = receipt /\ stationed' = stationed /\ app' = app
  BY DEF outbox
<1>2. Grow
  BY <1>1 DEF Grow
<1>3. AppOK(app', row', note', receipt', route')
  <2>1. app.screen = "form" => row'[app.form].order = None
    BY <1>1 DEF ShiftInv, AppOK, ScreenOK
  <2> QED BY <1>1, <1>2, <2>1, Typed, AppGrows DEF ShiftInv
<1>4. TablesOK(row', note', receipt', route')
  BY <1>1 DEF ShiftInv, TablesOK
<1>5. OneRowPerOrder'
  BY <1>1 DEF ShiftInv, OneRowPerOrder
<1>6. CallOK(call', receipt', route', kept)
  BY DEF CallOK, SnapOK
<1>7. \A r \in Route : route[r].status \in {"COMPLETED", "CANCELLED"} => route'[r].status = route[r].status
  OBVIOUS
<1> QED BY <1>1, <1>2, <1>3, <1>4, <1>5, <1>6, <1>7, Typed, WorldStep

LEMMA CancelShiftStep ==
  ASSUME ShiftInv, CancelShift
  PROVE  ShiftInv'
<1>1. ASSUME NEW r \in Active, route' = [route EXCEPT ![r].status = "CANCELLED"],
             Respond("cancel", TRUE, None)
      PROVE  ShiftInv'
  <2>1. call' \in Call /\ call'.kind = "cancel" /\ call'.data = None
    BY <1>1 DEF Respond, Call
  <2>2. r \in Route /\ route[r].status = "ACTIVE"
    BY DEF Active
  <2>3. /\ route' \in [Route -> [status : RouteStatus, stops : SUBSET Order]]
        /\ \A x \in Route : route'[x].stops = route[x].stops /\ (x # r => route'[x] = route[x])
        /\ route'[r].status = "CANCELLED"
    BY <1>1, <2>2, Typed DEF RouteStatus
  <2>4. \A x \in Route : route'[x].status = "COMPLETED" => \A o \in route[x].stops : receipt[o] # None
    BY <2>3 DEF ShiftInv, TablesOK
  <2>5. UNCHANGED <<receipt, stationed, outbox, device, app, closed>>
    BY DEF CancelShift
  <2> QED BY <2>1, <2>2, <2>3, <2>4, <2>5, RouteStep
<1>2. ASSUME NEW ok \in BOOLEAN, Respond("cancel", ok, None), UNCHANGED route
      PROVE  ShiftInv'
  <2>1. call' \in Call /\ call'.kind = "cancel" /\ call'.data = None
    BY <1>2, RespondTyped
  <2>2. CallOK(call', receipt, route, kept)
    BY <2>1 DEF CallOK, SnapOK
  <2> QED BY <1>2, <2>1, <2>2, CallStep DEF CancelShift, server
<1> QED BY <1>1, <1>2 DEF CancelShift

LEMMA CompleteRouteStep ==
  ASSUME ShiftInv, CompleteRoute
  PROVE  ShiftInv'
<1> DEFINE pending == \E r \in Active : \E o \in route[r].stops : receipt[o] = None
           ended == \E r \in Route : route[r].status = "COMPLETED"
           ok == IF Active # {} THEN ~pending ELSE ended
<1>1. /\ CanClose /\ Respond("complete", ok, None)
      /\ route' = IF ok THEN [r \in Route |-> IF r \in Active THEN [route[r] EXCEPT !.status = "COMPLETED"]
                                              ELSE route[r]] ELSE route
      /\ UNCHANGED <<receipt, stationed, outbox, device, app, closed>>
  BY DEF CompleteRoute
<1>2. ok \in BOOLEAN /\ (ok => ~pending)
  OBVIOUS
<1>3. kept # {}
  BY <1>1 DEF CanClose
<1>4. ~pending => \A r \in Active : \A o \in route[r].stops : receipt[o] # None
  OBVIOUS
<1> HIDE DEF pending, ended, ok
<1>5. call' \in Call /\ call'.kind = "complete" /\ call'.ok = ok /\ call'.data = None
  BY <1>1, <1>2, RespondTyped
<1>6. CASE ok
  <2>1. /\ route' \in [Route -> [status : RouteStatus, stops : SUBSET Order]]
        /\ \A r \in Route : /\ route'[r].stops = route[r].stops
                            /\ r \in Active => route'[r].status = "COMPLETED"
                            /\ r \notin Active => route'[r].status = route[r].status
    BY <1>1, <1>6, Typed DEF RouteStatus
  <2>2. \A r \in Route : r \in Active <=> route[r].status = "ACTIVE"
    BY DEF Active
  <2>3. \A r \in Route : route'[r].status = "COMPLETED" => \A o \in route[r].stops : receipt[o] # None
    BY <1>2, <1>4, <1>6, <2>1, <2>2 DEF ShiftInv, TablesOK
  <2> QED BY <1>1, <1>3, <1>5, <2>1, <2>2, <2>3, RouteStep
<1>7. CASE ~ok
  <2>1. CallOK(call', receipt, route, kept)
    BY <1>5, <1>7 DEF CallOK, SnapOK
  <2> QED BY <1>1, <1>5, <1>7, <2>1, CallStep DEF server
<1> QED BY <1>6, <1>7

-----------------------------------------------------------------------------
(* A stop is collected.                                                    *)

(* Another screen of the same copies.                                      *)
LEMMA ScreenStep ==
  ASSUME ShiftInv, UNCHANGED <<server, outbox, device, call, closed>>, app' \in App,
         app'.completed = app.completed, app'.data = app.data, app'.fallback = app.fallback,
         app'.draft = app.draft, app'.seen = app.seen, app'.client = app.client,
         ScreenOK(app', row, note)
  PROVE  ShiftInv'
<1>1. AppOK(app', row, note, receipt, route)
  BY DEF ShiftInv, AppOK
<1> QED BY <1>1, Typed, DeviceStep DEF ShiftInv, device

LEMMA OpenFormStep ==
  ASSUME ShiftInv, NEW o \in Order, OpenForm(o)
  PROVE  ShiftInv'
<1> DEFINE f == Fresh(row, Form)
<1>1. f \in Form /\ row[f].status = "none"
  BY DEF OpenForm, Fresh, Full
<1>2. app' = [app EXCEPT !.screen = "form", !.order = o, !.form = f]
      /\ UNCHANGED <<server, outbox, device, call, closed>>
  BY DEF OpenForm
<1> HIDE DEF f
<1>3. row[f].order = None /\ f # None /\ o # None
  BY <1>1, NothingIsNone DEF ShiftInv, TablesOK, Form
<1>4. /\ app' \in App
      /\ app'.completed = app.completed /\ app'.data = app.data /\ app'.fallback = app.fallback
      /\ app'.draft = app.draft /\ app'.seen = app.seen /\ app'.client = app.client
      /\ app'.screen = "form" /\ app'.order = o /\ app'.form = f
  BY <1>1, <1>2, Typed DEF App, Screen
<1> QED BY <1>2, <1>3, <1>4, ScreenStep DEF ScreenOK

LEMMA BackStep ==
  ASSUME ShiftInv, Back
  PROVE  ShiftInv'
<1>1. /\ app' \in App
      /\ app'.completed = app.completed /\ app'.data = app.data /\ app'.fallback = app.fallback
      /\ app'.draft = app.draft /\ app'.seen = app.seen /\ app'.client = app.client
      /\ app'.screen = "route"
  BY Typed DEF Back, App, Screen
<1> QED BY <1>1, ScreenStep DEF Back, ScreenOK

LEMMA EnqueueCollectionStep ==
  ASSUME ShiftInv, EnqueueCollection
  PROVE  ShiftInv'
<1> DEFINE o == app.order
           f == SavedUuid(o)
<1>1. /\ app.screen = "form"
      /\ row' = IF Existing(o) = {} THEN [row EXCEPT ![app.form] = [order |-> o, status |-> "waiting"]]
                ELSE row
      /\ app' = [app EXCEPT !.screen = "saved", !.form = f]
      /\ note' = note /\ receipt' = receipt /\ route' = route /\ stationed' = stationed
      /\ UNCHANGED <<device, call, closed>>
  BY DEF EnqueueCollection, server
<1>2. app.form \in Form /\ o \in Order /\ row[app.form].order = None
  BY <1>1, Typed DEF App, ShiftInv, AppOK, ScreenOK
<1>3. Existing(o) = {x \in Form : row[x].order = o}
  BY DEF Existing
<1>4. f = IF Existing(o) = {} THEN app.form ELSE CHOOSE x \in Existing(o) : TRUE
  BY DEF SavedUuid
<1>5. f \in Form /\ (Existing(o) # {} => row[f].order = o)
  BY <1>2, <1>3, <1>4
<1> HIDE DEF o, f
<1>6. /\ row' \in [Form -> [order : Order \cup {None}, status : RowStatus]]
      /\ row'[f].order = o
      /\ \A x \in Form : row[x].order # None => row'[x] = row[x]
      /\ \A x \in Form :
           \/ row'[x] = row[x]
           \/ x = app.form /\ Existing(o) = {} /\ row'[x].order = o /\ row'[x].status = "waiting"
  <2>1. CASE Existing(o) = {}
    <3>1. f = app.form /\ row' = [row EXCEPT ![app.form] = [order |-> o, status |-> "waiting"]]
      BY <1>1, <1>4, <2>1
    <3> QED BY <1>2, <2>1, <3>1, Typed DEF RowStatus
  <2>2. CASE Existing(o) # {}
    BY <1>1, <1>5, <2>2, Typed
  <2> QED BY <2>1, <2>2
<1>7. Grow
  BY <1>1, <1>6 DEF Grow
<1>8. OneRowPerOrder'
  <2> SUFFICES ASSUME NEW x \in Form, NEW y \in Form, row'[x].order # None, row'[x].order = row'[y].order
               PROVE  x = y
    BY DEF OneRowPerOrder
  <2>1. row[x].order # None /\ row[x].order = row[y].order => x = y
    BY DEF ShiftInv, OneRowPerOrder
  <2>2. Existing(o) = {} => row[x].order # o /\ row[y].order # o
    BY <1>3
  <2> QED BY <1>6, <2>1, <2>2
<1>9. TablesOK(row', note', receipt', route')
  <2>1. \A x \in Form : /\ row'[x].order # None => row'[x].status # "none"
                        /\ row'[x].status # "none" => row'[x].order # None
                        /\ row'[x].status = "synced" => receipt[row'[x].order] # None
    <3>1. \A x \in Form : /\ row[x].order # None => row[x].status # "none"
                          /\ row[x].status # "none" => row[x].order # None
                          /\ row[x].status = "synced" => receipt[row[x].order] # None
      BY DEF ShiftInv, TablesOK
    <3>2. o # None
      BY <1>2, NothingIsNone
    <3> QED BY <1>6, <3>1, <3>2
  <2>2. \A x \in Order : receipt[x] # None => row'[receipt[x]].order = x
    <3>1. \A x \in Order : receipt[x] # None => receipt[x] \in Form /\ row[receipt[x]].order = x
      BY Typed DEF ShiftInv, TablesOK
    <3> QED BY <1>6, <3>1, NothingIsNone
  <2> QED BY <1>1, <2>1, <2>2 DEF ShiftInv, TablesOK
<1> DEFINE b == [app EXCEPT !.screen = "route"]
<1>10. /\ b \in App /\ b.screen = "route"
       /\ b.completed = app.completed /\ b.data = app.data /\ b.fallback = app.fallback
       /\ b.draft = app.draft /\ b.seen = app.seen /\ b.client = app.client
  BY Typed DEF App, Screen
<1> HIDE DEF b
<1>11. AppOK(b, row, note, receipt, route)
  BY <1>10 DEF ShiftInv, AppOK, ScreenOK
<1>12. AppOK(b, row', note', receipt', route')
  BY <1>7, <1>10, <1>11, AppGrows
<1>13. /\ app' \in App /\ app'.screen = "saved" /\ app'.form = f /\ app'.order = o
       /\ app'.completed = app.completed /\ app'.data = app.data /\ app'.fallback = app.fallback
       /\ app'.draft = app.draft /\ app'.seen = app.seen /\ app'.client = app.client
  BY <1>1, <1>5, Typed DEF App, Screen, o
<1>14. ScreenOK(app', row', note')
  BY <1>2, <1>5, <1>6, <1>13, NothingIsNone DEF ScreenOK, Form
<1>15. AppOK(app', row', note', receipt', route')
  BY <1>10, <1>12, <1>13, <1>14 DEF AppOK
<1>16. CallOK(call', receipt', route', kept)
  BY <1>1 DEF ShiftInv
<1> QED BY <1>1, <1>6, <1>7, <1>8, <1>9, <1>13, <1>15, <1>16, Typed, WorldStep

LEMMA CollectionSavedStep ==
  ASSUME ShiftInv, CollectionSaved
  PROVE  ShiftInv'
<1> DEFINE d == [app.completed EXCEPT ![app.order] = app.form]
           b == [app EXCEPT !.completed[app.order] = app.form, !.screen = "route", !.order = None,
                            !.form = None]
<1>1. RenderOver(b, Save(b)) /\ UNCHANGED <<server, outbox, cache, kept, call, closed>>
  BY DEF CollectionSaved
<1>2. app.form \in Form /\ app.order \in Order /\ row[app.form].order = app.order
  BY Typed DEF CollectionSaved, App, ShiftInv, AppOK, ScreenOK
<1>3. app.completed \in [Order -> Form \cup {None}] /\ DoneOK(app.completed, row)
  BY Typed DEF App, ShiftInv, AppOK
<1>4. d \in [Order -> Form \cup {None}] /\ DoneOK(d, row)
  BY <1>2, <1>3 DEF DoneOK
<1>5. /\ b \in App /\ b.completed = d /\ b.screen = "route" /\ b.data = app.data
      /\ b.fallback = app.fallback /\ b.draft = app.draft /\ b.seen = app.seen /\ b.client = app.client
  BY <1>4, Typed DEF App, Screen
<1> HIDE DEF d, b
<1>6. AppOK(b, row, note, receipt, route)
  BY <1>4, <1>5 DEF ShiftInv, AppOK, ScreenOK
<1>7. Save(b) \in Stored /\ StoredOK(Save(b), row, note, receipt, route)
  BY <1>5, <1>6, SaveOK
<1>8. /\ app' \in App /\ AppOK(app', row, note, receipt, route)
      /\ saved' \in Stored \cup {None} /\ StoredOK(saved', row, note, receipt, route)
  BY <1>1, <1>5, <1>6, <1>7, RenderStep
<1> QED BY <1>1, <1>8, Typed, DeviceStep DEF ShiftInv

-----------------------------------------------------------------------------
(* The worker sends what waits.                                            *)
LEMMA SendCollectionStep ==
  ASSUME ShiftInv, NEW f \in Form, SendCollection(f)
  PROVE  ShiftInv'
<1> DEFINE o == row[f].order
           mine == receipt[o] \in {None, f}
           st == IF mine THEN "synced" ELSE "failed"
<1>1. /\ row[f].status = "waiting"
      /\ receipt' = [receipt EXCEPT ![o] = IF @ = None THEN f ELSE @]
      /\ row' \in {[row EXCEPT ![f].status = st], row}
      /\ note' = note /\ route' = route /\ stationed' = stationed
      /\ UNCHANGED <<route, device, app, call, closed>>
  BY DEF SendCollection
<1>2. o \in Order
  BY <1>1, Typed DEF ShiftInv, TablesOK
<1>3. st \in {"synced", "failed"}
  OBVIOUS
<1> HIDE DEF st
<1>4. /\ receipt' \in [Order -> Form \cup {None}]
      /\ receipt'[o] = IF receipt[o] = None THEN f ELSE receipt[o]
      /\ \A x \in Order : x # o => receipt'[x] = receipt[x]
  BY <1>1, <1>2, Typed
<1> HIDE DEF o
<1>5. /\ row' \in [Form -> [order : Order \cup {None}, status : RowStatus]]
      /\ \A x \in Form : row'[x].order = row[x].order
      /\ \A x \in Form : x # f => row'[x].status = row[x].status
      /\ row'[f].status \in {"waiting", "synced", "failed"}
  <2>1. CASE row' = row
    BY <1>1, <2>1, Typed
  <2>2. CASE row' = [row EXCEPT ![f].status = st]
    BY <1>3, <2>2, Typed DEF RowStatus
  <2> QED BY <1>1, <2>1, <2>2
<1>6. f # None
  BY NothingIsNone DEF Form
<1>7. Grow
  BY <1>1, <1>4, <1>5, <1>6 DEF Grow
<1>8. TablesOK(row', note', receipt', route)
  <2>1. \A x \in Form : /\ row'[x].order # None => row'[x].status # "none"
                        /\ row'[x].status # "none" => row'[x].order # None
                        /\ row'[x].status = "synced" => receipt'[row'[x].order] # None
    <3>1. \A x \in Form : /\ row[x].order # None => row[x].status # "none"
                          /\ row[x].status # "none" => row[x].order # None
                          /\ row[x].status = "synced" => receipt[row[x].order] # None
      BY DEF ShiftInv, TablesOK
    <3>2. row[f].order = o /\ o # None
      BY <1>2, NothingIsNone DEF o
    <3>3. receipt'[o] # None
      BY <1>4, <1>6
    <3>4. \A x \in Form : row[x].order \in Order \cup {None}
      BY Typed
    <3> QED BY <1>4, <1>5, <3>1, <3>2, <3>3, <3>4
  <2>2. \A x \in Order : receipt'[x] # None => row'[receipt'[x]].order = x
    <3>1. \A x \in Order : receipt[x] # None => receipt[x] \in Form /\ row[receipt[x]].order = x
      BY Typed DEF ShiftInv, TablesOK
    <3>2. row[f].order = o
      BY DEF o
    <3> QED BY <1>4, <1>5, <3>1, <3>2
  <2>3. \A k \in Note : \A x \in note'[k].orders : receipt'[x] # None
    BY <1>1, <1>7, Typed DEF ShiftInv, TablesOK, Grow
  <2>4. \A s \in Route : route[s].status = "COMPLETED" => \A x \in route[s].stops : receipt'[x] # None
    BY <1>7, Typed DEF ShiftInv, TablesOK, Grow
  <2> QED BY <2>1, <2>2, <2>3, <2>4 DEF TablesOK
<1> QED BY <1>1, <1>4, <1>5, <1>7, <1>8, Typed, OutboxStep

(* A row that waits, or waits again, or is given up.                       *)
LEMMA RowStatusStep ==
  ASSUME ShiftInv, NEW f \in Form, NEW st \in {"waiting", "failed"},
         row[f].status # "none", row' = [row EXCEPT ![f].status = st],
         UNCHANGED <<server, note, device, app, call, closed>>
  PROVE  ShiftInv'
<1>1. /\ row' \in [Form -> [order : Order \cup {None}, status : RowStatus]]
      /\ \A x \in Form : row'[x].order = row[x].order
      /\ \A x \in Form : x # f => row'[x].status = row[x].status
      /\ row'[f].status = st
  BY Typed DEF RowStatus
<1>2. receipt' = receipt /\ route' = route /\ stationed' = stationed /\ note' = note
  BY DEF server
<1>3. Grow
  BY <1>1, <1>2 DEF Grow
<1>4. TablesOK(row', note', receipt', route)
  <2>1. \A x \in Order : receipt[x] # None => row'[receipt[x]].order = x
    BY <1>1, Typed DEF ShiftInv, TablesOK
  <2>2. \A x \in Form : /\ row'[x].order # None => row'[x].status # "none"
                        /\ row'[x].status # "none" => row'[x].order # None
                        /\ row'[x].status = "synced" => receipt[row'[x].order] # None
    BY <1>1 DEF ShiftInv, TablesOK
  <2> QED BY <1>2, <2>1, <2>2 DEF ShiftInv, TablesOK
<1> QED BY <1>1, <1>2, <1>3, <1>4, Typed, OutboxStep

(* The note of a delivery changes its status.                              *)
LEMMA NoteStep ==
  ASSUME ShiftInv, NEW n \in Note, NEW st \in {"waiting", "synced", "failed"},
         note[n].status # "none", note' \in {[note EXCEPT ![n].status = st], note},
         stationed' \in [Order -> Note \cup {None}],
         UNCHANGED <<route, receipt, row, device, app, call, closed>>
  PROVE  ShiftInv'
<1>1. /\ note' \in [Note -> [orders : SUBSET Order, status : RowStatus]]
      /\ \A k \in Note : note'[k].orders = note[k].orders
      /\ \A k \in Note : note[k].status # "none" => note'[k].status # "none"
  <2>1. CASE note' = note
    BY <2>1, Typed
  <2>2. CASE note' = [note EXCEPT ![n].status = st]
    BY <2>2, Typed DEF RowStatus
  <2> QED BY <2>1, <2>2
<1>2. Grow
  BY <1>1 DEF Grow
<1>3. TablesOK(row', note', receipt', route)
  BY <1>1 DEF ShiftInv, TablesOK
<1> QED BY <1>1, <1>2, <1>3, Typed, OutboxStep

LEMMA WorkerStep ==
  ASSUME ShiftInv, Worker
  PROVE  ShiftInv'
<1>1. ASSUME NEW f \in Form, SendCollection(f) PROVE ShiftInv'
  BY <1>1, SendCollectionStep
<1>2. ASSUME NEW f \in Form, CollectionFails(f) PROVE ShiftInv'
  BY <1>2, RowStatusStep DEF CollectionFails
<1>3. ASSUME NEW f \in Form, RetryCollection(f) PROVE ShiftInv'
  BY <1>3, RowStatusStep DEF RetryCollection
<1>4. ASSUME NEW n \in Note, SendDelivery(n) PROVE ShiftInv'
  <2> DEFINE ok == \A o \in note[n].orders : receipt[o] # None /\ stationed[o] \in {None, n}
             st == IF ok THEN "synced" ELSE "failed"
  <2>1. /\ note[n].status = "waiting"
        /\ stationed' = [o \in Order |-> IF ok /\ o \in note[n].orders THEN n ELSE stationed[o]]
        /\ note' \in {[note EXCEPT ![n].status = st], note}
        /\ UNCHANGED <<route, receipt, row, device, app, call, closed>>
    BY <1>4 DEF SendDelivery
  <2>2. st \in {"waiting", "synced", "failed"}
    OBVIOUS
  <2> HIDE DEF ok, st
  <2>3. stationed' \in [Order -> Note \cup {None}]
    BY <2>1, Typed
  <2> QED BY <2>1, <2>2, <2>3, NoteStep
<1>5. ASSUME NEW n \in Note, DeliveryFails(n) PROVE ShiftInv'
  BY <1>5, Typed, NoteStep DEF DeliveryFails, server
<1> QED BY <1>1, <1>2, <1>3, <1>4, <1>5 DEF Worker

-----------------------------------------------------------------------------
(* What was collected is delivered.                                        *)
LEMMA ChooseStationStep ==
  ASSUME ShiftInv, ChooseStation
  PROVE  ShiftInv'
<1> DEFINE n == Fresh(note, Note)
<1>1. n \in Note /\ n # None
  BY NothingIsNone DEF ChooseStation, Fresh, Full, Note
<1>2. app' = [app EXCEPT !.screen = "review", !.drafting = n]
      /\ UNCHANGED <<server, outbox, device, call, closed>>
  BY DEF ChooseStation
<1> HIDE DEF n
<1>3. /\ app' \in App
      /\ app'.completed = app.completed /\ app'.data = app.data /\ app'.fallback = app.fallback
      /\ app'.draft = app.draft /\ app'.seen = app.seen /\ app'.client = app.client
      /\ app'.screen = "review" /\ app'.drafting = n
  BY <1>1, <1>2, Typed DEF App, Screen
<1> QED BY <1>1, <1>2, <1>3, ScreenStep DEF ScreenOK

(* What a delivery is made of, the server has: it told so, or it has       *)
(* answered the row the entry is.                                          *)
LEMMA CandidatesReceived ==
  ASSUME ShiftInv, app.data # None, NEW o \in Entries(app), Candidate(app, o)
  PROVE  receipt[o] # None
<1>1. o \in Order /\ Progress(app)[o] # None
  BY DEF Entries
<1>2. Progress(app)[o] \in Form /\ row[Progress(app)[o]].order = o
  BY <1>1, ProgressOK
<1>3. CASE o \in app.data.done \ app.data.taken
  BY <1>3 DEF ShiftInv, AppOK, SnapOK
<1>4. ASSUME NEW f \in Form, f = Progress(app)[o], app.seen[f].status = "synced"
      PROVE  receipt[o] # None
  <2>1. /\ app.seen[f].order # None /\ receipt[app.seen[f].order] # None
        /\ row[f].order = app.seen[f].order
    BY <1>4 DEF ShiftInv, AppOK, SeenOK
  <2> QED BY <1>2, <1>4, <2>1
<1> QED BY <1>3, <1>4 DEF Candidate

LEMMA EnqueueDeliveryStep ==
  ASSUME ShiftInv, EnqueueDelivery
  PROVE  ShiftInv'
<1> DEFINE n == app.drafting
           S == {o \in Entries(app) : Candidate(app, o)}
<1>1. /\ app.screen = "review" /\ app.data # None
      /\ note' = [note EXCEPT ![n] = [orders |-> S, status |-> "waiting"]]
      /\ app' = [app EXCEPT !.screen = "submitted"]
      /\ row' = row /\ receipt' = receipt /\ route' = route /\ stationed' = stationed
      /\ UNCHANGED <<device, call, closed>>
  BY DEF EnqueueDelivery, server
<1>2. n \in Note
  BY <1>1, Typed DEF App, ShiftInv, AppOK, ScreenOK
<1>3. S \subseteq Order /\ \A o \in S : receipt[o] # None
  BY <1>1, CandidatesReceived DEF Entries
<1> HIDE DEF n, S
<1>4. /\ note' \in [Note -> [orders : SUBSET Order, status : RowStatus]]
      /\ note'[n].orders = S /\ note'[n].status = "waiting"
      /\ \A k \in Note : k # n => note'[k] = note[k]
  BY <1>1, <1>2, <1>3, Typed DEF RowStatus
<1>5. Grow
  BY <1>1, <1>4 DEF Grow
<1>6. TablesOK(row', note', receipt', route')
  BY <1>1, <1>3, <1>4 DEF ShiftInv, TablesOK
<1>7. OneRowPerOrder'
  BY <1>1 DEF ShiftInv, OneRowPerOrder
<1>8. AppOK(app, row', note', receipt', route')
  BY <1>1, <1>5, Typed, AppGrows DEF ShiftInv
<1>9. /\ app' \in App /\ app'.screen = "submitted" /\ app'.drafting = n
      /\ app'.completed = app.completed /\ app'.data = app.data /\ app'.fallback = app.fallback
      /\ app'.draft = app.draft /\ app'.seen = app.seen /\ app'.client = app.client
  BY <1>1, Typed DEF App, Screen, n
<1>10. n # None
  BY <1>2, NothingIsNone DEF Note
<1>11. AppOK(app', row', note', receipt', route')
  BY <1>4, <1>8, <1>9, <1>10 DEF AppOK, ScreenOK
<1>12. CallOK(call', receipt', route', kept)
  BY <1>1 DEF ShiftInv
<1> QED BY <1>1, <1>4, <1>5, <1>6, <1>7, <1>9, <1>11, <1>12, Typed, WorldStep

LEMMA DeliverySubmittedStep ==
  ASSUME ShiftInv, DeliverySubmitted
  PROVE  ShiftInv'
<1> DEFINE b == [app EXCEPT !.draft = app.drafting, !.drafting = None, !.screen = "receipt"]
<1>1. /\ app.screen = "submitted" /\ RenderOver(b, saved)
      /\ UNCHANGED <<server, outbox, cache, kept, call, closed>>
  BY DEF DeliverySubmitted, Submitted, Render
<1>2. app.drafting \in Note /\ note[app.drafting].status # "none"
  BY <1>1, Typed DEF App, ShiftInv, AppOK, ScreenOK
<1>3. /\ b \in App /\ b.draft = app.drafting /\ b.screen = "receipt"
      /\ b.completed = app.completed /\ b.data = app.data /\ b.fallback = app.fallback
      /\ b.seen = app.seen /\ b.client = app.client
  BY <1>2, Typed DEF App, Screen
<1> HIDE DEF b
<1>4. AppOK(b, row, note, receipt, route)
  BY <1>2, <1>3 DEF ShiftInv, AppOK, ScreenOK, DraftOK
<1>5. /\ app' \in App /\ AppOK(app', row, note, receipt, route)
      /\ saved' \in Stored \cup {None} /\ StoredOK(saved', row, note, receipt, route)
  BY <1>1, <1>3, <1>4, Typed, RenderStep DEF ShiftInv
<1> QED BY <1>1, <1>5, Typed, DeviceStep DEF ShiftInv

LEMMA OpenReceiptStep ==
  ASSUME ShiftInv, OpenReceipt
  PROVE  ShiftInv'
<1>1. /\ app' \in App
      /\ app'.completed = app.completed /\ app'.data = app.data /\ app'.fallback = app.fallback
      /\ app'.draft = app.draft /\ app'.seen = app.seen /\ app'.client = app.client
      /\ app'.screen = "receipt"
  BY Typed DEF OpenReceipt, App, Screen
<1> QED BY <1>1, ScreenStep DEF OpenReceipt, ScreenOK

LEMMA PersistReceiptStep ==
  ASSUME ShiftInv, PersistReceipt
  PROVE  ShiftInv'
<1>1. kept' = kept \cup {app.draft} /\ app.draft \in Note
  BY Typed DEF PersistReceipt, Answered, App
<1>2. UNCHANGED <<server, outbox, saved, cache, app, call, closed>>
  BY DEF PersistReceipt
<1>3. kept \subseteq kept' /\ kept' \subseteq Note /\ kept' # {}
  BY <1>1, Typed
<1>4. CallOK(call', receipt, route, kept') /\ ClosedOK(closed', route, kept')
  BY <1>2, <1>3 DEF ShiftInv, CallOK, ClosedOK
<1> QED BY <1>2, <1>3, <1>4, Typed, DeviceStep DEF ShiftInv

LEMMA RetryDeliveryStep ==
  ASSUME ShiftInv, RetryDelivery
  PROVE  ShiftInv'
<1>1. app.draft \in Note /\ note[app.draft].status = "failed"
      /\ note' = [note EXCEPT ![app.draft].status = "waiting"]
      /\ UNCHANGED <<server, row, device, app, call, closed>>
  BY Typed DEF RetryDelivery, App
<1> QED BY <1>1, Typed, NoteStep DEF server

-----------------------------------------------------------------------------
LEMMA ShiftInitially ==
  ASSUME ShiftInit
  PROVE  ShiftInv
<1> DEFINE m == Mounted(None)
<1>1. /\ m.screen = "route" /\ m.completed = NothingCompleted /\ m.draft = None /\ m.client = None
      /\ m.data = None /\ m.fallback = None
      /\ m.seen = [f \in Form |-> NoRow]
      /\ m \in App
  <2>1. [f \in Form |-> NoRow] \in [Form -> [order : Order \cup {None}, status : RowStatus]]
    BY DEF NoRow, RowStatus
  <2>2. [k \in Note |-> NoNote] \in [Note -> [orders : SUBSET Order, status : RowStatus]]
    BY DEF NoNote, RowStatus
  <2>3. m = [screen |-> "route", completed |-> NothingCompleted, draft |-> None,
             started |-> FALSE, restored |-> None, client |-> None, fallback |-> None,
             data |-> None, form |-> None, order |-> None, drafting |-> None,
             seen |-> [f \in Form |-> NoRow], noted |-> [k \in Note |-> NoNote]]
    BY DEF Mounted, ShiftInit
  <2>4. NothingCompleted \in [Order -> Form \cup {None}]
    BY DEF NothingCompleted
  <2> HIDE DEF m
  <2> QED BY <2>1, <2>2, <2>3, <2>4 DEF App, Screen
<1> HIDE DEF m
<1>2. app = m /\ row = [f \in Form |-> NoRow] /\ note = [n \in Note |-> NoNote]
      /\ receipt = [o \in Order |-> None] /\ stationed = [o \in Order |-> None]
      /\ route = [r \in Route |-> NoRoute]
      /\ saved = None /\ cache = None /\ kept = {} /\ call = None /\ closed = {}
  BY DEF ShiftInit, m
<1>3. AppOK(app, row, note, receipt, route)
  BY <1>1, <1>2 DEF AppOK, DoneOK, SnapOK, KnownOK, DraftOK, SeenOK, ScreenOK, NothingCompleted, NoRow
<1>4. TablesOK(row, note, receipt, route)
  BY <1>2 DEF TablesOK, NoRow, NoNote, NoRoute
<1>5. ShiftTypeOK
  BY <1>1, <1>2 DEF ShiftTypeOK, NoRow, NoNote, NoRoute, RowStatus, RouteStatus
<1>6. OneRowPerOrder
  BY <1>2 DEF OneRowPerOrder, NoRow
<1> QED BY <1>2, <1>3, <1>4, <1>5, <1>6 DEF ShiftInv, SnapOK, StoredOK, CallOK, ClosedOK

LEMMA ShiftStep ==
  ASSUME ShiftInv, [ShiftNext]_shiftVars
  PROVE  ShiftInv'
<1>1. CASE Kill
  BY <1>1, KillStep
<1>2. CASE ReadOutbox
  BY <1>2, ReadOutboxStep
<1>3. CASE ShowRoute
  BY <1>3, ShowRouteStep
<1>4. CASE ChangeShift
  BY <1>4, StartShownStep, StartAgainStep, StartNewStep, StartedStep, CancelShiftStep, CancelledStep,
     CompleteRouteStep, FinishShiftStep, CallFailsStep DEF ChangeShift
<1>5. CASE CollectStop
  BY <1>5, OpenFormStep, EnqueueCollectionStep, CollectionSavedStep DEF CollectStop
<1>6. CASE Deliver
  BY <1>6, ChooseStationStep, EnqueueDeliveryStep, DeliverySubmittedStep, OpenReceiptStep,
     PersistReceiptStep, RetryDeliveryStep DEF Deliver
<1>7. CASE Back
  BY <1>7, BackStep
<1>8. CASE Worker
  BY <1>8, WorkerStep
<1>9. CASE UNCHANGED shiftVars
  <2>1. UNCHANGED <<server, outbox, device, app, call, closed>>
    BY <1>9 DEF shiftVars
  <2> QED BY <2>1, CallStep, Typed DEF ShiftInv
<1> QED BY <1>1, <1>2, <1>3, <1>4, <1>5, <1>6, <1>7, <1>8, <1>9 DEF ShiftNext

LEMMA ShiftInvariant == ShiftSpec => []ShiftInv
<1>1. ShiftInit => ShiftInv
  BY ShiftInitially
<1>2. ShiftInv /\ [ShiftNext]_shiftVars => ShiftInv'
  BY ShiftStep
<1> QED BY <1>1, <1>2, PTL DEF ShiftSpec

-----------------------------------------------------------------------------
(* Screen, storage, outbox and server have their types in every shift.     *)
THEOREM ShiftTypeCorrect == ShiftSpec => []ShiftTypeOK
<1>1. ShiftInv => ShiftTypeOK
  BY DEF ShiftInv
<1> QED BY <1>1, ShiftInvariant, PTL

(* An order has one collection in the outbox, whatever the screen knew of  *)
(* when the form was opened (enqueueCollectionOnce).                       *)
THEOREM OrdersAreEnqueuedOnce == ShiftSpec => []OneRowPerOrder
<1>1. ShiftInv => OneRowPerOrder
  BY DEF ShiftInv
<1> QED BY <1>1, ShiftInvariant, PTL

(* What the screen counts as completed is in the outbox, whatever route it *)
(* shows and whatever it restored (reconcileRouteProgress).                *)
THEOREM EntriesHaveRows == ShiftSpec => []EntriesAreRecorded
<1>1. ShiftInv => EntriesAreRecorded
  BY ProgressOK DEF EntriesAreRecorded
<1> QED BY <1>1, ShiftInvariant, PTL

(* A draft, in memory or restored, has its delivery in the outbox          *)
(* (onSubmitted).                                                          *)
THEOREM DraftsHaveDeliveries == ShiftSpec => []DraftHasDelivery
<1>1. ShiftInv => DraftHasDelivery
  BY DEF ShiftInv, AppOK, StoredOK, DraftOK, DraftHasDelivery
<1> QED BY <1>1, ShiftInvariant, PTL

(* A delivery names transactions the server has (getCandidates).           *)
THEOREM DeliveriesAreOfReceived == ShiftSpec => []DeliversReceived
<1>1. ShiftInv => DeliversReceived
  BY DEF ShiftInv, TablesOK, DeliversReceived
<1> QED BY <1>1, ShiftInvariant, PTL

(* A closed shift is over at the server, and a receipt is kept (closeOut,  *)
(* completeRoute).                                                         *)
THEOREM ClosedShiftsAreSettled == ShiftSpec => []ClosedShiftIsSettled
<1>1. ShiftInv => ClosedShiftIsSettled
  BY DEF ShiftInv, ShiftTypeOK, TablesOK, ClosedOK, ClosedShiftIsSettled
<1> QED BY <1>1, ShiftInvariant, PTL
=============================================================================
