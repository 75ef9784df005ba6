---------------------------- MODULE OutboxSync ----------------------------
(***************************************************************************)
(* The collector's outbox on one device: collections and station           *)
(* deliveries are stored in IndexedDB, and a single-flight worker sends    *)
(* them to the server, retries them and forgets them a week after the      *)
(* server confirmed them.  Accounts sign in and out on the same device     *)
(* while a synchronisation and a token refresh may be in flight, the app   *)
(* may be killed at any moment, requests and answers get lost or late, and *)
(* the device is offline for as long as it likes.                          *)
(*                                                                         *)
(* The worker is JavaScript: it runs from one await to the next without    *)
(* interruption, so an action is one such stretch, and whatever it read    *)
(* before an await may be stale after it.  The two awaits that open        *)
(* performSync (recoverStaleSyncing and getPending) are one action: only   *)
(* the worker itself writes the rows they read.                            *)
(*                                                                         *)
(* Time is the flag due of a row: its next_attempt_at has passed or, for a *)
(* SYNCING row, sync_started_at lies 60 s back.  retryOutbox is one step:  *)
(* nothing else writes the FAILED row it reads and puts back.              *)
(***************************************************************************)
EXTENDS Naturals, FiniteSets

CONSTANTS
  Collector,    \* accounts that use the device
  Order,        \* orders collected with it
  MaxRecords,   \* bound: rows ever stored
  BatchSize,    \* OUTBOX_BATCH_SIZE
  MaxAttempts,  \* attempts after which a row is FAILED
  None          \* null

ASSUME BoundsAssumption ==
  /\ MaxRecords \in Nat
  /\ BatchSize \in Nat \ {0}
  /\ MaxAttempts \in Nat \ {0}

ASSUME NoneAssumption == None \notin Collector \cup Order

VARIABLES
  outbox,    \* the outbox table, by client_uuid
  owner,     \* activeOutboxOwnerId
  token,     \* whose tokens tokenStorage holds
  user,      \* whose profile authUserStorage holds
  refresh,   \* whose tokens the refresh in flight renews
  sync,      \* the run of performSync in flight
  late,      \* items of given-up requests that may still reach the server
  receipts,  \* server: the collector each client_uuid was recorded for
  unserved,  \* server: orders of merchants that are not approved, or moved ward
  online     \* navigator.onLine

vars == <<outbox, owner, token, user, refresh, sync, late, receipts, unserved, online>>
session == <<owner, token, user, refresh>>
outside == <<late, receipts, unserved, online>>

-----------------------------------------------------------------------------
(* client_uuids are numbered in the order in which their rows are created, *)
(* which is the order getPending sorts by.                                 *)
Uuid == 1..MaxRecords
Account == Collector \cup {None}

(* A collection is of an order; a station delivery has none.               *)
OutboxRecord ==
  [status : {"absent", "pending", "syncing", "synced", "failed", "deleted"},
   owner : Account, order : Order \cup {None}, attempts : 0..MaxAttempts, due : BOOLEAN]

Absent == [status |-> "absent", owner |-> None, order |-> None, attempts |-> 0, due |-> FALSE]

IsStored(u) == outbox[u].status \notin {"absent", "deleted"}
IsCollection(u) == outbox[u].order # None
BelongsToActiveOwner(u) == owner # None /\ outbox[u].owner = owner

(* failedRecord, the outcome of every attempt that was not confirmed.      *)
FailedRecord(r) ==
  [r EXCEPT !.status = IF r.attempts + 1 >= MaxAttempts THEN "failed" ELSE "pending",
            !.attempts = r.attempts + 1,
            !.due = FALSE]

-----------------------------------------------------------------------------
(* The run of performSync: records, the rows as it read them (it writes    *)
(* these back, whatever the table holds by then), the rows not dealt with  *)
(* yet, those in the request that is out, the answers to them, and in left *)
(* those still to be written.                                              *)
Phase == {"idle", "marking", "ready", "sent", "applying"}
Answer == {"none", "done", "refused"}

Idle == [phase |-> "idle", owner |-> None, token |-> None, failing |-> FALSE,
         records |-> [u \in Uuid |-> Absent], unsent |-> {}, sending |-> {}, left |-> {},
         answer |-> [u \in Uuid |-> "none"]]

Refusals == [u \in Uuid |-> "refused"]

Stale_mutant == {}

(* recoverStaleSyncing.                                                    *)
Stale == {u \in Uuid : /\ outbox[u].status = "syncing" /\ outbox[u].due
                       /\ BelongsToActiveOwner(u)}

Recovered == [u \in Uuid |-> IF u \in Stale THEN [outbox[u] EXCEPT !.status = "pending"]
                                            ELSE outbox[u]]

Due == {u \in Uuid : /\ Recovered[u].status = "pending" /\ Recovered[u].due
                     /\ BelongsToActiveOwner(u)}

(* getPending: the oldest BatchSize rows that are due.                     *)
GetPending == {u \in Due : Cardinality({v \in Due : v < u}) < BatchSize}

Confirmed_mutant(u) == TRUE

(* Result "created" or "duplicate".                                        *)
Confirmed(u) == sync.answer[u] = "done"

(* The collections of the batch go in one request, each delivery in its    *)
(* own after them.                                                         *)
NextRequests ==
  LET collections == {u \in sync.unsent : IsCollection(u)}
  IN IF collections # {} THEN {collections} ELSE {{u} : u \in sync.unsent}

-----------------------------------------------------------------------------
(* The server's answer to an item: it holds the item already, records it,  *)
(* or refuses it.  For a collection it looks at the merchant before it     *)
(* looks for the item; one order is recorded once.                         *)
IsTaken(u) ==
  IsCollection(u) /\ \E v \in Uuid \ {u} : outbox[v].order = outbox[u].order
                                           /\ receipts[v] # None

Outcomes(u, c) ==
  IF IsCollection(u) /\ outbox[u].order \in unserved THEN {"refused"}
  ELSE IF receipts[u] # None THEN IF receipts[u] = c THEN {"done"} ELSE {"refused"}
  ELSE IF IsTaken(u) THEN {"refused"}
  ELSE {"done", "refused"}

Receive(u, c, outcome) ==
  /\ outcome \in Outcomes(u, c)
  /\ receipts' = IF outcome = "done" THEN [receipts EXCEPT ![u] = c] ELSE receipts

-----------------------------------------------------------------------------
Init ==
  /\ outbox = [u \in Uuid |-> Absent]
  /\ owner = None /\ token = None /\ user = None /\ refresh = None
  /\ sync = Idle
  /\ late = {}
  /\ receipts = [u \in Uuid |-> None]
  /\ unserved = {}
  /\ online \in BOOLEAN

(* enqueueCollection, which returns the row of the same owner and order if *)
(* there is one, and enqueueStationDelivery.                               *)
Enqueue(u, o) ==
  /\ owner # None
  /\ outbox[u].status = "absent"
  /\ \A v \in Uuid : v < u => outbox[v].status # "absent"
  /\ o # None => \A v \in Uuid : ~(IsStored(v) /\ outbox[v].owner = owner /\ outbox[v].order = o)
  /\ outbox' = [outbox EXCEPT ![u] =
       [status |-> "pending", owner |-> owner, order |-> o, attempts |-> 0, due |-> TRUE]]
  /\ UNCHANGED <<session, sync, outside>>

(* retryOutbox, offered for FAILED rows.                                   *)
RetryOutbox(u) ==
  /\ outbox[u].status = "failed"
  /\ BelongsToActiveOwner(u)
  /\ outbox' = [outbox EXCEPT ![u].status = "pending", ![u].attempts = 0, ![u].due = TRUE]
  /\ UNCHANGED <<session, sync, outside>>

Elapse(u) ==
  /\ outbox[u].status \in {"pending", "syncing"}
  /\ ~outbox[u].due
  /\ outbox' = [outbox EXCEPT ![u].due = TRUE]
  /\ UNCHANGED <<session, sync, outside>>

-----------------------------------------------------------------------------
(* performSync                                                             *)

(* kick starts a run while the device is online, a screen after an enqueue *)
(* or a retry whether it is or not; either joins the run in flight.  The   *)
(* rows are filtered by owner, and owner and token read, in one turn of    *)
(* the event loop.                                                         *)
SyncRead ==
  /\ sync.phase = "idle"
  /\ outbox' = Recovered
  /\ sync' = [Idle EXCEPT
       !.phase = IF GetPending = {} THEN "ready" ELSE "marking",
       !.owner = owner, !.token = token,
       !.unsent = GetPending, !.left = GetPending,
       !.records = [u \in Uuid |-> IF u \in GetPending THEN Recovered[u] ELSE Absent]]
  /\ UNCHANGED <<session, outside>>

SyncMark(u) ==
  /\ sync.phase = "marking"
  /\ u \in sync.left
  /\ outbox' = [outbox EXCEPT ![u] =
       [sync.records[u] EXCEPT !.status = "syncing", !.due = FALSE]]
  /\ sync' = [sync EXCEPT !.left = @ \ {u},
                          !.phase = IF sync.left = {u} THEN "ready" ELSE "marking"]
  /\ UNCHANGED <<session, outside>>

SyncSend ==
  /\ sync.phase = "ready"
  /\ \E request \in NextRequests :
       sync' = [sync EXCEPT !.phase = "sent", !.sending = request, !.failing = FALSE]
  /\ UNCHANGED <<outbox, session, outside>>

(* processBatch takes the items one by one, each in its own transaction;   *)
(* without a valid token the server takes none.                            *)
Serve(u) ==
  /\ sync.phase = "sent"
  /\ sync.token # None
  /\ u \in sync.sending
  /\ sync.answer[u] = "none"
  /\ \E outcome \in Answer :
       /\ Receive(u, sync.token, outcome)
       /\ sync' = [sync EXCEPT !.answer[u] = outcome]
  /\ UNCHANGED <<outbox, session, late, unserved, online>>

(* The answer arrives; it is thrown away if the owner has changed.         *)
SyncReceive ==
  /\ sync.phase = "sent"
  /\ \A u \in sync.sending : sync.answer[u] # "none"
  /\ sync' = [sync EXCEPT !.phase = "applying", !.left = sync.sending,
                          !.failing = sync.owner # owner,
                          !.answer = IF sync.owner = owner THEN @ ELSE Refusals]
  /\ UNCHANGED <<outbox, session, outside>>

(* What a request given up leaves on its way: any of the items the server  *)
(* has not taken yet may still arrive.                                     *)
GivenUp(L) ==
  /\ L \subseteq {u \in sync.sending : sync.answer[u] = "none"}
  /\ sync.token = None => L = {}
  /\ late' = late \cup {<<sync.token, u>> : u \in L}

(* Timeout, network failure, 401: the request throws.                      *)
SyncError(L) ==
  /\ sync.phase = "sent"
  /\ GivenUp(L)
  /\ sync' = [sync EXCEPT !.phase = "applying", !.left = sync.sending,
                          !.failing = TRUE, !.answer = Refusals]
  /\ UNCHANGED <<outbox, session, receipts, unserved, online>>

SyncApply(u) ==
  /\ sync.phase = "applying"
  /\ u \in sync.left
  /\ outbox' = [outbox EXCEPT ![u] =
       IF Confirmed(u) THEN [sync.records[u] EXCEPT !.status = "synced", !.due = FALSE]
       ELSE FailedRecord(sync.records[u])]
  /\ sync' = [sync EXCEPT !.left = @ \ {u}]
  /\ UNCHANGED <<session, outside>>

(* IndexedDB refuses a write: in the loop over the results this ends in    *)
(* the catch, which fails every row of the request, written or not;        *)
(* anywhere else it ends performSync.                                      *)
SyncStoreFails ==
  /\ sync.left # {}
  /\ sync' = IF sync.phase = "applying" /\ ~sync.failing
             THEN [sync EXCEPT !.failing = TRUE, !.answer = Refusals, !.left = sync.sending]
             ELSE Idle
  /\ UNCHANGED <<outbox, session, outside>>

SyncNext ==
  /\ sync.phase = "applying"
  /\ sync.left = {}
  /\ sync' = [sync EXCEPT !.phase = "ready", !.unsent = @ \ sync.sending, !.sending = {},
                          !.answer = Idle.answer]
  /\ UNCHANGED <<outbox, session, outside>>

(* deleteSyncedBefore: the SYNCED rows in old are more than a week old.    *)
SyncEnd(old) ==
  /\ sync.phase = "ready"
  /\ sync.unsent = {}
  /\ old \subseteq {u \in Uuid : outbox[u].status = "synced" /\ BelongsToActiveOwner(u)}
  /\ outbox' = [u \in Uuid |-> IF u \in old THEN [outbox[u] EXCEPT !.status = "deleted"]
                                            ELSE outbox[u]]
  /\ sync' = Idle
  /\ UNCHANGED <<session, outside>>

-----------------------------------------------------------------------------
(* The session                                                             *)

(* The login screen is shown while nobody is signed in.                    *)
SignIn(c) ==
  /\ user = None
  /\ owner' = c /\ token' = c /\ user' = c
  /\ UNCHANGED <<refresh, outbox, sync, outside>>

ClearSession == owner' = None /\ token' = None /\ user' = None

SignOut ==
  /\ user # None
  /\ ClearSession
  /\ UNCHANGED <<refresh, outbox, sync, outside>>

(* A request other than a synchronisation met a 401.                       *)
RefreshStart ==
  /\ token # None
  /\ refresh = None
  /\ refresh' = token
  /\ UNCHANGED <<owner, token, user, outbox, sync, outside>>

(* The new tokens are stored whoever is signed in by now.                  *)
RefreshDone ==
  /\ refresh # None
  /\ token' = refresh
  /\ refresh' = None
  /\ UNCHANGED <<owner, user, outbox, sync, outside>>

(* The server refused the refresh: unauthorizedHandler signs out.          *)
RefreshRefused ==
  /\ refresh # None
  /\ refresh' = None
  /\ ClearSession
  /\ UNCHANGED <<outbox, sync, outside>>

RefreshLost ==
  /\ refresh # None
  /\ refresh' = None
  /\ UNCHANGED <<owner, token, user, outbox, sync, outside>>

(* The app is killed: storage survives, memory does not.                   *)
Kill(L) ==
  /\ owner' = None /\ refresh' = None
  /\ sync' = Idle
  /\ IF sync.phase = "sent" THEN GivenUp(L) ELSE L = {} /\ late' = late
  /\ UNCHANGED <<outbox, token, user, receipts, unserved, online>>

(* It starts again: /auth/me answers for the token, or fails and the       *)
(* stored profile is used.                                                 *)
Hydrate(c) ==
  /\ owner = None
  /\ token # None
  /\ c \in {token, user} \ {None}
  /\ owner' = c /\ user' = c
  /\ UNCHANGED <<token, refresh, outbox, sync, outside>>

-----------------------------------------------------------------------------
(* The server                                                              *)

LateArrives(c, u) ==
  /\ <<c, u>> \in late
  /\ late' = late \ {<<c, u>>}
  /\ \E outcome \in Answer : Receive(u, c, outcome)
  /\ UNCHANGED <<outbox, session, sync, unserved, online>>

LateLost(c, u) ==
  /\ <<c, u>> \in late
  /\ late' = late \ {<<c, u>>}
  /\ UNCHANGED <<outbox, session, sync, receipts, unserved, online>>

MerchantRejected(o) ==
  /\ unserved' = unserved \cup {o}
  /\ UNCHANGED <<outbox, session, sync, late, receipts, online>>

MerchantApproved(o) ==
  /\ unserved' = unserved \ {o}
  /\ UNCHANGED <<outbox, session, sync, late, receipts, online>>

(* navigator.onLine is what the browser makes of the connection: it keeps  *)
(* kick from starting a run, and says of no request whether it arrives.    *)
ConnectionChanges ==
  /\ online' = ~online
  /\ UNCHANGED <<outbox, session, sync, late, receipts, unserved>>

-----------------------------------------------------------------------------
(* What a run does once it has begun.                                      *)
Worker ==
  \/ SyncSend \/ SyncReceive \/ SyncNext
  \/ \E u \in Uuid : SyncMark(u) \/ SyncApply(u)
  \/ \E L \in SUBSET Uuid : SyncError(L) \/ SyncEnd(L)

Session ==
  \/ \E c \in Collector : SignIn(c) \/ Hydrate(c)
  \/ SignOut \/ RefreshStart \/ RefreshDone \/ RefreshRefused \/ RefreshLost
  \/ \E L \in SUBSET Uuid : Kill(L)

Server ==
  \/ \E u \in Uuid : Serve(u)
  \/ \E c \in Collector, u \in Uuid : LateArrives(c, u) \/ LateLost(c, u)
  \/ \E o \in Order : MerchantRejected(o) \/ MerchantApproved(o)

Next ==
  \/ \E u \in Uuid, o \in Order \cup {None} : Enqueue(u, o)
  \/ \E u \in Uuid : RetryOutbox(u) \/ Elapse(u)
  \/ SyncRead \/ Worker \/ SyncStoreFails
  \/ Session
  \/ Server
  \/ ConnectionChanges

Spec == Init /\ [][Next]_vars

(* The app is kicked every 30 s and whenever its device comes online, and  *)
(* a kick starts a run, or joins one that ends: a device that is online    *)
(* again and again runs again and again.  One that is not may start none.  *)
Kicked == []<>online => []<><<SyncRead>>_vars

(* Nothing a run awaits lasts for ever: a request ends in an answer or a   *)
(* timeout, and IndexedDB does not refuse every write.  A row's waiting    *)
(* time passes.                                                            *)
Fairness ==
  /\ Kicked
  /\ WF_vars(Worker)
  /\ WF_vars(\E u \in Uuid : Elapse(u))
  /\ SF_vars(\E u \in Uuid : SyncMark(u))
  /\ SF_vars(\E u \in Uuid : SyncApply(u))

FairSpec == Spec /\ Fairness
-----------------------------------------------------------------------------
(* Properties                                                              *)

(* Every row, the session and the run in flight have their shape.          *)
TypeOK ==
  /\ outbox \in [Uuid -> OutboxRecord]
  /\ owner \in Account /\ token \in Account /\ user \in Account /\ refresh \in Account
  /\ sync \in [phase : Phase, owner : Account, token : Account, failing : BOOLEAN,
               records : [Uuid -> OutboxRecord], unsent : SUBSET Uuid, sending : SUBSET Uuid, left : SUBSET Uuid,
               answer : [Uuid -> Answer]]
  /\ late \subseteq Collector \X Uuid
  /\ receipts \in [Uuid -> Account]
  /\ unserved \subseteq Order
  /\ online \in BOOLEAN

(* What the collector collected is never lost: a row is SYNCED, or deleted *)
(* from the device, only when the server holds its item, however sign-ins, *)
(* timeouts, kills and failing writes fell between the steps.              *)
SyncedIsReceived ==
  \A u \in Uuid : outbox[u].status \in {"synced", "deleted"} => receipts[u] # None

(* Why: an answer counts as a confirmation only once the server has the    *)
(* item, in whatever later step of the run, or of none, it is read; and a  *)
(* row still to be sent has attempts left.                                 *)
AnswersAreReceipts ==
  \A u \in Uuid : sync.answer[u] = "done" => receipts[u] # None

AttemptsLeft ==
  \A u \in Uuid :
    /\ outbox[u].status \in {"pending", "syncing"} => outbox[u].attempts < MaxAttempts
    /\ sync.records[u].attempts < MaxAttempts

OutboxInv == TypeOK /\ SyncedIsReceived /\ AnswersAreReceipts /\ AttemptsLeft

(* A row waiting to be sent while its collector stays signed in is, in the *)
(* end, confirmed by the server or offered for a manual retry, unless the  *)
(* device stays offline for good: no kill, timeout, failed write, change   *)
(* of account or connection that comes and goes leaves it stuck, not even  *)
(* behind older rows that fill every batch.  (Were older rows retried by   *)
(* hand for ever, they could: hence the second disjunct.)                  *)
Waiting(u) == outbox[u].status \in {"pending", "syncing"} /\ BelongsToActiveOwner(u)

RowsGetResolved ==
  \/ <>[]~online
  \/ []<><<\E u \in Uuid : RetryOutbox(u)>>_vars
  \/ \A u \in Uuid : Waiting(u) ~> ~Waiting(u)

(* The repository says otherwise of the next two.                          *)

(* "Never send A's data with B's token on logout/login, refresh or retry." *)
SentByItsOwner ==
  sync.phase = "sent" /\ sync.token # None =>
    \A u \in sync.sending : outbox[u].owner = sync.token

(* "A retry returns the existing record."                                  *)
ReplayStep ==
  \A u \in Uuid : /\ sync.answer[u] = "none"
                  /\ sync'.phase = "sent" /\ sync'.answer[u] = "refused"
                  => receipts[u] # sync.token

ReplaysAreAnswered == [][ReplayStep]_sync
=============================================================================
