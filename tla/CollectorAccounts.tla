------------------------- MODULE CollectorAccounts -------------------------
(***************************************************************************)
(* How an account becomes a collector.  An administrator creates a         *)
(* collector, which issues an invite; whoever opens the link signs in and  *)
(* accepts it, and the account is linked to the collector and takes the    *)
(* role COLLECTOR.  Meanwhile administrators renew invites, lock and       *)
(* unlock collectors, and accounts register restaurants.                   *)
(*                                                                         *)
(* The state is in two stores that no transaction spans: the rows of the   *)
(* database, and the one-time keys of Redis.  An action is one call to     *)
(* either store, or one transaction of the database; what a request read   *)
(* before may be stale by then.  Any call may fail, a commit may succeed   *)
(* without its answer arriving, and the server may stop.  A call to Redis  *)
(* that fails has had no effect.                                           *)
(*                                                                         *)
(* Accounts of stations and administrators cannot accept an invite and are *)
(* left out.  So are collectors.service.ts and its controller: the module  *)
(* that declares them is not imported by app.module.ts.                    *)
(***************************************************************************)
EXTENDS Naturals, FiniteSets

CONSTANTS
  User,       \* accounts
  Collector,  \* ids of collectors
  Worker,     \* requests the server works on at a time
  MaxCodes,   \* bound: invite codes ever issued
  None        \* null

ASSUME CodesAssumption == MaxCodes \in Nat

ASSUME NoneAssumption == None \notin User \cup Collector \cup Nat

VARIABLES
  role,          \* users.role
  merchant,      \* whether an account has a restaurant
  row,           \* the collectors table
  invite,        \* Redis: the collector under the one-time key of each code
  activeInvite,  \* Redis: the code under the active-invite key of each collector
  request,       \* what each worker is at
  issued,        \* codes drawn so far
  sent,          \* codes that reached an administrator, and so possibly anybody
  expired,       \* codes whose inviteExpiresAt has passed
  lost           \* codes consumed by a request that then failed to give them back

database == <<role, merchant, row>>
redis == <<invite, activeInvite>>
codes == <<issued, sent, expired>>
vars == <<role, merchant, row, invite, activeInvite, request, issued, sent, expired, lost>>

-----------------------------------------------------------------------------
Code == 1..MaxCodes

Row ==
  [link : {"ABSENT", "PENDING_LINK", "LINKED"}, user : User \cup {None},
   hash : Code \cup {None}, active : BOOLEAN]

Absent == [link |-> "ABSENT", user |-> None, hash |-> None, active |-> FALSE]

(* Phases of createCollector and regenerateCollectorInvite, ...            *)
Issuing == {"issued", "listed", "failed", "replaced"}
(* ... of linkCollectorInvite while it has the code in its hands, ...      *)
Holding == {"consumed", "checked", "read", "refused"}
(* ... and the rest of it, and register.                                   *)
Phase == {"idle"} \cup Issuing \cup Holding \cup {"linked", "registering"}

(* old is the code the row had when the request read it.                   *)
Request ==
  [phase : Phase, user : User \cup {None}, collector : Collector \cup {None},
   code : Code \cup {None}, old : Code \cup {None}]

Idle == [phase |-> "idle", user |-> None, collector |-> None, code |-> None, old |-> None]

Holds(w, k) == request[w].phase \in Holding /\ request[w].code = k

(* A user has at most one collector: unique index on collectors.user_id.   *)
HasCollector(u) == \E c \in Collector : row[c].user = u

Taken_mutant(u) == FALSE

Taken(u) == HasCollector(u)

(* The conditions on the row that linkCollectorInvite checks twice.        *)
Invited(c, k) ==
  /\ row[c].user = None
  /\ row[c].link = "PENDING_LINK"
  /\ row[c].hash = k
  /\ k \notin expired
  /\ row[c].active

StillInvited_mutant(c, k) == row[c].link # "ABSENT"

StillInvited(c, k) == Invited(c, k)

At(w, phase) == request[w].phase = phase
Goto(w, phase) == request' = [request EXCEPT ![w].phase = phase]
Finish(w) == request' = [request EXCEPT ![w] = Idle]

-----------------------------------------------------------------------------
(* createCollector and regenerateCollectorInvite.                          *)

(* A new code gets its one-time key; the row does not know it yet.         *)
Issue(w, c, old) ==
  /\ At(w, "idle")
  /\ issued < MaxCodes
  /\ issued' = issued + 1
  /\ invite' = [invite EXCEPT ![issued + 1] = c]
  /\ request' = [request EXCEPT ![w] = [phase |-> "issued", user |-> None, collector |-> c,
                                        code |-> issued + 1, old |-> old]]
  /\ UNCHANGED <<role, merchant, row, activeInvite, sent, expired, lost>>

(* The id is a new UUID: no other request has it.                          *)
CreateCollector(w, c) ==
  /\ row[c] = Absent
  /\ \A v \in Worker : request[v].collector # c
  /\ Issue(w, c, None)

(* A ward of the input does not exist, or the key cannot be set.           *)
RefuseCreation(w, c) ==
  /\ At(w, "idle")
  /\ row[c] = Absent
  /\ UNCHANGED vars

RegenerateCollectorInvite(w, c) ==
  /\ row[c].link = "PENDING_LINK"
  /\ row[c].user = None
  /\ row[c].active
  /\ Issue(w, c, row[c].hash)

SetActiveInvite(w) ==
  /\ At(w, "issued")
  /\ \/ /\ activeInvite' = [activeInvite EXCEPT ![request[w].collector] = request[w].code]
        /\ Goto(w, "listed")
     \/ /\ Goto(w, "failed")
        /\ UNCHANGED activeInvite
  /\ UNCHANGED <<database, invite, codes, lost>>

Reissued_mutant(c, k) ==
  IF row[c] = Absent
  THEN [link |-> "PENDING_LINK", user |-> None, hash |-> k, active |-> TRUE]
  ELSE [row[c] EXCEPT !.hash = k]

(* What create, or the update that checks nothing, leaves in the row.      *)
Reissued(c, k) ==
  IF row[c] = Absent
  THEN [link |-> "PENDING_LINK", user |-> None, hash |-> k, active |-> TRUE]
  ELSE [row[c] EXCEPT !.link = "PENDING_LINK", !.hash = k]

(* From here on the link is in the list of collectors.  When the commit is *)
(* not answered the request fails, and takes the key of a code that stands *)
(* away.                                                                   *)
WriteRow(w) ==
  LET c == request[w].collector
      k == request[w].code
  IN /\ At(w, "listed")
     /\ \/ /\ row' = [row EXCEPT ![c] = Reissued(c, k)]
           /\ sent' = sent \cup {k}
           /\ \/ Goto(w, "replaced") /\ UNCHANGED lost
              \/ Goto(w, "failed") /\ lost' = lost \cup {k}
        \/ Goto(w, "failed") /\ UNCHANGED <<row, sent, lost>>
     /\ UNCHANGED <<role, merchant, redis, issued, expired>>

(* The error path: both keys are deleted, each deletion may fail.          *)
WithdrawInvite(w) ==
  /\ At(w, "failed")
  /\ \/ invite' = [invite EXCEPT ![request[w].code] = None]
     \/ UNCHANGED invite
  /\ \/ activeInvite' = [activeInvite EXCEPT ![request[w].collector] = None]
     \/ UNCHANGED activeInvite
  /\ Finish(w)
  /\ UNCHANGED <<database, codes, lost>>

Replaced_mutant(w) == request[w].code

(* The code whose key a renewal deletes: the one its row had before.       *)
Replaced(w) == request[w].old

DeleteReplacedInvite(w) ==
  /\ At(w, "replaced")
  /\ \/ /\ Replaced(w) # None
        /\ invite' = [invite EXCEPT ![Replaced(w)] = None]
     \/ UNCHANGED invite
  /\ Finish(w)
  /\ UNCHANGED <<database, activeInvite, codes, lost>>

(* updateCollector with a status.                                          *)
UpdateCollector(c) ==
  /\ row[c] # Absent
  /\ row' = [row EXCEPT ![c].active = ~@]
  /\ UNCHANGED <<role, merchant, redis, request, codes, lost>>

-----------------------------------------------------------------------------
(* linkCollectorInvite.                                                    *)

Deleted_mutant(k) == invite

(* consumeOneTime reads and deletes the key in one script.                 *)
Deleted(k) == [invite EXCEPT ![k] = None]

ConsumeInvite(w, u, k) ==
  /\ At(w, "idle")
  /\ k \in sent
  /\ invite[k] # None
  /\ invite' = Deleted(k)
  /\ request' = [request EXCEPT ![w] = [phase |-> "consumed", user |-> u, collector |-> invite[k],
                                        code |-> k, old |-> None]]
  /\ UNCHANGED <<database, activeInvite, codes, lost>>

(* A request that is refused here, or whose read fails, does not give the  *)
(* code back, not even that of a collector who is only locked.             *)
CheckInvite(w) ==
  LET k == request[w].code
  IN /\ At(w, "consumed")
     /\ \/ /\ Invited(request[w].collector, k)
           /\ Goto(w, "checked")
           /\ UNCHANGED lost
        \/ /\ Finish(w)
           /\ lost' = lost \cup {k}
     /\ UNCHANGED <<database, redis, codes>>

(* The transaction reads the account without a lock ...                    *)
ReadUser(w) ==
  LET u == request[w].user
  IN /\ At(w, "checked")
     /\ Goto(w, IF HasCollector(u) \/ merchant[u] THEN "refused" ELSE "read")
     /\ UNCHANGED <<database, redis, codes, lost>>

(* ... and links it to the row if the invite still stands.                 *)
LinkCollector(w) ==
  LET u == request[w].user
      c == request[w].collector
  IN /\ At(w, "read")
     /\ \/ /\ StillInvited(c, request[w].code)
           /\ ~Taken(u)
           /\ row' = [row EXCEPT ![c].user = u, ![c].link = "LINKED", ![c].hash = None]
           /\ role' = [role EXCEPT ![u] = "COLLECTOR"]
           /\ Goto(w, "linked") \/ Goto(w, "refused")
        \/ Goto(w, "refused") /\ UNCHANGED <<row, role>>
     /\ UNCHANGED <<merchant, redis, codes, lost>>

ForgetActiveInvite(w) ==
  /\ At(w, "linked")
  /\ \/ activeInvite' = [activeInvite EXCEPT ![request[w].collector] = None]
     \/ UNCHANGED activeInvite
  /\ Finish(w)
  /\ UNCHANGED <<database, invite, codes, lost>>

Restored_mutant(w) == invite

(* restoreOneTime, which does not overwrite a key.                         *)
Restored(w) ==
  [invite EXCEPT ![request[w].code] = IF @ = None THEN request[w].collector ELSE @]

RestoreInvite(w) ==
  /\ At(w, "refused")
  /\ \/ invite' = Restored(w) /\ UNCHANGED lost
     \/ lost' = lost \cup {request[w].code} /\ UNCHANGED invite
  /\ Finish(w)
  /\ UNCHANGED <<database, activeInvite, codes>>

-----------------------------------------------------------------------------
(* register: the guards and the look for a restaurant of the account come  *)
(* before the transaction that creates it.                                 *)
RegisterMerchant(w, u) ==
  /\ At(w, "idle")
  /\ role[u] = "MERCHANT"
  /\ ~merchant[u]
  /\ request' = [request EXCEPT ![w] = [Idle EXCEPT !.phase = "registering", !.user = u]]
  /\ UNCHANGED <<database, redis, codes, lost>>

(* A second restaurant is refused by the unique index on merchants.user_id.*)
CreateMerchant(w) ==
  /\ At(w, "registering")
  /\ merchant' = [merchant EXCEPT ![request[w].user] = TRUE]
  /\ Finish(w)
  /\ UNCHANGED <<role, row, redis, codes, lost>>

-----------------------------------------------------------------------------
(* inviteExpiresAt passes; the key outlives it, but not for long.          *)
Expire(k) ==
  /\ k \in sent \ expired
  /\ expired' = expired \cup {k}
  /\ UNCHANGED <<database, redis, request, issued, sent, lost>>

DropExpired(k) ==
  /\ k \in expired
  /\ \/ invite[k] # None
     \/ \E c \in Collector : activeInvite[c] = k
  /\ invite' = [invite EXCEPT ![k] = None]
  /\ activeInvite' = [c \in Collector |-> IF activeInvite[c] = k THEN None ELSE activeInvite[c]]
  /\ UNCHANGED <<database, request, codes, lost>>

(* The server stops: what its requests held is in nobody's hands.          *)
Crash ==
  /\ \E w \in Worker : ~At(w, "idle")
  /\ request' = [w \in Worker |-> Idle]
  /\ lost' = lost \cup {k \in Code : \E w \in Worker : Holds(w, k)}
  /\ UNCHANGED <<database, redis, codes>>

-----------------------------------------------------------------------------
(* The accounts the system starts with: restaurants, accounts that have    *)
(* not registered one yet, and seeded collectors without a profile.        *)
Init ==
  /\ role \in [User -> {"MERCHANT", "COLLECTOR"}]
  /\ merchant \in [User -> BOOLEAN]
  /\ \A u \in User : merchant[u] => role[u] = "MERCHANT"
  /\ row = [c \in Collector |-> Absent]
  /\ invite = [k \in Code |-> None]
  /\ activeInvite = [c \in Collector |-> None]
  /\ request = [w \in Worker |-> Idle]
  /\ issued = 0
  /\ sent = {}
  /\ expired = {}
  /\ lost = {}

Administrator(w) ==
  \/ \E c \in Collector : \/ CreateCollector(w, c) \/ RefuseCreation(w, c)
                         \/ RegenerateCollectorInvite(w, c)
  \/ SetActiveInvite(w)
  \/ WriteRow(w)
  \/ WithdrawInvite(w)
  \/ DeleteReplacedInvite(w)

Acceptance(w) ==
  \/ \E u \in User, k \in Code : ConsumeInvite(w, u, k)
  \/ CheckInvite(w)
  \/ ReadUser(w)
  \/ LinkCollector(w)
  \/ ForgetActiveInvite(w)
  \/ RestoreInvite(w)

Registration(w) ==
  \/ \E u \in User : RegisterMerchant(w, u)
  \/ CreateMerchant(w)

Next ==
  \/ \E w \in Worker : Administrator(w) \/ Acceptance(w) \/ Registration(w)
  \/ \E c \in Collector : UpdateCollector(c)
  \/ \E k \in Code : Expire(k) \/ DropExpired(k)
  \/ Crash

Spec == Init /\ [][Next]_vars

-----------------------------------------------------------------------------
(* Types, and the row's fields that go together: only a pending collector  *)
(* has an invite, and a linked one has an account (createCollector,        *)
(* regenerateCollectorInvite and linkCollectorInvite write them).          *)
TypeOK ==
  /\ role \in [User -> {"MERCHANT", "COLLECTOR"}]
  /\ merchant \in [User -> BOOLEAN]
  /\ row \in [Collector -> Row]
  /\ invite \in [Code -> Collector \cup {None}]
  /\ activeInvite \in [Collector -> Code \cup {None}]
  /\ request \in [Worker -> Request]
  /\ issued \in 0..MaxCodes
  /\ sent \subseteq 1..issued
  /\ expired \subseteq sent
  /\ lost \subseteq 1..issued
  /\ \A c \in Collector :
       /\ row[c].link = "ABSENT" => row[c] = Absent
       /\ row[c].link = "PENDING_LINK" => row[c].hash # None
       /\ row[c].link = "LINKED" => row[c].hash = None /\ row[c].user # None

(* A code is in Redis or in the hands of one request, never both: two      *)
(* requests that open the same link cannot both try to link it, whatever   *)
(* was restored, renewed or lost (consumeOneTime, restoreOneTime).         *)
InviteHeldOnce ==
  \A w \in Worker : \A k \in Code :
    Holds(w, k) => /\ invite[k] = None
                   /\ \A v \in Worker \ {w} : ~Holds(v, k)

(* An invite that the database still honours can be opened: its key leads  *)
(* to the collector, or the one request that took it is still at work;     *)
(* except for the codes in lost (the renewals, restores and error paths).  *)
InviteStaysUsable ==
  \A c \in Collector : \A k \in Code \ lost :
    (row[c].user = None /\ row[c].hash = k /\ k \notin expired) =>
      (invite[k] = c \/ \E w \in Worker : Holds(w, k) /\ request[w].collector = c)

(* An account is linked to one collector at most, however many invites it  *)
(* accepts at once (linkCollectorInvite reads, then updates).              *)
OneCollectorPerUser ==
  \A c, d \in Collector : row[c].user = row[d].user /\ row[c].user # None => c = d

(* A collector is never handed to another account: not by a second link    *)
(* that was opened before it was replaced, nor by a renewal that races the *)
(* acceptance (linkCollectorInvite, regenerateCollectorInvite).            *)
LinkIsFinal ==
  [][\A c \in Collector : row[c].user # None => row'[c].user = row[c].user]_vars

(* "Collector ... liên kết với Zalo user sau khi kiểm tra xung đột role":  *)
(* no account has both a restaurant and a collector.                       *)
OneProfile == \A u \in User : ~(merchant[u] /\ HasCollector(u))

-----------------------------------------------------------------------------
(* Why this holds.  A code that no row had yet is known to one request     *)
(* only, its key is in Redis, and once a row replaced it it never returns. *)

CodesAreDrawn ==
  /\ \A k \in Code : invite[k] # None => k \in 1..issued
  /\ \A c \in Collector : row[c].hash # None => row[c].hash \in sent
  /\ \A c, d \in Collector : row[c].hash = row[d].hash /\ row[c].hash # None => c = d

InHand ==
  \A w \in Worker :
    /\ request[w].phase \in Issuing \cup Holding \cup {"linked"} =>
         request[w].collector \in Collector /\ request[w].code \in 1..issued
    /\ request[w].phase \in Holding \cup {"linked", "registering"} => request[w].user \in User
    /\ request[w].phase \in Holding => request[w].code \in sent

(* A code that is not written yet.                                         *)
Unwritten ==
  \A w \in Worker : request[w].phase \in {"issued", "listed"} =>
    /\ request[w].code \notin sent
    /\ invite[request[w].code] = request[w].collector

OwnCodes ==
  \A v, w \in Worker :
    request[v].phase \in Issuing /\ request[w].phase \in Issuing
      /\ request[v].code = request[w].code => v = w

(* The code that is replaced, and the code of a request that failed.       *)
Discarded ==
  \A w \in Worker :
    /\ request[w].phase \in Issuing /\ request[w].old # None =>
         /\ request[w].old \in sent
         /\ \A c \in Collector : row[c].hash = request[w].old =>
              c = request[w].collector /\ request[w].phase # "replaced"
    /\ request[w].phase = "failed" =>
         \A c \in Collector : row[c].hash = request[w].code => request[w].code \in lost

InvitesInv ==
  /\ TypeOK
  /\ CodesAreDrawn
  /\ InHand
  /\ Unwritten
  /\ OwnCodes
  /\ Discarded
  /\ InviteHeldOnce
  /\ InviteStaysUsable
=============================================================================
