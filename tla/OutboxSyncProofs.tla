------------------------- MODULE OutboxSyncProofs -------------------------
(***************************************************************************)
(* Theorems of OutboxSync, for every number of collectors, orders, rows    *)
(* and attempts and every batch size.                                      *)
(***************************************************************************)
EXTENDS OutboxSync, TLAPS

(* A failed attempt keeps a row a row: the attempts stay within the bound. *)
LEMMA FailedRecordType ==
  ASSUME NEW r \in OutboxRecord, r.attempts < MaxAttempts
  PROVE  /\ FailedRecord(r) \in OutboxRecord
         /\ FailedRecord(r).status \in {"failed", "pending"}
         /\ FailedRecord(r).status = "pending" => FailedRecord(r).attempts < MaxAttempts
<1> DEFINE status == IF r.attempts + 1 >= MaxAttempts THEN "failed" ELSE "pending"
           attempts == r.attempts + 1
<1>1. /\ status \in {"failed", "pending"} /\ attempts \in 0..MaxAttempts
      /\ status = "pending" => attempts < MaxAttempts
  BY BoundsAssumption DEF OutboxRecord
<1>2. FailedRecord(r) = [r EXCEPT !.status = status, !.attempts = attempts, !.due = FALSE]
  BY DEF FailedRecord
<1> HIDE DEF status, attempts
<1>3. QED
  BY <1>1, <1>2 DEF OutboxRecord

(* Rows stay rows when their status or their waiting time changes.         *)
LEMMA RowUpdates ==
  ASSUME NEW r \in OutboxRecord
  PROVE  /\ [r EXCEPT !.status = "pending"] \in OutboxRecord
         /\ [r EXCEPT !.status = "pending"].status = "pending"
         /\ [r EXCEPT !.status = "pending"].attempts = r.attempts
         /\ [r EXCEPT !.due = TRUE] \in OutboxRecord
         /\ [r EXCEPT !.status = "pending", !.attempts = 0, !.due = TRUE] \in OutboxRecord
<1>1. 0 \in 0..MaxAttempts
  BY BoundsAssumption
<1>2. /\ [r EXCEPT !.status = "pending"] \in OutboxRecord
      /\ [r EXCEPT !.status = "pending"].status = "pending"
      /\ [r EXCEPT !.status = "pending"].attempts = r.attempts
  BY DEF OutboxRecord
<1>3. [r EXCEPT !.due = TRUE] \in OutboxRecord
  BY DEF OutboxRecord
<1>4. [r EXCEPT !.status = "pending", !.attempts = 0, !.due = TRUE] \in OutboxRecord
  BY <1>1 DEF OutboxRecord
<1>5. QED
  BY <1>2, <1>3, <1>4

(* What the worker reads: rows, and only PENDING ones into a batch.        *)
LEMMA RecoveredType ==
  ASSUME OutboxInv, NEW u \in Uuid
  PROVE  /\ Recovered[u] \in OutboxRecord
         /\ Recovered[u].attempts = outbox[u].attempts
         /\ \/ Recovered[u].status = outbox[u].status
            \/ /\ outbox[u].status = "syncing"
               /\ Recovered[u].status = "pending"
         /\ u \in GetPending => Recovered[u].status = "pending"
<1>1. outbox[u] \in OutboxRecord
  BY DEF OutboxInv, TypeOK
<1>2. Recovered[u] = IF u \in Stale THEN [outbox[u] EXCEPT !.status = "pending"] ELSE outbox[u]
  BY DEF Recovered
<1>3. u \in Stale => outbox[u].status = "syncing"
  BY DEF Stale
<1>4. u \in GetPending => Recovered[u].status = "pending"
  BY DEF GetPending, Due
<1>5. CASE u \in Stale
  BY <1>1, <1>2, <1>3, <1>4, <1>5, RowUpdates
<1>6. CASE u \notin Stale
  BY <1>1, <1>2, <1>4, <1>6
<1>7. QED
  BY <1>5, <1>6

(* Nothing is stored at the start.                                         *)
LEMMA InitOutbox == Init => OutboxInv
<1>1. SUFFICES ASSUME Init PROVE OutboxInv
  OBVIOUS
<1>2. TypeOK
  BY <1>1, BoundsAssumption
     DEF Init, TypeOK, Idle, Absent, OutboxRecord, Account, Phase, Answer
<1>3. SyncedIsReceived /\ AnswersAreReceipts /\ AttemptsLeft
  BY <1>1, BoundsAssumption
     DEF Init, SyncedIsReceived, AnswersAreReceipts, AttemptsLeft, Idle, Absent
<1>4. QED
  BY <1>2, <1>3 DEF OutboxInv

(* The server's answer to an item comes with its receipt, and no receipt   *)
(* is ever taken back.                                                     *)
LEMMA ReceiptsGrow ==
  ASSUME OutboxInv, NEW u \in Uuid, NEW c \in Collector, NEW outcome \in Answer,
         Receive(u, c, outcome)
  PROVE  /\ receipts' \in [Uuid -> Account]
         /\ \A v \in Uuid : receipts[v] # None => receipts'[v] # None
         /\ outcome = "done" => receipts'[u] # None
<1>1. c # None /\ receipts \in [Uuid -> Account]
  BY NoneAssumption DEF OutboxInv, TypeOK
<1>2. QED
  BY <1>1 DEF Receive, Account

(* Every step of a run, a session or the server keeps the invariant.       *)
LEMMA NextOutbox == OutboxInv /\ [Next]_vars => OutboxInv'
<1> SUFFICES ASSUME OutboxInv, [Next]_vars
             PROVE  OutboxInv'
  OBVIOUS
<1> USE DEF session, outside
<1>a. /\ outbox \in [Uuid -> OutboxRecord] /\ receipts \in [Uuid -> Account]
      /\ sync.records \in [Uuid -> OutboxRecord] /\ sync.answer \in [Uuid -> Answer]
      /\ sync.unsent \subseteq Uuid /\ sync.sending \subseteq Uuid /\ sync.left \subseteq Uuid
  BY DEF OutboxInv, TypeOK
<1>b. Idle \in [phase : Phase, owner : Account, token : Account, failing : BOOLEAN,
                records : [Uuid -> OutboxRecord],
                unsent : SUBSET Uuid, sending : SUBSET Uuid, left : SUBSET Uuid,
                answer : [Uuid -> Answer]]
  BY BoundsAssumption DEF Idle, Absent, OutboxRecord, Account, Phase, Answer
<1>c. \A u \in Uuid : Idle.answer[u] = "none" /\ Idle.records[u].attempts < MaxAttempts
  BY BoundsAssumption DEF Idle, Absent
<1>d. Refusals \in [Uuid -> Answer] /\ \A u \in Uuid : Refusals[u] = "refused"
  BY DEF Refusals, Answer
<1>1. CASE UNCHANGED vars
  BY <1>1 DEF OutboxInv, TypeOK, SyncedIsReceived, AnswersAreReceipts, AttemptsLeft, vars
<1>2. ASSUME NEW u \in Uuid, NEW o \in Order \cup {None}, Enqueue(u, o)
      PROVE  OutboxInv'
  <2>1. outbox' \in [Uuid -> OutboxRecord]
    BY <1>2, <1>a, BoundsAssumption DEF Enqueue, OutboxRecord, OutboxInv, TypeOK
  <2>2. TypeOK'
    BY <1>2, <2>1 DEF Enqueue, OutboxInv, TypeOK
  <2>3. SyncedIsReceived'
    BY <1>2, <1>a DEF Enqueue, OutboxInv, SyncedIsReceived
  <2>4. AnswersAreReceipts' /\ AttemptsLeft'
    BY <1>2, <1>a, BoundsAssumption DEF Enqueue, OutboxInv, AnswersAreReceipts, AttemptsLeft
  <2>5. QED
    BY <2>2, <2>3, <2>4 DEF OutboxInv
<1>3. ASSUME NEW u \in Uuid, RetryOutbox(u) \/ Elapse(u)
      PROVE  OutboxInv'
  <2>1. outbox' \in [Uuid -> OutboxRecord]
    <3>1. outbox[u] \in OutboxRecord
      BY <1>a
    <3>2. /\ [outbox[u] EXCEPT !.status = "pending", !.attempts = 0, !.due = TRUE] \in OutboxRecord
          /\ [outbox[u] EXCEPT !.due = TRUE] \in OutboxRecord
      BY <3>1, RowUpdates
    <3>3. CASE RetryOutbox(u)
      BY <1>a, <3>2, <3>3 DEF RetryOutbox
    <3>4. CASE Elapse(u)
      BY <1>a, <3>2, <3>4 DEF Elapse
    <3>5. QED
      BY <1>3, <3>3, <3>4
  <2>2. TypeOK'
    BY <1>3, <2>1 DEF RetryOutbox, Elapse, OutboxInv, TypeOK
  <2>3. \A v \in Uuid : \/ outbox'[v].status = outbox[v].status
                           /\ outbox'[v].attempts = outbox[v].attempts
                        \/ outbox'[v].status = "pending" /\ outbox'[v].attempts = 0
    BY <1>3, <1>a DEF RetryOutbox, Elapse, OutboxRecord
  <2>4. SyncedIsReceived'
    BY <1>3, <2>3 DEF RetryOutbox, Elapse, OutboxInv, SyncedIsReceived
  <2>5. AnswersAreReceipts' /\ AttemptsLeft'
    BY <1>3, <2>3, BoundsAssumption
       DEF RetryOutbox, Elapse, OutboxInv, AnswersAreReceipts, AttemptsLeft
  <2>6. QED
    BY <2>2, <2>4, <2>5 DEF OutboxInv
<1>4. CASE SyncRead
  <2> DEFINE read == [u \in Uuid |-> IF u \in GetPending THEN Recovered[u] ELSE Absent]
  <2>1. outbox' \in [Uuid -> OutboxRecord]
    BY <1>4, RecoveredType DEF SyncRead, Recovered
  <2>2. GetPending \subseteq Uuid
    BY DEF GetPending, Due
  <2>3. read \in [Uuid -> OutboxRecord] /\ \A u \in Uuid : read[u].attempts < MaxAttempts
    <3>1. Absent \in OutboxRecord /\ Absent.attempts < MaxAttempts
      BY BoundsAssumption DEF Absent, OutboxRecord, Account
    <3>2. ASSUME NEW u \in GetPending
          PROVE  Recovered[u] \in OutboxRecord /\ Recovered[u].attempts < MaxAttempts
      BY <2>2, <3>2, RecoveredType DEF OutboxInv, AttemptsLeft
    <3>3. QED
      BY <3>1, <3>2
  <2>4. sync' = [Idle EXCEPT !.phase = IF GetPending = {} THEN "ready" ELSE "marking",
                             !.owner = owner, !.token = token,
                             !.unsent = GetPending, !.left = GetPending, !.records = read]
    BY <1>4 DEF SyncRead
  <2> HIDE DEF read
  <2>5. TypeOK'
    <3> DEFINE phase == IF GetPending = {} THEN "ready" ELSE "marking"
    <3>1. phase \in Phase
      BY DEF Phase
    <3>2. sync' = [Idle EXCEPT !.phase = phase, !.owner = owner, !.token = token,
                               !.unsent = GetPending, !.left = GetPending, !.records = read]
      BY <2>4
    <3> HIDE DEF phase
    <3>3. owner \in Account /\ token \in Account
      BY DEF OutboxInv, TypeOK
    <3>4. sync' \in [phase : Phase, owner : Account, token : Account, failing : BOOLEAN,
                     records : [Uuid -> OutboxRecord],
                     unsent : SUBSET Uuid, sending : SUBSET Uuid, left : SUBSET Uuid,
                     answer : [Uuid -> Answer]]
      BY <1>b, <2>2, <2>3, <3>1, <3>2, <3>3
    <3>5. QED
      BY <1>4, <2>1, <3>4 DEF SyncRead, OutboxInv, TypeOK
  <2>6. \A u \in Uuid : outbox'[u] = Recovered[u]
    BY <1>4 DEF SyncRead
  <2>7. SyncedIsReceived'
    BY <1>4, <2>6, RecoveredType DEF SyncRead, OutboxInv, SyncedIsReceived
  <2>8. sync'.answer = Idle.answer /\ sync'.records = read
    BY <2>4 DEF Idle
  <2>9. AnswersAreReceipts' /\ AttemptsLeft'
    BY <1>c, <2>3, <2>6, <2>8, RecoveredType
       DEF OutboxInv, AnswersAreReceipts, AttemptsLeft
  <2>10. QED
    BY <2>5, <2>7, <2>9 DEF OutboxInv
<1>5. CASE SyncSend
  <2>1. PICK request \in NextRequests :
          sync' = [sync EXCEPT !.phase = "sent", !.sending = request, !.failing = FALSE]
    BY <1>5 DEF SyncSend
  <2>2. request \subseteq Uuid
    BY <1>a, <2>1 DEF NextRequests
  <2>3. TypeOK'
    BY <1>5, <2>1, <2>2 DEF SyncSend, OutboxInv, TypeOK, Phase
  <2>4. sync'.answer = sync.answer /\ sync'.records = sync.records
    BY <2>1 DEF OutboxInv, TypeOK
  <2>5. QED
    BY <1>5, <2>3, <2>4
       DEF SyncSend, OutboxInv, SyncedIsReceived, AnswersAreReceipts, AttemptsLeft
<1>6. ASSUME NEW u \in Uuid, SyncMark(u)
      PROVE  OutboxInv'
  <2> DEFINE marked == [sync.records[u] EXCEPT !.status = "syncing", !.due = FALSE]
  <2>1. marked \in OutboxRecord /\ marked.status = "syncing" /\ marked.attempts < MaxAttempts
    BY <1>a DEF OutboxRecord, OutboxInv, AttemptsLeft
  <2>2. outbox' = [outbox EXCEPT ![u] = marked]
    BY <1>6 DEF SyncMark
  <2> HIDE DEF marked
  <2>3. TypeOK'
    BY <1>6, <1>a, <2>1, <2>2 DEF SyncMark, OutboxInv, TypeOK, Phase
  <2>4. sync'.answer = sync.answer /\ sync'.records = sync.records
    BY <1>6 DEF SyncMark, OutboxInv, TypeOK
  <2>5. SyncedIsReceived'
    BY <1>6, <1>a, <2>1, <2>2 DEF SyncMark, OutboxInv, SyncedIsReceived
  <2>6. AnswersAreReceipts' /\ AttemptsLeft'
    BY <1>6, <1>a, <2>1, <2>2, <2>4 DEF SyncMark, OutboxInv, AnswersAreReceipts, AttemptsLeft
  <2>7. QED
    BY <2>3, <2>5, <2>6 DEF OutboxInv
<1>7. CASE SyncReceive
  <2>1. /\ sync'.records = sync.records
        /\ sync'.answer \in [Uuid -> Answer]
        /\ \A u \in Uuid : sync'.answer[u] = "done" => sync.answer[u] = "done"
    BY <1>7, <1>a, <1>d DEF SyncReceive, OutboxInv, TypeOK
  <2>2. TypeOK'
    BY <1>7, <1>a, <1>d DEF SyncReceive, OutboxInv, TypeOK, Phase
  <2>3. QED
    BY <1>7, <2>1, <2>2
       DEF SyncReceive, OutboxInv, SyncedIsReceived, AnswersAreReceipts, AttemptsLeft
<1>8. CASE SyncNext
  <2>1. sync'.records = sync.records /\ sync'.answer = Idle.answer
    BY <1>8 DEF SyncNext, OutboxInv, TypeOK
  <2>2. Idle.answer \in [Uuid -> Answer]
    BY DEF Idle, Answer
  <2>3. TypeOK'
    BY <1>8, <1>a, <2>2 DEF SyncNext, OutboxInv, TypeOK, Phase
  <2>4. QED
    BY <1>8, <1>c, <2>1, <2>3
       DEF SyncNext, OutboxInv, SyncedIsReceived, AnswersAreReceipts, AttemptsLeft
<1>9. ASSUME NEW u \in Uuid, SyncApply(u)
      PROVE  OutboxInv'
  <2> DEFINE written == IF Confirmed(u)
                        THEN [sync.records[u] EXCEPT !.status = "synced", !.due = FALSE]
                        ELSE FailedRecord(sync.records[u])
  <2>1. sync.records[u] \in OutboxRecord /\ sync.records[u].attempts < MaxAttempts
    BY <1>a DEF OutboxInv, AttemptsLeft
  <2>2. CASE Confirmed(u)
    <3>1. written \in OutboxRecord /\ written.status = "synced"
      BY <2>1, <2>2 DEF OutboxRecord
    <3>2. receipts[u] # None
      BY <2>2 DEF Confirmed, OutboxInv, AnswersAreReceipts
    <3>3. QED
      BY <1>9, <1>a, <3>1, <3>2
         DEF SyncApply, OutboxInv, TypeOK, SyncedIsReceived, AnswersAreReceipts, AttemptsLeft
  <2>3. CASE ~Confirmed(u)
    <3>1. /\ written \in OutboxRecord
          /\ written.status \in {"failed", "pending"}
          /\ written.status = "pending" => written.attempts < MaxAttempts
      BY <2>1, <2>3, FailedRecordType
    <3>2. outbox' = [outbox EXCEPT ![u] = written]
      BY <1>9 DEF SyncApply
    <3> HIDE DEF written
    <3>3. sync'.records = sync.records /\ sync'.answer = sync.answer
      BY <1>9 DEF SyncApply, OutboxInv, TypeOK
    <3>4. TypeOK'
      BY <1>9, <1>a, <3>1, <3>2 DEF SyncApply, OutboxInv, TypeOK
    <3>5. SyncedIsReceived' /\ AnswersAreReceipts' /\ AttemptsLeft'
      BY <1>9, <1>a, <3>1, <3>2, <3>3
         DEF SyncApply, OutboxInv, SyncedIsReceived, AnswersAreReceipts, AttemptsLeft
    <3>6. QED
      BY <3>4, <3>5 DEF OutboxInv
  <2>4. QED
    BY <2>2, <2>3
<1>10. ASSUME NEW L \in SUBSET Uuid, SyncError(L)
       PROVE  OutboxInv'
  <2>1. sync'.records = sync.records /\ sync'.answer = Refusals
    BY <1>10 DEF SyncError, OutboxInv, TypeOK
  <2>2. late' \subseteq Collector \X Uuid
    BY <1>10, <1>a DEF SyncError, GivenUp, OutboxInv, TypeOK, Account
  <2>3. TypeOK'
    BY <1>10, <1>a, <1>d, <2>2 DEF SyncError, OutboxInv, TypeOK, Phase
  <2>4. QED
    BY <1>10, <1>d, <2>1, <2>3
       DEF SyncError, OutboxInv, SyncedIsReceived, AnswersAreReceipts, AttemptsLeft
<1>11. ASSUME NEW old \in SUBSET Uuid, SyncEnd(old)
       PROVE  OutboxInv'
  <2>1. outbox' \in [Uuid -> OutboxRecord]
    BY <1>11, <1>a DEF SyncEnd, OutboxRecord
  <2>2. \A u \in Uuid : \/ outbox'[u] = outbox[u]
                        \/ outbox'[u].status = "deleted" /\ outbox[u].status = "synced"
    BY <1>11, <1>a DEF SyncEnd, OutboxRecord
  <2>3. TypeOK'
    BY <1>11, <1>b, <2>1 DEF SyncEnd, OutboxInv, TypeOK
  <2>4. SyncedIsReceived' /\ AnswersAreReceipts' /\ AttemptsLeft'
    BY <1>11, <1>c, <2>2
       DEF SyncEnd, OutboxInv, SyncedIsReceived, AnswersAreReceipts, AttemptsLeft
  <2>5. QED
    BY <2>3, <2>4 DEF OutboxInv
<1>12. CASE SyncStoreFails
  <2>1. /\ sync'.records \in {sync.records, Idle.records}
        /\ sync'.answer \in {Refusals, Idle.answer}
    BY <1>12 DEF SyncStoreFails, OutboxInv, TypeOK
  <2>2. TypeOK'
    BY <1>12, <1>b, <1>d DEF SyncStoreFails, OutboxInv, TypeOK
  <2>3. QED
    BY <1>12, <1>c, <1>d, <2>1, <2>2
       DEF SyncStoreFails, OutboxInv, SyncedIsReceived, AnswersAreReceipts, AttemptsLeft
<1>13. ASSUME NEW c \in Collector, SignIn(c) \/ Hydrate(c)
       PROVE  OutboxInv'
  BY <1>13 DEF SignIn, Hydrate, OutboxInv, TypeOK, Account,
               SyncedIsReceived, AnswersAreReceipts, AttemptsLeft
<1>14. CASE SignOut \/ RefreshStart \/ RefreshDone \/ RefreshRefused \/ RefreshLost
  BY <1>14 DEF SignOut, ClearSession, RefreshStart, RefreshDone, RefreshRefused, RefreshLost,
               OutboxInv, TypeOK, Account, SyncedIsReceived, AnswersAreReceipts, AttemptsLeft
<1>15. ASSUME NEW L \in SUBSET Uuid, Kill(L)
       PROVE  OutboxInv'
  <2>1. late' \subseteq Collector \X Uuid
    BY <1>15, <1>a DEF Kill, GivenUp, OutboxInv, TypeOK, Account
  <2>2. TypeOK'
    BY <1>15, <1>b, <2>1 DEF Kill, OutboxInv, TypeOK, Account
  <2>3. QED
    BY <1>15, <1>c, <2>2
       DEF Kill, OutboxInv, SyncedIsReceived, AnswersAreReceipts, AttemptsLeft
<1>16. ASSUME NEW u \in Uuid, Serve(u)
       PROVE  OutboxInv'
  <2>1. sync.token \in Collector
    BY <1>16 DEF Serve, OutboxInv, TypeOK, Account
  <2>2. PICK outcome \in Answer : /\ Receive(u, sync.token, outcome)
                                  /\ sync' = [sync EXCEPT !.answer[u] = outcome]
    BY <1>16 DEF Serve
  <2>3. /\ receipts' \in [Uuid -> Account]
        /\ \A v \in Uuid : receipts[v] # None => receipts'[v] # None
        /\ outcome = "done" => receipts'[u] # None
    BY <2>1, <2>2, ReceiptsGrow
  <2>4. sync'.records = sync.records /\ sync'.answer = [sync.answer EXCEPT ![u] = outcome]
    BY <2>2 DEF OutboxInv, TypeOK
  <2>5. TypeOK'
    BY <1>16, <1>a, <2>2, <2>3 DEF Serve, OutboxInv, TypeOK
  <2>6. QED
    BY <1>16, <1>a, <2>3, <2>4, <2>5
       DEF Serve, OutboxInv, SyncedIsReceived, AnswersAreReceipts, AttemptsLeft
<1>17. ASSUME NEW c \in Collector, NEW u \in Uuid, LateArrives(c, u) \/ LateLost(c, u)
       PROVE  OutboxInv'
  <2>1. /\ receipts' \in [Uuid -> Account]
        /\ \A v \in Uuid : receipts[v] # None => receipts'[v] # None
    BY <1>17, <1>a, ReceiptsGrow DEF LateArrives, LateLost
  <2>2. TypeOK'
    BY <1>17, <2>1 DEF LateArrives, LateLost, OutboxInv, TypeOK
  <2>3. QED
    BY <1>17, <2>1, <2>2 DEF LateArrives, LateLost, OutboxInv,
                             SyncedIsReceived, AnswersAreReceipts, AttemptsLeft
<1>18. ASSUME NEW o \in Order, MerchantRejected(o) \/ MerchantApproved(o)
       PROVE  OutboxInv'
  BY <1>18 DEF MerchantRejected, MerchantApproved, OutboxInv, TypeOK,
               SyncedIsReceived, AnswersAreReceipts, AttemptsLeft
<1>19. CASE ConnectionChanges
  BY <1>19 DEF ConnectionChanges, OutboxInv, TypeOK,
               SyncedIsReceived, AnswersAreReceipts, AttemptsLeft
<1>20. QED
  BY <1>1, <1>2, <1>3, <1>4, <1>5, <1>6, <1>7, <1>8, <1>9, <1>10, <1>11, <1>12, <1>13, <1>14,
     <1>15, <1>16, <1>17, <1>18, <1>19 DEF Next, Worker, Session, Server

(* The invariant holds for ever.                                           *)
LEMMA OutboxAlways == Spec => []OutboxInv
  BY InitOutbox, NextOutbox, PTL DEF Spec

(* Type correctness, the bound on the attempts included: failedRecord      *)
(* never counts past the attempt that makes a row FAILED.                  *)
THEOREM OutboxTypeCorrect == Spec => []TypeOK
<1>1. OutboxInv => TypeOK
  BY DEF OutboxInv
<1>2. QED
  BY <1>1, OutboxAlways, PTL

(* performSync forgets a row only once the server holds its item, whatever *)
(* sign-outs, kills, timeouts and failing writes happen in between.        *)
THEOREM NothingCollectedIsLost == Spec => []SyncedIsReceived
<1>1. OutboxInv => SyncedIsReceived
  BY DEF OutboxInv
<1>2. QED
  BY <1>1, OutboxAlways, PTL
=============================================================================
