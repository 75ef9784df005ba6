--------------------------- MODULE AccountsProofs ---------------------------
(***************************************************************************)
(* Theorems of CollectorAccounts, Sessions and AdminConsole, for every     *)
(* number of accounts, collectors, requests and calls at a time, pairs of  *)
(* tokens and codes.                                                       *)
(*                                                                         *)
(* Each component has its own inductive invariant.  That of the sessions   *)
(* is SessionsInv: most of their steps write one request and leave the     *)
(* tokens alone, and RequestStep is their common argument; the four        *)
(* statements that write refresh_tokens have a lemma each.  That of the    *)
(* console, ConsoleInv, says what the server is at with every request the  *)
(* browser waits for.                                                      *)
(***************************************************************************)
EXTENDS CollectorAccounts, AdminConsole, TLAPS

(* The codes the bound allows are numbers, and null is none of them.       *)
LEMMA CodesAreNumbers == Code \subseteq Nat /\ None \notin Code
  BY CodesAssumption, NoneAssumption DEF Code

(* At the start no code exists.                                            *)
LEMMA InitInvites == Init => InvitesInv
<1> SUFFICES ASSUME Init PROVE InvitesInv
  OBVIOUS
<1>1. TypeOK
  BY CodesAssumption DEF Init, TypeOK, Row, Absent, Request, Idle, Phase
<1>2. CodesAreDrawn /\ InviteHeldOnce /\ InviteStaysUsable
  BY CodesAreNumbers DEF Init, CodesAreDrawn, InviteHeldOnce, InviteStaysUsable, Absent, Idle, Holds, Holding
<1>3. InHand /\ Unwritten /\ OwnCodes /\ Discarded
  BY DEF Init, InHand, Unwritten, OwnCodes, Discarded, Idle, Issuing, Holding
<1>4. QED
  BY <1>1, <1>2, <1>3 DEF InvitesInv

(* A request that moves on keeps what it has in hand.                      *)
LEMMA RequestMoves ==
  ASSUME TypeOK, NEW w \in Worker, NEW p \in Phase, Goto(w, p)
  PROVE  /\ request' \in [Worker -> Request]
         /\ request'[w].phase = p /\ request'[w].user = request[w].user
         /\ request'[w].collector = request[w].collector
         /\ request'[w].code = request[w].code /\ request'[w].old = request[w].old
         /\ \A v \in Worker \ {w} : request'[v] = request[v]
  BY DEF TypeOK, Request, Goto

(* A request that ends has nothing in hand.                                *)
LEMMA RequestEnds ==
  ASSUME TypeOK, NEW w \in Worker, Finish(w)
  PROVE  /\ request' \in [Worker -> Request]
         /\ request'[w].phase = "idle"
         /\ \A v \in Worker \ {w} : request'[v] = request[v]
  BY DEF TypeOK, Request, Finish, Idle, Phase

(* What createCollector and regenerateCollectorInvite do keeps every code  *)
(* where the database expects it.                                          *)
LEMMA AdministratorKeepsInvites ==
  ASSUME InvitesInv, NEW w \in Worker, Administrator(w)
  PROVE  InvitesInv'
<1> USE CodesAssumption, NoneAssumption, CodesAreNumbers
    DEF InvitesInv, database, redis, codes, At, Code, Issuing, Holding
<1>1. ASSUME NEW c \in Collector, CreateCollector(w, c)
      PROVE  InvitesInv'
  <2>1. TypeOK'
    BY <1>1 DEF CreateCollector, Issue, TypeOK, Row, Absent, Request, Phase
  <2>2. CodesAreDrawn'
    BY <1>1 DEF CreateCollector, Issue, CodesAreDrawn, TypeOK, Row, Absent
  <2>3. InHand'
    BY <1>1 DEF CreateCollector, Issue, InHand, TypeOK, Request
  <2>4. Unwritten'
    BY <1>1 DEF CreateCollector, Issue, Unwritten, InHand, OwnCodes, Discarded,
         CodesAreDrawn, TypeOK, Request
  <2>5. OwnCodes'
    BY <1>1 DEF CreateCollector, Issue, OwnCodes, InHand, Unwritten, TypeOK, Request
  <2>6. Discarded'
    BY <1>1 DEF CreateCollector, Issue, Discarded, InHand, Unwritten, OwnCodes,
         CodesAreDrawn, TypeOK, Row, Absent, Request
  <2>7. InviteHeldOnce'
    BY <1>1 DEF CreateCollector, Issue, InviteHeldOnce, Holds, InHand, Unwritten,
         CodesAreDrawn, TypeOK, Request
  <2>8. InviteStaysUsable'
    BY <1>1 DEF CreateCollector, Issue, InviteStaysUsable, InviteHeldOnce, Holds,
         InHand, Unwritten, Discarded, CodesAreDrawn, TypeOK, Row, Absent,
         Request
  <2>9. QED
    BY <2>1, <2>2, <2>3, <2>4, <2>5, <2>6, <2>7, <2>8
<1>2. ASSUME NEW c \in Collector, RefuseCreation(w, c)
      PROVE  InvitesInv'
  <2>1. TypeOK'
    BY <1>2 DEF RefuseCreation, vars, TypeOK, Row, Absent, Request, Phase
  <2>2. CodesAreDrawn'
    BY <1>2 DEF RefuseCreation, vars, CodesAreDrawn, TypeOK, Row, Absent
  <2>3. InHand'
    BY <1>2 DEF RefuseCreation, vars, InHand, TypeOK, Request
  <2>4. Unwritten'
    BY <1>2 DEF RefuseCreation, vars, Unwritten, InHand, OwnCodes, Discarded,
         CodesAreDrawn, TypeOK, Request
  <2>5. OwnCodes'
    BY <1>2 DEF RefuseCreation, vars, OwnCodes, InHand, Unwritten, TypeOK, Request
  <2>6. Discarded'
    BY <1>2 DEF RefuseCreation, vars, Discarded, InHand, Unwritten, OwnCodes,
         CodesAreDrawn, TypeOK, Row, Absent, Request
  <2>7. InviteHeldOnce'
    BY <1>2 DEF RefuseCreation, vars, InviteHeldOnce, Holds, InHand, Unwritten,
         CodesAreDrawn, TypeOK, Request
  <2>8. InviteStaysUsable'
    BY <1>2 DEF RefuseCreation, vars, InviteStaysUsable, InviteHeldOnce, Holds,
         InHand, Unwritten, Discarded, CodesAreDrawn, TypeOK, Row, Absent,
         Request
  <2>9. QED
    BY <2>1, <2>2, <2>3, <2>4, <2>5, <2>6, <2>7, <2>8
<1>3. ASSUME NEW c \in Collector, RegenerateCollectorInvite(w, c)
      PROVE  InvitesInv'
  <2>1. TypeOK'
    BY <1>3 DEF RegenerateCollectorInvite, Issue, TypeOK, Row, Absent, Request, Phase
  <2>2. CodesAreDrawn'
    BY <1>3 DEF RegenerateCollectorInvite, Issue, CodesAreDrawn, TypeOK, Row, Absent
  <2>3. InHand'
    BY <1>3 DEF RegenerateCollectorInvite, Issue, InHand, TypeOK, Request
  <2>4. Unwritten'
    BY <1>3 DEF RegenerateCollectorInvite, Issue, Unwritten, InHand, OwnCodes,
         Discarded, CodesAreDrawn, TypeOK, Request
  <2>5. OwnCodes'
    BY <1>3 DEF RegenerateCollectorInvite, Issue, OwnCodes, InHand, Unwritten, TypeOK,
         Request
  <2>6. Discarded'
    BY <1>3 DEF RegenerateCollectorInvite, Issue, Discarded, InHand, Unwritten,
         OwnCodes, CodesAreDrawn, TypeOK, Row, Absent, Request
  <2>7. InviteHeldOnce'
    BY <1>3 DEF RegenerateCollectorInvite, Issue, InviteHeldOnce, Holds, InHand,
         Unwritten, CodesAreDrawn, TypeOK, Request
  <2>8. InviteStaysUsable'
    BY <1>3 DEF RegenerateCollectorInvite, Issue, InviteStaysUsable, InviteHeldOnce,
         Holds, InHand, Unwritten, Discarded, CodesAreDrawn, TypeOK, Row,
         Absent, Request
  <2>9. QED
    BY <2>1, <2>2, <2>3, <2>4, <2>5, <2>6, <2>7, <2>8
<1>4. ASSUME SetActiveInvite(w)
      PROVE  InvitesInv'
  <2>a. PICK p \in {"listed", "failed"} : Goto(w, p)
    BY <1>4 DEF SetActiveInvite
  <2>b. p \in Phase
    BY DEF Phase
  <2>c. /\ request' \in [Worker -> Request]
        /\ request'[w].phase = p /\ request'[w].user = request[w].user
        /\ request'[w].collector = request[w].collector
        /\ request'[w].code = request[w].code /\ request'[w].old = request[w].old
        /\ \A v \in Worker \ {w} : request'[v] = request[v]
    BY <2>a, <2>b, RequestMoves
  <2>d. /\ request[w].phase = "issued" /\ request[w].collector \in Collector
        /\ request[w].code \in Code /\ request[w].code \notin sent
    BY <1>4 DEF SetActiveInvite, InHand, Unwritten, TypeOK
  <2>e. /\ activeInvite' \in [Collector -> Code \cup {None}]
        /\ UNCHANGED <<role, merchant, row, invite, issued, sent, expired, lost>>
    BY <1>4, <2>d DEF SetActiveInvite, TypeOK
  <2>1. TypeOK'
    BY <2>c, <2>e DEF TypeOK
  <2>2. CodesAreDrawn'
    BY <1>4 DEF SetActiveInvite, Goto, CodesAreDrawn, TypeOK, Row, Absent
  <2>3. InHand'
    BY <2>c, <2>d, <2>e DEF InHand
  <2>4. Unwritten'
    BY <2>c, <2>d, <2>e DEF Unwritten
  <2>5. OwnCodes'
    BY <2>c, <2>d DEF OwnCodes
  <2>6. Discarded'
    BY <2>c, <2>d, <2>e DEF Discarded, CodesAreDrawn
  <2>7. InviteHeldOnce'
    BY <2>c, <2>d, <2>e DEF InviteHeldOnce, Holds
  <2>8. InviteStaysUsable'
    BY <2>c, <2>d, <2>e DEF InviteStaysUsable, Holds
  <2>9. QED
    BY <2>1, <2>2, <2>3, <2>4, <2>5, <2>6, <2>7, <2>8
<1>5. ASSUME WriteRow(w)
      PROVE  InvitesInv'
  <2> DEFINE c == request[w].collector
             k == request[w].code
  <2>a. PICK p \in {"replaced", "failed"} : Goto(w, p)
    BY <1>5 DEF WriteRow
  <2>b. p \in Phase
    BY DEF Phase
  <2>c. /\ request' \in [Worker -> Request]
        /\ request'[w].phase = p /\ request'[w].user = request[w].user
        /\ request'[w].collector = request[w].collector
        /\ request'[w].code = request[w].code /\ request'[w].old = request[w].old
        /\ \A v \in Worker \ {w} : request'[v] = request[v]
    BY <2>a, <2>b, RequestMoves
  <2>d. /\ request[w].phase = "listed" /\ c \in Collector
        /\ k \in 1..issued /\ k \in Code /\ k \notin sent /\ invite[k] = c
    BY <1>5 DEF WriteRow, InHand, Unwritten, TypeOK
  <2>e. row[c] \in Row /\ Reissued(c, k) \in Row
    <3>1. row[c] \in Row
      BY <2>d DEF TypeOK
    <3>2. [row[c] EXCEPT !.link = "PENDING_LINK", !.hash = k] \in Row
      BY <2>d, <3>1 DEF Row
    <3>3. [link |-> "PENDING_LINK", user |-> None, hash |-> k, active |-> TRUE] \in Row
      BY <2>d DEF Row
    <3>4. QED
      BY <3>1, <3>2, <3>3 DEF Reissued
  <2>f. /\ Reissued(c, k).link = "PENDING_LINK" /\ Reissued(c, k).hash = k
        /\ Reissued(c, k).user = row[c].user
    BY <2>e DEF Reissued, Row, Absent
  <2>g. /\ UNCHANGED <<role, merchant, invite, activeInvite, issued, expired>>
        /\ \/ /\ row' = [row EXCEPT ![c] = Reissued(c, k)]
              /\ sent' = sent \cup {k}
              /\ \/ p = "replaced" /\ lost' = lost
                 \/ p = "failed" /\ lost' = lost \cup {k}
           \/ p = "failed" /\ row' = row /\ sent' = sent /\ lost' = lost
    <3>1. \A q \in Phase : Goto(w, q) => q = p
      BY <2>a, <2>c, RequestMoves
    <3>2. "replaced" \in Phase /\ "failed" \in Phase
      BY DEF Phase
    <3>3. QED
      BY <1>5, <3>1, <3>2 DEF WriteRow
  <2>h. /\ row' \in [Collector -> Row]
        /\ \A d \in Collector \ {c} : row'[d] = row[d]
        /\ row'[c] = row[c] \/ row'[c] = Reissued(c, k)
    BY <2>d, <2>e, <2>g DEF TypeOK
  <2>i. /\ \A d \in Collector : row[d].hash # k
        /\ \A v \in Worker \ {w} : request[v].phase \in Issuing => request[v].code # k
        /\ request[w].old # k
        /\ \A v \in Worker : request[v].phase \in Issuing => request[v].old # k
    BY <2>d DEF CodesAreDrawn, OwnCodes, Discarded
  <2> HIDE DEF c, k
  <2>1. TypeOK'
    <3>1. /\ sent' \subseteq 1..issued /\ expired \subseteq sent' /\ lost' \subseteq 1..issued
      BY <2>d, <2>g DEF TypeOK
    <3>2. k # None
      BY <2>d
    <3>3. \A d \in Collector :
            /\ row'[d].link = "ABSENT" => row'[d] = Absent
            /\ row'[d].link = "PENDING_LINK" => row'[d].hash # None
            /\ row'[d].link = "LINKED" => row'[d].hash = None /\ row'[d].user # None
      BY <2>d, <2>f, <2>h, <3>2 DEF TypeOK
    <3>4. QED
      BY <2>c, <2>g, <2>h, <3>1, <3>3 DEF TypeOK
  <2>2. CodesAreDrawn'
    BY <2>d, <2>f, <2>g, <2>h, <2>i DEF CodesAreDrawn, TypeOK
  <2>3. InHand'
    BY <2>c, <2>d, <2>g DEF InHand, c, k
  <2>4. Unwritten'
    BY <2>c, <2>g, <2>i DEF Unwritten
  <2>5. OwnCodes'
    BY <2>c, <2>d DEF OwnCodes, k
  <2>6. Discarded'
    BY <2>c, <2>d, <2>f, <2>g, <2>h, <2>i DEF Discarded, c, k
  <2>7. InviteHeldOnce'
    BY <2>c, <2>d, <2>g DEF InviteHeldOnce, Holds
  <2>8. InviteStaysUsable'
    <3>1. \A v \in Worker, j \in Code : Holds(v, j) => Holds(v, j)' /\ request'[v] = request[v]
      BY <2>c, <2>d DEF Holds
    <3>2. QED
      BY <2>d, <2>f, <2>g, <2>h, <3>1 DEF InviteStaysUsable
  <2>9. QED
    BY <2>1, <2>2, <2>3, <2>4, <2>5, <2>6, <2>7, <2>8
<1>6. ASSUME WithdrawInvite(w)
      PROVE  InvitesInv'
  <2>1. TypeOK'
    BY <1>6 DEF WithdrawInvite, Finish, Idle, TypeOK, Row, Absent, Request, Phase
  <2>2. CodesAreDrawn'
    BY <1>6 DEF WithdrawInvite, Finish, Idle, CodesAreDrawn, TypeOK, Row, Absent
  <2>3. InHand'
    BY <1>6 DEF WithdrawInvite, Finish, Idle, InHand, TypeOK, Request
  <2>4. Unwritten'
    BY <1>6 DEF WithdrawInvite, Finish, Idle, Unwritten, InHand, OwnCodes, Discarded,
         CodesAreDrawn, TypeOK, Request
  <2>5. OwnCodes'
    BY <1>6 DEF WithdrawInvite, Finish, Idle, OwnCodes, InHand, Unwritten, TypeOK,
         Request
  <2>6. Discarded'
    BY <1>6 DEF WithdrawInvite, Finish, Idle, Discarded, InHand, Unwritten, OwnCodes,
         CodesAreDrawn, TypeOK, Row, Absent, Request
  <2>7. InviteHeldOnce'
    BY <1>6 DEF WithdrawInvite, Finish, Idle, InviteHeldOnce, Holds, InHand,
         Unwritten, CodesAreDrawn, TypeOK, Request
  <2>8. InviteStaysUsable'
    BY <1>6 DEF WithdrawInvite, Finish, Idle, InviteStaysUsable, InviteHeldOnce,
         Holds, InHand, Unwritten, Discarded, CodesAreDrawn, TypeOK, Row,
         Absent, Request
  <2>9. QED
    BY <2>1, <2>2, <2>3, <2>4, <2>5, <2>6, <2>7, <2>8
<1>7. ASSUME DeleteReplacedInvite(w)
      PROVE  InvitesInv'
  <2>1. TypeOK'
    BY <1>7 DEF DeleteReplacedInvite, Finish, Idle, Replaced, TypeOK, Row, Absent,
         Request, Phase
  <2>2. CodesAreDrawn'
    BY <1>7 DEF DeleteReplacedInvite, Finish, Idle, Replaced, CodesAreDrawn, TypeOK,
         Row, Absent
  <2>3. InHand'
    BY <1>7 DEF DeleteReplacedInvite, Finish, Idle, Replaced, InHand, TypeOK, Request
  <2>4. Unwritten'
    BY <1>7 DEF DeleteReplacedInvite, Finish, Idle, Replaced, Unwritten, InHand,
         OwnCodes, Discarded, CodesAreDrawn, TypeOK, Request
  <2>5. OwnCodes'
    BY <1>7 DEF DeleteReplacedInvite, Finish, Idle, Replaced, OwnCodes, InHand,
         Unwritten, TypeOK, Request
  <2>6. Discarded'
    BY <1>7 DEF DeleteReplacedInvite, Finish, Idle, Replaced, Discarded, InHand,
         Unwritten, OwnCodes, CodesAreDrawn, TypeOK, Row, Absent, Request
  <2>7. InviteHeldOnce'
    BY <1>7 DEF DeleteReplacedInvite, Finish, Idle, Replaced, InviteHeldOnce, Holds,
         InHand, Unwritten, CodesAreDrawn, TypeOK, Request
  <2>8. InviteStaysUsable'
    BY <1>7 DEF DeleteReplacedInvite, Finish, Idle, Replaced, InviteStaysUsable,
         InviteHeldOnce, Holds, InHand, Unwritten, Discarded, CodesAreDrawn,
         TypeOK, Row, Absent, Request
  <2>9. QED
    BY <2>1, <2>2, <2>3, <2>4, <2>5, <2>6, <2>7, <2>8
<1>8. QED
  BY <1>1, <1>2, <1>3, <1>4, <1>5, <1>6, <1>7 DEF Administrator

(* linkCollectorInvite takes a code from Redis, uses it or gives it back.  *)
LEMMA AcceptanceKeepsInvites ==
  ASSUME InvitesInv, NEW w \in Worker, Acceptance(w)
  PROVE  InvitesInv'
<1> USE CodesAssumption, NoneAssumption, CodesAreNumbers
    DEF InvitesInv, database, redis, codes, At, Code, Issuing, Holding
<1>1. ASSUME NEW u \in User, NEW k \in Code, ConsumeInvite(w, u, k)
      PROVE  InvitesInv'
  <2>1. TypeOK'
    BY <1>1 DEF ConsumeInvite, Deleted, TypeOK, Row, Absent, Request, Phase
  <2>2. CodesAreDrawn'
    BY <1>1 DEF ConsumeInvite, Deleted, CodesAreDrawn, TypeOK, Row, Absent
  <2>3. InHand'
    BY <1>1 DEF ConsumeInvite, Deleted, InHand, TypeOK, Request
  <2>4. Unwritten'
    BY <1>1 DEF ConsumeInvite, Deleted, Unwritten, InHand, OwnCodes, Discarded,
         CodesAreDrawn, TypeOK, Request
  <2>5. OwnCodes'
    BY <1>1 DEF ConsumeInvite, Deleted, OwnCodes, InHand, Unwritten, TypeOK, Request
  <2>6. Discarded'
    BY <1>1 DEF ConsumeInvite, Deleted, Discarded, InHand, Unwritten, OwnCodes,
         CodesAreDrawn, TypeOK, Row, Absent, Request
  <2>7. InviteHeldOnce'
    BY <1>1 DEF ConsumeInvite, Deleted, InviteHeldOnce, Holds, InHand, Unwritten,
         CodesAreDrawn, TypeOK, Request
  <2>8. InviteStaysUsable'
    BY <1>1 DEF ConsumeInvite, Deleted, InviteStaysUsable, InviteHeldOnce, Holds,
         InHand, Unwritten, Discarded, CodesAreDrawn, TypeOK, Row, Absent,
         Request
  <2>9. QED
    BY <2>1, <2>2, <2>3, <2>4, <2>5, <2>6, <2>7, <2>8
<1>2. ASSUME CheckInvite(w)
      PROVE  InvitesInv'
  <2>d. /\ request[w].phase = "consumed" /\ request[w].code \in Code
        /\ request[w].code \in 1..issued
        /\ UNCHANGED <<role, merchant, row, invite, activeInvite, issued, sent, expired>>
    BY <1>2 DEF CheckInvite, InHand, TypeOK
  <2>e. \/ Goto(w, "checked") /\ lost' = lost
        \/ Finish(w) /\ lost' = lost \cup {request[w].code}
    BY <1>2 DEF CheckInvite
  <2>c. /\ request' \in [Worker -> Request]
        /\ \/ /\ request'[w].phase = "checked" /\ request'[w].user = request[w].user
              /\ request'[w].collector = request[w].collector
              /\ request'[w].code = request[w].code
              /\ lost' = lost
           \/ /\ request'[w].phase = "idle"
              /\ lost' = lost \cup {request[w].code}
        /\ \A v \in Worker \ {w} : request'[v] = request[v]
    BY <2>e, RequestMoves, RequestEnds DEF Phase
  <2>1. TypeOK'
    BY <2>c, <2>d DEF TypeOK
  <2>2. CodesAreDrawn'
    BY <1>2 DEF CheckInvite, Goto, Finish, Idle, Invited, CodesAreDrawn, TypeOK, Row,
         Absent
  <2>3. InHand'
    BY <2>c, <2>d DEF InHand
  <2>4. Unwritten'
    BY <2>c, <2>d DEF Unwritten
  <2>5. OwnCodes'
    BY <2>c DEF OwnCodes
  <2>6. Discarded'
    BY <2>c, <2>d DEF Discarded
  <2>7. InviteHeldOnce'
    BY <2>c, <2>d DEF InviteHeldOnce, Holds
  <2>8. InviteStaysUsable'
    BY <2>c, <2>d DEF InviteStaysUsable, InviteHeldOnce, Holds
  <2>9. QED
    BY <2>1, <2>2, <2>3, <2>4, <2>5, <2>6, <2>7, <2>8
<1>3. ASSUME ReadUser(w)
      PROVE  InvitesInv'
  <2>1. TypeOK'
    <3>1. PICK p \in {"refused", "read"} : Goto(w, p)
      BY <1>3 DEF ReadUser
    <3>2. request' \in [Worker -> Request]
      BY <3>1, RequestMoves DEF Phase
    <3>3. QED
      BY <1>3, <3>2 DEF ReadUser, TypeOK
  <2>2. CodesAreDrawn'
    BY <1>3 DEF ReadUser, Goto, CodesAreDrawn, TypeOK, Row, Absent
  <2>3. InHand'
    BY <1>3 DEF ReadUser, Goto, InHand, TypeOK, Request
  <2>4. Unwritten'
    BY <1>3 DEF ReadUser, Goto, Unwritten, InHand, OwnCodes, Discarded, CodesAreDrawn,
         TypeOK, Request
  <2>5. OwnCodes'
    BY <1>3 DEF ReadUser, Goto, OwnCodes, InHand, Unwritten, TypeOK, Request
  <2>6. Discarded'
    BY <1>3 DEF ReadUser, Goto, Discarded, InHand, Unwritten, OwnCodes, CodesAreDrawn,
         TypeOK, Row, Absent, Request
  <2>7. InviteHeldOnce'
    BY <1>3 DEF ReadUser, Goto, InviteHeldOnce, Holds, InHand, Unwritten,
         CodesAreDrawn, TypeOK, Request
  <2>8. InviteStaysUsable'
    BY <1>3 DEF ReadUser, Goto, InviteStaysUsable, InviteHeldOnce, Holds, InHand,
         Unwritten, Discarded, CodesAreDrawn, TypeOK, Row, Absent, Request
  <2>9. QED
    BY <2>1, <2>2, <2>3, <2>4, <2>5, <2>6, <2>7, <2>8
<1>4. ASSUME LinkCollector(w)
      PROVE  InvitesInv'
  <2> DEFINE c == request[w].collector
             u == request[w].user
  <2>a. PICK p \in {"linked", "refused"} : Goto(w, p)
    BY <1>4 DEF LinkCollector
  <2>b. p \in Phase
    BY DEF Phase
  <2>c. /\ request' \in [Worker -> Request]
        /\ request'[w].phase = p /\ request'[w].user = request[w].user
        /\ request'[w].collector = request[w].collector
        /\ request'[w].code = request[w].code /\ request'[w].old = request[w].old
        /\ \A v \in Worker \ {w} : request'[v] = request[v]
    BY <2>a, <2>b, RequestMoves
  <2>d. /\ request[w].phase = "read" /\ c \in Collector /\ u \in User
        /\ request[w].code \in 1..issued /\ request[w].code \in sent
        /\ UNCHANGED <<merchant, invite, activeInvite, issued, sent, expired, lost>>
    BY <1>4 DEF LinkCollector, InHand
  <2>e. \/ /\ Invited(c, request[w].code)
           /\ row' = [row EXCEPT ![c].user = u, ![c].link = "LINKED", ![c].hash = None]
           /\ role' = [role EXCEPT ![u] = "COLLECTOR"]
        \/ row' = row /\ role' = role /\ p = "refused"
    <3>1. Goto(w, "refused") => p = "refused"
      BY <2>a, <2>b, <2>c, RequestMoves DEF Phase
    <3>2. QED
      BY <1>4, <3>1 DEF LinkCollector, StillInvited
  <2>f. /\ role' \in [User -> {"MERCHANT", "COLLECTOR"}] /\ row' \in [Collector -> Row]
        /\ \A d \in Collector \ {c} : row'[d] = row[d]
        /\ \/ row'[c] = row[c] /\ p = "refused"
           \/ /\ Invited(c, request[w].code)
              /\ row'[c].user = u /\ row'[c].link = "LINKED" /\ row'[c].hash = None
    <3>1. row[c] \in Row
      BY <2>d DEF TypeOK
    <3>2. [row[c] EXCEPT !.user = u, !.link = "LINKED", !.hash = None] \in Row
      BY <2>d, <3>1 DEF Row
    <3>3. CASE row' = row /\ role' = role /\ p = "refused"
      BY <3>3 DEF TypeOK
    <3>4. CASE /\ Invited(c, request[w].code)
               /\ row' = [row EXCEPT ![c].user = u, ![c].link = "LINKED", ![c].hash = None]
               /\ role' = [role EXCEPT ![u] = "COLLECTOR"]
      <4>1. row' = [row EXCEPT ![c] = [row[c] EXCEPT !.user = u, !.link = "LINKED", !.hash = None]]
        BY <3>4
      <4>2. /\ [row[c] EXCEPT !.user = u, !.link = "LINKED", !.hash = None].user = u
            /\ [row[c] EXCEPT !.user = u, !.link = "LINKED", !.hash = None].link = "LINKED"
            /\ [row[c] EXCEPT !.user = u, !.link = "LINKED", !.hash = None].hash = None
        BY <3>1 DEF Row
      <4>3. QED
        BY <2>d, <3>2, <3>4, <4>1, <4>2 DEF TypeOK
    <3>5. QED
      BY <2>e, <3>3, <3>4
  <2> HIDE DEF c, u
  <2>1. TypeOK'
    BY <2>c, <2>d, <2>f DEF TypeOK
  <2>2. CodesAreDrawn'
    BY <2>d, <2>f DEF CodesAreDrawn
  <2>3. InHand'
    BY <2>c, <2>d DEF InHand, c, u
  <2>4. Unwritten'
    BY <2>c, <2>d DEF Unwritten
  <2>5. OwnCodes'
    BY <2>c, <2>d DEF OwnCodes
  <2>6. Discarded'
    <3>1. \A d \in Collector, k \in sent : row'[d].hash = k => row[d].hash = k
      BY <2>d, <2>f DEF TypeOK
    <3>2. request'[w].phase \notin Issuing
      BY <2>c
    <3>3. \A d \in Collector, k \in 1..issued : row'[d].hash = k => row[d].hash = k
      BY <2>d, <2>f
    <3>4. QED
      BY <2>c, <2>d, <3>1, <3>2, <3>3 DEF Discarded, InHand
  <2>7. InviteHeldOnce'
    BY <2>c, <2>d DEF InviteHeldOnce, Holds
  <2>8. InviteStaysUsable'
    <3>1. \A d \in Collector, k \in Code : row'[d].user = None /\ row'[d].hash = k
            => row[d].user = None /\ row[d].hash = k
      BY <2>d, <2>f
    <3>2. \A v \in Worker, k \in Code : Holds(v, k) /\ v # w =>
            Holds(v, k)' /\ request'[v] = request[v]
      BY <2>c DEF Holds
    <3>3. \A k \in Code : Holds(w, k) =>
            (Holds(w, k)' /\ request'[w].collector = c) \/ row'[c].user = u
      BY <2>c, <2>d, <2>f DEF Holds, c
    <3>4. QED
      BY <2>d, <3>1, <3>2, <3>3 DEF InviteStaysUsable, c
  <2>9. QED
    BY <2>1, <2>2, <2>3, <2>4, <2>5, <2>6, <2>7, <2>8
<1>5. ASSUME ForgetActiveInvite(w)
      PROVE  InvitesInv'
  <2>1. TypeOK'
    BY <1>5 DEF ForgetActiveInvite, Finish, Idle, TypeOK, Row, Absent, Request, Phase
  <2>2. CodesAreDrawn'
    BY <1>5 DEF ForgetActiveInvite, Finish, Idle, CodesAreDrawn, TypeOK, Row, Absent
  <2>3. InHand'
    BY <1>5 DEF ForgetActiveInvite, Finish, Idle, InHand, TypeOK, Request
  <2>4. Unwritten'
    BY <1>5 DEF ForgetActiveInvite, Finish, Idle, Unwritten, InHand, OwnCodes,
         Discarded, CodesAreDrawn, TypeOK, Request
  <2>5. OwnCodes'
    BY <1>5 DEF ForgetActiveInvite, Finish, Idle, OwnCodes, InHand, Unwritten, TypeOK,
         Request
  <2>6. Discarded'
    BY <1>5 DEF ForgetActiveInvite, Finish, Idle, Discarded, InHand, Unwritten,
         OwnCodes, CodesAreDrawn, TypeOK, Row, Absent, Request
  <2>7. InviteHeldOnce'
    BY <1>5 DEF ForgetActiveInvite, Finish, Idle, InviteHeldOnce, Holds, InHand,
         Unwritten, CodesAreDrawn, TypeOK, Request
  <2>8. InviteStaysUsable'
    BY <1>5 DEF ForgetActiveInvite, Finish, Idle, InviteStaysUsable, InviteHeldOnce,
         Holds, InHand, Unwritten, Discarded, CodesAreDrawn, TypeOK, Row,
         Absent, Request
  <2>9. QED
    BY <2>1, <2>2, <2>3, <2>4, <2>5, <2>6, <2>7, <2>8
<1>6. ASSUME RestoreInvite(w)
      PROVE  InvitesInv'
  <2>a. Finish(w) /\ request[w].collector \in Collector /\ request[w].code \in 1..issued
    BY <1>6 DEF RestoreInvite, InHand
  <2>b. /\ invite' \in [Code -> Collector \cup {None}]
        /\ \A k \in Code : invite'[k] # None => invite[k] # None \/ k \in 1..issued
        /\ lost' = lost \/ lost' = lost \cup {request[w].code}
    BY <1>6, <2>a DEF RestoreInvite, Restored, TypeOK
  <2>1. TypeOK'
    <3>1. request' \in [Worker -> Request]
      BY <2>a, RequestEnds
    <3>2. QED
      BY <1>6, <2>a, <2>b, <3>1 DEF RestoreInvite, TypeOK
  <2>2. CodesAreDrawn'
    BY <1>6, <2>b DEF RestoreInvite, CodesAreDrawn
  <2>3. InHand'
    BY <1>6 DEF RestoreInvite, Restored, Finish, Idle, InHand, TypeOK, Request
  <2>4. Unwritten'
    BY <1>6 DEF RestoreInvite, Restored, Finish, Idle, Unwritten, InHand, OwnCodes,
         Discarded, CodesAreDrawn, TypeOK, Request
  <2>5. OwnCodes'
    BY <1>6 DEF RestoreInvite, Restored, Finish, Idle, OwnCodes, InHand, Unwritten,
         TypeOK, Request
  <2>6. Discarded'
    BY <1>6 DEF RestoreInvite, Restored, Finish, Idle, Discarded, InHand, Unwritten,
         OwnCodes, CodesAreDrawn, TypeOK, Row, Absent, Request
  <2>7. InviteHeldOnce'
    BY <1>6 DEF RestoreInvite, Restored, Finish, Idle, InviteHeldOnce, Holds, InHand,
         Unwritten, CodesAreDrawn, TypeOK, Request
  <2>8. InviteStaysUsable'
    BY <1>6 DEF RestoreInvite, Restored, Finish, Idle, InviteStaysUsable,
         InviteHeldOnce, Holds, InHand, Unwritten, Discarded, CodesAreDrawn,
         TypeOK, Row, Absent, Request
  <2>9. QED
    BY <2>1, <2>2, <2>3, <2>4, <2>5, <2>6, <2>7, <2>8
<1>7. QED
  BY <1>1, <1>2, <1>3, <1>4, <1>5, <1>6 DEF Acceptance

(* Registrations, locks, time and crashes take no code from anybody.       *)
LEMMA RestKeepsInvites ==
  ASSUME InvitesInv,
         \/ \E w \in Worker : Registration(w)
         \/ \E c \in Collector : UpdateCollector(c)
         \/ \E k \in Code : Expire(k) \/ DropExpired(k)
         \/ Crash
         \/ UNCHANGED vars
  PROVE  InvitesInv'
<1> USE CodesAssumption, NoneAssumption, CodesAreNumbers
    DEF InvitesInv, database, redis, codes, At, Code, Issuing, Holding
<1>1. ASSUME NEW w \in Worker, NEW u \in User, RegisterMerchant(w, u)
      PROVE  InvitesInv'
  <2>1. TypeOK'
    BY <1>1 DEF RegisterMerchant, Idle, TypeOK, Row, Absent, Request, Phase
  <2>2. CodesAreDrawn'
    BY <1>1 DEF RegisterMerchant, Idle, CodesAreDrawn, TypeOK, Row, Absent
  <2>3. InHand'
    BY <1>1 DEF RegisterMerchant, Idle, InHand, TypeOK, Request
  <2>4. Unwritten'
    BY <1>1 DEF RegisterMerchant, Idle, Unwritten, InHand, OwnCodes, Discarded,
         CodesAreDrawn, TypeOK, Request
  <2>5. OwnCodes'
    BY <1>1 DEF RegisterMerchant, Idle, OwnCodes, InHand, Unwritten, TypeOK, Request
  <2>6. Discarded'
    BY <1>1 DEF RegisterMerchant, Idle, Discarded, InHand, Unwritten, OwnCodes,
         CodesAreDrawn, TypeOK, Row, Absent, Request
  <2>7. InviteHeldOnce'
    BY <1>1 DEF RegisterMerchant, Idle, InviteHeldOnce, Holds, InHand, Unwritten,
         CodesAreDrawn, TypeOK, Request
  <2>8. InviteStaysUsable'
    BY <1>1 DEF RegisterMerchant, Idle, InviteStaysUsable, InviteHeldOnce, Holds,
         InHand, Unwritten, Discarded, CodesAreDrawn, TypeOK, Row, Absent,
         Request
  <2>9. QED
    BY <2>1, <2>2, <2>3, <2>4, <2>5, <2>6, <2>7, <2>8
<1>2. ASSUME NEW w \in Worker, CreateMerchant(w)
      PROVE  InvitesInv'
  <2>1. TypeOK'
    BY <1>2 DEF CreateMerchant, Finish, Idle, TypeOK, Row, Absent, Request, Phase
  <2>2. CodesAreDrawn'
    BY <1>2 DEF CreateMerchant, Finish, Idle, CodesAreDrawn, TypeOK, Row, Absent
  <2>3. InHand'
    BY <1>2 DEF CreateMerchant, Finish, Idle, InHand, TypeOK, Request
  <2>4. Unwritten'
    BY <1>2 DEF CreateMerchant, Finish, Idle, Unwritten, InHand, OwnCodes, Discarded,
         CodesAreDrawn, TypeOK, Request
  <2>5. OwnCodes'
    BY <1>2 DEF CreateMerchant, Finish, Idle, OwnCodes, InHand, Unwritten, TypeOK,
         Request
  <2>6. Discarded'
    BY <1>2 DEF CreateMerchant, Finish, Idle, Discarded, InHand, Unwritten, OwnCodes,
         CodesAreDrawn, TypeOK, Row, Absent, Request
  <2>7. InviteHeldOnce'
    BY <1>2 DEF CreateMerchant, Finish, Idle, InviteHeldOnce, Holds, InHand,
         Unwritten, CodesAreDrawn, TypeOK, Request
  <2>8. InviteStaysUsable'
    BY <1>2 DEF CreateMerchant, Finish, Idle, InviteStaysUsable, InviteHeldOnce,
         Holds, InHand, Unwritten, Discarded, CodesAreDrawn, TypeOK, Row,
         Absent, Request
  <2>9. QED
    BY <2>1, <2>2, <2>3, <2>4, <2>5, <2>6, <2>7, <2>8
<1>3. ASSUME NEW c \in Collector, UpdateCollector(c)
      PROVE  InvitesInv'
  <2>1. TypeOK'
    <3>1. row[c] \in Row /\ row[c].active \in BOOLEAN
      BY DEF TypeOK, Row
    <3>2. [row[c] EXCEPT !.active = ~@] \in Row
      BY <3>1 DEF Row
    <3>3. /\ row' \in [Collector -> Row]
          /\ \A d \in Collector : /\ row'[d].link = row[d].link
                                  /\ row'[d].hash = row[d].hash /\ row'[d].user = row[d].user
                                  /\ row[d] = Absent => row'[d] = row[d]
      BY <1>3, <3>2 DEF UpdateCollector, TypeOK, Row
    <3>4. QED
      BY <1>3, <3>3 DEF UpdateCollector, TypeOK
  <2>2. CodesAreDrawn'
    BY <1>3 DEF UpdateCollector, CodesAreDrawn, TypeOK, Row, Absent
  <2>3. InHand'
    BY <1>3 DEF UpdateCollector, InHand, TypeOK, Request
  <2>4. Unwritten'
    BY <1>3 DEF UpdateCollector, Unwritten, InHand, OwnCodes, Discarded,
         CodesAreDrawn, TypeOK, Request
  <2>5. OwnCodes'
    BY <1>3 DEF UpdateCollector, OwnCodes, InHand, Unwritten, TypeOK, Request
  <2>6. Discarded'
    BY <1>3 DEF UpdateCollector, Discarded, InHand, Unwritten, OwnCodes,
         CodesAreDrawn, TypeOK, Row, Absent, Request
  <2>7. InviteHeldOnce'
    BY <1>3 DEF UpdateCollector, InviteHeldOnce, Holds
  <2>8. InviteStaysUsable'
    BY <1>3 DEF UpdateCollector, InviteStaysUsable, InviteHeldOnce, Holds, InHand,
         Unwritten, Discarded, CodesAreDrawn, TypeOK, Row, Absent, Request
  <2>9. QED
    BY <2>1, <2>2, <2>3, <2>4, <2>5, <2>6, <2>7, <2>8
<1>4. ASSUME NEW k \in Code, Expire(k)
      PROVE  InvitesInv'
  <2>1. TypeOK'
    BY <1>4 DEF Expire, TypeOK, Row, Absent, Request, Phase
  <2>2. CodesAreDrawn'
    BY <1>4 DEF Expire, CodesAreDrawn, TypeOK, Row, Absent
  <2>3. InHand'
    BY <1>4 DEF Expire, InHand, TypeOK, Request
  <2>4. Unwritten'
    BY <1>4 DEF Expire, Unwritten, InHand, OwnCodes, Discarded, CodesAreDrawn, TypeOK,
         Request
  <2>5. OwnCodes'
    BY <1>4 DEF Expire, OwnCodes, InHand, Unwritten, TypeOK, Request
  <2>6. Discarded'
    BY <1>4 DEF Expire, Discarded, InHand, Unwritten, OwnCodes, CodesAreDrawn, TypeOK,
         Row, Absent, Request
  <2>7. InviteHeldOnce'
    BY <1>4 DEF Expire, InviteHeldOnce, Holds, InHand, Unwritten, CodesAreDrawn,
         TypeOK, Request
  <2>8. InviteStaysUsable'
    BY <1>4 DEF Expire, InviteStaysUsable, InviteHeldOnce, Holds, InHand, Unwritten,
         Discarded, CodesAreDrawn, TypeOK, Row, Absent, Request
  <2>9. QED
    BY <2>1, <2>2, <2>3, <2>4, <2>5, <2>6, <2>7, <2>8
<1>5. ASSUME NEW k \in Code, DropExpired(k)
      PROVE  InvitesInv'
  <2>1. TypeOK'
    BY <1>5 DEF DropExpired, TypeOK, Row, Absent, Request, Phase
  <2>2. CodesAreDrawn'
    BY <1>5 DEF DropExpired, CodesAreDrawn, TypeOK, Row, Absent
  <2>3. InHand'
    BY <1>5 DEF DropExpired, InHand, TypeOK, Request
  <2>4. Unwritten'
    BY <1>5 DEF DropExpired, Unwritten, InHand, OwnCodes, Discarded, CodesAreDrawn,
         TypeOK, Request
  <2>5. OwnCodes'
    BY <1>5 DEF DropExpired, OwnCodes, InHand, Unwritten, TypeOK, Request
  <2>6. Discarded'
    BY <1>5 DEF DropExpired, Discarded, InHand, Unwritten, OwnCodes, CodesAreDrawn,
         TypeOK, Row, Absent, Request
  <2>7. InviteHeldOnce'
    BY <1>5 DEF DropExpired, InviteHeldOnce, Holds, InHand, Unwritten, CodesAreDrawn,
         TypeOK, Request
  <2>8. InviteStaysUsable'
    BY <1>5 DEF DropExpired, InviteStaysUsable, InviteHeldOnce, Holds, InHand,
         Unwritten, Discarded, CodesAreDrawn, TypeOK, Row, Absent, Request
  <2>9. QED
    BY <2>1, <2>2, <2>3, <2>4, <2>5, <2>6, <2>7, <2>8
<1>6. ASSUME Crash
      PROVE  InvitesInv'
  <2>1. TypeOK'
    <3>1. Idle \in Request
      BY DEF Idle, Request, Phase
    <3>2. {k \in Code : \E w \in Worker : Holds(w, k)} \subseteq 1..issued
      BY DEF Holds, InHand
    <3>3. QED
      BY <1>6, <3>1, <3>2 DEF Crash, TypeOK
  <2>2. CodesAreDrawn'
    BY <1>6 DEF Crash, Idle, CodesAreDrawn, TypeOK, Row, Absent
  <2>3. InHand'
    BY <1>6 DEF Crash, Idle, InHand, TypeOK, Request
  <2>4. Unwritten'
    BY <1>6 DEF Crash, Idle, Unwritten, InHand, OwnCodes, Discarded, CodesAreDrawn,
         TypeOK, Request
  <2>5. OwnCodes'
    BY <1>6 DEF Crash, Idle, OwnCodes, InHand, Unwritten, TypeOK, Request
  <2>6. Discarded'
    BY <1>6 DEF Crash, Idle, Discarded, InHand, Unwritten, OwnCodes, CodesAreDrawn,
         TypeOK, Row, Absent, Request
  <2>7. InviteHeldOnce'
    BY <1>6 DEF Crash, Idle, InviteHeldOnce, Holds, InHand, Unwritten, CodesAreDrawn,
         TypeOK, Request
  <2>8. InviteStaysUsable'
    BY <1>6 DEF Crash, Idle, InviteStaysUsable, InviteHeldOnce, Holds, InHand,
         Unwritten, Discarded, CodesAreDrawn, TypeOK, Row, Absent, Request
  <2>9. QED
    BY <2>1, <2>2, <2>3, <2>4, <2>5, <2>6, <2>7, <2>8
<1>7. ASSUME UNCHANGED vars
      PROVE  InvitesInv'
  <2>1. TypeOK'
    BY <1>7 DEF vars, TypeOK, Row, Absent, Request, Phase
  <2>2. CodesAreDrawn'
    BY <1>7 DEF vars, CodesAreDrawn, TypeOK, Row, Absent
  <2>3. InHand'
    BY <1>7 DEF vars, InHand, TypeOK, Request
  <2>4. Unwritten'
    BY <1>7 DEF vars, Unwritten, InHand, OwnCodes, Discarded, CodesAreDrawn, TypeOK,
         Request
  <2>5. OwnCodes'
    BY <1>7 DEF vars, OwnCodes, InHand, Unwritten, TypeOK, Request
  <2>6. Discarded'
    BY <1>7 DEF vars, Discarded, InHand, Unwritten, OwnCodes, CodesAreDrawn, TypeOK,
         Row, Absent, Request
  <2>7. InviteHeldOnce'
    BY <1>7 DEF vars, InviteHeldOnce, Holds, InHand, Unwritten, CodesAreDrawn, TypeOK,
         Request
  <2>8. InviteStaysUsable'
    BY <1>7 DEF vars, InviteStaysUsable, InviteHeldOnce, Holds, InHand, Unwritten,
         Discarded, CodesAreDrawn, TypeOK, Row, Absent, Request
  <2>9. QED
    BY <2>1, <2>2, <2>3, <2>4, <2>5, <2>6, <2>7, <2>8
<1>8. QED
  BY <1>1, <1>2, <1>3, <1>4, <1>5, <1>6, <1>7 DEF Registration

(* Every step keeps every code where the database expects it.              *)
LEMMA NextInvites == InvitesInv /\ [Next]_vars => InvitesInv'
  BY AdministratorKeepsInvites, AcceptanceKeepsInvites, RestKeepsInvites DEF Next

(* The type invariant, with the fields of a row that go together, holds in *)
(* every reachable state (Collector rows, requests and both stores).       *)
THEOREM AccountsTypeCorrect == Spec => []TypeOK
<1>1. InvitesInv => TypeOK
  BY DEF InvitesInv
<1>2. QED
  BY <1>1, InitInvites, NextInvites, PTL DEF Spec

(* Of two requests that open one link at the same time, one at most gets   *)
(* to link it, through every renewal, restore and crash.                   *)
THEOREM CodesAreHeldOnce == Spec => []InviteHeldOnce
<1>1. InvitesInv => InviteHeldOnce
  BY DEF InvitesInv
<1>2. QED
  BY <1>1, InitInvites, NextInvites, PTL DEF Spec

(* An invite the database honours is never lost but by a failure.          *)
THEOREM InvitesStayUsable == Spec => []InviteStaysUsable
<1>1. InvitesInv => InviteStaysUsable
  BY DEF InvitesInv
<1>2. QED
  BY <1>1, InitInvites, NextInvites, PTL DEF Spec

(* The accounts in the rows change in one way only: an account without a   *)
(* collector is put into a row without an account.                         *)
LEMMA AccountsOfRows ==
  ASSUME InvitesInv, [Next]_vars
  PROVE  \/ \A c \in Collector : row'[c].user = row[c].user
         \/ \E c \in Collector, u \in User :
              /\ ~HasCollector(u) /\ row[c].user = None /\ row'[c].user = u
              /\ \A d \in Collector \ {c} : row'[d].user = row[d].user
<1> DEFINE Same == \A c \in Collector : row'[c].user = row[c].user
           Linked == \E c \in Collector, u \in User :
             /\ ~HasCollector(u) /\ row[c].user = None /\ row'[c].user = u
             /\ \A d \in Collector \ {c} : row'[d].user = row[d].user
<1>a. row \in [Collector -> Row] /\ \A c \in Collector : row[c] \in Row
  BY DEF InvitesInv, TypeOK
<1>1. ASSUME NEW w \in Worker, LinkCollector(w)
      PROVE  Same \/ Linked
  <2>1. request[w].collector \in Collector /\ request[w].user \in User
    BY <1>1 DEF LinkCollector, At, InvitesInv, InHand, Holding
  <2>2. CASE row' = row
    BY <2>2
  <2>3. CASE /\ StillInvited(request[w].collector, request[w].code)
             /\ ~Taken(request[w].user)
             /\ row' = [row EXCEPT ![request[w].collector].user = request[w].user,
                                   ![request[w].collector].link = "LINKED",
                                   ![request[w].collector].hash = None]
    BY <1>a, <2>1, <2>3 DEF StillInvited, Invited, Taken, Row
  <2>4. QED
    BY <1>1, <2>2, <2>3 DEF LinkCollector
<1>2. ASSUME NEW w \in Worker, WriteRow(w)
      PROVE  Same
  <2> DEFINE c == request[w].collector
             k == request[w].code
  <2>1. c \in Collector
    BY <1>2 DEF WriteRow, At, InvitesInv, InHand, Issuing
  <2>2. Reissued(c, k).user = row[c].user
    BY <1>a, <2>1 DEF Reissued, Row, Absent
  <2>3. row' = row \/ row' = [row EXCEPT ![c] = Reissued(c, k)]
    BY <1>2 DEF WriteRow
  <2>4. QED
    BY <1>a, <2>1, <2>2, <2>3
<1>3. ASSUME NEW c \in Collector, UpdateCollector(c)
      PROVE  Same
  BY <1>3, <1>a DEF UpdateCollector, Row
<1>4. CASE row' = row
  BY <1>4
<1>5. ASSUME NEW w \in Worker, Administrator(w), ~WriteRow(w)
      PROVE  row' = row
  BY <1>5 DEF Administrator, CreateCollector, RefuseCreation, RegenerateCollectorInvite, Issue,
       SetActiveInvite, WithdrawInvite, DeleteReplacedInvite, database, vars
<1>6. ASSUME NEW w \in Worker, Acceptance(w), ~LinkCollector(w)
      PROVE  row' = row
  BY <1>6 DEF Acceptance, ConsumeInvite, CheckInvite, ReadUser, ForgetActiveInvite, RestoreInvite,
       database
<1>7. ASSUME \/ \E w \in Worker : Registration(w)
             \/ \E k \in Code : Expire(k) \/ DropExpired(k)
             \/ Crash
             \/ UNCHANGED vars
      PROVE  row' = row
  BY <1>7 DEF Registration, RegisterMerchant, CreateMerchant, Expire, DropExpired, Crash, database,
       vars
<1>8. QED
  BY <1>1, <1>2, <1>3, <1>4, <1>5, <1>6, <1>7 DEF Next

(* An account never gets a second collector, whichever invites it accepts  *)
(* at the same time: the unique index refuses what the reads let pass.     *)
THEOREM AccountsHaveOneCollector == Spec => []OneCollectorPerUser
<1>1. Init => OneCollectorPerUser
  BY DEF Init, OneCollectorPerUser, Absent
<1>2. ASSUME InvitesInv, OneCollectorPerUser, [Next]_vars
      PROVE  OneCollectorPerUser'
  <2>1. CASE \A c \in Collector : row'[c].user = row[c].user
    BY <1>2, <2>1 DEF OneCollectorPerUser
  <2>2. ASSUME NEW c \in Collector, NEW u \in User, ~HasCollector(u), row'[c].user = u,
               \A d \in Collector \ {c} : row'[d].user = row[d].user
        PROVE  OneCollectorPerUser'
    BY <1>2, <2>2 DEF OneCollectorPerUser, HasCollector
  <2>3. QED
    BY <1>2, <2>1, <2>2, AccountsOfRows
<1>3. QED
  BY <1>1, <1>2, InitInvites, NextInvites, PTL DEF Spec

(* A collector keeps its account for ever.                                 *)
THEOREM LinksAreFinal == Spec => LinkIsFinal
<1>1. ASSUME InvitesInv, [Next]_vars
      PROVE  [\A c \in Collector : row[c].user # None => row'[c].user = row[c].user]_vars
  BY <1>1, AccountsOfRows
<1>2. QED
  BY <1>1, InitInvites, NextInvites, PTL DEF Spec, LinkIsFinal

-----------------------------------------------------------------------------

Tokens == PairsAreLinked /\ OneSuccessor /\ LogoutEndsSession /\ HandoffOpensOneSession

(* What a request r may be that the worker w takes up, once the hand-over  *)
(* codes are h of which d are drawn.                                       *)
Fits(w, r, h, d) ==
  /\ r \in Handled
  /\ r.pair # Null => r.pair \in 1..minted
  /\ r.code # Null => r.pair = Null /\ r.phase \in {"issuing", "signed"}
  /\ r.seen \subseteq 1..minted
  /\ \A p \in r.seen : pair[p].by # Null => p \in raced
  /\ r.phase \in Served => r.user \in Account
  /\ r.phase = "rotating" =>
       /\ r.pair # Null
       /\ ~pair[r.pair].revoked
       /\ \A v \in Caller : v # w => ~(In(v, "rotating") /\ serving[v].pair = r.pair)
  /\ r.phase \in {"issuing", "signed"} /\ r.code # Null =>
       /\ r.code \in 1..d
       /\ h[r.code] = Null
       /\ \A p \in 1..minted : pair[p].via # r.code
       /\ \A v \in Caller : v # w =>
            ~(serving[v].phase \in {"issuing", "signed"} /\ serving[v].code = r.code)

(* Codes are drawn in order, and one that was drawn does not come back.    *)
CodesGoOn ==
  /\ handoff' \in [HandoffCode -> Account \cup {Null}]
  /\ drawn' \in 0..MaxDrawn
  /\ drawn <= drawn'
  /\ \A k \in HandoffCode : handoff'[k] # Null => k \in 1..drawn'
  /\ \A k \in 1..drawn : handoff[k] = Null => handoff'[k] = Null

(* An idle worker, and one that has its answer, hold nothing.              *)
LEMMA RestingFits ==
  ASSUME NEW w, NEW h, NEW d, NEW phase \in Stage \ Served
  PROVE  Fits(w, [Void EXCEPT !.phase = phase], h, d)
BY DEF Fits, Void, Handled, Role, Stage, Served

LEMMA RefusedFits ==
  ASSUME SessionsInv, NEW w, NEW h, NEW d, NEW p \in 1..minted
  PROVE  Fits(w, Refused(p), h, d)
<1>1. p \in Pair
  BY SessionsAssumption DEF SessionsInv, SessionsTypeOK, Pair
<1> QED BY <1>1 DEF Fits, Refused, Void, Handled, Role, Stage, Served

(* A step that leaves the tokens alone and puts r in the place of the      *)
(* request of w keeps the invariant, if r fits.                            *)
LEMMA RequestStep ==
  ASSUME SessionsInv, UNCHANGED tokens, roles' \in [Account -> Role], CodesGoOn,
         NEW w \in Caller, NEW r, Fits(w, r, handoff', drawn'),
         serving' = [serving EXCEPT ![w] = r]
  PROVE  SessionsInv'
<1> USE SessionsAssumption
<1>0. SessionsTypeOK /\ RotationHolds /\ CodesAreSpent /\ Tokens
  BY DEF SessionsInv, Tokens
<1>1. pair' = pair /\ minted' = minted /\ ended' = ended /\ raced' = raced
  BY DEF tokens
<1>2. serving \in [Caller -> Handled] /\ drawn \in 0..MaxDrawn
  BY <1>0 DEF SessionsTypeOK
<1>3. serving'[w] = r /\ \A v \in Caller : v # w => serving'[v] = serving[v]
  BY <1>2
<1>4. SessionsTypeOK'
  BY <1>0, <1>1, <1>2 DEF SessionsTypeOK, Fits, CodesGoOn
<1>5. RotationHolds'
  <2> SUFFICES ASSUME NEW v \in Caller
               PROVE  /\ serving'[v].pair # Null => serving'[v].pair \in 1..minted
                      /\ serving'[v].code # Null =>
                           serving'[v].pair = Null /\ serving'[v].phase \in {"issuing", "signed"}
                      /\ serving'[v].seen \subseteq 1..minted
                      /\ serving'[v].phase \in Served => serving'[v].user \in Account
                      /\ serving'[v].phase = "rotating" =>
                           /\ serving'[v].pair # Null
                           /\ ~pair[serving'[v].pair].revoked
                           /\ \A u \in Caller : serving'[u].phase = "rotating"
                                /\ serving'[u].pair = serving'[v].pair => u = v
    BY <1>1 DEF RotationHolds, In
  <2>1. CASE v = w
    BY <1>3, <2>1 DEF Fits, In
  <2>2. CASE v # w
    BY <1>0, <1>3, <2>2 DEF RotationHolds, Fits, In
  <2> QED BY <2>1, <2>2
<1>6. CodesAreSpent'
  <2>1. \A k \in HandoffCode : handoff'[k] # Null => k \in 1..drawn'
    BY DEF CodesGoOn
  <2>2. ASSUME NEW v \in Caller, serving'[v].phase \in {"issuing", "signed"}, serving'[v].code # Null
        PROVE  /\ serving'[v].code \in 1..drawn'
               /\ handoff'[serving'[v].code] = Null
               /\ \A p \in 1..minted : pair[p].via # serving'[v].code
               /\ \A u \in Caller : serving'[u].phase \in {"issuing", "signed"}
                                      /\ serving'[u].code = serving'[v].code => u = v
    <3>1. CASE v = w
      BY <1>3, <2>2, <3>1 DEF Fits
    <3>2. CASE v # w
      BY <1>0, <1>2, <1>3, <2>2, <3>2 DEF CodesAreSpent, Fits, CodesGoOn
    <3> QED BY <3>1, <3>2
  <2>3. \A p \in 1..minted : pair[p].via # Null => pair[p].via \in 1..drawn' /\ handoff'[pair[p].via] = Null
    BY <1>0, <1>2 DEF CodesAreSpent, CodesGoOn
  <2> QED BY <1>1, <2>1, <2>2, <2>3 DEF CodesAreSpent
<1>7. Tokens'
  <2>1. ASSUME NEW p \in 1..minted, pair[p].by # Null, Swept(p)'
        PROVE  p \in raced
    <3>1. PICK v \in Caller : p \in serving'[v].seen
      BY <2>1 DEF Swept
    <3>2. CASE v = w
      BY <1>3, <2>1, <3>1, <3>2 DEF Fits
    <3>3. CASE v # w
      BY <1>0, <1>3, <2>1, <3>1, <3>3 DEF Tokens, PairsAreLinked, Swept
    <3> QED BY <3>2, <3>3
  <2>2. PairsAreLinked'
    BY <1>0, <1>1, <2>1 DEF Tokens, PairsAreLinked
  <2> QED BY <1>0, <1>1, <2>2 DEF Tokens, OneSuccessor, LogoutEndsSession, HandoffOpensOneSession
<1> QED BY <1>4, <1>5, <1>6, <1>7 DEF SessionsInv, Tokens

(* The codes stay as they are in most steps.                               *)
LEMMA CodesStay ==
  ASSUME SessionsInv, UNCHANGED given
  PROVE  CodesGoOn
BY SessionsAssumption DEF SessionsInv, SessionsTypeOK, CodesAreSpent, CodesGoOn, given

(* A request that moves on to another phase fits as long as that phase     *)
(* asks no more of it than the one it leaves.                              *)
LEMMA GotoFits ==
  ASSUME SessionsInv, CodesGoOn, NEW w \in Caller,
         NEW phase \in Served \ {"rotating"}, serving[w].phase \in Served,
         serving[w].phase \in {"issuing", "signed"} => phase \in {"issuing", "signed"},
         NEW rl \in Role
  PROVE  /\ Fits(w, [serving[w] EXCEPT !.phase = phase], handoff', drawn')
         /\ Fits(w, [serving[w] EXCEPT !.phase = phase, !.role = rl], handoff', drawn')
<1>1. serving[w] \in Handled /\ drawn \in Nat /\ drawn' \in Nat
  BY SessionsAssumption DEF SessionsInv, SessionsTypeOK, CodesGoOn
<1>2. \A r \in {[serving[w] EXCEPT !.phase = phase], [serving[w] EXCEPT !.phase = phase, !.role = rl]} :
        /\ r \in Handled /\ r.phase = phase /\ r.pair = serving[w].pair /\ r.code = serving[w].code
        /\ r.seen = serving[w].seen /\ r.user = serving[w].user
  BY <1>1 DEF Handled, Served, Stage
<1> SUFFICES ASSUME NEW r \in {[serving[w] EXCEPT !.phase = phase],
                               [serving[w] EXCEPT !.phase = phase, !.role = rl]}
             PROVE  Fits(w, r, handoff', drawn')
  OBVIOUS
<1>3. /\ r \in Handled /\ r.phase = phase /\ r.pair = serving[w].pair /\ r.code = serving[w].code
      /\ r.seen = serving[w].seen /\ r.user = serving[w].user
  BY <1>2
<1>4. /\ r.pair # Null => r.pair \in 1..minted
      /\ r.code # Null => r.pair = Null /\ r.phase \in {"issuing", "signed"}
      /\ r.seen \subseteq 1..minted
      /\ \A p \in r.seen : pair[p].by # Null => p \in raced
      /\ r.user \in Account
  BY <1>3 DEF SessionsInv, RotationHolds, PairsAreLinked, Swept
<1>5. ASSUME phase \in {"issuing", "signed"}, r.code # Null
      PROVE  /\ r.code \in 1..drawn'
             /\ handoff'[r.code] = Null
             /\ \A p \in 1..minted : pair[p].via # r.code
             /\ \A v \in Caller : v # w =>
                  ~(serving[v].phase \in {"issuing", "signed"} /\ serving[v].code = r.code)
  <2>1. serving[w].code # Null /\ serving[w].phase \in {"issuing", "signed"}
    BY <1>3, <1>5 DEF SessionsInv, RotationHolds
  <2> QED BY <1>1, <1>3, <2>1 DEF SessionsInv, CodesAreSpent, CodesGoOn
<1> QED BY <1>3, <1>4, <1>5 DEF Fits

-----------------------------------------------------------------------------
(* Steps of a request before it has an account to issue a pair for.        *)
LEMMA SignInStep ==
  ASSUME SessionsInv, NEW w \in Caller, SignIn(w)
  PROVE  SessionsInv'
<1> USE SessionsAssumption, NoSuchUser
<1>0. /\ roles \in [Account -> Role] /\ handoff \in [HandoffCode -> Account \cup {Null}]
      /\ pair \in [Pair -> PairRow] /\ minted \in 0..MaxPairs
      /\ \A p \in 1..minted : pair[p].user \in Account
  BY DEF SessionsInv, SessionsTypeOK, Pair
<1>1. ASSUME NEW u \in Account, NEW oauth \in BOOLEAN, VerifyZalo(w, u, oauth)
      PROVE  SessionsInv'
  <2>1. Fits(w, [Void EXCEPT !.phase = "identified", !.user = u, !.oauth = oauth], handoff', drawn')
    BY DEF Fits, Void, Handled, Role, Stage, Served
  <2> QED BY <1>0, <1>1, <2>1, CodesStay, RequestStep DEF VerifyZalo, Begin
<1>2. ASSUME NEW u \in Account, AdminLogin(w, u)
      PROVE  SessionsInv'
  <2>1. Fits(w, [Void EXCEPT !.phase = "issuing", !.user = u], handoff', drawn')
    BY DEF Fits, Void, Handled, Role, Stage, Served
  <2> QED BY <1>0, <1>2, <2>1, CodesStay, RequestStep DEF AdminLogin, Begin
<1>3. ASSUME NEW k \in HandoffCode, ExchangeZaloOAuthCode(w, k)
      PROVE  SessionsInv'
  <2>1. /\ handoff[k] \in Account /\ k \in 1..drawn /\ drawn' = drawn
        /\ handoff' = [handoff EXCEPT ![k] = Null]
    BY <1>0, <1>3 DEF ExchangeZaloOAuthCode, Consumed, SessionsInv, CodesAreSpent
  <2>2. CodesGoOn
    BY <1>0, <2>1 DEF CodesGoOn, SessionsInv, SessionsTypeOK, CodesAreSpent
  <2>3. /\ \A p \in 1..minted : pair[p].via # k
        /\ \A v \in Caller : ~(serving[v].phase \in {"issuing", "signed"} /\ serving[v].code = k)
    BY <2>1 DEF SessionsInv, CodesAreSpent
  <2>4. Fits(w, [Void EXCEPT !.phase = "issuing", !.user = handoff[k], !.code = k], handoff', drawn')
    BY <1>0, <2>1, <2>3 DEF Fits, Void, Handled, Role, Stage, Served
  <2> QED BY <1>0, <1>3, <2>2, <2>4, RequestStep DEF ExchangeZaloOAuthCode, Begin
<1>4. ASSUME NEW p \in Pair, AcceptCollectorInvite(w, p)
      PROVE  SessionsInv'
  <2>1. pair[p].user \in Account
    BY <1>0, <1>4 DEF AcceptCollectorInvite, Authorised
  <2>2. Fits(w, [Void EXCEPT !.phase = "issuing", !.user = pair[p].user], handoff', drawn')
    BY <2>1 DEF Fits, Void, Handled, Role, Stage, Served
  <2>3. roles' \in [Account -> Role]
    BY <1>0, <1>4 DEF AcceptCollectorInvite, Role
  <2> QED BY <1>4, <2>2, <2>3, CodesStay, RequestStep DEF AcceptCollectorInvite, Begin
<1> QED BY <1>1, <1>2, <1>3, <1>4 DEF SignIn

(* A refresh request that comes in, one that is answered, and a sign-out   *)
(* of the whole account that begins.                                       *)
LEMMA RefreshStep ==
  ASSUME SessionsInv, NEW w \in Caller, NEW p \in Pair, NEW late \in BOOLEAN, Refresh(w, p, late)
  PROVE  SessionsInv'
<1>0. roles' \in [Account -> Role] /\ CodesGoOn /\ UNCHANGED tokens
  BY CodesStay DEF Refresh, SessionsInv, SessionsTypeOK
<1>1. pair[p].user \in Account /\ p \in 1..minted
  BY DEF Refresh, SessionsInv, SessionsTypeOK
<1>2. CASE Begin(w, Refused(p))
  BY <1>0, <1>1, <1>2, RefusedFits, RequestStep DEF Begin
<1>3. CASE Begin(w, [Void EXCEPT !.phase = "issuing", !.user = pair[p].user, !.pair = p])
  <2>1. Fits(w, [Void EXCEPT !.phase = "issuing", !.user = pair[p].user, !.pair = p], handoff', drawn')
    BY <1>1 DEF Fits, Void, Handled, Role, Stage, Served
  <2> QED BY <1>0, <1>3, <2>1, RequestStep DEF Begin
<1> QED BY <1>2, <1>3 DEF Refresh

LEMMA AnsweredStep ==
  ASSUME SessionsInv, NEW w \in Caller, Answered(w)
  PROVE  SessionsInv'
<1>1. Fits(w, Void, handoff', drawn')
  BY DEF Fits, Void, Handled, Role, Stage, Served
<1> QED BY <1>1, CodesStay, RequestStep DEF Answered, SessionsInv, SessionsTypeOK

LEMMA LogoutAllStep ==
  ASSUME SessionsInv, NEW w \in Caller, NEW u \in Account, LogoutAll(w, u)
  PROVE  SessionsInv'
<1> DEFINE found == {p \in 1..minted : LogsOut(u, p)}
<1>1. /\ found \subseteq 1..minted /\ found \subseteq Pair
      /\ \A p \in found : pair[p].by = Null
  BY SessionsAssumption DEF SessionsInv, SessionsTypeOK, PairsAreLinked, LogsOut, Pair
<1> HIDE DEF found
<1>2. Fits(w, [Void EXCEPT !.phase = "sweeping", !.user = u, !.seen = found], handoff', drawn')
  BY <1>1 DEF Fits, Void, Handled, Role, Stage, Served
<1>3. /\ serving' = [serving EXCEPT ![w] = [Void EXCEPT !.phase = "sweeping", !.user = u, !.seen = found]]
      /\ UNCHANGED <<roles, tokens, given>>
  BY DEF LogoutAll, Begin, found
<1> QED BY <1>2, <1>3, CodesStay, RequestStep DEF SessionsInv, SessionsTypeOK

(* The steps of a request that is served, except those that write pairs.   *)
LEMMA FindUserStep ==
  ASSUME SessionsInv, NEW w \in Caller, FindUser(w)
  PROVE  SessionsInv'
<1>0. roles' \in [Account -> Role] /\ CodesGoOn /\ UNCHANGED tokens /\ "NONE" \in Role
  BY CodesStay DEF FindUser, SessionsInv, SessionsTypeOK, Role
<1>1. CASE Return(w, "refused")
  BY <1>0, <1>1, RestingFits, RequestStep DEF Return, Stage, Served
<1>2. CASE Move(w, "known")
  <2>1. serving[w].phase = "identified" /\ serving' = [serving EXCEPT ![w] = [serving[w] EXCEPT !.phase = "known"]]
    BY <1>2 DEF FindUser, In, Move
  <2>2. Fits(w, [serving[w] EXCEPT !.phase = "known"], handoff', drawn')
    BY <1>0, <2>1, GotoFits DEF Served
  <2> QED BY <1>0, <2>1, <2>2, RequestStep
<1> QED BY <1>1, <1>2 DEF FindUser

LEMMA UpsertZaloUserStep ==
  ASSUME SessionsInv, NEW w \in Caller, UpsertZaloUser(w)
  PROVE  SessionsInv'
<1> DEFINE next == IF serving[w].oauth THEN "handing" ELSE "issuing"
<1>0. roles' \in [Account -> Role] /\ CodesGoOn /\ UNCHANGED tokens /\ "NONE" \in Role
  BY CodesStay DEF UpsertZaloUser, SessionsInv, SessionsTypeOK, Role
<1>1. next \in {"handing", "issuing"}
  OBVIOUS
<1>2. serving[w].phase = "known" /\ serving' = [serving EXCEPT ![w] = [serving[w] EXCEPT !.phase = next]]
  BY DEF UpsertZaloUser, In, Move
<1> HIDE DEF next
<1>3. Fits(w, [serving[w] EXCEPT !.phase = next], handoff', drawn')
  BY <1>0, <1>1, <1>2, GotoFits DEF Served
<1> QED BY <1>0, <1>2, <1>3, RequestStep

LEMMA LinkSealedInviteStep ==
  ASSUME SessionsInv, NEW w \in Caller, LinkSealedInvite(w)
  PROVE  SessionsInv'
<1>0. roles' \in [Account -> Role] /\ CodesGoOn /\ UNCHANGED tokens
  BY CodesStay DEF LinkSealedInvite, SessionsInv, SessionsTypeOK, Role
<1>1. CASE Return(w, "refused")
  BY <1>0, <1>1, RestingFits, RequestStep DEF Return, Stage, Served
<1>2. CASE UNCHANGED serving
  <2>1. /\ handoff' = handoff /\ drawn' = drawn /\ pair' = pair /\ minted' = minted
        /\ ended' = ended /\ raced' = raced /\ serving' = serving
    BY <1>2 DEF LinkSealedInvite, tokens, given
  <2> QED BY <1>0, <2>1 DEF SessionsInv, SessionsTypeOK, RotationHolds, PairsAreLinked, CodesAreSpent,
              OneSuccessor, LogoutEndsSession, HandoffOpensOneSession, In, Swept
<1> QED BY <1>1, <1>2 DEF LinkSealedInvite

LEMMA CreateOAuthHandoffStep ==
  ASSUME SessionsInv, NEW w \in Caller, CreateOAuthHandoff(w)
  PROVE  SessionsInv'
<1>0. roles' \in [Account -> Role] /\ UNCHANGED tokens
  BY DEF CreateOAuthHandoff, SessionsInv, SessionsTypeOK
<1>1. CASE Return(w, "failed") /\ UNCHANGED given
  BY <1>0, <1>1, CodesStay, RestingFits, RequestStep DEF Return, Stage, Served
<1>2. CASE /\ drawn < MaxDrawn
           /\ drawn' = drawn + 1
           /\ handoff' = [handoff EXCEPT ![drawn + 1] = serving[w].user]
           /\ Return(w, "done")
  <2>1. serving[w] \in Handled
    BY DEF SessionsInv, SessionsTypeOK
  <2>2. CodesGoOn
    BY <1>2, <2>1, SessionsAssumption
    DEF SessionsInv, SessionsTypeOK, CodesAreSpent, CodesGoOn, HandoffCode, Handled
  <2> QED BY <1>0, <1>2, <2>2, RestingFits, RequestStep DEF Return, Stage, Served
<1> QED BY <1>1, <1>2 DEF CreateOAuthHandoff

LEMMA LoadUserStep ==
  ASSUME SessionsInv, NEW w \in Caller, LoadUser(w)
  PROVE  SessionsInv'
<1> DEFINE now == roles[serving[w].user]
<1>0. roles' \in [Account -> Role] /\ CodesGoOn /\ UNCHANGED tokens
  BY CodesStay DEF LoadUser, SessionsInv, SessionsTypeOK
<1>1. /\ serving[w].phase = "issuing"
      /\ serving' = [serving EXCEPT ![w] = [serving[w] EXCEPT !.phase = "signed", !.role = now]]
  BY DEF LoadUser, In, SessionsInv, SessionsTypeOK
<1>2. now \in Role
  BY <1>1 DEF SessionsInv, SessionsTypeOK, RotationHolds, Served
<1> HIDE DEF now
<1>3. Fits(w, [serving[w] EXCEPT !.phase = "signed", !.role = now], handoff', drawn')
  BY <1>0, <1>1, <1>2, GotoFits DEF Served
<1> QED BY <1>0, <1>1, <1>3, RequestStep

LEMMA RevokeRotatedStep ==
  ASSUME SessionsInv, NEW w \in Caller, RevokeRotated(w)
  PROVE  SessionsInv'
<1>0. roles' \in [Account -> Role] /\ CodesGoOn /\ UNCHANGED tokens
  BY CodesStay DEF RevokeRotated, SessionsInv, SessionsTypeOK
<1>1. CASE serving' = [serving EXCEPT ![w] = Refused(serving[w].pair)]
  <2>1. PICK p \in 1..minted : p = serving[w].pair
    BY DEF RevokeRotated, SessionsInv, RotationHolds
  <2>2. serving' = [serving EXCEPT ![w] = Refused(p)]
    BY <1>1, <2>1
  <2> QED BY <1>0, <2>2, RefusedFits, RequestStep
<1>2. CASE Rotatable(serving[w].pair) /\ Move(w, "rotating")
  <2>1. /\ serving[w].phase = "signed" /\ serving[w].pair # Null
        /\ ~pair[serving[w].pair].revoked
        /\ \A v \in Caller : ~(In(v, "rotating") /\ serving[v].pair = serving[w].pair)
        /\ serving' = [serving EXCEPT ![w] = [serving[w] EXCEPT !.phase = "rotating"]]
    BY <1>2 DEF RevokeRotated, Rotatable, Locked, In, Move
  <2>2. /\ serving[w] \in Handled /\ serving[w].code = Null /\ serving[w].pair \in 1..minted
        /\ serving[w].seen \subseteq 1..minted /\ serving[w].user \in Account
        /\ \A q \in serving[w].seen : pair[q].by # Null => q \in raced
    BY <2>1 DEF SessionsInv, SessionsTypeOK, RotationHolds, PairsAreLinked, Swept, Served
  <2>3. Fits(w, [serving[w] EXCEPT !.phase = "rotating"], handoff', drawn')
    BY <2>1, <2>2 DEF Fits, Handled, Stage, Served
  <2> QED BY <1>0, <2>1, <2>3, RequestStep
<1> QED BY <1>1, <1>2 DEF RevokeRotated

-----------------------------------------------------------------------------
(* A pair is issued: by itself, or in the place of the one whose rotation  *)
(* the worker holds.                                                       *)
LEMMA IssueStep ==
  ASSUME SessionsInv, NEW w \in Caller, NEW table, Create(w, table),
         UNCHANGED <<roles, ended, given>>,
         \/ /\ serving[w].phase = "signed" /\ serving[w].pair = Null /\ table = pair
            /\ raced' = raced
         \/ /\ serving[w].phase = "rotating"
            /\ raced' = IF Swept(serving[w].pair) THEN raced \cup {serving[w].pair} ELSE raced
            /\ table = [pair EXCEPT ![serving[w].pair].revoked = TRUE, ![serving[w].pair].by = minted + 1]
  PROVE  SessionsInv'
<1> USE SessionsAssumption, NoSuchUser
<1> DEFINE n == minted + 1
           old == serving[w].pair
           done == [Void EXCEPT !.phase = "done", !.new = n]
<1>1. /\ minted \in Nat /\ minted < MaxPairs /\ minted' = n /\ n \in Pair /\ n \in Nat
      /\ n \notin 1..minted /\ 1..minted' = 1..minted \cup {n} /\ 1..minted \subseteq Pair
  BY DEF Create, SessionsInv, SessionsTypeOK, Pair
<1>2. /\ pair \in [Pair -> PairRow] /\ serving \in [Caller -> Handled] /\ serving[w] \in Handled
      /\ serving[w].user \in Account
  BY DEF SessionsInv, SessionsTypeOK, RotationHolds, Served
<1>3. /\ NewPair(w) \in PairRow /\ NewPair(w).user \in Account /\ NewPair(w).by = Null
      /\ ~NewPair(w).revoked /\ NewPair(w).from = old /\ NewPair(w).via = serving[w].code
  BY <1>2 DEF NewPair, PairRow, Handled
<1>4. /\ done \in Handled /\ done.phase = "done" /\ done.pair = Null /\ done.code = Null /\ done.seen = {}
      /\ serving' = [serving EXCEPT ![w] = done]
  BY <1>1 DEF Create, Void, Handled, Role, Stage
<1>5. /\ old # Null => /\ old \in 1..minted /\ ~pair[old].revoked /\ old \notin ended
                       /\ serving[w].phase = "rotating" /\ serving[w].code = Null
      /\ \A v \in Caller : v # w /\ serving[v].phase = "rotating" =>
           serving[v].pair # Null /\ serving[v].pair # old
      /\ serving[w].phase = "rotating" => old # Null
      /\ raced \subseteq raced' /\ raced' \subseteq raced \cup {old}
      /\ old # Null /\ Swept(old) => old \in raced'
      /\ old = Null => raced' = raced
  BY DEF SessionsInv, RotationHolds, PairsAreLinked, In
<1>6. /\ pair' \in [Pair -> PairRow]
      /\ pair'[n] = NewPair(w)
      /\ \A q \in 1..minted : q # old => pair'[q] = pair[q]
      /\ old # Null => pair'[old] = [pair[old] EXCEPT !.revoked = TRUE, !.by = n]
      /\ \A q \in Pair : q \notin 1..minted' => pair'[q] = pair[q]
  <2>1. CASE serving[w].phase = "signed"
    BY <1>1, <1>2, <1>3, <1>5, <2>1 DEF Create
  <2>2. CASE serving[w].phase = "rotating"
    <3>1. old # Null /\ old \in 1..minted /\ old \in Pair /\ old # n
      BY <1>1, <1>5, <2>2 DEF SessionsInv, RotationHolds, In
    <3>2. [pair[old] EXCEPT !.revoked = TRUE, !.by = n] \in PairRow
      <4>1. \A r \in PairRow, m \in Pair : [r EXCEPT !.revoked = TRUE, !.by = m] \in PairRow
        BY DEF PairRow
      <4>2. pair[old] \in PairRow
        BY <1>2, <3>1
      <4> HIDE DEF n, old
      <4> QED BY <1>1, <4>1, <4>2
    <3>3. table = [pair EXCEPT ![old] = [pair[old] EXCEPT !.revoked = TRUE, !.by = n]]
      BY <1>2, <2>2, <3>1 DEF PairRow
    <3> QED BY <1>1, <1>2, <1>3, <3>1, <3>2, <3>3 DEF Create
  <2> QED BY <2>1, <2>2
<1>7. \A q \in 1..minted :
        /\ pair'[q].user = pair[q].user /\ pair'[q].from = pair[q].from /\ pair'[q].via = pair[q].via
        /\ q = old => pair'[q].revoked /\ pair'[q].by = n
        /\ q # old => pair'[q].revoked = pair[q].revoked /\ pair'[q].by = pair[q].by
  <2>1. \A r \in PairRow, m \in Pair :
          LET s == [r EXCEPT !.revoked = TRUE, !.by = m]
          IN s.user = r.user /\ s.from = r.from /\ s.via = r.via /\ s.revoked /\ s.by = m
    BY DEF PairRow
  <2> HIDE DEF n, old
  <2> SUFFICES ASSUME NEW q \in 1..minted
               PROVE  /\ pair'[q].user = pair[q].user /\ pair'[q].from = pair[q].from
                      /\ pair'[q].via = pair[q].via
                      /\ q = old => pair'[q].revoked /\ pair'[q].by = n
                      /\ q # old => pair'[q].revoked = pair[q].revoked /\ pair'[q].by = pair[q].by
    OBVIOUS
  <2>2. CASE q = old
    <3>1. old # Null /\ pair[old] \in PairRow
      BY <1>1, <1>2, <2>2
    <3> DEFINE s == [pair[old] EXCEPT !.revoked = TRUE, !.by = n]
    <3>2. /\ s.user = pair[old].user /\ s.from = pair[old].from /\ s.via = pair[old].via
          /\ s.revoked /\ s.by = n
      BY <1>1, <2>1, <3>1
    <3>3. pair'[old] = s
      BY <1>6, <3>1
    <3> HIDE DEF s
    <3> QED BY <2>2, <3>2, <3>3
  <2>3. CASE q # old
    BY <1>6, <2>3
  <2> QED BY <2>2, <2>3
<1>8. /\ \A v \in Caller : v # w => serving'[v] = serving[v]
      /\ serving'[w] = done
  BY <1>2, <1>4
<1>9. ended' = ended /\ handoff' = handoff /\ drawn' = drawn /\ roles' = roles
  BY DEF given
<1> HIDE DEF n, old, done
<1>10. SessionsTypeOK'
  <2>1. serving' \in [Caller -> Handled] /\ minted' \in 0..MaxPairs
    BY <1>1, <1>2, <1>4
  <2>2. \A q \in Pair : IF q \in 1..minted' THEN pair'[q].user \in Account ELSE pair'[q] = NoPair
    BY <1>1, <1>3, <1>6, <1>7 DEF SessionsInv, SessionsTypeOK
  <2>3. ended' \subseteq 1..minted' /\ raced' \subseteq 1..minted'
    BY <1>1, <1>5, <1>9 DEF SessionsInv, SessionsTypeOK
  <2> QED BY <1>6, <1>9, <2>1, <2>2, <2>3 DEF SessionsInv, SessionsTypeOK
<1>11. RotationHolds'
  <2> SUFFICES ASSUME NEW v \in Caller
               PROVE  /\ serving'[v].pair # Null => serving'[v].pair \in 1..minted'
                      /\ serving'[v].code # Null =>
                           serving'[v].pair = Null /\ serving'[v].phase \in {"issuing", "signed"}
                      /\ serving'[v].seen \subseteq 1..minted'
                      /\ serving'[v].phase \in Served => serving'[v].user \in Account
                      /\ serving'[v].phase = "rotating" =>
                           /\ serving'[v].pair # Null
                           /\ ~pair'[serving'[v].pair].revoked
                           /\ \A u \in Caller : serving'[u].phase = "rotating"
                                /\ serving'[u].pair = serving'[v].pair => u = v
    BY DEF RotationHolds, In
  <2>1. CASE v = w
    BY <1>4, <1>8, <2>1 DEF Served
  <2>2. CASE v # w
    <3>1. /\ serving[v].pair # Null => serving[v].pair \in 1..minted
          /\ serving[v].seen \subseteq 1..minted
          /\ serving[v].code # Null => serving[v].pair = Null /\ serving[v].phase \in {"issuing", "signed"}
          /\ serving[v].phase \in Served => serving[v].user \in Account
      BY DEF SessionsInv, RotationHolds
    <3>2. serving[v].phase = "rotating" =>
            /\ ~pair[serving[v].pair].revoked /\ serving[v].pair \in 1..minted /\ serving[v].pair # old
            /\ \A u \in Caller : serving[u].phase = "rotating" /\ serving[u].pair = serving[v].pair => u = v
      BY <1>5, <2>2, <3>1 DEF SessionsInv, RotationHolds, In
    <3> QED BY <1>1, <1>4, <1>5, <1>7, <1>8, <2>2, <3>1, <3>2
  <2> QED BY <2>1, <2>2
<1>12. PairsAreLinked'
  <2>1. ASSUME NEW q \in 1..minted
        PROVE  /\ pair'[q].from # Null => pair'[q].from \in 1..minted'
               /\ pair'[q].revoked <=> pair'[q].by # Null \/ q \in ended'
               /\ pair'[q].by # Null /\ (q \in ended' \/ Swept(q)') => q \in raced'
    <3>1. Swept(q)' => Swept(q)
      BY <1>4, <1>8 DEF Swept
    <3>2. CASE q = old
      BY <1>1, <1>5, <1>7, <1>9, <3>1, <3>2 DEF SessionsInv, PairsAreLinked
    <3>3. CASE q # old
      BY <1>1, <1>5, <1>7, <1>9, <3>1, <3>3 DEF SessionsInv, PairsAreLinked
    <3> QED BY <3>2, <3>3
  <2>2. /\ pair'[n].from # Null => pair'[n].from \in 1..minted'
        /\ pair'[n].by = Null /\ ~pair'[n].revoked /\ n \notin ended'
    BY <1>1, <1>3, <1>5, <1>6, <1>9 DEF SessionsInv, SessionsTypeOK
  <2> QED BY <1>1, <2>1, <2>2 DEF PairsAreLinked
<1>13. OneSuccessor' /\ LogoutEndsSession'
  <2>1. ASSUME NEW q \in 1..minted, pair[q].from # Null
        PROVE  /\ pair[q].from \in 1..minted /\ pair[q].from # old
               /\ pair'[pair[q].from].revoked /\ pair'[pair[q].from].by = q
    <3>1. pair[q].from \in 1..minted /\ pair[pair[q].from].revoked /\ pair[pair[q].from].by = q
      BY <2>1 DEF SessionsInv, OneSuccessor, PairsAreLinked
    <3> QED BY <1>5, <1>7, <3>1, <2>1
  <2>2. OneSuccessor'
    <3>1. ASSUME NEW q \in 1..minted, pair'[q].from # Null
          PROVE  pair'[pair'[q].from].revoked /\ pair'[pair'[q].from].by = q
      BY <1>7, <2>1, <3>1
    <3>2. pair'[n].from # Null => pair'[pair'[n].from].revoked /\ pair'[pair'[n].from].by = n
      BY <1>3, <1>5, <1>6, <1>7
    <3> QED BY <1>1, <3>1, <3>2 DEF OneSuccessor
  <2>3. LogoutEndsSession'
    <3>1. \A q \in 1..minted : pair'[q].from \in ended' => pair'[q].from \in raced'
      BY <1>5, <1>7, <1>9 DEF SessionsInv, LogoutEndsSession
    <3>2. pair'[n].from \notin ended'
      BY <1>1, <1>3, <1>5, <1>6, <1>9 DEF SessionsInv, SessionsTypeOK
    <3>3. \A q \in ended' : pair'[q].revoked
      BY <1>7, <1>9 DEF SessionsInv, SessionsTypeOK, LogoutEndsSession
    <3> QED BY <1>1, <3>1, <3>2, <3>3 DEF LogoutEndsSession
  <2> QED BY <2>2, <2>3
<1>14. CodesAreSpent' /\ HandoffOpensOneSession'
  <2>1. /\ \A q \in 1..minted : pair'[q].via = pair[q].via
        /\ pair'[n].via = serving[w].code
        /\ \A q \in 1..minted : pair[q].via # Null => pair[q].via \in 1..drawn /\ handoff[pair[q].via] = Null
    BY <1>3, <1>6, <1>7 DEF SessionsInv, CodesAreSpent
  <2>2. serving[w].code # Null =>
          /\ serving[w].code \in 1..drawn /\ handoff[serving[w].code] = Null
          /\ \A q \in 1..minted : pair[q].via # serving[w].code
          /\ \A v \in Caller : serving[v].phase \in {"issuing", "signed"}
                                 /\ serving[v].code = serving[w].code => v = w
    BY DEF SessionsInv, RotationHolds, CodesAreSpent
  <2>3. ASSUME NEW v \in Caller, serving'[v].phase \in {"issuing", "signed"}, serving'[v].code # Null
        PROVE  /\ serving'[v].code \in 1..drawn
               /\ handoff[serving'[v].code] = Null
               /\ \A q \in 1..minted' : pair'[q].via # serving'[v].code
               /\ \A u \in Caller : serving'[u].phase \in {"issuing", "signed"}
                                      /\ serving'[u].code = serving'[v].code => u = v
    <3>1. v # w
      BY <1>4, <1>8, <2>3
    <3>2. /\ serving[v].code \in 1..drawn /\ handoff[serving[v].code] = Null
          /\ \A q \in 1..minted : pair[q].via # serving[v].code
          /\ \A u \in Caller : serving[u].phase \in {"issuing", "signed"}
                                 /\ serving[u].code = serving[v].code => u = v
      BY <1>8, <2>3, <3>1 DEF SessionsInv, CodesAreSpent
    <3> QED BY <1>1, <1>4, <1>8, <2>1, <2>2, <2>3, <3>1, <3>2
  <2>4. CodesAreSpent'
    <3>1. \A k \in HandoffCode : handoff[k] # Null => k \in 1..drawn
      BY DEF SessionsInv, CodesAreSpent
    <3> QED BY <1>1, <1>9, <2>1, <2>2, <2>3, <3>1 DEF CodesAreSpent
  <2>5. HandoffOpensOneSession'
    BY <1>1, <2>1, <2>2 DEF SessionsInv, HandoffOpensOneSession
  <2> QED BY <2>4, <2>5
<1> QED BY <1>10, <1>11, <1>12, <1>13, <1>14 DEF SessionsInv

(* A sign-out of the tokens over revokes those that are not, which no      *)
(* rotation holds.                                                         *)
LEMMA RevokeStep ==
  ASSUME SessionsInv, NEW over \in SUBSET (1..minted), NEW gone \in SUBSET over,
         \A p \in gone : ~pair[p].revoked /\ ~Locked(p),
         \A p \in over \ gone : pair[p].revoked,
         \A p \in over : pair[p].by # Null => p \in raced,
         pair' = [p \in Pair |-> IF p \in gone THEN [pair[p] EXCEPT !.revoked = TRUE] ELSE pair[p]],
         ended' = ended \cup over,
         serving' = serving \/ \E w \in Caller : Return(w, "done"),
         UNCHANGED <<roles, minted, raced, given>>
  PROVE  SessionsInv'
<1> USE SessionsAssumption, NoSuchUser
<1> DEFINE done == [Void EXCEPT !.phase = "done"]
<1>1. /\ pair \in [Pair -> PairRow] /\ serving \in [Caller -> Handled]
      /\ minted' = minted /\ 1..minted \subseteq Pair /\ roles' = roles /\ handoff' = handoff
      /\ drawn' = drawn
  BY DEF SessionsInv, SessionsTypeOK, Pair, given
<1>2. /\ pair' \in [Pair -> PairRow]
      /\ \A p \in Pair : /\ pair'[p].user = pair[p].user /\ pair'[p].by = pair[p].by
                         /\ pair'[p].from = pair[p].from /\ pair'[p].via = pair[p].via
                         /\ pair'[p].revoked = (pair[p].revoked \/ p \in gone)
                         /\ p \notin gone => pair'[p] = pair[p]
  <2>1. \A x \in PairRow : LET y == [x EXCEPT !.revoked = TRUE]
                           IN /\ y \in PairRow /\ y.user = x.user /\ y.by = x.by /\ y.from = x.from
                              /\ y.via = x.via /\ y.revoked = TRUE
    BY DEF PairRow
  <2>2. \A p \in Pair : pair[p] \in PairRow /\ pair[p].revoked \in BOOLEAN
    BY <1>1 DEF PairRow
  <2> QED BY <1>1, <2>1, <2>2
<1>3. /\ serving' \in [Caller -> Handled]
      /\ \A v \in Caller : \/ serving'[v] = serving[v]
                           \/ /\ serving'[v].phase = "done" /\ serving'[v].pair = Null
                              /\ serving'[v].code = Null /\ serving'[v].seen = {}
  <2>1. /\ done \in Handled /\ done.phase = "done" /\ done.pair = Null /\ done.code = Null
        /\ done.seen = {}
    BY DEF Void, Handled, Role, Stage
  <2>2. serving' = serving \/ \E w \in Caller : serving' = [serving EXCEPT ![w] = done]
    BY DEF Return
  <2> HIDE DEF done
  <2> QED BY <1>1, <2>1, <2>2
<1>4. SessionsTypeOK'
  <2>1. \A p \in Pair : IF p \in 1..minted THEN pair'[p].user \in Account ELSE pair'[p] = NoPair
    BY <1>2 DEF SessionsInv, SessionsTypeOK
  <2> QED BY <1>1, <1>2, <1>3, <2>1 DEF SessionsInv, SessionsTypeOK
<1>5. RotationHolds'
  <2> SUFFICES ASSUME NEW v \in Caller
               PROVE  /\ serving'[v].pair # Null => serving'[v].pair \in 1..minted
                      /\ serving'[v].code # Null =>
                           serving'[v].pair = Null /\ serving'[v].phase \in {"issuing", "signed"}
                      /\ serving'[v].seen \subseteq 1..minted
                      /\ serving'[v].phase \in Served => serving'[v].user \in Account
                      /\ serving'[v].phase = "rotating" =>
                           /\ serving'[v].pair # Null
                           /\ ~pair'[serving'[v].pair].revoked
                           /\ \A u \in Caller : serving'[u].phase = "rotating"
                                /\ serving'[u].pair = serving'[v].pair => u = v
    BY <1>1 DEF RotationHolds, In
  <2>1. CASE serving'[v].phase = "done" /\ serving'[v].pair = Null /\ serving'[v].code = Null
             /\ serving'[v].seen = {}
    BY <2>1 DEF Served
  <2>2. CASE serving'[v] = serving[v]
    <3>1. /\ serving[v].pair # Null => serving[v].pair \in 1..minted
          /\ serving[v].seen \subseteq 1..minted
          /\ serving[v].code # Null => serving[v].pair = Null /\ serving[v].phase \in {"issuing", "signed"}
          /\ serving[v].phase \in Served => serving[v].user \in Account
      BY DEF SessionsInv, RotationHolds
    <3>2. serving[v].phase = "rotating" =>
            /\ ~pair[serving[v].pair].revoked /\ serving[v].pair \in 1..minted
            /\ serving[v].pair \notin gone
            /\ \A u \in Caller : serving[u].phase = "rotating" /\ serving[u].pair = serving[v].pair => u = v
      BY <3>1 DEF SessionsInv, RotationHolds, In, Locked
    <3> QED BY <1>1, <1>2, <1>3, <2>2, <3>1, <3>2
  <2> QED BY <1>3, <2>1, <2>2
<1>6. PairsAreLinked' /\ OneSuccessor'
  <2>1. \A p \in gone : p \in 1..minted /\ pair[p].by = Null
    BY DEF SessionsInv, PairsAreLinked
  <2>2. \A p : Swept(p)' => Swept(p)
    BY <1>3 DEF Swept
  <2>3. PairsAreLinked'
    BY <1>1, <1>2, <2>2 DEF SessionsInv, PairsAreLinked
  <2>4. OneSuccessor'
    BY <1>1, <1>2, <2>1 DEF SessionsInv, PairsAreLinked, OneSuccessor
  <2> QED BY <2>3, <2>4
<1>7. LogoutEndsSession'
  <2>1. ASSUME NEW p \in 1..minted, pair[p].from \in over
        PROVE  pair[p].from \in raced
    <3>1. pair[p].from # Null /\ pair[p].from \in 1..minted
      BY <2>1
    <3>2. pair[pair[p].from].by # Null
      BY <3>1 DEF SessionsInv, OneSuccessor
    <3> QED BY <2>1, <3>2
  <2>2. \A p \in ended' : pair'[p].revoked
    BY <1>1, <1>2 DEF SessionsInv, SessionsTypeOK, LogoutEndsSession
  <2>3. \A p \in 1..minted : pair'[p].from \in ended' => pair'[p].from \in raced
    BY <1>1, <1>2, <2>1 DEF SessionsInv, LogoutEndsSession
  <2> QED BY <1>1, <2>2, <2>3 DEF LogoutEndsSession
<1>8. CodesAreSpent'
  <2>1. ASSUME NEW v \in Caller, serving'[v].phase \in {"issuing", "signed"}, serving'[v].code # Null
        PROVE  /\ serving'[v].code \in 1..drawn
               /\ handoff[serving'[v].code] = Null
               /\ \A q \in 1..minted : pair[q].via # serving'[v].code
               /\ \A u \in Caller : serving'[u].phase \in {"issuing", "signed"}
                                      /\ serving'[u].code = serving'[v].code => u = v
    <3>1. serving'[v] = serving[v]
      BY <1>3, <2>1
    <3> QED BY <1>3, <2>1, <3>1 DEF SessionsInv, CodesAreSpent
  <2> QED BY <1>1, <1>2, <2>1 DEF SessionsInv, CodesAreSpent
<1>9. HandoffOpensOneSession'
  BY <1>1, <1>2 DEF SessionsInv, HandoffOpensOneSession
<1> QED BY <1>4, <1>5, <1>6, <1>7, <1>8, <1>9 DEF SessionsInv

LEMMA RevokeSeenStep ==
  ASSUME SessionsInv, NEW w \in Caller, RevokeSeen(w)
  PROVE  SessionsInv'
<1> DEFINE over == serving[w].seen
           gone == {p \in over : ~pair[p].revoked}
<1>1. /\ over \in SUBSET (1..minted) /\ gone \in SUBSET over
      /\ \A p \in over \ gone : pair[p].revoked
      /\ \A p \in over : pair[p].by # Null => p \in raced
  BY DEF SessionsInv, RotationHolds, PairsAreLinked, Swept
<1>2. /\ \A p \in gone : ~pair[p].revoked /\ ~Locked(p)
      /\ pair' = [p \in Pair |-> IF p \in gone THEN [pair[p] EXCEPT !.revoked = TRUE] ELSE pair[p]]
      /\ ended' = ended \cup over
      /\ Return(w, "done")
      /\ UNCHANGED <<roles, minted, raced, given>>
  BY DEF RevokeSeen
<1> HIDE DEF gone, over
<1> QED BY <1>1, <1>2, RevokeStep

LEMMA LogoutOneStep ==
  ASSUME SessionsInv, NEW u \in Account, NEW p \in 1..minted, LogoutOne(u, p)
  PROVE  SessionsInv'
<1> DEFINE gone == IF LogsOut(u, p) THEN {p} ELSE {}
<1>1. gone \in SUBSET (1..minted) /\ p \in Pair /\ pair \in [Pair -> PairRow]
  BY SessionsAssumption DEF SessionsInv, SessionsTypeOK, Pair
<1>4. \A q \in gone : pair[q].by # Null => q \in raced
  BY <1>1 DEF LogsOut, SessionsInv, PairsAreLinked
<1>2. /\ \A q \in gone : ~pair[q].revoked /\ ~Locked(q)
      /\ ended' = ended \cup gone
      /\ UNCHANGED <<roles, minted, raced, given, serving>>
  BY DEF LogoutOne, LogsOut
<1>3. pair' = [q \in Pair |-> IF q \in gone THEN [pair[q] EXCEPT !.revoked = TRUE] ELSE pair[q]]
  BY <1>1 DEF LogoutOne
<1> HIDE DEF gone
<1> QED BY <1>1, <1>2, <1>3, <1>4, RevokeStep

-----------------------------------------------------------------------------
LEMMA ServeStep ==
  ASSUME SessionsInv, NEW w \in Caller, Serve(w)
  PROVE  SessionsInv'
<1>0. UNCHANGED <<roles, tokens>> => roles' \in [Account -> Role]
  BY DEF SessionsInv, SessionsTypeOK
<1>1. ASSUME Return(w, "failed"), UNCHANGED <<roles, tokens, given>>
      PROVE  SessionsInv'
  BY <1>0, <1>1, CodesStay, RestingFits, RequestStep DEF Return, Stage, Served
<1>2. CASE CreatePair(w)
  <2>1. CASE Create(w, pair)
    BY <1>2, <2>1, IssueStep DEF CreatePair, In, signOuts
  <2>2. CASE Return(w, "failed") /\ UNCHANGED <<pair, minted>>
    BY <1>1, <1>2, <2>2 DEF CreatePair, tokens, signOuts
  <2> QED BY <1>2, <2>1, <2>2 DEF CreatePair
<1>3. CASE CommitRotation(w)
  <2>1. CASE /\ Create(w, [pair EXCEPT ![serving[w].pair].revoked = TRUE,
                                      ![serving[w].pair].by = minted + 1])
             /\ raced' = IF Swept(serving[w].pair) THEN raced \cup {serving[w].pair} ELSE raced
    BY <1>3, <2>1, IssueStep DEF CommitRotation, In
  <2>2. CASE Return(w, "failed") /\ UNCHANGED <<pair, minted, raced>>
    BY <1>1, <1>3, <2>2 DEF CommitRotation, tokens
  <2> QED BY <1>3, <2>1, <2>2 DEF CommitRotation
<1> QED BY <1>2, <1>3, FindUserStep, UpsertZaloUserStep, LinkSealedInviteStep, CreateOAuthHandoffStep,
           LoadUserStep, RevokeRotatedStep, RevokeSeenStep DEF Serve

LEMMA LogoutStep ==
  ASSUME SessionsInv, Logout
  PROVE  SessionsInv'
<1>1. PICK a \in Pair :
        /\ Authorised(a)
        /\ \/ \E p \in 1..minted : LogoutOne(pair[a].user, p)
           \/ \E w \in Caller : LogoutAll(w, pair[a].user)
  BY DEF Logout
<1>2. pair[a].user \in Account
  BY <1>1 DEF Authorised, SessionsInv, SessionsTypeOK
<1> QED BY <1>1, <1>2, LogoutOneStep, LogoutAllStep

LEMMA TimeStep ==
  ASSUME SessionsInv, Time
  PROVE  SessionsInv'
<1> USE SessionsAssumption, NoSuchUser
<1>1. ASSUME NEW k \in HandoffCode, ExpireHandoff(k)
      PROVE  SessionsInv'
  <2>1. /\ handoff' \in [HandoffCode -> Account \cup {Null}]
        /\ \A j \in HandoffCode : handoff'[j] = Null \/ handoff'[j] = handoff[j]
        /\ roles' = roles /\ pair' = pair /\ minted' = minted /\ drawn' = drawn
        /\ ended' = ended /\ raced' = raced /\ serving' = serving
    BY <1>1 DEF ExpireHandoff, tokens, SessionsInv, SessionsTypeOK
  <2>2. 1..drawn \subseteq HandoffCode
    BY DEF SessionsInv, SessionsTypeOK, HandoffCode
  <2>3. CodesAreSpent'
    BY <2>1, <2>2 DEF SessionsInv, CodesAreSpent
  <2> QED BY <2>1, <2>3 DEF SessionsInv, SessionsTypeOK, RotationHolds, PairsAreLinked,
          OneSuccessor, LogoutEndsSession, HandoffOpensOneSession, In, Swept
<1>2. CASE Halts
  <2>1. /\ serving' = [w \in Caller |-> Void]
        /\ roles' = roles /\ pair' = pair /\ minted' = minted /\ drawn' = drawn
        /\ ended' = ended /\ raced' = raced /\ handoff' = handoff
    BY <1>2 DEF Halts, tokens, given
  <2>2. Void \in Handled /\ Void.phase = "idle" /\ Void.pair = Null /\ Void.code = Null /\ Void.seen = {}
    BY DEF Void, Handled, Role, Stage
  <2>3. RotationHolds'
    BY <2>1, <2>2 DEF RotationHolds, Served, In
  <2>4. CodesAreSpent' /\ SessionsTypeOK'
    BY <2>1, <2>2 DEF SessionsInv, SessionsTypeOK, CodesAreSpent
  <2>5. ~\E p : Swept(p)'
    BY <2>1, <2>2 DEF Swept
  <2> QED BY <2>1, <2>3, <2>4, <2>5 DEF SessionsInv, PairsAreLinked,
          OneSuccessor, LogoutEndsSession, HandoffOpensOneSession
<1> QED BY <1>1, <1>2 DEF Time

LEMMA SessionsInitially == SessionsInit => SessionsInv
<1> SUFFICES ASSUME SessionsInit
             PROVE  SessionsInv
  OBVIOUS
<1> USE SessionsAssumption, NoSuchUser
<1>1. /\ minted = 0 /\ 1..minted = {} /\ drawn = 0 /\ ended = {} /\ raced = {}
      /\ pair = [p \in Pair |-> NoPair] /\ handoff = [k \in HandoffCode |-> Null]
      /\ serving = [w \in Caller |-> Void]
  BY DEF SessionsInit
<1>2. Void \in Handled /\ Void.phase = "idle" /\ Void.pair = Null /\ Void.code = Null /\ Void.seen = {}
  BY DEF Void, Handled, Role, Stage
<1>3. NoPair \in PairRow /\ roles \in [Account -> Role]
  BY DEF NoPair, PairRow, SessionsInit, Role
<1>4. SessionsTypeOK
  BY <1>1, <1>2, <1>3 DEF SessionsTypeOK
<1>5. RotationHolds /\ CodesAreSpent
  BY <1>1, <1>2 DEF RotationHolds, CodesAreSpent, Served, In
<1> QED BY <1>1, <1>4, <1>5 DEF SessionsInv, PairsAreLinked, OneSuccessor, LogoutEndsSession,
        HandoffOpensOneSession

LEMMA SessionsStep == SessionsInv /\ [SessionsNext]_sessionVars => SessionsInv'
<1> SUFFICES ASSUME SessionsInv, [SessionsNext]_sessionVars
             PROVE  SessionsInv'
  OBVIOUS
<1>1. CASE SessionsNext
  BY <1>1, SignInStep, RefreshStep, ServeStep, AnsweredStep, LogoutStep, TimeStep DEF SessionsNext
<1>2. CASE UNCHANGED sessionVars
  BY <1>2 DEF sessionVars, SessionsInv, SessionsTypeOK, RotationHolds, PairsAreLinked, CodesAreSpent,
     OneSuccessor, LogoutEndsSession, HandoffOpensOneSession, In, Swept
<1> QED BY <1>1, <1>2

(* What is reachable satisfies the inductive invariant.                    *)
THEOREM SessionsInvariant == SessionsSpec => []SessionsInv
BY SessionsInitially, SessionsStep, PTL DEF SessionsSpec

(* Every reachable state is typed, and pairs are issued in order           *)
(* (issueTokens).                                                          *)
THEOREM SessionsTypeCorrect == SessionsSpec => []SessionsTypeOK
<1>1. SessionsInv => SessionsTypeOK
  BY DEF SessionsInv
<1> QED BY <1>1, SessionsInvariant, PTL

(* A refresh token is exchanged once, whatever requests present it at once *)
(* (refresh, issueTokens).                                                 *)
THEOREM RefreshedOnce == SessionsSpec => []OneSuccessor
<1>1. SessionsInv => OneSuccessor
  BY DEF SessionsInv
<1> QED BY <1>1, SessionsInvariant, PTL

(* A sign-out that was answered with success revoked every token it was    *)
(* about, and only a rotation that committed while a sign-out of the whole *)
(* account was under way leaves a successor (logout, issueTokens).         *)
THEOREM SignedOutForGood == SessionsSpec => []LogoutEndsSession
<1>1. SessionsInv => LogoutEndsSession
  BY DEF SessionsInv
<1> QED BY <1>1, SessionsInvariant, PTL

(* A hand-over code opens one session at most (exchangeZaloOAuthCode,      *)
(* consumeOneTime).                                                        *)
THEOREM HandoffsOpenOnce == SessionsSpec => []HandoffOpensOneSession
<1>1. SessionsInv => HandoffOpensOneSession
  BY DEF SessionsInv
<1> QED BY <1>1, SessionsInvariant, PTL

-----------------------------------------------------------------------------
(* Why an outage by itself does not sign anybody out.  A refresh is        *)
(* refused for the token it presented, and only if that one is spent; a    *)
(* call that is sent again goes out with an access token that was just     *)
(* issued, to the only account there is, whose role does not change; and   *)
(* what an answer puts into the storage is a pair.                         *)
Fresh == (1..minted) \ stale

(* What the server makes of a request of the console, which asks for no    *)
(* sign-in with Zalo.                                                      *)
Works(r) ==
  /\ r.phase \notin {"identified", "known", "handing"}
  /\ r.phase \in Served => r.user = Admin
  /\ r.phase \in {"signed", "rotating"} => r.role = "ADMIN"
  /\ r.new # Null => r.new \in Fresh
  /\ r.phase = "refused" => r.pair \in 1..minted /\ Spent(r.pair)

AdminsOnly ==
  /\ roles[Admin] = "ADMIN"
  /\ \A p \in 1..minted : pair[p].user = Admin /\ pair[p].role = "ADMIN"

ServerInv ==
  /\ SessionsInv
  /\ AdminsOnly
  /\ stale \subseteq 1..minted
  /\ \A w \in Caller : Works(serving[w])

(* What the server is at with the login and with the refresh of a tab.     *)
Over(w) == serving[w].phase \in {"idle", "refused", "failed"}

SignsIn(w) ==
  \/ serving[w].phase \in {"issuing", "signed"} /\ serving[w].pair = Null
  \/ In(w, "done") /\ serving[w].new # Null
  \/ Over(w)

Rotates(w) ==
  \/ serving[w].phase \in {"issuing", "signed", "rotating"} /\ serving[w].pair # Null
  \/ In(w, "done") /\ serving[w].new # Null
  \/ Over(w)

Issued == 1..minted \cup {Null}

Call ==
  [kind : {"none", "me", "login", "logout", "data"},
   phase : {"none", "sent", "served", "waiting", "again"}, access : Issued, body : Issued]

TabState ==
  [user : BOOLEAN, loading : BOOLEAN, call : [Slot -> Call], worker : Caller \cup {Null},
   refreshing : Caller \cup {Null}]

TabIsServed(t) ==
  LET c == tab[t].call["session"]
      w == tab[t].worker
      v == tab[t].refreshing
  IN /\ w # Null => c.phase = "served" /\ (c.kind = "login" => SignsIn(w))
     /\ v # Null => Rotates(v)
     /\ \A s \in Slot : tab[t].call[s].phase = "again" => tab[t].call[s].access \in Fresh
     /\ tab[t].call["page"].kind # "logout"

BrowserInv ==
  /\ storage \in {PairOf(p) : p \in Issued}
  /\ cookie \in {PairOf(p) : p \in Issued}
  /\ left \in BOOLEAN

TabsInv ==
  /\ tab \in [Tab -> TabState]
  /\ \A t \in Tab : TabIsServed(t)

ConsoleInv == ServerInv /\ BrowserInv /\ TabsInv

(* What a step of the server leaves to the browser.                        *)
GoesOn ==
  /\ ServerInv'
  /\ minted' \in Nat /\ minted <= minted'
  /\ Fresh \subseteq Fresh'
  /\ \A v \in Caller : Awaited(v) => (SignsIn(v) => SignsIn(v)') /\ (Rotates(v) => Rotates(v)')

(* A token that is spent stays spent.                                      *)
Lasts ==
  /\ minted' \in Nat /\ minted <= minted'
  /\ UNCHANGED stale
  /\ \A p \in 1..minted : Spent(p) => Spent(p)'

(* A step that rotates nothing lets what is spent last.                    *)
LEMMA SpentLasts ==
  ASSUME ServerInv, UNCHANGED <<pair, minted, stale>>, ended \subseteq ended', lapsed \subseteq lapsed'
  PROVE  Lasts
<1>1. minted \in Nat
  BY SessionsAssumption DEF ServerInv, SessionsInv, SessionsTypeOK
<1> QED BY <1>1 DEF Lasts, Spent

(* What the server was at it is still at.                                  *)
LEMMA WorksOn ==
  ASSUME ServerInv, Lasts, NEW r, Works(r)
  PROVE  Works(r)' /\ Fresh \subseteq Fresh' /\ stale' \subseteq 1..minted'
<1>1. 1..minted \subseteq 1..minted'
  BY SessionsAssumption DEF Lasts, ServerInv, SessionsInv, SessionsTypeOK
<1>2. Fresh \subseteq Fresh' /\ stale' \subseteq 1..minted'
  BY <1>1 DEF Fresh, Lasts, ServerInv
<1>3. r.phase = "refused" => r.pair \in 1..minted' /\ Spent(r.pair)'
  BY <1>1 DEF Works, Lasts
<1> QED BY <1>2, <1>3 DEF Works

(* A step of one request.                                                  *)
LEMMA OneMoves ==
  ASSUME ServerInv, SessionsInv', AdminsOnly', Lasts,
         NEW w \in Caller, NEW r, serving' = [serving EXCEPT ![w] = r], Works(r)',
         Awaited(w) => (SignsIn(w) => SignsIn(w)') /\ (Rotates(w) => Rotates(w)')
  PROVE  GoesOn
<1>1. serving \in [Caller -> Handled] /\ minted' \in Nat /\ minted <= minted'
  BY DEF ServerInv, SessionsInv, SessionsTypeOK, Lasts
<1>2. serving'[w] = r /\ \A v \in Caller \ {w} : serving'[v] = serving[v]
  BY <1>1
<1>3. \A v \in Caller : Works(serving[v])'
  <2> SUFFICES ASSUME NEW v \in Caller
               PROVE  Works(serving[v])'
    OBVIOUS
  <2>1. CASE v = w
    BY <1>2, <2>1 DEF Works
  <2>2. CASE v # w
    <3>1. PICK q : q = serving[v]
      OBVIOUS
    <3>2. Works(q)
      BY <3>1 DEF ServerInv
    <3>3. Works(q)'
      BY <3>2, WorksOn
    <3> QED BY <1>2, <2>2, <3>1, <3>3 DEF Works
  <2> QED BY <2>1, <2>2
<1>4. Fresh \subseteq Fresh' /\ stale' \subseteq 1..minted'
  <2>1. PICK q : q = serving[w]
    OBVIOUS
  <2>2. Works(q)
    BY <2>1 DEF ServerInv
  <2> QED BY <2>2, WorksOn
<1>5. ServerInv'
  BY <1>3, <1>4 DEF ServerInv
<1>6. ASSUME NEW v \in Caller, Awaited(v), v # w
      PROVE  (SignsIn(v) => SignsIn(v)') /\ (Rotates(v) => Rotates(v)')
  BY <1>2, <1>6 DEF SignsIn, Rotates, Over, In
<1> QED BY <1>1, <1>4, <1>5, <1>6 DEF GoesOn

(* No request moves.                                                       *)
LEMMA NoneMoves ==
  ASSUME ServerInv, SessionsInv', AdminsOnly', Lasts, serving' = serving
  PROVE  GoesOn
<1>1. ASSUME NEW v \in Caller
      PROVE  Works(serving[v])'
  <2>1. PICK q : q = serving[v]
    OBVIOUS
  <2>2. Works(q)
    BY <2>1 DEF ServerInv
  <2>3. Works(q)'
    BY <2>2, WorksOn
  <2> QED BY <2>1, <2>3 DEF Works
<1>2. stale' \subseteq 1..minted' /\ Fresh \subseteq Fresh' /\ minted' \in Nat /\ minted <= minted'
  BY SessionsAssumption DEF Lasts, Fresh, ServerInv, SessionsInv, SessionsTypeOK
<1>3. ServerInv'
  BY <1>1, <1>2 DEF ServerInv
<1>4. \A v \in Caller : (SignsIn(v) => SignsIn(v)') /\ (Rotates(v) => Rotates(v)')
  BY DEF SignsIn, Rotates, Over, In
<1> QED BY <1>2, <1>3, <1>4 DEF GoesOn

(* The server rests while the browser moves.                               *)
LEMMA ServerRests ==
  ASSUME ServerInv, UNCHANGED <<sessionVars, stale>>, lapsed \subseteq lapsed'
  PROVE  GoesOn
<1>1. /\ roles' = roles /\ pair' = pair /\ minted' = minted /\ serving' = serving
      /\ ended' = ended /\ stale' = stale
  BY DEF sessionVars
<1>2. SessionsInv'
  BY SessionsStep DEF ServerInv
<1>3. Lasts /\ AdminsOnly'
  BY <1>1, SpentLasts DEF ServerInv, AdminsOnly
<1> QED BY <1>1, <1>2, <1>3, NoneMoves

(* A request that is free is nobody's, so that what it begins is new.      *)
LEMMA OneBegins ==
  ASSUME ServerInv, SessionsInv', NEW w \in Caller, Free(w), NEW r, Begin(w, r),
         UNCHANGED <<roles, tokens, stale>>, lapsed \subseteq lapsed', Works(r)'
  PROVE  GoesOn
<1>1. roles' = roles /\ pair' = pair /\ minted' = minted /\ ended' = ended /\ stale' = stale
  BY DEF tokens
<1>2. Lasts /\ AdminsOnly'
  BY <1>1, SpentLasts DEF ServerInv, AdminsOnly
<1>3. serving' = [serving EXCEPT ![w] = r] /\ ~Awaited(w)
  BY DEF Begin, Free
<1> QED BY <1>2, <1>3, OneMoves

(* A sign-in begins, with nothing to be rotated.                           *)
LEMMA LoginBegins ==
  ASSUME ServerInv, NEW w \in Caller, Free(w), AdminLogin(w, Admin), UNCHANGED <<stale, lapsed>>
  PROVE  GoesOn /\ SignsIn(w)'
<1>1. SessionsInv'
  BY ConsoleAssumption, SignInStep DEF ServerInv, SignIn
<1> DEFINE r == [Void EXCEPT !.phase = "issuing", !.user = Admin]
<1>2. r.phase = "issuing" /\ r.new = Null /\ r.pair = Null /\ r.user = Admin
  BY DEF Void
<1>3. Begin(w, r) /\ UNCHANGED <<roles, tokens>>
  BY DEF AdminLogin
<1> HIDE DEF r
<1>4. GoesOn
  BY <1>1, <1>2, <1>3, OneBegins DEF Works
<1>5. serving'[w] = r
  BY <1>3 DEF Begin, ServerInv, SessionsInv, SessionsTypeOK
<1> QED BY <1>2, <1>4, <1>5 DEF SignsIn

(* A refresh begins, or is refused for a token that is spent.              *)
LEMMA RefreshBegins ==
  ASSUME ServerInv, NEW w \in Caller, Free(w), NEW p \in 1..minted, NEW late \in BOOLEAN,
         Refresh(w, p, late), lapsed' = IF late THEN lapsed \cup {p} ELSE lapsed, UNCHANGED stale
  PROVE  GoesOn /\ Rotates(w)'
<1>0. p \in Pair /\ minted \in Nat /\ serving \in [Caller -> Handled]
  BY SessionsAssumption DEF ServerInv, SessionsInv, SessionsTypeOK, Pair
<1>1. SessionsInv'
  BY <1>0, RefreshStep DEF ServerInv
<1>2. UNCHANGED <<roles, tokens>> /\ minted' = minted /\ pair' = pair /\ ended' = ended
  BY DEF Refresh, tokens
<1>3. CASE (pair[p].revoked \/ late) /\ Begin(w, Refused(p))
  <2>1. PICK r : r = Refused(p)
    OBVIOUS
  <2>2. r.phase = "refused" /\ r.new = Null /\ r.pair = p
    BY <2>1 DEF Refused, Void
  <2>3. Spent(p)'
    BY <1>2, <1>3 DEF Spent, ServerInv, SessionsInv, PairsAreLinked
  <2>4. Works(r)'
    BY <1>2, <2>2, <2>3 DEF Works, Served
  <2>5. Begin(w, r) /\ serving'[w] = r
    BY <1>0, <1>3, <2>1 DEF Begin
  <2>6. GoesOn
    BY <1>1, <1>2, <2>4, <2>5, OneBegins
  <2> QED BY <2>2, <2>5, <2>6 DEF Rotates, Over
<1>4. CASE Begin(w, [Void EXCEPT !.phase = "issuing", !.user = pair[p].user, !.pair = p])
  <2> DEFINE r == [Void EXCEPT !.phase = "issuing", !.user = pair[p].user, !.pair = p]
  <2>1. r.phase = "issuing" /\ r.new = Null /\ r.pair = p /\ p # Null /\ r.user = Admin
    BY <1>0, NoSuchUser DEF Void, ServerInv, AdminsOnly
  <2>2. Begin(w, r) /\ serving'[w] = r
    BY <1>0, <1>4 DEF Begin
  <2> HIDE DEF r
  <2>3. PICK q : q = r
    OBVIOUS
  <2>4. Works(q)' /\ Begin(w, q)
    BY <2>1, <2>2, <2>3 DEF Works
  <2>5. GoesOn
    BY <1>1, <1>2, <2>4, OneBegins
  <2> QED BY <2>1, <2>2, <2>5 DEF Rotates
<1> QED BY <1>3, <1>4 DEF Refresh

(* A sign-out of every session begins.                                     *)
LEMMA SweepBegins ==
  ASSUME ServerInv, NEW w \in Caller, Free(w), LogoutAll(w, Admin), UNCHANGED <<stale, lapsed>>
  PROVE  GoesOn
<1>1. SessionsInv'
  BY ConsoleAssumption, LogoutAllStep DEF ServerInv
<1>2. PICK found : found = {p \in 1..minted : LogsOut(Admin, p)}
  OBVIOUS
<1>3. PICK r : r = [Void EXCEPT !.phase = "sweeping", !.user = Admin, !.seen = found]
  OBVIOUS
<1>4. Begin(w, r) /\ UNCHANGED <<roles, tokens>>
  BY <1>2, <1>3 DEF LogoutAll
<1>5. r.phase = "sweeping" /\ r.new = Null /\ r.user = Admin
  BY <1>3 DEF Void
<1> QED BY <1>1, <1>4, <1>5, OneBegins DEF Works

(* A sign-out revokes one token.                                           *)
LEMMA LogoutGoesOn ==
  ASSUME ServerInv, NEW p \in 1..minted, LogoutOne(Admin, p), UNCHANGED <<stale, lapsed>>
  PROVE  GoesOn
<1>1. SessionsInv'
  BY ConsoleAssumption, LogoutOneStep DEF ServerInv
<1>2. /\ minted \in Nat /\ minted' = minted /\ serving' = serving /\ pair \in [Pair -> PairRow]
      /\ p \in Pair /\ 1..minted \subseteq Pair /\ roles' = roles /\ ended \subseteq ended'
  BY SessionsAssumption DEF ServerInv, SessionsInv, SessionsTypeOK, LogoutOne, Pair
<1>3. \A q \in 1..minted : pair'[q].by = pair[q].by /\ pair'[q].user = pair[q].user
                           /\ pair'[q].role = pair[q].role
  <2>1. \A x \in PairRow : LET y == [x EXCEPT !.revoked = TRUE]
                           IN y.by = x.by /\ y.user = x.user /\ y.role = x.role
    BY DEF PairRow
  <2> QED BY <1>2, <2>1 DEF LogoutOne
<1>4. Lasts
  BY <1>2, <1>3 DEF Lasts, Spent
<1>5. AdminsOnly'
  BY <1>2, <1>3 DEF ServerInv, AdminsOnly
<1> QED BY <1>1, <1>2, <1>4, <1>5, NoneMoves

(* An answer leaves.                                                       *)
LEMMA AnswerGoesOn ==
  ASSUME ServerInv, NEW w \in Caller, Answered(w), UNCHANGED <<stale, lapsed>>
  PROVE  GoesOn
<1>1. SessionsInv'
  BY AnsweredStep DEF ServerInv
<1>2. /\ minted' = minted /\ pair' = pair /\ ended' = ended /\ roles' = roles
      /\ serving \in [Caller -> Handled] /\ serving' = [serving EXCEPT ![w] = Void]
  BY DEF ServerInv, SessionsInv, SessionsTypeOK, Answered, tokens
<1>3. Lasts /\ AdminsOnly'
  BY <1>2, SpentLasts DEF ServerInv, AdminsOnly
<1>4. Void.phase = "idle" /\ Void.new = Null
  BY DEF Void
<1>5. SignsIn(w)' /\ Rotates(w)'
  BY <1>2, <1>4 DEF SignsIn, Rotates, Over
<1>6. PICK r : r = Void
  OBVIOUS
<1>7. Works(r)' /\ serving' = [serving EXCEPT ![w] = r]
  BY <1>2, <1>4, <1>6 DEF Works, Served
<1> QED BY <1>1, <1>3, <1>5, <1>7, OneMoves

(* A pair is written for the administrator, and no other changes hands.    *)
LEMMA CreateGoesOn ==
  ASSUME ServerInv, SessionsInv', NEW w \in Caller, NEW table, Create(w, table),
         UNCHANGED <<roles, ended, stale, lapsed>>, DOMAIN table = Pair,
         \A q \in 1..minted : /\ table[q].user = pair[q].user /\ table[q].role = pair[q].role
                              /\ pair[q].by # Null => table[q].by # Null,
         serving[w].phase \in {"signed", "rotating"}
  PROVE  GoesOn
<1> USE SessionsAssumption, NoSuchUser
<1>1. /\ minted \in Nat /\ serving \in [Caller -> Handled] /\ 1..minted \subseteq Pair
      /\ minted' = minted + 1 /\ minted + 1 \in Pair /\ minted + 1 \notin 1..minted
      /\ 1..minted' = 1..minted \cup {minted + 1}
  BY DEF ServerInv, SessionsInv, SessionsTypeOK, Pair, Create
<1>2. Works(serving[w]) /\ AdminsOnly /\ stale \subseteq 1..minted
  BY DEF ServerInv
<1>3. /\ \A q \in 1..minted : pair'[q] = table[q]
      /\ pair'[minted + 1] = NewPair(w)
  BY <1>1 DEF Create
<1>4. NewPair(w).user = Admin /\ NewPair(w).role = "ADMIN"
  BY <1>2 DEF NewPair, Works, Served
<1>5. AdminsOnly'
  BY <1>1, <1>2, <1>3, <1>4 DEF AdminsOnly
<1>6. Lasts
  BY <1>1, <1>3 DEF Lasts, Spent
<1>7. PICK r : r = [Void EXCEPT !.phase = "done", !.new = minted + 1]
  OBVIOUS
<1>8. serving' = [serving EXCEPT ![w] = r]
  BY <1>7 DEF Create
<1>9. r.phase = "done" /\ r.new = minted + 1 /\ r.new # Null
  BY <1>1, <1>7 DEF Void
<1>10. r.new \in Fresh'
  BY <1>1, <1>2, <1>9 DEF Fresh
<1>11. Works(r)'
  BY <1>9, <1>10 DEF Works, Served
<1>12. SignsIn(w)' /\ Rotates(w)'
  BY <1>1, <1>8, <1>9 DEF SignsIn, Rotates, In
<1> QED BY <1>5, <1>6, <1>8, <1>11, <1>12, OneMoves

(* The server works on a request.                                          *)
LEMMA ServeGoesOn ==
  ASSUME ServerInv, NEW w \in Caller, Serve(w), UNCHANGED <<stale, lapsed>>
  PROVE  GoesOn
<1> USE SessionsAssumption, NoSuchUser
<1> DEFINE p == serving[w].pair
<1>1. SessionsInv'
  BY ServeStep DEF ServerInv
<1>2. /\ minted \in Nat /\ serving \in [Caller -> Handled] /\ pair \in [Pair -> PairRow]
      /\ 1..minted \subseteq Pair /\ serving[w] \in Handled
      /\ p # Null => p \in 1..minted
      /\ Works(serving[w]) /\ AdminsOnly
      /\ serving[w].phase \notin {"identified", "known", "handing"}
  BY DEF ServerInv, SessionsInv, SessionsTypeOK, RotationHolds, Pair, Works
<1>3. ASSUME UNCHANGED <<roles, pair, minted>>, ended \subseteq ended'
      PROVE  Lasts /\ AdminsOnly'
  BY <1>2, <1>3, SpentLasts DEF AdminsOnly
<1>4. ASSUME Return(w, "failed"), UNCHANGED <<roles, pair, minted, ended>>
      PROVE  GoesOn
  <2>1. PICK r : r = [Void EXCEPT !.phase = "failed"]
    OBVIOUS
  <2>2. r.phase = "failed" /\ r.new = Null /\ serving' = [serving EXCEPT ![w] = r]
    BY <1>4, <2>1 DEF Void, Return
  <2>3. SignsIn(w)' /\ Rotates(w)'
    BY <1>2, <2>2 DEF SignsIn, Rotates, Over
  <2>4. Works(r)'
    BY <2>2 DEF Works, Served
  <2> QED BY <1>1, <1>3, <1>4, <2>2, <2>3, <2>4, OneMoves
<1>6. CASE LoadUser(w)
  <2>1. PICK now : now = roles[serving[w].user]
    OBVIOUS
  <2>2. PICK r : r = [serving[w] EXCEPT !.phase = "signed", !.role = now]
    OBVIOUS
  <2>3. /\ serving[w].phase = "issuing" /\ UNCHANGED <<roles, pair, minted, ended>>
        /\ serving' = [serving EXCEPT ![w] = r]
    BY <1>2, <1>6, <2>1, <2>2 DEF LoadUser, In, tokens
  <2>4. serving[w].user = Admin /\ now = "ADMIN"
    BY <1>2, <2>1, <2>3 DEF Works, Served, AdminsOnly
  <2>5. /\ r.phase = "signed" /\ r.new = serving[w].new /\ r.pair = p /\ r.role = "ADMIN"
        /\ r.user = Admin
    BY <1>2, <2>2, <2>4 DEF Handled
  <2>6. (SignsIn(w) => SignsIn(w)') /\ (Rotates(w) => Rotates(w)')
    BY <1>2, <2>3, <2>5 DEF SignsIn, Rotates, Over, In
  <2>7. Works(r)'
    BY <1>2, <2>3, <2>5 DEF Works, Served, Fresh
  <2> QED BY <1>1, <1>3, <2>3, <2>6, <2>7, OneMoves
<1>7. CASE CreatePair(w)
  <2>1. serving[w].phase = "signed" /\ UNCHANGED <<roles, ended>>
    BY <1>7 DEF CreatePair, In, signOuts
  <2>2. CASE Create(w, pair)
    BY <1>1, <1>2, <2>1, <2>2, CreateGoesOn
  <2>3. CASE Return(w, "failed") /\ UNCHANGED <<pair, minted>>
    BY <1>4, <2>1, <2>3
  <2> QED BY <1>7, <2>2, <2>3 DEF CreatePair
<1>8. CASE RevokeRotated(w)
  <2>1. /\ serving[w].phase = "signed" /\ p # Null /\ UNCHANGED <<roles, pair, minted, ended>>
        /\ p \in 1..minted
    BY <1>2, <1>8 DEF RevokeRotated, In, tokens
  <2>2. CASE Move(w, "rotating")
    <3>1. PICK r : r = [serving[w] EXCEPT !.phase = "rotating"]
      OBVIOUS
    <3>2. serving' = [serving EXCEPT ![w] = r]
      BY <2>2, <3>1 DEF Move
    <3>3. /\ r.phase = "rotating" /\ r.new = serving[w].new /\ r.pair = p
          /\ r.user = serving[w].user /\ r.role = serving[w].role
      BY <1>2, <3>1 DEF Handled
    <3>4. ~SignsIn(w) /\ Rotates(w)'
      BY <1>2, <2>1, <3>2, <3>3 DEF SignsIn, Rotates, Over, In
    <3>5. Works(r)'
      BY <1>2, <2>1, <3>3 DEF Works, Served, Fresh
    <3> QED BY <1>1, <1>3, <2>1, <3>2, <3>4, <3>5, OneMoves
  <2>3. CASE ~Rotatable(p) /\ serving' = [serving EXCEPT ![w] = Refused(p)]
    <3>1. PICK r : r = Refused(p)
      OBVIOUS
    <3>2. r.phase = "refused" /\ r.new = Null /\ r.pair = p /\ serving' = [serving EXCEPT ![w] = r]
      BY <2>3, <3>1 DEF Refused, Void
    <3>3. pair[p].by # Null \/ p \in ended
      BY <2>1, <2>3 DEF Rotatable, ServerInv, SessionsInv, PairsAreLinked
    <3>4. SignsIn(w)' /\ Rotates(w)'
      BY <1>2, <3>2 DEF SignsIn, Rotates, Over
    <3>5. PICK q : q = p
      OBVIOUS
    <3>6. q \in 1..minted' /\ Spent(q)' /\ r.pair = q
      BY <2>1, <3>2, <3>3, <3>5 DEF Spent
    <3>7. Works(r)'
      BY <3>2, <3>6 DEF Works, Served
    <3> QED BY <1>1, <1>3, <2>1, <3>2, <3>4, <3>7, OneMoves
  <2> QED BY <1>8, <2>2, <2>3 DEF RevokeRotated
<1>9. CASE CommitRotation(w)
  <2>1. serving[w].phase = "rotating" /\ p # Null /\ p \in 1..minted /\ UNCHANGED <<roles, ended>>
    BY <1>2, <1>9 DEF CommitRotation, In, ServerInv, SessionsInv, RotationHolds
  <2> DEFINE table == [pair EXCEPT ![p].revoked = TRUE, ![p].by = minted + 1]
  <2>2. CASE Create(w, table)
    <3>1. DOMAIN table = Pair
      BY <1>2
    <3>2. \A x \in PairRow, n \in Nat : LET y == [x EXCEPT !.revoked = TRUE, !.by = n]
                                        IN y.user = x.user /\ y.role = x.role /\ y.by = n
      BY DEF PairRow
    <3>3. table = [pair EXCEPT ![p] = [pair[p] EXCEPT !.revoked = TRUE, !.by = minted + 1]]
      BY <1>2, <2>1 DEF PairRow
    <3> HIDE DEF table
    <3>4. pair[p] \in PairRow /\ minted + 1 \in Nat /\ minted + 1 # Null
      BY <1>2, <2>1
    <3>5. \A q \in 1..minted : /\ table[q].user = pair[q].user /\ table[q].role = pair[q].role
                               /\ pair[q].by # Null => table[q].by # Null
      BY <1>2, <2>1, <3>2, <3>3, <3>4
    <3> QED BY <1>1, <2>1, <2>2, <3>1, <3>5, CreateGoesOn
  <2>3. CASE Return(w, "failed") /\ UNCHANGED <<pair, minted>>
    BY <1>4, <2>1, <2>3
  <2> QED BY <1>9, <2>2, <2>3 DEF CommitRotation
<1>10. CASE RevokeSeen(w)
  <2>1. /\ serving[w].phase = "sweeping" /\ Return(w, "done") /\ minted' = minted /\ roles' = roles
        /\ ended \subseteq ended'
    BY <1>10 DEF RevokeSeen, In
  <2>2. \A q \in 1..minted : pair'[q].by = pair[q].by /\ pair'[q].user = pair[q].user
                             /\ pair'[q].role = pair[q].role
    <3>1. \A x \in PairRow : LET y == [x EXCEPT !.revoked = TRUE]
                             IN y.by = x.by /\ y.user = x.user /\ y.role = x.role
      BY DEF PairRow
    <3>2. \A q \in Pair : pair'[q] \in {pair[q], [pair[q] EXCEPT !.revoked = TRUE]}
      BY <1>2, <1>10 DEF RevokeSeen
    <3> QED BY <1>2, <3>1, <3>2
  <2>3. Lasts
    BY <1>2, <2>1, <2>2 DEF Lasts, Spent
  <2>4. AdminsOnly'
    BY <1>2, <2>1, <2>2 DEF AdminsOnly
  <2>5. ~SignsIn(w) /\ ~Rotates(w)
    BY <2>1 DEF SignsIn, Rotates, Over, In
  <2>6. PICK r : r = [Void EXCEPT !.phase = "done"]
    OBVIOUS
  <2>7. r.phase = "done" /\ r.new = Null /\ serving' = [serving EXCEPT ![w] = r]
    BY <2>1, <2>6 DEF Void, Return
  <2>8. Works(r)'
    BY <2>7 DEF Works, Served
  <2> QED BY <1>1, <2>3, <2>4, <2>5, <2>7, <2>8, OneMoves
<1> QED BY <1>2, <1>6, <1>7, <1>8, <1>9, <1>10
        DEF Serve, FindUser, UpsertZaloUser, LinkSealedInvite, CreateOAuthHandoff, In

-----------------------------------------------------------------------------
(* What the browser loses it loses to a sign-out, or when it hears that    *)
(* a refresh is refused.                                                   *)
Keeps == storage # NoTokens /\ storage' = NoTokens /\ ~left' => \E t \in Tab : TurnedAway(t)

(* Pairs that were issued stay issued.                                     *)
LEMMA TypesGrow ==
  ASSUME ServerInv, GoesOn
  PROVE  Issued \subseteq Issued' /\ Call \subseteq Call' /\ TabState \subseteq TabState'
<1>1. minted \in Nat /\ minted' \in Nat /\ minted <= minted'
  BY SessionsAssumption DEF ServerInv, SessionsInv, SessionsTypeOK, GoesOn
<1>2. Issued \subseteq Issued'
  BY <1>1 DEF Issued
<1>3. Call \subseteq Call'
  BY <1>2 DEF Call
<1>4. [Slot -> Call] \subseteq [Slot -> Call']
  BY <1>3
<1>5. TabState \subseteq TabState'
  BY <1>4 DEF TabState
<1> QED BY <1>2, <1>3, <1>5

(* What a tab is.                                                          *)
LEMMA TabIsTyped ==
  ASSUME TabsInv, NEW t \in Tab
  PROVE  /\ tab[t] \in TabState /\ tab \in [Tab -> TabState] /\ TabIsServed(t)
         /\ tab[t].user \in BOOLEAN /\ tab[t].loading \in BOOLEAN
         /\ tab[t].worker \in Caller \cup {Null} /\ tab[t].refreshing \in Caller \cup {Null}
         /\ tab[t].call \in [Slot -> Call]
         /\ \A s \in Slot : /\ tab[t].call[s] \in Call
                            /\ tab[t].call[s].access \in Issued /\ tab[t].call[s].body \in Issued
                            /\ tab[t].call[s].kind \in {"none", "me", "login", "logout", "data"}
         /\ tab[t].call["session"].phase # "served" => tab[t].worker = Null
<1>1. tab[t] \in TabState /\ TabIsServed(t) /\ tab \in [Tab -> TabState]
  BY DEF TabsInv
<1>2. /\ tab[t].user \in BOOLEAN /\ tab[t].loading \in BOOLEAN
      /\ tab[t].worker \in Caller \cup {Null} /\ tab[t].refreshing \in Caller \cup {Null}
      /\ tab[t].call \in [Slot -> Call]
  BY <1>1 DEF TabState
<1>3. \A c \in Call : /\ c.access \in Issued /\ c.body \in Issued
                      /\ c.kind \in {"none", "me", "login", "logout", "data"}
  BY DEF Call
<1> QED BY <1>1, <1>2, <1>3 DEF TabIsServed

(* A tab for which nothing changes is served as before.                    *)
LEMMA TabStays ==
  ASSUME ServerInv, TabsInv, GoesOn, NEW t \in Tab, tab'[t] = tab[t]
  PROVE  TabIsServed(t)'
<1>1. TabIsServed(t) /\ tab[t].worker \in Caller \cup {Null} /\ tab[t].refreshing \in Caller \cup {Null}
  BY TabIsTyped
<1>2. PICK w, v : w = tab[t].worker /\ v = tab[t].refreshing
  OBVIOUS
<1>3. /\ w # Null => w \in Caller /\ Awaited(w)
      /\ v # Null => v \in Caller /\ Awaited(v)
  BY <1>1, <1>2 DEF Awaited
<1>4. /\ w # Null /\ SignsIn(w) => SignsIn(w)'
      /\ v # Null /\ Rotates(v) => Rotates(v)'
  BY <1>3 DEF GoesOn
<1>5. /\ w # Null => /\ tab[t].call["session"].phase = "served"
                     /\ (tab[t].call["session"].kind = "login" => SignsIn(w))
      /\ v # Null => Rotates(v)
      /\ \A s \in Slot : tab[t].call[s].phase = "again" => tab[t].call[s].access \in Fresh
      /\ tab[t].call["page"].kind # "logout"
  BY <1>1, <1>2 DEF TabIsServed
<1>6. Fresh \subseteq Fresh'
  BY DEF GoesOn
<1>7. /\ w # Null => /\ tab'[t].call["session"].phase = "served"
                     /\ (tab'[t].call["session"].kind = "login" => SignsIn(w)')
      /\ v # Null => Rotates(v)'
      /\ \A s \in Slot : tab'[t].call[s].phase = "again" => tab'[t].call[s].access \in Fresh'
      /\ tab'[t].call["page"].kind # "logout"
      /\ w = tab'[t].worker /\ v = tab'[t].refreshing
  BY <1>2, <1>4, <1>5, <1>6
<1> QED BY <1>7 DEF TabIsServed, SignsIn, Rotates, In, Over

(* No tab moves.                                                           *)
LEMMA TabsStay ==
  ASSUME ServerInv, TabsInv, GoesOn, tab' = tab
  PROVE  TabsInv'
<1>1. tab' \in [Tab -> TabState']
  BY TypesGrow DEF TabsInv
<1>2. \A t \in Tab : TabIsServed(t)'
  BY TabStays
<1> QED BY <1>1, <1>2 DEF TabsInv

(* One tab moves.                                                          *)
LEMMA TabMoves ==
  ASSUME ServerInv, TabsInv, GoesOn, NEW t \in Tab, NEW r, tab' = [tab EXCEPT ![t] = r],
         r \in TabState', NEW w, w = r.worker, NEW v, v = r.refreshing,
         w # Null => /\ r.call["session"].phase = "served"
                     /\ (r.call["session"].kind = "login" => SignsIn(w)'),
         v # Null => Rotates(v)',
         \A s \in Slot : r.call[s].phase = "again" => r.call[s].access \in Fresh',
         r.call["page"].kind # "logout"
  PROVE  TabsInv'
<1>1. /\ tab \in [Tab -> TabState] /\ TabState \subseteq TabState'
      /\ tab'[t] = r /\ \A u \in Tab \ {t} : tab'[u] = tab[u]
  BY TypesGrow, TabIsTyped
<1>2. tab' \in [Tab -> TabState']
  BY <1>1
<1>3. TabIsServed(t)'
  BY <1>1 DEF TabIsServed, SignsIn, Rotates, In, Over
<1>4. \A u \in Tab \ {t} : TabIsServed(u)'
  BY <1>1, TabStays
<1> QED BY <1>2, <1>3, <1>4 DEF TabsInv

(* A tab keeps what it waits for at the server, or gives it up.            *)
LEMMA TabWaits ==
  ASSUME ServerInv, TabsInv, GoesOn, NEW t \in Tab, NEW r, tab' = [tab EXCEPT ![t] = r],
         r \in TabState',
         r.worker \in {tab[t].worker, Null}, r.refreshing \in {tab[t].refreshing, Null},
         r.worker # Null => r.call["session"] = tab[t].call["session"],
         \A s \in Slot : r.call[s].phase = "again" => r.call[s].access \in Fresh',
         r.call["page"].kind # "logout"
  PROVE  TabsInv'
<1>1. PICK w, v : w = r.worker /\ v = r.refreshing
  OBVIOUS
<1>2. /\ w # Null => w = tab[t].worker /\ w \in Caller /\ Awaited(w)
      /\ v # Null => v = tab[t].refreshing /\ v \in Caller /\ Awaited(v)
  BY <1>1, TabIsTyped DEF Awaited
<1>3. /\ w # Null => /\ r.call["session"].phase = "served"
                     /\ (r.call["session"].kind = "login" => SignsIn(w))
      /\ v # Null => Rotates(v)
  BY <1>1, <1>2, TabIsTyped DEF TabIsServed
<1>4. /\ w # Null => /\ r.call["session"].phase = "served"
                     /\ (r.call["session"].kind = "login" => SignsIn(w)')
      /\ v # Null => Rotates(v)'
  BY <1>2, <1>3 DEF GoesOn
<1> QED BY <1>1, <1>4, TabMoves

(* Calls of a tab come to an end.                                          *)
LEMMA CallsSettle ==
  ASSUME ServerInv, TabsInv, GoesOn, NEW t \in Tab, NEW S \in SUBSET Slot, NEW outcome,
         NEW w \in {tab[t].worker, Null}, NEW v \in {tab[t].refreshing, Null},
         "session" \in S => w = Null,
         tab' = Settled(t, S, outcome, w, v)
  PROVE  TabsInv'
<1> DEFINE calls == [s \in Slot |-> IF s \in S THEN NoCall ELSE tab[t].call[s]]
           user == IF "session" \in S
                   THEN tab[t].call["session"].kind \in {"me", "login"} /\ outcome = "ok"
                   ELSE tab[t].user
           loading == tab[t].loading /\ "session" \notin S
           r == [user |-> user, loading |-> loading, call |-> calls, worker |-> w, refreshing |-> v]
<1>1. /\ tab[t] \in TabState /\ tab \in [Tab -> TabState]
      /\ tab[t].user \in BOOLEAN /\ tab[t].loading \in BOOLEAN
      /\ w \in Caller \cup {Null} /\ v \in Caller \cup {Null} /\ tab[t].call \in [Slot -> Call]
      /\ TabIsServed(t)
  BY TabIsTyped
<1>2. NoCall \in Call /\ NoCall.phase = "none" /\ NoCall.kind = "none"
  BY DEF NoCall, Call, Issued
<1>3. calls \in [Slot -> Call] /\ user \in BOOLEAN /\ loading \in BOOLEAN
  BY <1>1, <1>2
<1>4. tab' = [tab EXCEPT ![t] = r]
  BY DEF Settled
<1>5. /\ \A s \in Slot : calls[s] = IF s \in S THEN NoCall ELSE tab[t].call[s]
  OBVIOUS
<1> HIDE DEF calls, user, loading
<1>6. /\ r \in TabState /\ r.worker = w /\ r.refreshing = v /\ r.call = calls
  BY <1>1, <1>3 DEF TabState
<1> HIDE DEF r
<1>8. r \in TabState'
  BY <1>6, TypesGrow
<1>9. Fresh \subseteq Fresh'
  BY DEF GoesOn
<1>10. \A s \in Slot : r.call[s].phase = "again" => r.call[s].access \in Fresh'
  BY <1>1, <1>2, <1>5, <1>6, <1>9 DEF TabIsServed
<1>11. r.call["page"].kind # "logout" /\ (r.worker # Null => r.call["session"] = tab[t].call["session"])
  BY <1>1, <1>2, <1>5, <1>6 DEF TabIsServed, Slot
<1> QED BY <1>6, <1>8, <1>10, <1>11, <1>4, TabWaits

(* The tokens stay where they are, or are given up.                        *)
LEMMA BrowserKeeps ==
  ASSUME BrowserInv, GoesOn, ServerInv, storage' \in {storage, NoTokens}, cookie' \in {cookie, NoTokens},
         left' \in BOOLEAN
  PROVE  BrowserInv'
<1>1. NoTokens = PairOf(Null) /\ Null \in Issued /\ Issued \subseteq Issued'
  BY TypesGrow DEF NoTokens, PairOf, Issued
<1>2. /\ storage' \in {PairOf(p) : p \in Issued'} /\ cookie' \in {PairOf(p) : p \in Issued'}
  BY <1>1 DEF BrowserInv
<1> QED BY <1>2 DEF BrowserInv, PairOf, NoTokens

-----------------------------------------------------------------------------
(* A call goes out, or waits.                                              *)
LEMMA CallMoves ==
  ASSUME ServerInv, TabsInv, GoesOn, NEW t \in Tab, NEW s \in Slot, NEW c \in Call,
         NEW loading \in BOOLEAN, NEW w \in Caller \cup {Null}, NEW v \in Caller \cup {Null},
         tab' = Moved(t, s, c, loading, w, v),
         s = "page" => c.kind # "logout", c.phase # "again",
         \/ w = tab[t].worker /\ (s = "session" => w = Null)
         \/ s = "session" /\ c.phase = "served" /\ (c.kind = "login" => w \in Caller /\ SignsIn(w)'),
         v = tab[t].refreshing \/ Rotates(v)'
  PROVE  TabsInv'
<1> DEFINE calls == [tab[t].call EXCEPT ![s] = c]
           r == [user |-> tab[t].user, loading |-> loading, call |-> calls, worker |-> w, refreshing |-> v]
<1>1. /\ tab[t].call \in [Slot -> Call] /\ tab[t].user \in BOOLEAN /\ TabIsServed(t)
      /\ TabState \subseteq TabState' /\ Slot = {"page", "session"}
  BY TabIsTyped, TypesGrow DEF Slot
<1>2. calls \in [Slot -> Call] /\ calls[s] = c /\ \A x \in Slot \ {s} : calls[x] = tab[t].call[x]
  BY <1>1
<1>4. tab' = [tab EXCEPT ![t] = r]
  BY DEF Moved
<1> HIDE DEF calls
<1>3. r \in TabState /\ r.call = calls /\ r.worker = w /\ r.refreshing = v
  BY <1>1, <1>2 DEF TabState
<1> HIDE DEF r
<1>5. /\ \A x \in Slot : r.call[x].phase = "again" => r.call[x].access \in Fresh'
      /\ r.call["page"].kind # "logout"
  BY <1>1, <1>2, <1>3 DEF TabIsServed, GoesOn
<1>6. v # Null => Rotates(v)'
  <2>1. CASE v = tab[t].refreshing /\ v # Null
    <3>1. v \in Caller /\ Awaited(v) /\ Rotates(v)
      BY <1>1, <2>1 DEF TabIsServed, Awaited
    <3> QED BY <3>1 DEF GoesOn
  <2> QED BY <2>1
<1>7. w # Null => /\ r.call["session"].phase = "served"
                  /\ (r.call["session"].kind = "login" => SignsIn(w)')
  <2>1. CASE w = tab[t].worker /\ w # Null /\ s # "session"
    <3>1. /\ w \in Caller /\ Awaited(w) /\ r.call["session"] = tab[t].call["session"]
          /\ r.call["session"].phase = "served" /\ (r.call["session"].kind = "login" => SignsIn(w))
      BY <1>1, <1>2, <1>3, <2>1 DEF TabIsServed, Awaited
    <3> QED BY <3>1 DEF GoesOn
  <2>2. CASE s = "session" /\ c.phase = "served" /\ (c.kind = "login" => w \in Caller /\ SignsIn(w)')
    BY <1>2, <1>3, <2>2
  <2> QED BY <2>1, <2>2
<1>8. r \in TabState'
  BY <1>1, <1>3
<1>9. w = r.worker /\ v = r.refreshing
  BY <1>3
<1> QED BY <1>4, <1>5, <1>6, <1>7, <1>8, <1>9, TabMoves

(* Nothing but calls moves.                                                *)
LEMMA BrowserRests ==
  ASSUME ServerInv, BrowserInv, GoesOn, cookie' \in {cookie, NoTokens}, UNCHANGED <<storage, left>>
  PROVE  BrowserInv' /\ Keeps
<1>1. BrowserInv'
  BY BrowserKeeps DEF BrowserInv
<1> QED BY <1>1 DEF Keeps

(* A call is sent.                                                         *)
LEMMA SendStep ==
  ASSUME ConsoleInv, NEW t \in Tab, NEW s \in Slot, NEW kind \in {"me", "login", "logout", "data"},
         NEW body \in Issued, Send(t, s, kind, body), s = "page" => kind # "logout",
         s = "session" => tab[t].call["session"].phase # "served",
         UNCHANGED <<sessionVars, stale, lapsed, storage, cookie, left>>
  PROVE  ConsoleInv' /\ Keeps
<1>1. GoesOn
  BY ServerRests DEF ConsoleInv
<1> DEFINE c == [kind |-> kind, phase |-> "sent", access |-> Bearer, body |-> body]
           r == [user |-> tab[t].user, loading |-> tab[t].loading,
                 call |-> [tab[t].call EXCEPT ![s] = c],
                 worker |-> tab[t].worker, refreshing |-> tab[t].refreshing]
<1>2. Bearer \in Issued
  BY DEF Bearer, ConsoleInv, BrowserInv, PairOf
<1>3. c \in Call /\ c.kind = kind /\ c.phase = "sent"
  BY <1>2 DEF Call
<1> HIDE DEF c
<1>4. tab[t] \in TabState /\ tab \in [Tab -> TabState] /\ tab[t].loading \in BOOLEAN
  BY TabIsTyped DEF ConsoleInv
<1>5. tab' = [tab EXCEPT ![t] = r]
  <2>1. tab' = [tab EXCEPT ![t] = [tab[t] EXCEPT !.call = [tab[t].call EXCEPT ![s] = c]]]
    BY <1>4 DEF Send, c
  <2>2. [tab[t] EXCEPT !.call = [tab[t].call EXCEPT ![s] = c]] = r
    BY <1>4 DEF TabState
  <2> QED BY <2>1, <2>2
<1>6. tab[t].worker \in Caller \cup {Null} /\ tab[t].refreshing \in Caller \cup {Null}
      /\ (s = "session" => tab[t].worker = Null)
  BY TabIsTyped DEF ConsoleInv
<1>7. TabsInv'
  <2>1. ServerInv /\ TabsInv
    BY DEF ConsoleInv
  <2>2. (s = "page" => c.kind # "logout") /\ c.phase # "again"
    BY <1>3
  <2>3. PICK loading \in BOOLEAN, w \in Caller \cup {Null}, v \in Caller \cup {Null} :
             loading = tab[t].loading /\ w = tab[t].worker /\ v = tab[t].refreshing
    BY <1>4, <1>6
  <2>4. tab' = Moved(t, s, c, loading, w, v)
    BY <1>5, <2>3 DEF Moved
  <2>5. w = tab[t].worker /\ v = tab[t].refreshing /\ (s = "session" => w = Null)
    BY <1>6, <2>3
  <2> QED BY <1>1, <1>3, <2>1, <2>2, <2>4, <2>5, CallMoves
<1>8. BrowserInv' /\ Keeps
  BY <1>1, BrowserRests DEF ConsoleInv
<1> QED BY <1>1, <1>7, <1>8 DEF ConsoleInv, GoesOn

(* A tab is opened, or a view loads something, or somebody signs out, or   *)
(* in with a wrong password.                                               *)
LEMMA VisitStep ==
  ASSUME ConsoleInv, NEW t \in Tab, Visit(t)
  PROVE  ConsoleInv' /\ Keeps
<1>1. ServerInv /\ BrowserInv /\ TabsInv
  BY DEF ConsoleInv
<1>2. /\ NewTab.call["session"] = NoCall /\ NewTab.call["page"] = NoCall
      /\ NewTab.worker = Null /\ NewTab.refreshing = Null
      /\ NoCall.phase = "none" /\ NoCall.kind = "none"
  BY DEF NewTab, NoCall, Slot
<1>3. Null \in Issued /\ storage.refresh \in Issued /\ "session" \in Slot /\ "page" \in Slot
  BY <1>1 DEF Issued, BrowserInv, PairOf, Slot
<1>4. CASE Mount(t)
  <2>1. Send(t, "session", "me", Null) /\ tab[t].call["session"].phase # "served"
        /\ UNCHANGED <<sessionVars, stale, lapsed, storage, cookie, left>>
    BY <1>2, <1>4 DEF Mount
  <2> QED BY <1>3, <2>1, SendStep
<1>5. CASE Query(t)
  <2>1. Send(t, "page", "data", Null) /\ UNCHANGED <<sessionVars, stale, lapsed, storage, cookie, left>>
    BY <1>5 DEF Query
  <2> QED BY <1>3, <2>1, SendStep
<1>6. CASE SignOut(t)
  <2>1. Send(t, "session", "logout", storage.refresh) /\ tab[t].call["session"].phase # "served"
        /\ UNCHANGED <<sessionVars, stale, lapsed, storage, cookie, left>>
    BY <1>2, <1>6 DEF SignOut
  <2> QED BY <1>3, <2>1, SendStep
<1>7. CASE Reload(t)
  <2>1. GoesOn
    BY <1>1, <1>7, ServerRests DEF Reload
  <2>2. NewTab \in TabState
    BY DEF NewTab, TabState, NoCall, Call, Issued
  <2>3. \A s \in Slot : NewTab.call[s] = NoCall
    BY DEF NewTab
  <2>4. NewTab \in TabState' /\ tab' = [tab EXCEPT ![t] = NewTab]
    BY <1>1, <1>7, <2>1, <2>2, TypesGrow DEF Reload
  <2>5. \A s \in Slot : NewTab.call[s].phase = "again" => NewTab.call[s].access \in Fresh'
    BY <1>2, <2>3
  <2> HIDE DEF NewTab
  <2>6. TabsInv'
    BY <1>1, <1>2, <2>1, <2>4, <2>5, TabMoves
  <2>7. BrowserInv' /\ Keeps
    BY <1>1, <1>7, <2>1, BrowserRests DEF Reload
  <2> QED BY <2>1, <2>6, <2>7 DEF ConsoleInv, GoesOn
<1>8. CASE MistypePassword(t)
  <2> DEFINE c == LoginCall("sent")
  <2>1. GoesOn
    BY <1>1, <1>8, ServerRests DEF MistypePassword
  <2>2. c \in Call /\ c.phase = "sent" /\ c.kind = "login"
    BY DEF LoginCall, Call, Issued
  <2> HIDE DEF c
  <2>3. PICK w \in Caller \cup {Null}, v \in Caller \cup {Null} :
             w = tab[t].worker /\ v = tab[t].refreshing
    BY <1>1, TabIsTyped
  <2>4. tab' = Moved(t, "session", c, TRUE, w, v)
    BY <1>8, <2>3 DEF MistypePassword, c
  <2>5. w = Null
    BY <1>1, <1>2, <1>8, <2>3, TabIsTyped DEF MistypePassword, CanLogin
  <2>6. TabsInv'
    BY <1>1, <1>3, <2>1, <2>2, <2>3, <2>4, <2>5, CallMoves
  <2>7. BrowserInv' /\ Keeps
    BY <1>1, <1>8, <2>1, BrowserRests DEF MistypePassword
  <2> QED BY <2>1, <2>6, <2>7 DEF ConsoleInv, GoesOn
<1>9. ASSUME NEW w \in Caller, LoginAdmin(t, w)
      PROVE  ConsoleInv' /\ Keeps
  <2> DEFINE c == LoginCall("served")
  <2>1. GoesOn /\ SignsIn(w)'
    BY <1>1, <1>9, LoginBegins DEF LoginAdmin
  <2>2. c \in Call /\ c.phase = "served" /\ c.kind = "login"
    BY DEF LoginCall, Call, Issued
  <2> HIDE DEF c
  <2>3. PICK v \in Caller \cup {Null} : v = tab[t].refreshing
    BY <1>1, TabIsTyped
  <2>4. tab' = Moved(t, "session", c, TRUE, w, v)
    BY <1>9, <2>3 DEF LoginAdmin, c
  <2>5. TabsInv'
    BY <1>1, <1>3, <2>1, <2>2, <2>3, <2>4, CallMoves
  <2>6. BrowserInv' /\ Keeps
    BY <1>1, <1>9, <2>1, BrowserRests DEF LoginAdmin
  <2> QED BY <2>1, <2>5, <2>6 DEF ConsoleInv, GoesOn
<1> QED BY <1>4, <1>5, <1>6, <1>7, <1>8, <1>9 DEF Visit

-----------------------------------------------------------------------------
(* Calls of a tab end, and the browser keeps its tokens, or gives them up  *)
(* for a sign-out or with a refresh that is refused.                       *)
LEMMA EndStep ==
  ASSUME ConsoleInv, GoesOn, NEW t \in Tab, NEW S \in SUBSET Slot, NEW outcome,
         NEW w \in {tab[t].worker, Null}, NEW v \in {tab[t].refreshing, Null},
         "session" \in S => w = Null, tab' = Settled(t, S, outcome, w, v),
         storage' \in {storage, NoTokens}, cookie' \in {cookie, NoTokens},
         left' \in BOOLEAN, storage' # storage => left' \/ \E u \in Tab : TurnedAway(u)
  PROVE  ConsoleInv' /\ Keeps
<1>1. ServerInv /\ BrowserInv /\ TabsInv
  BY DEF ConsoleInv
<1>2. TabsInv'
  BY <1>1, CallsSettle
<1>3. BrowserInv'
  BY <1>1, BrowserKeeps
<1> QED BY <1>2, <1>3 DEF ConsoleInv, GoesOn, Keeps

(* The calls S of a tab end as their callers make of the outcome.          *)
LEMMA ConcludeStep ==
  ASSUME ConsoleInv, GoesOn, NEW t \in Tab, NEW s \in Slot, NEW outcome,
         tab[t].call[s].phase # "served", Conclude(t, {s}, outcome, storage),
         cookie' \in {cookie, NoTokens}, ~(tab[t].call[s].kind = "me" /\ outcome = "401")
  PROVE  ConsoleInv' /\ Keeps
<1> DEFINE ends == tab[t].call[s].kind = "logout"
<1>1. tab' = Settled(t, {s}, outcome, tab[t].worker, tab[t].refreshing)
  BY DEF Conclude
<1>2. /\ storage' = IF Clears(tab[t].call[s], outcome) THEN NoTokens ELSE storage
      /\ left' = (left \/ ends)
  BY DEF Conclude
<1>4. storage' # storage => ends
  BY <1>2 DEF Clears
<1>5. s = "session" => tab[t].worker = Null
  BY TabIsTyped DEF ConsoleInv
<1> HIDE DEF ends
<1>6. storage' \in {storage, NoTokens}
  BY <1>2
<1>7. left \in BOOLEAN
  BY DEF ConsoleInv, BrowserInv
<1>8. left' \in BOOLEAN /\ (storage' # storage => left')
  BY <1>2, <1>4, <1>7
<1>9. "session" \in {s} => tab[t].worker = Null
  BY <1>5
<1> HIDE DEF Conclude
<1> QED BY <1>1, <1>6, <1>8, <1>9, EndStep

(* What a call carries, and what an answer leaves of the cookies.          *)
LEMMA CallFacts ==
  ASSUME ConsoleInv, NEW t \in Tab, NEW s \in Slot, NEW c, c = tab[t].call[s]
  PROVE  /\ c \in Call /\ c.kind \in {"none", "me", "login", "logout", "data"}
         /\ Jar(c) \in {cookie, NoTokens}
         /\ Ending(c) \in Issued /\ Presented(Jar(c)) \in Issued
         /\ Presented(Jar(c)) = Null => storage = NoTokens
         /\ c.kind = "logout" => s = "session"
         /\ c.phase = "again" => c.access \in Fresh
         /\ s = "session" /\ c.phase # "served" => tab[t].worker = Null
<1>1. TabIsServed(t) /\ c \in Call /\ c.body \in Issued
      /\ c.kind \in {"none", "me", "login", "logout", "data"}
      /\ (s = "session" /\ c.phase # "served" => tab[t].worker = Null)
  BY TabIsTyped DEF ConsoleInv
<1>2. PICK p \in Issued, q \in Issued : storage = PairOf(p) /\ cookie = PairOf(q)
  BY DEF ConsoleInv, BrowserInv
<1>3. Jar(c) \in {cookie, NoTokens} /\ Null \in Issued
  BY DEF Jar, Issued
<1>4. Jar(c).refresh \in Issued /\ cookie.refresh \in Issued /\ storage.refresh = p
  BY <1>2, <1>3 DEF PairOf, NoTokens
<1>5. /\ Presented(Jar(c)) \in Issued
      /\ Presented(Jar(c)) = Null => p = Null
  BY <1>2, <1>4 DEF Presented
<1>6. Ending(c) \in Issued
  BY <1>1, <1>4 DEF Ending
<1>7. /\ c.phase = "again" => c.access \in Fresh
      /\ c.kind = "logout" => s = "session"
  BY <1>1 DEF TabIsServed, Slot
<1> QED BY <1>1, <1>2, <1>3, <1>5, <1>6, <1>7 DEF PairOf, NoTokens

(* The call goes through: with it a sign-out begins.                       *)
LEMMA CallAcceptedStep ==
  ASSUME ConsoleInv, NEW t \in Tab, NEW s \in Slot, CallAccepted(t, s)
  PROVE  ConsoleInv' /\ Keeps
<1>1. PICK c : c = tab[t].call[s]
  OBVIOUS
<1>2. /\ c.phase \in {"sent", "again"} /\ cookie' \in {cookie, NoTokens} /\ lapsed' = lapsed
      /\ stale' = stale /\ tab[t].call[s].phase # "served"
  BY <1>1, CallFacts DEF CallAccepted, InFlight
<1>3. ServerInv /\ BrowserInv /\ TabsInv
  BY DEF ConsoleInv
<1>4. CASE Conclude(t, {s}, "ok", storage) /\ UNCHANGED sessionVars
  <2>1. GoesOn
    BY <1>2, <1>3, <1>4, ServerRests
  <2> QED BY <1>2, <1>4, <2>1, ConcludeStep
<1>5. CASE /\ Ending(c) # Null
           /\ LogoutOne(Admin, Ending(c))
           /\ Conclude(t, {s}, "ok", storage)
  <2>1. Ending(c) \in 1..minted
    BY <1>1, <1>5, CallFacts DEF Issued
  <2>2. GoesOn
    BY <1>2, <1>3, <1>5, <2>1, LogoutGoesOn
  <2> QED BY <1>2, <1>5, <2>2, ConcludeStep
<1>6. ASSUME c.kind = "logout", NEW w \in Caller, Free(w), LogoutAll(w, Admin),
             tab' = Moved(t, s, [c EXCEPT !.phase = "served"], tab[t].loading, w, tab[t].refreshing),
             UNCHANGED <<storage, left>>
      PROVE  ConsoleInv' /\ Keeps
  <2>1. GoesOn
    BY <1>2, <1>3, <1>6, SweepBegins
  <2>2. PICK d : d = [c EXCEPT !.phase = "served"]
    OBVIOUS
  <2>3. d \in Call /\ d.phase = "served" /\ d.kind = "logout"
    BY <1>1, <1>6, <2>2, CallFacts DEF Call
  <2>4. s = "session"
    BY <1>1, <1>6, CallFacts
  <2>5. PICK loading \in BOOLEAN, v \in Caller \cup {Null} :
             loading = tab[t].loading /\ v = tab[t].refreshing
    BY <1>3, TabIsTyped
  <2>6. tab' = Moved(t, s, d, loading, w, v)
    BY <1>6, <2>2, <2>5
  <2>7. TabsInv'
    BY <1>3, <2>1, <2>3, <2>4, <2>5, <2>6, CallMoves
  <2>8. BrowserInv' /\ Keeps
    BY <1>2, <1>3, <1>6, <2>1, BrowserRests
  <2> QED BY <2>1, <2>7, <2>8 DEF ConsoleInv, GoesOn
<1> QED BY <1>1, <1>4, <1>5, <1>6 DEF CallAccepted

(* A call gets no answer: only a sign-out gives the tokens up for that.    *)
LEMMA CallFailsStep ==
  ASSUME ConsoleInv, NEW t \in Tab, NEW s \in Slot, CallFails(t, s)
  PROVE  ConsoleInv' /\ Keeps
<1> DEFINE ends == tab[t].call[s].kind = "logout"
<1>1. GoesOn
  BY ServerRests DEF ConsoleInv, CallFails
<1>2. PICK w : w = IF s = "session" THEN Null ELSE tab[t].worker
  OBVIOUS
<1>3. /\ tab' = Settled(t, {s}, "error", w, tab[t].refreshing)
      /\ storage' = (IF ends THEN NoTokens ELSE storage) /\ left' = (left \/ ends) /\ cookie' = cookie
  BY <1>2 DEF CallFails, Clears
<1> HIDE DEF ends
<1>4. left \in BOOLEAN
  BY DEF ConsoleInv, BrowserInv
<1>5. /\ storage' \in {storage, NoTokens} /\ cookie' \in {cookie, NoTokens} /\ left' \in BOOLEAN
      /\ storage' # storage => left'
  BY <1>3, <1>4
<1>6. w \in {tab[t].worker, Null} /\ ("session" \in {s} => w = Null) /\ {s} \in SUBSET Slot
  BY <1>2
<1> HIDE DEF CallFails
<1> QED BY <1>1, <1>3, <1>5, <1>6, EndStep

(* A call gets a 401: it waits for the refresh, or ends without a token to *)
(* lose; one that was sent again gets none unless it is a sign-out.        *)
LEMMA CallUnauthorizedStep ==
  ASSUME ConsoleInv, NEW t \in Tab, NEW s \in Slot, CallUnauthorized(t, s)
  PROVE  ConsoleInv' /\ Keeps
<1>1. PICK c, p : c = tab[t].call[s] /\ p = Presented(Jar(c))
  OBVIOUS
<1>2. /\ c.phase \in {"sent", "again"} /\ cookie' \in {cookie, NoTokens}
      /\ tab[t].call[s].phase # "served"
      /\ s = "session" => tab[t].worker = Null
      /\ stale' = stale
  BY <1>1, CallFacts DEF CallUnauthorized, InFlight
<1>3. ServerInv /\ BrowserInv /\ TabsInv
  BY DEF ConsoleInv
<1>4. CASE c.phase = "again" /\ Conclude(t, {s}, "401", storage) /\ UNCHANGED <<sessionVars, lapsed>>
  <2>1. GoesOn
    BY <1>2, <1>3, <1>4, ServerRests
  <2>2. ASSUME c.kind = "me"
        PROVE  FALSE
    <3>1. c.access \in Fresh
      BY <1>1, <1>4, CallFacts
    <3>2. Passes(c)
      BY <1>3, <2>2, <3>1, NoSuchUser DEF Passes, Authorised, Fresh, ServerInv, AdminsOnly
    <3>3. NothingToEnd(c)
      BY <1>1, <3>2 DEF CallUnauthorized
    <3> QED BY <2>2, <3>3 DEF NothingToEnd
  <2> QED BY <1>1, <1>2, <1>4, <2>1, <2>2, ConcludeStep
<1>5. CASE p = Null /\ Conclude(t, {s}, "401", NoTokens) /\ UNCHANGED <<sessionVars, lapsed>>
  <2>1. GoesOn
    BY <1>2, <1>3, <1>5, ServerRests
  <2>2. storage = NoTokens
    <3>1. Presented(Jar(c)) = Null
      BY <1>1, <1>5
    <3> QED BY <1>1, <3>1, CallFacts
  <2>3. storage' = NoTokens
    BY <1>5 DEF Conclude
  <2>4. tab' = Settled(t, {s}, "401", tab[t].worker, tab[t].refreshing)
    BY <1>5 DEF Conclude
  <2>5. left' \in BOOLEAN
    BY <1>3, <1>5 DEF Conclude, BrowserInv
  <2>6. "session" \in {s} => tab[t].worker = Null
    BY <1>2
  <2> QED BY <1>2, <2>1, <2>2, <2>3, <2>4, <2>5, <2>6, EndStep
<1>6. ASSUME NEW v \in Caller \cup {Null}, c.phase = "sent", GoesOn,
             v = tab[t].refreshing \/ Rotates(v)',
             tab' = Moved(t, s, [c EXCEPT !.phase = "waiting"], tab[t].loading, tab[t].worker, v),
             UNCHANGED <<storage, left>>
      PROVE  ConsoleInv' /\ Keeps
  <2>1. PICK d : d = [c EXCEPT !.phase = "waiting"]
    OBVIOUS
  <2>2. d \in Call /\ d.phase = "waiting" /\ d.kind = c.kind
    BY <1>1, <2>1, CallFacts DEF Call
  <2>3. s = "page" => d.kind # "logout"
    BY <1>1, <2>2, CallFacts
  <2>4. PICK loading \in BOOLEAN, w \in Caller \cup {Null} :
             loading = tab[t].loading /\ w = tab[t].worker
    BY <1>3, TabIsTyped
  <2>5. tab' = Moved(t, s, d, loading, w, v)
    BY <1>6, <2>1, <2>4
  <2>6. w = tab[t].worker /\ (s = "session" => w = Null)
    BY <1>2, <2>4
  <2>7. TabsInv'
    BY <1>3, <1>6, <2>2, <2>3, <2>5, <2>6, CallMoves
  <2>8. BrowserInv' /\ Keeps
    BY <1>2, <1>3, <1>6, BrowserRests
  <2> QED BY <1>6, <2>7, <2>8 DEF ConsoleInv, GoesOn
<1>7. CASE /\ c.phase = "sent"
           /\ tab' = Moved(t, s, [c EXCEPT !.phase = "waiting"], tab[t].loading, tab[t].worker,
                           tab[t].refreshing)
           /\ UNCHANGED <<sessionVars, lapsed, storage, left>>
  <2>1. GoesOn
    BY <1>2, <1>3, <1>7, ServerRests
  <2>2. tab[t].refreshing \in Caller \cup {Null}
    BY <1>3, TabIsTyped
  <2> QED BY <1>6, <1>7, <2>1, <2>2
<1>8. ASSUME c.phase = "sent", p # Null, NEW w \in Caller, NEW late \in BOOLEAN, Free(w),
             Refresh(w, p, late), lapsed' = IF late THEN lapsed \cup {p} ELSE lapsed,
             tab' = Moved(t, s, [c EXCEPT !.phase = "waiting"], tab[t].loading, tab[t].worker, w),
             UNCHANGED <<storage, left>>
      PROVE  ConsoleInv' /\ Keeps
  <2>1. p \in 1..minted
    BY <1>1, <1>8, CallFacts DEF Issued
  <2>2. GoesOn /\ Rotates(w)'
    BY <1>2, <1>3, <1>8, <2>1, RefreshBegins
  <2> QED BY <1>6, <1>8, <2>2
<1> QED BY <1>1, <1>4, <1>5, <1>7, <1>8 DEF CallUnauthorized

(* A sign-in is answered, or a sign-out of every session.                  *)
LEMMA SessionAnsweredStep ==
  ASSUME ConsoleInv, NEW t \in Tab, SessionAnswered(t)
  PROVE  ConsoleInv' /\ Keeps
<1>1. PICK w : w = tab[t].worker
  OBVIOUS
<1> DEFINE login == tab[t].call["session"].kind = "login"
           ok == In(w, "done")
<1>2. /\ w # Null /\ Answered(w) /\ lapsed' = lapsed /\ stale' = stale /\ cookie' = cookie
      /\ tab' = Settled(t, {"session"}, IF ok THEN "ok" ELSE "error", Null, tab[t].refreshing)
      /\ storage' = IF login /\ ok THEN PairOf(serving[w].new)
                    ELSE IF login THEN storage ELSE NoTokens
      /\ left' = IF login THEN left /\ ~ok ELSE TRUE
  BY <1>1 DEF SessionAnswered
<1>3. ServerInv /\ BrowserInv /\ TabsInv
  BY DEF ConsoleInv
<1>4. w \in Caller /\ (login => SignsIn(w))
  BY <1>1, <1>2, <1>3, TabIsTyped DEF TabIsServed
<1>5. GoesOn
  BY <1>2, <1>3, <1>4, AnswerGoesOn
<1>6. login /\ ok => serving[w].new \in 1..minted
  BY <1>3, <1>4 DEF SignsIn, Over, In, ServerInv, Works, Fresh
<1>7. "session" \in Slot
  BY DEF Slot
<1>8. TabsInv'
  BY <1>2, <1>3, <1>5, <1>7, CallsSettle
<1>9. CASE login /\ ok
  <2>1. PICK p \in 1..minted : p = serving[w].new
    BY <1>6, <1>9
  <2>2. storage' = PairOf(p) /\ left' = FALSE /\ p \in Issued
    BY <1>2, <1>9, <2>1 DEF Issued
  <2>3. storage' # NoTokens
    BY <2>2, NoSuchUser DEF PairOf, NoTokens
  <2>4. storage' \in {PairOf(q) : q \in Issued'} /\ cookie' \in {PairOf(q) : q \in Issued'}
    BY <1>2, <1>3, <1>5, <2>2, TypesGrow DEF BrowserInv
  <2>5. BrowserInv'
    BY <2>2, <2>4 DEF BrowserInv, PairOf
  <2> QED BY <1>5, <1>8, <2>3, <2>5 DEF ConsoleInv, GoesOn, Keeps
<1>10. CASE ~(login /\ ok)
  <2>1. /\ storage' = (IF login THEN storage ELSE NoTokens) /\ left' = (IF login THEN left ELSE TRUE)
    BY <1>2, <1>3, <1>10 DEF BrowserInv
  <2> HIDE DEF login
  <2>2. left \in BOOLEAN
    BY <1>3 DEF BrowserInv
  <2>3. /\ storage' \in {storage, NoTokens} /\ cookie' \in {cookie, NoTokens} /\ left' \in BOOLEAN
        /\ storage' # storage => left'
    BY <1>2, <2>1, <2>2
  <2>4. BrowserInv'
    BY <1>3, <1>5, <2>3, BrowserKeeps
  <2> QED BY <1>5, <1>8, <2>3, <2>4 DEF ConsoleInv, GoesOn, Keeps
<1> QED BY <1>9, <1>10

(* A refresh is answered with a pair, and calls go out again with it.      *)
LEMMA RefreshAnsweredStep ==
  ASSUME ConsoleInv, NEW t \in Tab, RefreshAnswered(t)
  PROVE  ConsoleInv' /\ Keeps
<1>1. PICK w, p : w = tab[t].refreshing /\ p = serving[w].new
  OBVIOUS
<1> DEFINE calls == [s \in Slot |-> IF s \in Waiting(t) THEN SentAgain(tab[t].call[s], p)
                                                       ELSE tab[t].call[s]]
           r == [user |-> tab[t].user, loading |-> tab[t].loading, call |-> calls,
                 worker |-> tab[t].worker, refreshing |-> Null]
<1>2. /\ w # Null /\ In(w, "done") /\ Answered(w) /\ lapsed' = lapsed /\ left' = left /\ stale' = stale
      /\ storage' = PairOf(p) /\ cookie' = PairOf(p) /\ tab' = [tab EXCEPT ![t] = r]
  BY <1>1 DEF RefreshAnswered
<1>3. ServerInv /\ BrowserInv /\ TabsInv
  BY DEF ConsoleInv
<1>4. w \in Caller /\ Rotates(w)
  BY <1>1, <1>2, <1>3, TabIsTyped DEF TabIsServed
<1>5. GoesOn
  BY <1>2, <1>3, <1>4, AnswerGoesOn
<1>6. p \in Fresh /\ p # Null
  BY <1>1, <1>2, <1>3, <1>4 DEF Rotates, Over, In, ServerInv, Works
<1>7. p \in Issued /\ Fresh \subseteq Fresh'
  BY <1>5, <1>6 DEF Issued, GoesOn, Fresh
<1>8. \A c \in Call : /\ SentAgain(c, p) \in Call /\ SentAgain(c, p).kind = c.kind
                      /\ SentAgain(c, p).access = p
  BY <1>7 DEF Call, SentAgain
<1>9. /\ tab[t].user \in BOOLEAN /\ tab[t].loading \in BOOLEAN /\ tab[t].call \in [Slot -> Call]
      /\ tab[t].worker \in Caller \cup {Null} /\ TabIsServed(t)
  BY <1>3, TabIsTyped
<1>10. /\ calls \in [Slot -> Call]
       /\ \A s \in Slot : calls[s].kind = tab[t].call[s].kind
       /\ \A s \in Slot : calls[s] = tab[t].call[s] \/ calls[s].access = p
       /\ \A s \in Slot : tab[t].call[s].phase # "waiting" => calls[s] = tab[t].call[s]
  BY <1>8, <1>9 DEF Waiting
<1> HIDE DEF calls
<1>11. r \in TabState /\ r.call = calls /\ r.worker = tab[t].worker /\ r.refreshing = Null
  BY <1>9, <1>10 DEF TabState
<1> HIDE DEF r
<1>12. r \in TabState'
  BY <1>3, <1>5, <1>11, TypesGrow
<1>13. r.worker # Null => r.call["session"] = tab[t].call["session"]
  BY <1>9, <1>10, <1>11 DEF TabIsServed, Slot
<1>14. r.call["page"].kind # "logout"
  BY <1>9, <1>10, <1>11 DEF TabIsServed, Slot
<1>19. \A s \in Slot : r.call[s].phase = "again" => r.call[s].access \in Fresh'
  BY <1>6, <1>7, <1>9, <1>10, <1>11 DEF TabIsServed
<1>15. TabsInv'
  BY <1>2, <1>3, <1>5, <1>11, <1>12, <1>13, <1>14, <1>19, TabWaits
<1>16. p \in Issued' /\ left' \in BOOLEAN
  BY <1>2, <1>3, <1>5, <1>7, TypesGrow DEF BrowserInv
<1>17. BrowserInv'
  BY <1>2, <1>7, <1>16 DEF BrowserInv, PairOf
<1>18. Keeps
  BY <1>2, <1>6 DEF Keeps, PairOf, NoTokens
<1> QED BY <1>5, <1>15, <1>17, <1>18 DEF ConsoleInv, GoesOn

(* A refresh is refused, or fails, which proves nothing.                   *)
LEMMA RefreshFailsStep ==
  ASSUME ConsoleInv, NEW t \in Tab, NEW answer \in {"refused", "failed", "lost"},
         RefreshFails(t, answer)
  PROVE  ConsoleInv' /\ Keeps
<1>1. PICK w, over, outcome : /\ w = tab[t].refreshing /\ over = EndsSession(answer)
                              /\ outcome = IF over THEN "401" ELSE "error"
  OBVIOUS
<1> DEFINE ends == \E s \in Waiting(t) : tab[t].call[s].kind = "logout"
<1>2. /\ w # Null /\ lapsed' = lapsed /\ stale' = stale /\ left' = (left \/ ends) /\ cookie' = cookie
      /\ \/ UNCHANGED sessionVars
         \/ In(w, answer) /\ Answered(w)
      /\ answer = "refused" => In(w, "refused")
      /\ tab' = Settled(t, Waiting(t), outcome, tab[t].worker, Null)
      /\ storage' = IF over \/ \E s \in Waiting(t) : Clears(tab[t].call[s], outcome)
                    THEN NoTokens ELSE storage
  BY <1>1 DEF RefreshFails
<1>3. ServerInv /\ BrowserInv /\ TabsInv
  BY DEF ConsoleInv
<1>4. w \in Caller
  BY <1>1, <1>2, <1>3, TabIsTyped
<1>5. GoesOn
  BY <1>2, <1>3, <1>4, AnswerGoesOn, ServerRests
<1>13. tab' = Settled(t, Waiting(t), outcome, tab[t].worker, Null)
  BY <1>2
<1>6. over => TurnedAway(t)
  <2>1. over => In(w, "refused") /\ Spent(serving[w].pair)
    BY <1>1, <1>2, <1>3, <1>4 DEF EndsSession, ServerInv, Works, In
  <2>2. tab'[t].refreshing = Null
    BY <1>3, <1>13, TabIsTyped DEF Settled
  <2> QED BY <1>1, <1>2, <2>1, <2>2 DEF TurnedAway
<1>7. ~over /\ (\E s \in Waiting(t) : Clears(tab[t].call[s], outcome)) => ends
  BY <1>1 DEF Clears
<1> HIDE DEF ends
<1>9. left \in BOOLEAN
  BY <1>3 DEF BrowserInv
<1>10. storage' # storage => left' \/ \E u \in Tab : TurnedAway(u)
  BY <1>2, <1>6, <1>7
<1>11. Waiting(t) \in SUBSET Slot /\ ("session" \in Waiting(t) => tab[t].worker = Null)
  BY <1>3, TabIsTyped DEF Waiting
<1>12. storage' \in {storage, NoTokens} /\ cookie' \in {cookie, NoTokens} /\ left' \in BOOLEAN
  BY <1>2, <1>9
<1> HIDE DEF RefreshFails
<1> QED BY <1>5, <1>10, <1>11, <1>12, <1>13, EndStep

(* An access token expires that no call was just sent again with.          *)
LEMMA ExpireAccessStep ==
  ASSUME ConsoleInv, NEW p \in Pair, ExpireAccess(p)
  PROVE  ConsoleInv' /\ Keeps
<1>1. /\ p \in 1..minted /\ stale' = stale \cup {p}
      /\ \A w \in Caller : serving[w].new # p
      /\ \A t \in Tab, s \in Slot : tab[t].call[s].phase = "again" => tab[t].call[s].access # p
      /\ UNCHANGED <<sessionVars, lapsed, console>>
  BY DEF ExpireAccess
<1>2. /\ roles' = roles /\ pair' = pair /\ minted' = minted /\ serving' = serving
      /\ ended' = ended /\ lapsed' = lapsed
      /\ storage' = storage /\ cookie' = cookie /\ tab' = tab /\ left' = left
  BY <1>1 DEF sessionVars, console
<1>3. ServerInv /\ BrowserInv /\ TabsInv
  BY DEF ConsoleInv
<1>4. SessionsInv'
  BY <1>1, <1>3, SessionsStep DEF ServerInv
<1>5. Fresh' = Fresh \ {p}
  BY <1>1, <1>2 DEF Fresh
<1>6. \A w \in Caller : Works(serving[w])'
  <2> SUFFICES ASSUME NEW w \in Caller
               PROVE  Works(serving[w])'
    OBVIOUS
  <2>1. Works(serving[w]) /\ serving[w].new # p
    BY <1>1, <1>3 DEF ServerInv
  <2> QED BY <1>2, <1>5, <2>1 DEF Works, Spent
<1>7. ServerInv'
  BY <1>1, <1>2, <1>3, <1>4, <1>6 DEF ServerInv, AdminsOnly
<1>8. TabsInv'
  <2>1. \A t \in Tab : TabIsServed(t)'
    BY <1>1, <1>2, <1>3, <1>5 DEF TabsInv, TabIsServed, SignsIn, Rotates, Over, In
  <2> QED BY <1>2, <1>3, <2>1 DEF TabsInv, TabState, Call, Issued
<1>9. BrowserInv' /\ Keeps
  BY <1>2, <1>3 DEF BrowserInv, Issued, PairOf, Keeps
<1> QED BY <1>7, <1>8, <1>9 DEF ConsoleInv

(* The invariant of the console is inductive, and what it loses it loses   *)
(* for a reason.                                                           *)
LEMMA ConsoleStep ==
  ASSUME ConsoleInv, [ConsoleNext]_consoleVars
  PROVE  ConsoleInv' /\ Keeps
<1>1. ServerInv /\ BrowserInv /\ TabsInv
  BY DEF ConsoleInv
<1>2. ASSUME GoesOn, UNCHANGED <<storage, cookie, left, tab>>
      PROVE  ConsoleInv' /\ Keeps
  <2>1. TabsInv'
    BY <1>1, <1>2, TabsStay
  <2>2. BrowserInv' /\ Keeps
    BY <1>1, <1>2, BrowserRests
  <2> QED BY <1>2, <2>1, <2>2 DEF ConsoleInv, GoesOn
<1>3. ASSUME NEW t \in Tab, Answer(t)
      PROVE  ConsoleInv' /\ Keeps
  BY <1>3, SessionAnsweredStep, CallAcceptedStep, CallFailsStep, CallUnauthorizedStep,
     RefreshAnsweredStep, RefreshFailsStep DEF Answer
<1>4. ASSUME NEW w \in Caller, Unheard(w)
      PROVE  ConsoleInv' /\ Keeps
  <2>1. GoesOn
    BY <1>1, <1>4, AnswerGoesOn DEF Unheard
  <2> QED BY <1>2, <1>4, <2>1 DEF Unheard, console
<1>5. ASSUME NEW w \in Caller, Serve(w), UNCHANGED <<stale, lapsed, console>>
      PROVE  ConsoleInv' /\ Keeps
  <2>1. GoesOn
    BY <1>1, <1>5, ServeGoesOn
  <2> QED BY <1>2, <1>5, <2>1 DEF console
<1>6. CASE UNCHANGED consoleVars
  <2>1. GoesOn
    BY <1>1, <1>6, ServerRests DEF consoleVars, sessionVars
  <2> QED BY <1>2, <1>6, <2>1 DEF consoleVars
<1> QED BY <1>3, <1>4, <1>5, <1>6, VisitStep, ExpireAccessStep DEF ConsoleNext

(* In the beginning nobody is signed in and nothing is under way.          *)
LEMMA ConsoleInitially == ConsoleInit => ConsoleInv
<1> SUFFICES ASSUME ConsoleInit PROVE ConsoleInv
  OBVIOUS
<1>1. Works(Void)
  BY DEF Void, Works, Served
<1>2. serving = [w \in Caller |-> Void] /\ SessionsInv /\ stale = {} /\ roles[Admin] = "ADMIN"
      /\ 1..minted = {}
  BY SessionsInitially DEF ConsoleInit, SessionsInit
<1>3. ServerInv
  BY <1>1, <1>2 DEF ServerInv, AdminsOnly
<1>4. NoTokens = PairOf(Null) /\ Null \in Issued
  BY DEF NoTokens, PairOf, Issued
<1>5. BrowserInv
  BY <1>4 DEF BrowserInv, ConsoleInit
<1>6. NewTab \in TabState
  BY DEF NewTab, TabState, NoCall, Call, Issued
<1>7. /\ NewTab.worker = Null /\ NewTab.refreshing = Null
      /\ \A s \in Slot : NewTab.call[s] = NoCall
      /\ NoCall.phase = "none" /\ NoCall.kind = "none"
  BY DEF NewTab, NoCall
<1>8. tab = [t \in Tab |-> NewTab]
  BY DEF ConsoleInit
<1> HIDE DEF NewTab
<1>9. tab \in [Tab -> TabState] /\ \A t \in Tab : TabIsServed(t)
  BY <1>6, <1>7, <1>8 DEF TabIsServed, Slot
<1> QED BY <1>3, <1>5, <1>9 DEF ConsoleInv, TabsInv

(* The invariant of the console holds in every state.                      *)
LEMMA ConsoleInvHolds == ConsoleSpec => []ConsoleInv
BY ConsoleInitially, ConsoleStep, PTL DEF ConsoleSpec

(* "A timeout, network failure, or server-side 5xx is not proof that the   *)
(* session is invalid" (getRefreshOnce of the api-client): whatever fails  *)
(* to be answered, in any number of tabs, the browser gives its tokens up  *)
(* only when somebody signed out, or when a tab hears that its refresh is  *)
(* refused, for a token that was exchanged, signed out or has expired.     *)
THEOREM TokensKeptUntilRefused == ConsoleSpec => KeptUntilRefused
<1>1. ConsoleInv /\ [ConsoleNext]_consoleVars =>
        [storage # NoTokens /\ storage' = NoTokens /\ ~left' =>
           \E t \in Tab : TurnedAway(t)]_consoleVars
  BY ConsoleStep DEF Keeps
<1> QED BY <1>1, ConsoleInvHolds, PTL DEF ConsoleSpec, KeptUntilRefused
=============================================================================
