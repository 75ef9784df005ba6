----------------------------- MODULE Payments ------------------------------
(***************************************************************************)
(* payments.service.ts: administrators set the price of oil, create the    *)
(* payments of a week and confirm that they were paid; collections, also   *)
(* of past weeks, keep arriving meanwhile.                                 *)
(*                                                                         *)
(* A request of the server is a sequence of actions: what run and          *)
(* createOilPrice read before they write may be stale by then, and only    *)
(* the unique index on payments.transaction_id and the exclusion           *)
(* constraint on the windows of the prices stand in between.  Amounts are  *)
(* left out: the price and the collection determine them.  So is the       *)
(* refusal of a collection without a mass, as processOne records the mass  *)
(* of each.                                                                *)
(***************************************************************************)
EXTENDS PaymentPeriod, FiniteSets

CONSTANTS
  Transaction,  \* collections
  Price,        \* ids of prices
  Worker,       \* requests the server works on at a time
  Instant,      \* instants of collections and of changes of the price
  None          \* null

Period == {PaymentPeriodFor(t) : t \in Instant}

(* No clock of the system shows a time before 1970.                        *)
ASSUME InstantAssumption == Instant \subseteq Nat
ASSUME NoneAssumption == None \notin Int \cup Price \cup Period
ASSUME TransactionAssumption == IsFiniteSet(Transaction)

VARIABLES
  prices,        \* oil_prices
  transactions,  \* collection_transactions
  payments,      \* payments, by the collection they pay
  request,       \* what each worker is at
  created,       \* payments created, as the RUN_PAYMENT_PERIOD audits count them
  confirmed      \* MARK_PAYMENT_PAID audits of each payment

vars == <<prices, transactions, payments, request, created, confirmed>>
audits == <<created, confirmed>>

-----------------------------------------------------------------------------
(* An absent price has no from; an open one has no to.                     *)
OilPrice == [from : Instant \cup {None}, to : Instant \cup {None}]
NoPrice == [from |-> None, to |-> None]

(* An absent collection has no instant; pass: its quality is PASS.         *)
Collection == [at : Instant \cup {None}, pass : BOOLEAN]
NoCollection == [at |-> None, pass |-> FALSE]

Payment ==
  [status : {"NONE", "PENDING", "PAID"}, price : Price \cup {None}, period : Period \cup {None}]
NoPayment == [status |-> "NONE", price |-> None, period |-> None]

(* snapshot: the price of each collection a run is to pay.                 *)
Request ==
  [phase : {"idle", "reading", "pricing", "marking", "closing"},
   period : Period \cup {None}, paying : SUBSET Transaction,
   snapshot : [Transaction -> Price \cup {None}],
   current : Price \cup {None}, from : Instant \cup {None}]

Idle == [phase |-> "idle", period |-> None, paying |-> {},
         snapshot |-> [t \in Transaction |-> None],
         current |-> None, from |-> None]

At(w, phase) == request[w].phase = phase
Finish(w) == request' = [request EXCEPT ![w] = Idle]

-----------------------------------------------------------------------------
(* Whether a price's window contains an instant.                           *)
Covers(price, t) ==
  /\ price.from # None
  /\ price.from <= t
  /\ price.to = None \/ t < price.to

(* The window of each price is [from, to).                                 *)
Overlap(a, b) ==
  /\ a.from # None /\ b.from # None
  /\ b.to = None \/ a.from < b.to
  /\ a.to = None \/ b.from < a.to

Disjoint_mutant(table) == TRUE

(* oil_prices_effective_range_excl and oil_prices_valid_range.             *)
Disjoint(table) ==
  /\ \A p, q \in Price : p # q => ~Overlap(table[p], table[q])
  /\ \A p \in Price : table[p].to # None => table[p].from < table[p].to

(* The open price: at most one, as the windows are disjoint.               *)
Current == {p \in Price : prices[p].from # None /\ prices[p].to = None}

(* createOilPrice reads the open price, ...                                *)
CreateOilPrice(w, from) ==
  /\ At(w, "idle")
  /\ \E p \in Price : prices[p] = NoPrice
  /\ \E current \in IF Current = {} THEN {None} ELSE Current :
       /\ current # None => prices[current].from < from
       /\ request' = [request EXCEPT ![w] = [Idle EXCEPT !.phase = "closing", !.from = from,
                                                        !.current = current]]
  /\ UNCHANGED <<prices, transactions, payments, audits>>

(* ... closes it, whatever it is by then, and inserts its own; the         *)
(* constraint rolls both back when somebody else was faster.               *)
WithPrice(w, p) ==
  LET r == request[w]
  IN [q \in Price |-> CASE q = p -> [from |-> r.from, to |-> None]
                        [] q = r.current -> [prices[q] EXCEPT !.to = r.from]
                        [] OTHER -> prices[q]]

InsertOilPrice(w) ==
  /\ At(w, "closing")
  /\ \/ \E p \in Price : /\ prices[p] = NoPrice
                         /\ Disjoint(WithPrice(w, p))
                         /\ prices' = WithPrice(w, p)
     \/ UNCHANGED prices
  /\ Finish(w)
  /\ UNCHANGED <<transactions, payments, audits>>

-----------------------------------------------------------------------------
InPeriod_mutant(t, period) ==
  /\ transactions[t].at # None
  /\ From(period) <= transactions[t].at /\ transactions[t].at <= To(period)

InPeriod(t, period) ==
  /\ transactions[t].at # None
  /\ From(period) <= transactions[t].at /\ transactions[t].at < To(period)

(* run reads the collections of the period, ...                            *)
Run(w, period) ==
  /\ At(w, "idle")
  /\ request' = [request EXCEPT ![w] = [Idle EXCEPT
       !.phase = "reading", !.period = period,
       !.paying = {t \in Transaction : InPeriod(t, period) /\ transactions[t].pass}]]
  /\ UNCHANGED <<prices, transactions, payments, audits>>

(* ... then the prices; a collection without a price stops the run.        *)
PriceOf(t) == {p \in Price : Covers(prices[p], transactions[t].at)}

ReadPrices(w) ==
  LET paying == request[w].paying
  IN /\ At(w, "reading")
     /\ \/ /\ \A t \in paying : PriceOf(t) # {}
           /\ request' = [request EXCEPT
                ![w].phase = "pricing",
                ![w].snapshot = [t \in Transaction |->
                   IF t \in paying THEN CHOOSE p \in PriceOf(t) : TRUE ELSE None]]
        \/ /\ \E t \in paying : PriceOf(t) = {}
           /\ Finish(w)
     /\ UNCHANGED <<prices, transactions, payments, audits>>

Unpaid_mutant(w) == request[w].paying

(* ON CONFLICT ("transaction_id") DO NOTHING.                              *)
Unpaid(w) == {t \in request[w].paying : payments[t] = NoPayment}

Counted_mutant(w) == request[w].paying

(* What the run counts as created: the rows RETURNING returned.            *)
Counted(w) == Unpaid(w)

(* One transaction inserts the payments and writes the audit, or fails.    *)
InsertPayments(w) ==
  /\ At(w, "pricing")
  /\ \/ /\ payments' = [t \in Transaction |->
              IF t \in Unpaid(w)
              THEN [status |-> "PENDING", price |-> request[w].snapshot[t],
                    period |-> request[w].period]
              ELSE payments[t]]
        /\ created' = created + Cardinality(Counted(w))
     \/ UNCHANGED <<payments, created>>
  /\ Finish(w)
  /\ UNCHANGED <<prices, transactions, confirmed>>

-----------------------------------------------------------------------------
Unlocked_mutant(t) == TRUE

(* SELECT ... FOR UPDATE waits for the transaction that confirms.          *)
Unlocked(t) == \A w \in Worker : ~(At(w, "marking") /\ request[w].paying = {t})

(* markPaid: only a PENDING payment is confirmed.                          *)
MarkPaid(w, t) ==
  /\ At(w, "idle")
  /\ Unlocked(t)
  /\ payments[t].status = "PENDING"
  /\ request' = [request EXCEPT ![w] = [Idle EXCEPT !.phase = "marking", !.paying = {t}]]
  /\ UNCHANGED <<prices, transactions, payments, audits>>

UpdatePayment(w) ==
  /\ At(w, "marking")
  /\ \/ /\ payments' = [t \in Transaction |-> IF t \in request[w].paying
                                             THEN [payments[t] EXCEPT !.status = "PAID"]
                                             ELSE payments[t]]
        /\ confirmed' = [t \in Transaction |-> IF t \in request[w].paying
                                              THEN confirmed[t] + 1 ELSE confirmed[t]]
     \/ UNCHANGED <<payments, confirmed>>
  /\ Finish(w)
  /\ UNCHANGED <<prices, transactions, created>>

(* processOne records a collection at the instant the collector's device   *)
(* gives, however long ago that is; its quality never changes.             *)
Collect(t, at, pass) ==
  /\ transactions[t] = NoCollection
  /\ transactions' = [transactions EXCEPT ![t] = [at |-> at, pass |-> pass]]
  /\ UNCHANGED <<prices, payments, request, audits>>

-----------------------------------------------------------------------------
Init ==
  /\ prices = [p \in Price |-> NoPrice]
  /\ transactions = [t \in Transaction |-> NoCollection]
  /\ payments = [t \in Transaction |-> NoPayment]
  /\ request = [w \in Worker |-> Idle]
  /\ created = 0
  /\ confirmed = [t \in Transaction |-> 0]

Next ==
  \/ \E w \in Worker :
       \/ \E from \in Instant : CreateOilPrice(w, from)
       \/ InsertOilPrice(w)
       \/ \E period \in Period : Run(w, period)
       \/ ReadPrices(w)
       \/ InsertPayments(w)
       \/ \E t \in Transaction : MarkPaid(w, t)
       \/ UpdatePayment(w)
  \/ \E t \in Transaction, at \in Instant, pass \in BOOLEAN : Collect(t, at, pass)

Spec == Init /\ [][Next]_vars

-----------------------------------------------------------------------------
(* Types; no audit counts more payments than there are collections.        *)
TypeOK ==
  /\ prices \in [Price -> OilPrice]
  /\ transactions \in [Transaction -> Collection]
  /\ payments \in [Transaction -> Payment]
  /\ request \in [Worker -> Request]
  /\ created \in 0..Cardinality(Transaction)
  /\ confirmed \in [Transaction -> Nat]

(* The periods an administrator can run are the weeks of the ISO calendar, *)
(* and every collection, like every hour, falls between the bounds of its  *)
(* own: none is paid in two periods or in none (paymentPeriodFor decides   *)
(* what a period is, paymentPeriodBounds what run pays in it).             *)
PeriodsTile ==
  /\ PeriodsAreWeeks /\ HoursAreBounded
  /\ \A t \in Transaction : transactions[t].at # None => Bounded(transactions[t].at)

(* From the first price on, every instant has exactly one, although each   *)
(* price is inserted by a request that read the open one before, and may   *)
(* be backdated (createOilPrice and the exclusion constraint).             *)
OnePricePerInstant ==
  \A t \in Instant :
    (\E p \in Price : prices[p].from # None /\ prices[p].from <= t) =>
      Cardinality({p \in Price : Covers(prices[p], t)}) = 1

(* Every payment belongs to the period its collection falls in, and was    *)
(* priced by a price that had begun by then; nothing is paid for what      *)
(* failed the quality check (run, over collections and prices it read at   *)
(* different times).                                                       *)
PaymentsArePriced ==
  \A t \in Transaction : payments[t] # NoPayment =>
    /\ payments[t].period = PaymentPeriodFor(transactions[t].at)
    /\ transactions[t].pass
    /\ prices[payments[t].price].from <= transactions[t].at

(* "unique transaction_id giúp chạy lại kỳ mà không nhân đôi": the audits  *)
(* of all runs together count each payment once, and each payment that is  *)
(* PAID was confirmed once (run and markPaid, any number at a time).       *)
AuditsAddUp ==
  /\ created = Cardinality({t \in Transaction : payments[t] # NoPayment})
  /\ \A t \in Transaction : confirmed[t] = IF payments[t].status = "PAID" THEN 1 ELSE 0

(* "Mỗi payment giữ snapshot": no later run or change of the prices alters *)
(* a payment, and none that is PAID becomes PENDING again.                 *)
PaymentIsFinal ==
  [][\A t \in Transaction : payments[t] # NoPayment =>
       /\ payments'[t].price = payments[t].price
       /\ payments'[t].period = payments[t].period
       /\ payments[t].status = "PAID" => payments'[t].status = "PAID"]_vars
-----------------------------------------------------------------------------
(* What the requests rely on, step by step.                                *)

(* The price that is to be closed has begun.                               *)
ClosesAPrice ==
  \A w \in Worker : At(w, "closing") =>
    /\ request[w].from # None
    /\ request[w].current # None => prices[request[w].current].from # None

(* From the first price on, some price covers every instant.               *)
NoGap ==
  \A t \in Instant :
    (\E p \in Price : prices[p].from # None /\ prices[p].from <= t) =>
      \E p \in Price : Covers(prices[p], t)

(* What a run has read of its collections stays true.                      *)
RunsAreInPeriod ==
  \A w \in Worker : \A t \in request[w].paying :
    /\ request[w].phase \in {"reading", "pricing"} =>
         request[w].period # None /\ InPeriod(t, request[w].period) /\ transactions[t].pass
    /\ At(w, "pricing") =>
         /\ request[w].snapshot[t] # None
         /\ prices[request[w].snapshot[t]].from # None
         /\ prices[request[w].snapshot[t]].from <= transactions[t].at

(* A confirmation holds the lock of one pending payment, and holds it      *)
(* alone.                                                                  *)
OneConfirmation ==
  \A w \in Worker : At(w, "marking") =>
    /\ \E t \in Transaction : request[w].paying = {t} /\ payments[t].status = "PENDING"
    /\ \A v \in Worker \ {w} : At(v, "marking") => request[v].paying # request[w].paying

(* A payment is whole.                                                     *)
WholePayments ==
  \A t \in Transaction : payments[t] # NoPayment =>
    /\ payments[t].status # "NONE" /\ payments[t].price # None
    /\ transactions[t].at # None /\ prices[payments[t].price].from # None

PaymentsInv ==
  /\ TypeOK /\ Disjoint(prices) /\ ClosesAPrice /\ NoGap
  /\ RunsAreInPeriod /\ OneConfirmation /\ WholePayments
  /\ PaymentsArePriced /\ AuditsAddUp
=============================================================================
