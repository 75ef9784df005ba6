--------------------------- MODULE OfficeProofs ----------------------------
(***************************************************************************)
(* Theorems of PaymentPeriod and Payments, for every number of             *)
(* collections, prices and requests at a time, and for all instants since  *)
(* 1970; of AnomalyReview, for any collections; of BackOffice, for any     *)
(* registers; and of StationOutlook, for any deliveries.                   *)
(***************************************************************************)
EXTENDS Payments, AnomalyReview, BackOffice, StationOutlook, SumLemmas

(* The day whose year and week name the period of an instant.              *)
Thursday(t) == LET day == Local(t) \div DAY IN day + 4 - IsoDay(day)

(* A day lies in the year from one January 1st to the next ...             *)
LEMMA YearIsUnique ==
  ASSUME NEW a \in Int, NEW b \in Int, NEW day \in Int,
         JanuaryFirst(a) <= day, day < JanuaryFirst(a + 1),
         JanuaryFirst(b) <= day, day < JanuaryFirst(b + 1)
  PROVE  a = b
<1>1. ASSUME NEW c \in Int, NEW d \in Int, c < d PROVE JanuaryFirst(c + 1) <= JanuaryFirst(d)
  BY <1>1, SMTT(60) DEF JanuaryFirst
<1>2. \A y \in Int : JanuaryFirst(y) \in Int
  BY DEF JanuaryFirst
<1>3. ~(a < b)
  BY <1>1, <1>2
<1>4. ~(b < a)
  BY <1>1, <1>2
<1> QED BY <1>3, <1>4

(* ... and is found in it, from 1969 on: 400 years have 146097 days.       *)
LEMMA YearOfDay ==
  ASSUME NEW day \in Int, day >= -365
  PROVE  /\ YearOf(day) \in Int
         /\ JanuaryFirst(YearOf(day)) <= day /\ day < JanuaryFirst(YearOf(day) + 1)
<1> DEFINE guess == 1970 + ((400 * day) \div 146097)
           interval == (1970 + (day \div 366))..(1970 + (day \div 365))
           is(year) == JanuaryFirst(year) <= day /\ day < JanuaryFirst(year + 1)
<1>1. guess \in Int /\ interval \subseteq Int
  OBVIOUS
<1>2. \E year \in interval : is(year)
  <2>1. CASE day < 0
    <3>1. 1969 \in interval
      BY <2>1, SMTT(60)
    <3>2. is(1969)
      BY <2>1, SMTT(60) DEF JanuaryFirst
    <3> QED BY <3>1, <3>2
  <2>2. CASE day >= 0
    <3>1. JanuaryFirst(guess - 1) <= day /\ day < JanuaryFirst(guess + 2)
      BY <2>2, SMTT(60) DEF JanuaryFirst
    <3>2. is(guess - 1) \/ is(guess) \/ is(guess + 1)
      BY <1>1, <3>1, SMTT(60) DEF JanuaryFirst
    <3>3. ASSUME NEW year \in Int, is(year)
          PROVE  year \in interval
      BY <2>2, <3>3, SMTT(60) DEF JanuaryFirst
    <3> QED BY <1>1, <3>2, <3>3
  <2> QED BY <2>1, <2>2
<1> DEFINE year == CHOOSE y \in interval : is(y)
<1>3. year \in interval /\ is(year)
  <2> HIDE DEF is, interval
  <2> QED BY <1>2
<1>4. YearOf(day) = year
  BY DEF YearOf
<1> HIDE DEF year
<1> QED
  BY <1>1, <1>3, <1>4

(* The Thursday of an instant's week, ...                                  *)
LEMMA ThursdayOf ==
  ASSUME NEW t \in Int
  PROVE  /\ Thursday(t) \in Int
         /\ t >= 0 => Thursday(t) >= 0
         /\ Thursday(t) % 7 = 0
         /\ (Thursday(t) - 3) * DAY <= Local(t) /\ Local(t) < (Thursday(t) + 4) * DAY
  BY SMTT(60) DEF Thursday, IsoDay, Local, VIETNAM_OFFSET, DAY

(* ... which has no other.                                                 *)
LEMMA OneThursday ==
  ASSUME NEW t \in Int, NEW thursday \in Int, thursday % 7 = 0,
         (thursday - 3) * DAY <= Local(t), Local(t) < (thursday + 4) * DAY
  PROVE  Thursday(t) = thursday
<1>1. ASSUME NEW a \in Int, NEW b \in Int, NEW l \in Int, a % 7 = 0, b % 7 = 0,
             (a - 3) * 24 <= l, l < (a + 4) * 24, (b - 3) * 24 <= l, l < (b + 4) * 24
      PROVE  a = b
  BY <1>1, SMTT(60)
<1>2. Local(t) \in Int /\ DAY = 24
  BY DEF Local, VIETNAM_OFFSET, DAY
<1>3. Thursday(t) \in Int /\ Thursday(t) % 7 = 0
  BY ThursdayOf
<1>4. (Thursday(t) - 3) * 24 <= Local(t) /\ Local(t) < (Thursday(t) + 4) * 24
  BY <1>2, ThursdayOf
<1>5. (thursday - 3) * 24 <= Local(t) /\ Local(t) < (thursday + 4) * 24
  BY <1>2
<1> HIDE DEF Thursday, Local
<1> QED
  BY <1>1, <1>2, <1>3, <1>4, <1>5

(* It decides the period.                                                  *)
LEMMA PeriodOfThursday ==
  ASSUME NEW t
  PROVE  PaymentPeriodFor(t) =
           [year |-> YearOf(Thursday(t)),
            week |-> (Thursday(t) - JanuaryFirst(YearOf(Thursday(t))) + 1 + 6) \div 7]
  BY DEF PaymentPeriodFor, Thursday

(* The first hour of a period is that of its Monday, in Vietnam.           *)
LEMMA FromMonday ==
  ASSUME NEW t \in Nat
  PROVE  From(PaymentPeriodFor(t)) = (Thursday(t) - 3) * DAY - VIETNAM_OFFSET
<1> DEFINE period == PaymentPeriodFor(t)
           january == JanuaryFirst(YearOf(Thursday(t)))
           fourth == JanuaryFirst(period.year) + 3
           monday == (fourth - (IsoDay(fourth) - 1)) + 7 * (period.week - 1)
<1>1. january \in Int
  <2>1. Thursday(t) \in Int /\ Thursday(t) >= -365
    BY ThursdayOf
  <2>2. YearOf(Thursday(t)) \in Int
    BY <2>1, YearOfDay
  <2> QED BY <2>2 DEF JanuaryFirst
<1>2. Thursday(t) \in Nat /\ Thursday(t) % 7 = 0
  BY ThursdayOf
<1>3. fourth = january + 3 /\ period.week = (Thursday(t) - january + 1 + 6) \div 7
  BY PeriodOfThursday
<1>4. From(period) = monday * DAY - VIETNAM_OFFSET
  BY Zenon DEF From
<1>5. ASSUME NEW j \in Int, NEW k \in Nat, k % 7 = 0, NEW f \in Int, NEW w \in Int,
             f = j + 3, w = (k - j + 1 + 6) \div 7
      PROVE  (f - (IsoDay(f) - 1)) + 7 * (w - 1) = k - 3
  BY <1>5, SMTT(60) DEF IsoDay
<1> HIDE DEF january, period, fourth
<1>6. fourth \in Int /\ period.week \in Int
  BY <1>1, <1>2, <1>3
<1>7. monday = Thursday(t) - 3
  BY <1>1, <1>2, <1>3, <1>5, <1>6
<1> HIDE DEF monday
<1> QED
  BY <1>4, <1>7 DEF period

(* Every instant since 1970 falls between the bounds of the period it      *)
(* belongs to, and none between them belongs to another (paymentPeriodFor  *)
(* and paymentPeriodBounds).                                               *)
THEOREM PeriodsPartitionTime ==
  ASSUME NEW t \in Nat
  PROVE  /\ From(PaymentPeriodFor(t)) <= t /\ t < To(PaymentPeriodFor(t))
         /\ \A s \in Nat : From(PaymentPeriodFor(t)) <= s /\ s < To(PaymentPeriodFor(t))
              => PaymentPeriodFor(s) = PaymentPeriodFor(t)
<1>1. From(PaymentPeriodFor(t)) = (Thursday(t) - 3) * DAY - VIETNAM_OFFSET
  BY FromMonday
<1>2. To(PaymentPeriodFor(t)) = (Thursday(t) + 4) * DAY - VIETNAM_OFFSET
  <2>1. Thursday(t) \in Int
    BY ThursdayOf
  <2>2. To(PaymentPeriodFor(t)) = (Thursday(t) - 3) * DAY - VIETNAM_OFFSET + 7 * DAY
    BY <1>1 DEF To
  <2> QED
    BY <2>1, <2>2 DEF DAY, VIETNAM_OFFSET
<1>3. From(PaymentPeriodFor(t)) <= t /\ t < To(PaymentPeriodFor(t))
  <2>1. (Thursday(t) - 3) * DAY <= Local(t) /\ Local(t) < (Thursday(t) + 4) * DAY
    BY ThursdayOf
  <2>2. (Thursday(t) - 3) * DAY \in Int /\ (Thursday(t) + 4) * DAY \in Int
    BY ThursdayOf DEF DAY
  <2> QED
    BY <1>1, <1>2, <2>1, <2>2 DEF Local, VIETNAM_OFFSET
<1>4. ASSUME NEW s \in Nat, From(PaymentPeriodFor(t)) <= s, s < To(PaymentPeriodFor(t))
      PROVE  PaymentPeriodFor(s) = PaymentPeriodFor(t)
  <2>1. Thursday(s) = Thursday(t)
    <3>1. Thursday(t) \in Int /\ Thursday(t) % 7 = 0
      BY ThursdayOf
    <3>2. (Thursday(t) - 3) * DAY <= Local(s) /\ Local(s) < (Thursday(t) + 4) * DAY
      BY <1>1, <1>2, <1>4, <3>1 DEF Local, DAY, VIETNAM_OFFSET
    <3> QED BY <3>1, <3>2, OneThursday
  <2> QED
    BY <2>1, PeriodOfThursday
<1> QED
  BY <1>3, <1>4

(* So run accepts it.                                                      *)
LEMMA PeriodIsBounded ==
  ASSUME NEW t \in Nat
  PROVE  Bounded(t)
<1> DEFINE period == PaymentPeriodFor(t)
           s == From(period) + VIETNAM_OFFSET
<1>1. Thursday(t) \in Int /\ Thursday(t) % 7 = 0
  BY ThursdayOf
<1>2. From(period) = (Thursday(t) - 3) * DAY - VIETNAM_OFFSET
  BY FromMonday
<1>3. /\ s \in Int
      /\ (Thursday(t) - 3) * DAY <= Local(s) /\ Local(s) < (Thursday(t) + 4) * DAY
  BY <1>1, <1>2 DEF Local, DAY, VIETNAM_OFFSET
<1> HIDE DEF s
<1>4. Thursday(s) = Thursday(t)
  BY <1>1, <1>3, OneThursday
<1>5. PaymentPeriodFor(s) = period
  BY <1>4, PeriodOfThursday
<1> QED
  BY <1>5, PeriodsPartitionTime DEF Bounded, IsPeriod, s

(* The periods of a year that run accepts are the weeks it has.            *)
LEMMA PeriodIsWeek ==
  ASSUME NEW year \in Nat, year >= 1970, NEW week \in 0..99
  PROVE  IsPeriod([year |-> year, week |-> week]) <=> week \in 1..WeeksOf(year)
<1> DEFINE period == [year |-> year, week |-> week]
           first == JanuaryFirst(year)
           next == JanuaryFirst(year + 1)
           wait == (4 - IsoDay(first)) % 7
           thursday == first + wait + 7 * (week - 1)
           s == From(period) + VIETNAM_OFFSET
<1>1. first \in Nat /\ next \in Nat /\ (next - first = 365 \/ next - first = 366)
  BY SMTT(60) DEF JanuaryFirst
<1>2. ASSUME NEW j \in Int
      PROVE  /\ IsoDay(j) \in 1..7 /\ (4 - IsoDay(j)) % 7 \in 0..6
             /\ (j + ((4 - IsoDay(j)) % 7)) % 7 = 0
             /\ (j + 3) - (IsoDay(j + 3) - 1) = j + ((4 - IsoDay(j)) % 7) - 3
  BY SMTT(60) DEF IsoDay
<1>3. From(period) =
        ((first + 3) - (IsoDay(first + 3) - 1) + 7 * (week - 1)) * DAY - VIETNAM_OFFSET
  BY DEF From
<1> DEFINE begins == IsoDay(first)
<1>4. begins \in 1..7 /\ wait = (4 - begins) % 7
  BY <1>1, <1>2
<1>5. WeeksOf(year) = IF begins = 4 \/ (begins = 3 /\ next - first = 366) THEN 53 ELSE 52
  BY DEF WeeksOf
<1>6. /\ wait \in 0..6 /\ (first + wait) % 7 = 0
      /\ (first + 3) - (IsoDay(first + 3) - 1) = first + wait - 3
  <2>1. first \in Int
    BY <1>1
  <2> HIDE DEF first
  <2>2. /\ (4 - IsoDay(first)) % 7 \in 0..6
        /\ (first + ((4 - IsoDay(first)) % 7)) % 7 = 0
        /\ (first + 3) - (IsoDay(first + 3) - 1) = first + ((4 - IsoDay(first)) % 7) - 3
    BY <1>2, <2>1
  <2> QED BY <2>2
<1>7. thursday \in Int /\ thursday >= -365 /\ thursday % 7 = 0
  <2> HIDE DEF first, wait
  <2> QED BY <1>1, <1>6, SMTT(60)
<1>8. s = (thursday - 3) * DAY
  <2> HIDE DEF first, wait, period
  <2>1. From(period) = (thursday - 3) * DAY - VIETNAM_OFFSET
    BY <1>1, <1>3, <1>6
  <2> HIDE DEF thursday
  <2> QED BY <1>7, <2>1 DEF DAY, VIETNAM_OFFSET
<1> HIDE DEF s, begins, wait, first, next
<1>9. Thursday(s) = thursday
  <2> HIDE DEF thursday
  <2>1. s \in Int /\ (thursday - 3) * DAY <= Local(s) /\ Local(s) < (thursday + 4) * DAY
    BY <1>7, <1>8 DEF Local, DAY, VIETNAM_OFFSET
  <2> QED BY <1>7, <2>1, OneThursday
<1>10. PaymentPeriodFor(s) =
         [year |-> YearOf(thursday),
          week |-> (thursday - JanuaryFirst(YearOf(thursday)) + 1 + 6) \div 7]
  BY <1>9, PeriodOfThursday
<1>11. YearOf(thursday) = year <=> first <= thursday /\ thursday < next
  <2> HIDE DEF thursday
  <2> QED BY <1>7, YearOfDay, YearIsUnique DEF first, next
<1>12. (thursday - first + 1 + 6) \div 7 = week
  BY <1>1, <1>6, SMTT(60)
<1>13. IsPeriod(period) <=> YearOf(thursday) = year
  <2> HIDE DEF thursday
  <2> QED BY <1>10, <1>12 DEF IsPeriod, s, first
<1>14. first <= thursday /\ thursday < next <=> week \in 1..WeeksOf(year)
  <2>1. CASE week = 0
    BY <1>1, <1>6, <2>1
  <2>2. CASE week > 0
    <3>1. first <= thursday
      BY <1>1, <1>6, <2>2
    <3>2. thursday < next <=> week <= WeeksOf(year)
      <4>1. thursday < next <=> wait + 7 * (week - 1) < next - first
        BY <1>1, <1>6
      <4>2. CASE next - first = 365
        BY <1>4, <1>5, <4>1, <4>2, SMTT(60)
      <4>3. CASE next - first = 366
        BY <1>4, <1>5, <4>1, <4>3, SMTT(60)
      <4> QED BY <1>1, <4>2, <4>3
    <3>3. WeeksOf(year) \in Nat
      BY <1>5
    <3> QED BY <2>2, <3>1, <3>2, <3>3
  <2> QED BY <2>1, <2>2
<1> QED
  BY <1>11, <1>13, <1>14

(* Every year since 1970 has the periods of the ISO calendar, and every    *)
(* hour since then, on a minute of which a collection may happen, falls    *)
(* into one that is accepted (paymentPeriodBounds).   *)
LEMMA CalendarIsRight == PeriodsAreWeeks /\ HoursAreBounded
<1>1. PeriodsAreWeeks
  <2> DEFINE Right(year, week) ==
        IsPeriod([year |-> year, week |-> week]) <=> week \in 1..WeeksOf(year)
  <2>1. \A year \in Nat : year >= 1970 => \A week \in 0..99 : Right(year, week)
    BY PeriodIsWeek
  <2>2. PeriodsAreWeeks <=> \A year \in Years : \A week \in 0..99 : Right(year, week)
    BY DEF PeriodsAreWeeks
  <2> HIDE DEF Right
  <2> QED BY <2>1, <2>2, CalendarAssumption
<1>2. HoursAreBounded
  <2> SUFFICES ASSUME NEW day \in Days, NEW hour \in 0..(DAY - 1)
               PROVE  Bounded(day * DAY + hour)
    BY DEF HoursAreBounded
  <2>1. day * DAY + hour \in Nat
    BY CalendarAssumption DEF DAY
  <2> QED BY <2>1, PeriodIsBounded
<1> QED BY <1>1, <1>2
-----------------------------------------------------------------------------
(* Two instants of one week have one period.                               *)
LEMMA PeriodFromBounds ==
  ASSUME NEW period \in Period, NEW t \in Instant, From(period) <= t, t < To(period)
  PROVE  PaymentPeriodFor(t) = period
<1>1. PICK s \in Instant : period = PaymentPeriodFor(s)
  BY DEF Period
<1> QED
  BY <1>1, InstantAssumption, PeriodsPartitionTime

(* At the start there is nothing.                                          *)
LEMMA InitPayments == Init => PaymentsInv
<1> SUFFICES ASSUME Init PROVE PaymentsInv
  OBVIOUS
<1> USE NoneAssumption DEF Init
<1>1. {t \in Transaction : payments[t] # NoPayment} = {}
  OBVIOUS
<1>2. AuditsAddUp
  BY <1>1, FS_EmptySet DEF AuditsAddUp, NoPayment
<1>3. TypeOK
  <2>1. created \in 0..Cardinality(Transaction)
    BY TransactionAssumption, FS_CardinalityType
  <2> QED
    BY <2>1 DEF TypeOK, OilPrice, NoPrice, Collection, NoCollection, Payment, NoPayment, Request, Idle
<1>4. Disjoint(prices) /\ ClosesAPrice /\ NoGap
  BY DEF Disjoint, Overlap, ClosesAPrice, NoGap, At, Idle, NoPrice
<1>5. RunsAreInPeriod /\ OneConfirmation
  BY DEF RunsAreInPeriod, OneConfirmation, At, Idle
<1>6. WholePayments /\ PaymentsArePriced
  BY DEF WholePayments, PaymentsArePriced
<1> QED
  BY <1>2, <1>3, <1>4, <1>5, <1>6 DEF PaymentsInv

(* A request that starts to close a price disturbs nothing.                *)
LEMMA CreateOilPriceKeeps ==
  ASSUME PaymentsInv, NEW w \in Worker, NEW from \in Instant, CreateOilPrice(w, from)
  PROVE  PaymentsInv'
<1> USE NoneAssumption, InstantAssumption DEF PaymentsInv, CreateOilPrice, audits, At
<1>1. PICK current \in Price \cup {None} :
         /\ request' = [request EXCEPT ![w] = [Idle EXCEPT !.phase = "closing", !.from = from,
                                                           !.current = current]]
         /\ current # None => prices[current].from # None
  BY DEF Current
<1>u. UNCHANGED <<prices, transactions, payments, created, confirmed>>
  OBVIOUS
<1> HIDE DEF CreateOilPrice
<1>2. TypeOK'
  <2>1. [Idle EXCEPT !.phase = "closing", !.from = from, !.current = current] \in Request
    BY DEF Request, Idle
  <2>2. request' \in [Worker -> Request]
    BY <1>1, <2>1 DEF TypeOK
  <2> QED
    BY <1>u, <2>2 DEF TypeOK
<1>3. ClosesAPrice'
  BY <1>1, <1>u DEF ClosesAPrice, TypeOK, Idle
<1>4. RunsAreInPeriod'
  BY <1>1, <1>u DEF RunsAreInPeriod, InPeriod, TypeOK, Idle
<1>5. OneConfirmation'
  BY <1>1, <1>u DEF OneConfirmation, TypeOK, Idle
<1>6. Disjoint(prices)' /\ NoGap'
  BY <1>u DEF Disjoint, NoGap
<1>7. WholePayments' /\ PaymentsArePriced' /\ AuditsAddUp'
  BY <1>u DEF WholePayments, PaymentsArePriced, AuditsAddUp
<1> QED
  BY <1>2, <1>3, <1>4, <1>5, <1>6, <1>7

(* A price that has begun keeps its beginning.                             *)
LEMMA BeginningsStay ==
  ASSUME PaymentsInv, NEW w \in Worker, At(w, "closing"), NEW p \in Price, prices[p] = NoPrice,
         prices' = WithPrice(w, p)
  PROVE  /\ prices' \in [Price -> OilPrice]
         /\ request[w].current # p
         /\ \A q \in Price : prices[q].from # None =>
              prices'[q].from = prices[q].from /\ q # p
         /\ prices'[p] = [from |-> request[w].from, to |-> None]
         /\ \A q \in Price \ {p} :
              \/ prices'[q] = prices[q]
              \/ q = request[w].current /\ prices'[q] = [prices[q] EXCEPT !.to = request[w].from]
  BY NoneAssumption
  DEF PaymentsInv, TypeOK, ClosesAPrice, WithPrice, OilPrice, NoPrice, Request

(* A new price leaves no gap: it begins where it closes another.           *)
LEMMA InsertOilPriceKeeps ==
  ASSUME PaymentsInv, NEW w \in Worker, InsertOilPrice(w)
  PROVE  PaymentsInv'
<1> USE NoneAssumption, InstantAssumption DEF PaymentsInv, InsertOilPrice, audits, At, Finish
<1>1. prices' \in [Price -> OilPrice] /\ request' = [request EXCEPT ![w] = Idle]
  BY BeginningsStay DEF TypeOK
<1>2. \A q \in Price : prices[q].from # None => prices'[q].from = prices[q].from
  BY BeginningsStay
<1>3. TypeOK'
  BY <1>1 DEF TypeOK, Request, Idle
<1>4. Disjoint(prices')
  OBVIOUS
<1>5. NoGap'
  <2>1. ASSUME NEW p \in Price, prices[p] = NoPrice, prices' = WithPrice(w, p),
               NEW t \in Instant, NEW q \in Price, prices'[q].from # None, prices'[q].from <= t
        PROVE  \E r \in Price : Covers(prices'[r], t)
    <3>1. request[w].from \in Instant
      BY DEF ClosesAPrice, TypeOK, Request
    <3>a. /\ prices'[p] = [from |-> request[w].from, to |-> None]
          /\ \A z \in Price \ {p} :
               \/ prices'[z] = prices[z]
               \/ prices'[z] = [prices[z] EXCEPT !.to = request[w].from]
      BY <2>1, BeginningsStay
    <3>2. CASE request[w].from <= t
      BY <3>1, <3>2, <3>a DEF Covers
    <3>3. CASE ~(request[w].from <= t)
      <4>1. q # p
        BY <2>1, <3>3, <3>a
      <4>2. prices[q].from # None /\ prices[q].from <= t
        BY <2>1, <4>1, <3>a DEF TypeOK, OilPrice
      <4>3. PICK r \in Price : Covers(prices[r], t)
        BY <4>2 DEF NoGap
      <4>4. r # p
        BY <2>1, <4>3 DEF Covers, NoPrice
      <4>5. CASE prices'[r] = prices[r]
        BY <4>3, <4>5
      <4>6. CASE prices'[r] = [prices[r] EXCEPT !.to = request[w].from]
        BY <3>1, <3>3, <4>3, <4>6 DEF Covers, TypeOK, OilPrice
      <4> QED
        BY <3>a, <4>4, <4>5, <4>6
    <3> QED
      BY <3>2, <3>3
  <2> QED
    BY <2>1 DEF NoGap
<1>6. ClosesAPrice'
  BY <1>1, <1>2 DEF ClosesAPrice, TypeOK, Request, Idle
<1>7. RunsAreInPeriod'
  BY <1>1, <1>2 DEF RunsAreInPeriod, InPeriod, TypeOK, Request, Idle
<1>8. OneConfirmation'
  BY <1>1 DEF OneConfirmation, TypeOK, Idle
<1>9. WholePayments' /\ PaymentsArePriced'
  BY <1>2 DEF WholePayments, PaymentsArePriced, TypeOK, Payment
<1>10. AuditsAddUp'
  BY DEF AuditsAddUp
<1> QED
  BY <1>3, <1>4, <1>5, <1>6, <1>7, <1>8, <1>9, <1>10

(* A run takes what lies in its period and passed.                         *)
LEMMA RunKeeps ==
  ASSUME PaymentsInv, NEW w \in Worker, NEW period \in Period, Run(w, period)
  PROVE  PaymentsInv'
<1> USE NoneAssumption DEF PaymentsInv, Run, audits, At
<1> DEFINE paying == {t \in Transaction : InPeriod(t, period) /\ transactions[t].pass}
<1>1. [Idle EXCEPT !.phase = "reading", !.period = period, !.paying = paying] \in Request
  BY DEF Request, Idle
<1>2. request' \in [Worker -> Request]
  BY <1>1 DEF TypeOK
<1>3. TypeOK'
  BY <1>2 DEF TypeOK
<1>4. ClosesAPrice'
  BY DEF ClosesAPrice, TypeOK, Idle
<1>5. RunsAreInPeriod'
  <2>1. /\ request'[w].phase = "reading" /\ request'[w].period = period
        /\ request'[w].paying = paying
    BY DEF TypeOK, Idle
  <2>2. \A v \in Worker \ {w} : request'[v] = request[v]
    BY DEF TypeOK
  <2> QED
    BY <2>1, <2>2 DEF RunsAreInPeriod, InPeriod
<1>6. OneConfirmation'
  BY DEF OneConfirmation, TypeOK, Idle
<1>7. Disjoint(prices)' /\ NoGap'
  BY DEF Disjoint, NoGap
<1>8. WholePayments' /\ PaymentsArePriced' /\ AuditsAddUp'
  BY DEF WholePayments, PaymentsArePriced, AuditsAddUp
<1> QED
  BY <1>3, <1>4, <1>5, <1>6, <1>7, <1>8

(* A run goes on only with a price for everything it is to pay.            *)
LEMMA ReadPricesKeeps ==
  ASSUME PaymentsInv, NEW w \in Worker, ReadPrices(w)
  PROVE  PaymentsInv'
<1> USE NoneAssumption DEF PaymentsInv, ReadPrices, audits, At, Finish
<1> DEFINE paying == request[w].paying
           snapshot == [t \in Transaction |->
                          IF t \in paying THEN CHOOSE p \in PriceOf(t) : TRUE ELSE None]
<1>1. CASE /\ \A t \in paying : PriceOf(t) # {}
           /\ request' = [request EXCEPT ![w].phase = "pricing", ![w].snapshot = snapshot]
  <2>1. \A t \in paying : snapshot[t] \in PriceOf(t)
    BY <1>1 DEF TypeOK, Request
  <2>2. snapshot \in [Transaction -> Price \cup {None}]
    BY <2>1 DEF PriceOf
  <2> HIDE DEF snapshot
  <2>a. \A r \in Request : [r EXCEPT !.phase = "pricing", !.snapshot = snapshot] \in Request
    BY <2>2 DEF Request
  <2>3. request' \in [Worker -> Request]
    BY <1>1, <2>a DEF TypeOK
  <2>4. /\ request'[w].phase = "pricing" /\ request'[w].paying = paying
        /\ request'[w].snapshot = snapshot /\ request'[w].period = request[w].period
        /\ \A v \in Worker \ {w} : request'[v] = request[v]
    BY <1>1 DEF TypeOK, Request
  <2>5. TypeOK'
    BY <2>3 DEF TypeOK
  <2>6. ClosesAPrice' /\ OneConfirmation'
    BY <2>4 DEF ClosesAPrice, OneConfirmation
  <2>7. RunsAreInPeriod'
    <3>1. ASSUME NEW t \in paying
          PROVE  /\ request[w].period # None /\ InPeriod(t, request[w].period)
                 /\ transactions[t].pass
                 /\ snapshot[t] # None /\ prices[snapshot[t]].from # None
                 /\ prices[snapshot[t]].from <= transactions[t].at
      BY <2>1 DEF RunsAreInPeriod, PriceOf, Covers
    <3> QED
      BY <2>4, <3>1 DEF RunsAreInPeriod, InPeriod
  <2> QED
    BY <2>5, <2>6, <2>7
    DEF Disjoint, NoGap, WholePayments, PaymentsArePriced, AuditsAddUp
<1>2. CASE request' = [request EXCEPT ![w] = Idle]
  <2>1. TypeOK'
    BY <1>2 DEF TypeOK, Request, Idle
  <2>2. ClosesAPrice' /\ OneConfirmation' /\ RunsAreInPeriod'
    BY <1>2 DEF ClosesAPrice, OneConfirmation, RunsAreInPeriod, InPeriod, TypeOK, Idle
  <2> QED
    BY <2>1, <2>2 DEF Disjoint, NoGap, WholePayments, PaymentsArePriced, AuditsAddUp
<1> QED
  BY <1>1, <1>2

(* The lock on a pending payment is taken by one request at a time.        *)
LEMMA MarkPaidKeeps ==
  ASSUME PaymentsInv, NEW w \in Worker, NEW t \in Transaction, MarkPaid(w, t)
  PROVE  PaymentsInv'
<1> USE NoneAssumption DEF PaymentsInv, MarkPaid, audits, At
<1>1. [Idle EXCEPT !.phase = "marking", !.paying = {t}] \in Request
  BY DEF Request, Idle
<1>2. request' \in [Worker -> Request]
  BY <1>1 DEF TypeOK
<1>3. TypeOK'
  BY <1>2 DEF TypeOK
<1>4. /\ request'[w].phase = "marking" /\ request'[w].paying = {t}
      /\ \A v \in Worker \ {w} : request'[v] = request[v]
  BY DEF TypeOK, Idle
<1>5. ClosesAPrice' /\ RunsAreInPeriod'
  BY <1>4 DEF ClosesAPrice, RunsAreInPeriod, InPeriod
<1>6. OneConfirmation'
  BY <1>4 DEF OneConfirmation, Unlocked
<1> QED
  BY <1>3, <1>5, <1>6 DEF Disjoint, NoGap, WholePayments, PaymentsArePriced, AuditsAddUp

(* The audits count what the index on transaction_id let in.               *)
LEMMA InsertPaymentsKeeps ==
  ASSUME PaymentsInv, NEW w \in Worker, InsertPayments(w)
  PROVE  PaymentsInv'
<1> USE NoneAssumption DEF PaymentsInv, At
<1> DEFINE Paid == {t \in Transaction : payments[t] # NoPayment}
           new(t) == [status |-> "PENDING", price |-> request[w].snapshot[t],
                      period |-> request[w].period]
<1>1. /\ UNCHANGED <<prices, transactions, confirmed>>
      /\ At(w, "pricing") /\ request' = [request EXCEPT ![w] = Idle]
  BY DEF InsertPayments, Finish
<1>2. request' \in [Worker -> Request]
  <2>1. Idle \in Request
    BY DEF Request, Idle
  <2> QED
    BY <1>1, <2>1 DEF TypeOK
<1>3. Disjoint(prices)' /\ NoGap' /\ ClosesAPrice' /\ RunsAreInPeriod'
  BY <1>1 DEF Disjoint, NoGap, ClosesAPrice, RunsAreInPeriod, InPeriod, TypeOK, Idle
<1>4. CASE UNCHANGED <<payments, created>>
  <2>1. TypeOK'
    BY <1>1, <1>2, <1>4 DEF TypeOK
  <2>2. OneConfirmation'
    BY <1>1, <1>4 DEF OneConfirmation, TypeOK, Idle
  <2> QED
    BY <1>1, <1>3, <1>4, <2>1, <2>2 DEF WholePayments, PaymentsArePriced, AuditsAddUp
<1>5. CASE /\ payments' = [t \in Transaction |-> IF t \in Unpaid(w) THEN new(t) ELSE payments[t]]
           /\ created' = created + Cardinality(Unpaid(w))
  <2>1. \A t \in Unpaid(w) :
          /\ t \in Transaction /\ payments[t] = NoPayment
          /\ new(t) \in Payment /\ new(t).period = PaymentPeriodFor(transactions[t].at)
          /\ transactions[t].pass /\ transactions[t].at # None
          /\ new(t).price # None /\ prices[new(t).price].from # None
          /\ prices[new(t).price].from <= transactions[t].at
    <3> TAKE t \in Unpaid(w)
    <3>1. t \in request[w].paying /\ t \in Transaction /\ payments[t] = NoPayment
      BY DEF Unpaid, TypeOK, Request
    <3>2. /\ request[w].period # None /\ InPeriod(t, request[w].period) /\ transactions[t].pass
          /\ request[w].snapshot[t] # None
          /\ prices[request[w].snapshot[t]].from # None
          /\ prices[request[w].snapshot[t]].from <= transactions[t].at
      BY <1>1, <3>1 DEF RunsAreInPeriod
    <3>3. request[w].period \in Period /\ request[w].snapshot[t] \in Price
      BY <3>1, <3>2 DEF TypeOK, Request
    <3>4. transactions[t].at \in Instant
      BY <3>1, <3>2 DEF InPeriod, TypeOK, Collection
    <3>5. PaymentPeriodFor(transactions[t].at) = request[w].period
      BY <3>2, <3>3, <3>4, PeriodFromBounds DEF InPeriod
    <3>6. new(t) \in Payment
      BY <3>3 DEF Payment
    <3>7. new(t).period = request[w].period /\ new(t).price = request[w].snapshot[t]
      OBVIOUS
    <3> HIDE DEF new
    <3> QED
      BY <3>1, <3>2, <3>4, <3>5, <3>6, <3>7 DEF InPeriod
  <2>2. /\ \A t \in Unpaid(w) : payments'[t] = new(t)
        /\ \A t \in Transaction \ Unpaid(w) : payments'[t] = payments[t]
    BY <1>5, <2>1
  <2>3. payments' \in [Transaction -> Payment]
    BY <1>5, <2>1 DEF TypeOK
  <2>4. \A t \in Unpaid(w) : new(t) # NoPayment /\ new(t).status = "PENDING"
    BY DEF NoPayment
  <2> HIDE DEF new
  <2>5. {t \in Transaction : payments'[t] # NoPayment} = Paid \cup Unpaid(w)
    BY <2>1, <2>2, <2>4
  <2>6. IsFiniteSet(Paid) /\ IsFiniteSet(Unpaid(w)) /\ Paid \cap Unpaid(w) = {}
    BY <2>1, TransactionAssumption, FS_Subset
  <2>7. Cardinality(Paid \cup Unpaid(w)) = Cardinality(Paid) + Cardinality(Unpaid(w))
    <3>1. Cardinality(Paid \cap Unpaid(w)) = 0
      BY <2>6, FS_EmptySet
    <3>2. Cardinality(Paid) \in Nat /\ Cardinality(Unpaid(w)) \in Nat
      BY <2>6, FS_CardinalityType
    <3>3. Cardinality(Paid \cup Unpaid(w)) =
            Cardinality(Paid) + Cardinality(Unpaid(w)) - Cardinality(Paid \cap Unpaid(w))
      BY <2>6, FS_Union, Zenon
    <3> QED
      BY <3>1, <3>2, <3>3
  <2>8. created' = Cardinality({t \in Transaction : payments'[t] # NoPayment})
    BY <1>5, <2>5, <2>7 DEF AuditsAddUp
  <2>9. AuditsAddUp'
    <3>1. \A t \in Transaction : payments'[t].status = "PAID" <=> payments[t].status = "PAID"
      BY <2>1, <2>2, <2>4 DEF NoPayment
    <3> QED
      BY <1>1, <2>8, <3>1 DEF AuditsAddUp
  <2>10. TypeOK'
    <3>1. created' \in 0..Cardinality(Transaction)
      <4>1. {t \in Transaction : payments'[t] # NoPayment} \subseteq Transaction
        OBVIOUS
      <4> QED
        BY <2>8, <4>1, TransactionAssumption, FS_Subset, FS_CardinalityType
    <3> QED
      BY <1>1, <1>2, <2>3, <3>1 DEF TypeOK
  <2>11. OneConfirmation'
    <3>1. \A v \in Worker : At(v, "marking")' => At(v, "marking") /\ request'[v] = request[v]
      BY <1>1 DEF TypeOK, Idle
    <3>2. \A t \in Transaction : payments[t].status = "PENDING" => payments'[t].status = "PENDING"
      BY <2>1, <2>2, <2>4
    <3> QED
      BY <3>1, <3>2 DEF OneConfirmation
  <2>12. WholePayments' /\ PaymentsArePriced'
    <3>1. \A t \in Unpaid(w) : payments'[t].status = "PENDING"
      BY <2>2, <2>4
    <3> QED
      BY <1>1, <2>1, <2>2, <3>1 DEF WholePayments, PaymentsArePriced
  <2> QED
    BY <1>3, <2>9, <2>10, <2>11, <2>12
<1> QED
  BY <1>4, <1>5 DEF InsertPayments, Counted

(* A confirmation is counted once, for the payment it locked.              *)
LEMMA UpdatePaymentKeeps ==
  ASSUME PaymentsInv, NEW w \in Worker, UpdatePayment(w)
  PROVE  PaymentsInv'
<1> USE NoneAssumption DEF PaymentsInv, At
<1>1. /\ UNCHANGED <<prices, transactions, created>>
      /\ At(w, "marking") /\ request' = [request EXCEPT ![w] = Idle]
  BY DEF UpdatePayment, Finish
<1>2. request' \in [Worker -> Request]
  <2>1. Idle \in Request
    BY DEF Request, Idle
  <2> QED
    BY <1>1, <2>1 DEF TypeOK
<1>3. Disjoint(prices)' /\ NoGap' /\ ClosesAPrice' /\ RunsAreInPeriod'
  BY <1>1 DEF Disjoint, NoGap, ClosesAPrice, RunsAreInPeriod, InPeriod, TypeOK, Idle
<1>4. CASE UNCHANGED <<payments, confirmed>>
  <2>1. TypeOK'
    BY <1>1, <1>2, <1>4 DEF TypeOK
  <2>2. OneConfirmation'
    BY <1>1, <1>4 DEF OneConfirmation, TypeOK, Idle
  <2> QED
    BY <1>1, <1>3, <1>4, <2>1, <2>2 DEF WholePayments, PaymentsArePriced, AuditsAddUp
<1>5. CASE /\ payments' = [t \in Transaction |-> IF t \in request[w].paying
                                                THEN [payments[t] EXCEPT !.status = "PAID"]
                                                ELSE payments[t]]
           /\ confirmed' = [t \in Transaction |-> IF t \in request[w].paying
                                                 THEN confirmed[t] + 1 ELSE confirmed[t]]
  <2>1. PICK t \in Transaction : request[w].paying = {t} /\ payments[t].status = "PENDING"
    BY <1>1 DEF OneConfirmation
  <2>2. /\ payments'[t] = [payments[t] EXCEPT !.status = "PAID"]
        /\ confirmed'[t] = confirmed[t] + 1
        /\ \A s \in Transaction \ {t} :
             payments'[s] = payments[s] /\ confirmed'[s] = confirmed[s]
    BY <1>5, <2>1
  <2>3. payments[t] \in Payment /\ payments[t] # NoPayment
    BY <2>1 DEF TypeOK, NoPayment
  <2>4. /\ payments'[t] \in Payment /\ payments'[t].status = "PAID"
        /\ payments'[t].price = payments[t].price /\ payments'[t].period = payments[t].period
        /\ payments'[t] # NoPayment
    BY <2>2, <2>3 DEF Payment, NoPayment
  <2>5. TypeOK'
    <3>1. payments' \in [Transaction -> Payment]
      BY <1>5, <2>2, <2>4 DEF TypeOK
    <3>2. confirmed' \in [Transaction -> Nat]
      BY <1>5 DEF TypeOK
    <3> QED
      BY <1>1, <1>2, <3>1, <3>2 DEF TypeOK
  <2>6. AuditsAddUp'
    <3>1. {s \in Transaction : payments'[s] # NoPayment} = {s \in Transaction : payments[s] # NoPayment}
      BY <2>2, <2>3, <2>4
    <3>2. confirmed'[t] = 1
      BY <2>1, <2>2 DEF AuditsAddUp
    <3>3. \A s \in Transaction : confirmed'[s] = IF payments'[s].status = "PAID" THEN 1 ELSE 0
      BY <2>2, <2>4, <3>2 DEF AuditsAddUp
    <3> QED
      BY <1>1, <3>1, <3>3 DEF AuditsAddUp
  <2>7. OneConfirmation'
    <3>1. \A v \in Worker : At(v, "marking")' =>
            v # w /\ At(v, "marking") /\ request'[v] = request[v]
      BY <1>1 DEF TypeOK, Idle
    <3>2. \A v \in Worker \ {w} : At(v, "marking") => request[v].paying # {t}
      BY <1>1, <2>1 DEF OneConfirmation
    <3> QED
      BY <2>2, <3>1, <3>2 DEF OneConfirmation
  <2>8. WholePayments' /\ PaymentsArePriced'
    <3>1. ASSUME NEW s \in Transaction, payments'[s] # NoPayment
          PROVE  /\ payments[s] # NoPayment
                 /\ payments'[s].price = payments[s].price
                 /\ payments'[s].period = payments[s].period
                 /\ payments'[s].status \in {"PAID", payments[s].status}
      BY <2>2, <2>3, <2>4, <3>1
    <3>2. WholePayments'
      BY <1>1, <3>1 DEF WholePayments
    <3>3. PaymentsArePriced'
      BY <1>1, <3>1 DEF PaymentsArePriced
    <3> QED
      BY <3>2, <3>3
  <2> QED
    BY <1>3, <2>5, <2>6, <2>7, <2>8
<1> QED
  BY <1>4, <1>5 DEF UpdatePayment

(* A collection that arrives is none a run has read, or pays for.          *)
LEMMA CollectKeeps ==
  ASSUME PaymentsInv, NEW t \in Transaction, NEW at \in Instant, NEW pass \in BOOLEAN,
         Collect(t, at, pass)
  PROVE  PaymentsInv'
<1> USE NoneAssumption DEF PaymentsInv, Collect, audits, At
<1>1. transactions' \in [Transaction -> Collection]
  BY DEF TypeOK, Collection
<1>2. TypeOK'
  BY <1>1 DEF TypeOK
<1>3. \A s \in Transaction : transactions[s].at # None => transactions'[s] = transactions[s]
  BY DEF TypeOK, NoCollection
<1>4. RunsAreInPeriod'
  <2>1. \A v \in Worker : request[v].paying \subseteq Transaction
    BY DEF TypeOK, Request
  <2>2. \A v \in Worker : \A s \in request[v].paying :
          request[v].phase \in {"reading", "pricing"} => transactions'[s] = transactions[s]
    BY <1>3, <2>1 DEF RunsAreInPeriod, InPeriod
  <2> QED
    BY <2>2 DEF RunsAreInPeriod, InPeriod
<1>5. WholePayments' /\ PaymentsArePriced'
  BY <1>3 DEF WholePayments, PaymentsArePriced
<1> QED
  BY <1>2, <1>4, <1>5 DEF Disjoint, NoGap, ClosesAPrice, OneConfirmation, AuditsAddUp

-----------------------------------------------------------------------------
(* Every step keeps what the requests rely on.                             *)
LEMMA NextPayments == PaymentsInv /\ [Next]_vars => PaymentsInv'
<1> SUFFICES ASSUME PaymentsInv, [Next]_vars PROVE PaymentsInv'
  OBVIOUS
<1>1. CASE UNCHANGED vars
  BY <1>1
  DEF vars, PaymentsInv, TypeOK, Disjoint, ClosesAPrice, NoGap, RunsAreInPeriod, InPeriod,
      OneConfirmation, WholePayments, PaymentsArePriced, AuditsAddUp, At
<1> QED
  BY <1>1, CreateOilPriceKeeps, InsertOilPriceKeeps, RunKeeps, ReadPricesKeeps,
     InsertPaymentsKeeps, MarkPaidKeeps, UpdatePaymentKeeps, CollectKeeps
  DEF Next

(* Every table and request keeps its shape, and no audit counts more       *)
(* payments than there are collections, for any numbers of them.           *)
THEOREM PaymentsTypeCorrect == Spec => []TypeOK
<1>1. PaymentsInv => TypeOK
  BY DEF PaymentsInv
<1> QED
  BY <1>1, InitPayments, NextPayments, PTL DEF Spec

(* Every collection falls between the bounds of its own period, and the    *)
(* periods run accepts are the weeks of every year since 1970.             *)
THEOREM PeriodsTileTime == Spec => []PeriodsTile
<1>1. TypeOK => PeriodsTile
  <2> SUFFICES ASSUME TypeOK, NEW t \in Transaction, transactions[t].at # None
               PROVE  Bounded(transactions[t].at)
    BY CalendarIsRight DEF PeriodsTile
  <2>1. transactions[t].at \in Nat
    BY InstantAssumption DEF TypeOK, Collection
  <2> QED BY <2>1, PeriodIsBounded
<1> QED
  BY <1>1, PaymentsTypeCorrect, PTL

(* However many administrators change prices at once, one price covers     *)
(* each instant after the first (createOilPrice and the exclusion          *)
(* constraint).                                                            *)
THEOREM InstantsHaveOnePrice == Spec => []OnePricePerInstant
<1>1. PaymentsInv => OnePricePerInstant
  <2> SUFFICES ASSUME PaymentsInv, NEW t \in Instant,
                      \E p \in Price : prices[p].from # None /\ prices[p].from <= t
               PROVE  Cardinality({p \in Price : Covers(prices[p], t)}) = 1
    BY DEF OnePricePerInstant
  <2>1. PICK p \in Price : Covers(prices[p], t)
    BY DEF PaymentsInv, NoGap
  <2>2. ASSUME NEW q \in Price, Covers(prices[q], t), q # p
        PROVE  FALSE
    <3>1. prices[p] \in OilPrice /\ prices[q] \in OilPrice
      BY DEF PaymentsInv, TypeOK
    <3>2. Overlap(prices[p], prices[q])
      BY <2>1, <2>2, <3>1, InstantAssumption, NoneAssumption DEF Covers, Overlap, OilPrice
    <3> QED
      BY <2>2, <3>2 DEF PaymentsInv, Disjoint
  <2>3. {r \in Price : Covers(prices[r], t)} = {p}
    BY <2>1, <2>2
  <2> QED
    BY <2>3, FS_Singleton
<1> QED
  BY <1>1, InitPayments, NextPayments, PTL DEF Spec

(* Every payment is in the period of its collection, whenever its run read *)
(* it (run).                                                               *)
THEOREM PaymentsAreInPeriod == Spec => []PaymentsArePriced
<1>1. PaymentsInv => PaymentsArePriced
  BY DEF PaymentsInv
<1> QED
  BY <1>1, InitPayments, NextPayments, PTL DEF Spec

(* Each payment is counted by one run and confirmed once, whatever is      *)
(* repeated or runs at the same time (run and markPaid).                   *)
THEOREM AuditsMatchPayments == Spec => []AuditsAddUp
<1>1. PaymentsInv => AuditsAddUp
  BY DEF PaymentsInv
<1> QED
  BY <1>1, InitPayments, NextPayments, PTL DEF Spec

(* A payment keeps its price and period, and stays paid.                   *)
THEOREM PaymentsAreFinal == Spec => PaymentIsFinal
<1>1. ASSUME PaymentsInv, [Next]_vars, NEW t \in Transaction, payments[t] # NoPayment
      PROVE  /\ payments'[t].price = payments[t].price
             /\ payments'[t].period = payments[t].period
             /\ payments[t].status = "PAID" => payments'[t].status = "PAID"
  <2>1. ASSUME NEW w \in Worker, InsertPayments(w)
        PROVE  payments'[t] = payments[t]
    BY <1>1, <2>1 DEF InsertPayments, Unpaid
  <2>2. ASSUME NEW w \in Worker, UpdatePayment(w)
        PROVE  \/ payments'[t] = payments[t]
               \/ payments'[t] = [payments[t] EXCEPT !.status = "PAID"]
    BY <1>1, <2>2 DEF UpdatePayment
  <2>3. CASE \/ \E w \in Worker :
                  \/ \E from \in Instant : CreateOilPrice(w, from)
                  \/ InsertOilPrice(w)
                  \/ \E period \in Period : Run(w, period)
                  \/ ReadPrices(w)
                  \/ \E s \in Transaction : MarkPaid(w, s)
             \/ \E s \in Transaction, at \in Instant, pass \in BOOLEAN : Collect(s, at, pass)
             \/ UNCHANGED vars
    BY <2>3 DEF CreateOilPrice, InsertOilPrice, Run, ReadPrices, MarkPaid, Collect, vars
  <2>4. payments[t] \in Payment
    BY <1>1 DEF PaymentsInv, TypeOK
  <2> QED
    BY <1>1, <2>1, <2>2, <2>3, <2>4 DEF Next, Payment
<1>2. ASSUME PaymentsInv, [Next]_vars
      PROVE  [\A t \in Transaction : payments[t] # NoPayment =>
                /\ payments'[t].price = payments[t].price
                /\ payments'[t].period = payments[t].period
                /\ payments[t].status = "PAID" => payments'[t].status = "PAID"]_vars
  BY <1>1, <1>2
<1> QED
  BY <1>2, InitPayments, NextPayments, PTL DEF Spec, PaymentIsFinal

-----------------------------------------------------------------------------
(* A verdict is about a collection that is recorded.                       *)
ReviewInv ==
  /\ DOMAIN feedback \subseteq recorded
  /\ scored # Nothing => scored.of \in recorded

(* The invariant of the reviews holds in every state.                      *)
LEMMA ReviewInvHolds == ReviewSpec => []ReviewInv
<1>1. ReviewInit => ReviewInv
  BY DEF ReviewInit, ReviewInv
<1>2. ReviewInv /\ [ReviewNext]_reviewVars => ReviewInv'
  <2> SUFFICES ASSUME ReviewInv, [ReviewNext]_reviewVars PROVE ReviewInv'
    OBVIOUS
  <2> USE DEF ReviewInv
  <2>1. CASE RecordCollection
    BY <2>1 DEF RecordCollection
  <2>2. CASE ScoreForFeedback
    BY <2>2 DEF ScoreForFeedback
  <2>3. CASE UpsertFeedback
    BY <2>3 DEF UpsertFeedback
  <2>4. CASE UNCHANGED reviewVars
    BY <2>4 DEF reviewVars
  <2> QED
    BY <2>1, <2>2, <2>3, <2>4 DEF ReviewNext
<1> QED
  BY <1>1, <1>2, PTL DEF ReviewSpec

(* A collection scored with all the others is compared with what it is     *)
(* compared with alone: the earlier ones of its merchant.                  *)
LEMMA BatchDoesNotMatter ==
  ASSUME NEW batch, NEW t \in batch
  PROVE  History(t, batch) = {h \in recorded : h.merchant = t.merchant /\ h.at < t.at}
BY DEF History, Loaded

(* The score a verdict was given on is the one the console lists, until an *)
(* earlier collection of the merchant is recorded: updateAiAnomalyFeedback *)
(* scores one transaction, listAiAnomalies all at once.                    *)
THEOREM VerdictsKeepTheirScore == ReviewSpec => []SnapshotStands
<1>1. ReviewInv => SnapshotStands
  <2> SUFFICES ASSUME ReviewInv, NEW t \in DOMAIN feedback,
                      {h \in recorded : h.merchant = t.merchant /\ h.at < t.at} = feedback[t].history
               PROVE  RiskScoreSnapshot(t) = Score(t)
    BY DEF SnapshotStands
  <2>1. t \in recorded
    BY DEF ReviewInv
  <2>2. History(t, recorded) = feedback[t].history
    BY <2>1, BatchDoesNotMatter
  <2> QED
    BY <2>2 DEF RiskScoreSnapshot, Score
<1> QED
  BY <1>1, ReviewInvHolds, PTL

-----------------------------------------------------------------------------
(* The numbers on the labels, registered or about to be, have a bound; and *)
(* a label that was made up is none of those it was made up from, as long  *)
(* as their numbers are precise.                                           *)
Sound(registration) ==
  /\ registration.label.number \in Nat
  /\ registration.rows # Nil => \/ registration.label \notin registration.rows
                                \/ \E q \in registration.rows : q.number >= Precise

LabelsInv ==
  /\ DOMAIN desk = Desk
  /\ \A q \in DOMAIN labels : q.number \in Nat
  /\ \E n \in Nat : \A q \in DOMAIN labels : q.number <= n
  /\ \A d \in Desk : Handles(d, "register") => Sound(desk[d])

(* nextQrCode: the next number is larger than all it is computed from,     *)
(* unless one of them is imprecise.                                        *)
LEMMA NextNumberIsFree ==
  ASSUME NEW rows, \A q \in rows : q.number \in Nat,
         NEW bound \in Nat, \A q \in rows : q.number <= bound,
         NEW next \in NextNumbers(rows)
  PROVE  /\ next \in Nat
         /\ (\A q \in rows : q.number < next) \/ \E q \in rows : q.number >= Precise
<1> DEFINE Bounds == {n \in Nat : \A q \in rows : q.number <= n}
           Numbers == {0} \cup {q.number : q \in rows}
           IsLargest(n) == \A q \in rows : q.number <= n
<1>1. PICK n \in Bounds : \A m \in Bounds : n <= m
  <2>1. Bounds \subseteq Nat /\ Bounds # {}
    OBVIOUS
  <2> HIDE DEF Bounds
  <2> QED BY <2>1, LeastNatural
<1>2. n \in Numbers
  <2> SUFFICES ASSUME n # 0 PROVE \E q \in rows : q.number = n
    OBVIOUS
  <2>1. n - 1 \in Nat /\ n - 1 \notin Bounds
    BY <1>1
  <2>2. PICK q \in rows : ~(q.number <= n - 1)
    BY <2>1
  <2>3. q.number \in Nat /\ q.number <= n
    BY <1>1
  <2> QED BY <2>2, <2>3
<1>3. \E m \in Numbers : IsLargest(m)
  BY <1>1, <1>2
<1>4. Numbers \subseteq Nat
  OBVIOUS
<1> DEFINE largest == CHOOSE m \in Numbers : IsLargest(m)
<1>5. largest \in Numbers /\ IsLargest(largest)
  <2> HIDE DEF Numbers, IsLargest
  <2> QED BY <1>3
<1>6. Largest(rows) = largest
  BY DEF Largest
<1>7. /\ largest \in Nat /\ \A q \in rows : q.number <= largest
      /\ largest = 0 \/ \E q \in rows : q.number = largest
  BY <1>4, <1>5
<1> HIDE DEF largest
<1>8. CASE largest < Precise
  BY <1>6, <1>7, <1>8 DEF NextNumbers
<1>9. CASE ~(largest < Precise)
  <2>1. next \in {largest} \cup Doubles /\ (next = largest \/ next > largest)
    BY <1>6, <1>9 DEF NextNumbers
  <2>2. next \in Nat /\ Precise \in Nat /\ largest >= Precise
    BY <1>7, <1>9, <2>1, BackOfficeAssumption
  <2>3. CASE rows = {}
    BY <2>2, <2>3
  <2>4. CASE largest = 0 /\ rows # {}
    BY <1>7, <2>2, <2>4
  <2> QED BY <1>7, <2>2, <2>3, <2>4
<1> QED BY <1>8, <1>9

(* A handler that computes a label does so soundly ...                     *)
LEMMA RegistrationIsSound ==
  ASSUME LabelsInv, NEW prefix, NEW typed \in Typed \cup {Nil}, NEW r \in Registrations(prefix, typed)
  PROVE  Sound(r)
<1>1. CASE typed # Nil
  BY <1>1, BackOfficeAssumption DEF Sound, Registrations
<1>2. CASE typed = Nil
  <2> DEFINE rows == Numbered(prefix)
  <2>1. PICK next \in NextNumbers(rows) :
             r = [does |-> "register", label |-> Label(prefix, next), rows |-> rows]
    BY <1>2 DEF Registrations
  <2>2. next \in Nat /\ ((\A q \in rows : q.number < next) \/ \E q \in rows : q.number >= Precise)
    BY NextNumberIsFree DEF LabelsInv, Numbered
  <2>3. r.label.number = next /\ r.rows = rows
    BY <2>1 DEF Label
  <2> HIDE DEF rows
  <2>4. r.label \in rows => \E q \in rows : q.number >= Precise
    BY <2>2, <2>3
  <2> QED BY <2>2, <2>3, <2>4 DEF Sound
<1> QED BY <1>1, <1>2

(* ... and leaves the others at their desks.                               *)
LEMMA StartKeepsDesks ==
  ASSUME LabelsInv, NEW d \in Desk, NEW r, Starts(d, r), UNCHANGED labels,
         r.does = "register" => Sound(r)
  PROVE  LabelsInv'
BY DEF LabelsInv, Starts, Handles, Sound

(* A call that ends leaves the other desks as they are.                    *)
LEMMA EndKeepsDesks ==
  ASSUME LabelsInv, NEW d \in Desk, Ends(d)
  PROVE  DOMAIN desk' = Desk /\ \A e \in Desk : Handles(e, "register")' => Sound(desk[e])'
BY DEF LabelsInv, Ends, Handles, Sound

(* The invariant of the labels holds in every state.                       *)
LEMMA LabelsInvHolds == OfficeSpec => []LabelsInv
<1>1. OfficeInit => LabelsInv
  <2> SUFFICES ASSUME OfficeInit PROVE LabelsInv
    OBVIOUS
  <2>1. DOMAIN desk = Desk /\ DOMAIN labels = {} /\ \A d \in Desk : desk[d] = Nil
    BY DEF OfficeInit
  <2> QED BY <2>1 DEF LabelsInv, Handles
<1>2. LabelsInv /\ [OfficeNext]_officeVars => LabelsInv'
  <2> SUFFICES ASSUME LabelsInv, [OfficeNext]_officeVars PROVE LabelsInv'
    OBVIOUS
  <2>1. ASSUME UNCHANGED <<labels, desk>> PROVE LabelsInv'
    BY <2>1 DEF LabelsInv, Handles, Sound
  <2>2. ASSUME NEW d \in Desk, Ends(d), UNCHANGED labels PROVE LabelsInv'
    BY <2>2, EndKeepsDesks DEF LabelsInv
  <2>3. CASE CreateWard \/ RegisterMerchant \/ UpdateMerchantStatus
    BY <2>1, <2>3 DEF CreateWard, RegisterMerchant, UpdateMerchantStatus
  <2>4. CASE CheckWard
    BY <2>4, StartKeepsDesks DEF CheckWard
  <2>5. CASE ReadForApproval
    BY <2>5, StartKeepsDesks DEF ReadForApproval
  <2>6. CASE ReadForUpdate
    BY <2>6, StartKeepsDesks DEF ReadForUpdate
  <2>7. CASE WriteWard \/ ApproveMerchant \/ UpdateMerchant
    BY <2>2, <2>7 DEF WriteWard, ApproveMerchant, UpdateMerchant
  <2>8. CASE NumberForWard
    BY <2>8, StartKeepsDesks, RegistrationIsSound DEF NumberForWard
  <2>9. CASE NumberForMerchant
    BY <2>9, StartKeepsDesks, RegistrationIsSound DEF NumberForMerchant
  <2>10. CASE RegisterContainer
    <3>1. PICK d \in Desk : /\ Handles(d, "register")
                            /\ DOMAIN labels' = DOMAIN labels \cup {desk[d].label}
                            /\ Ends(d)
      BY <2>10 DEF RegisterContainer
    <3>2. DOMAIN desk' = Desk /\ \A e \in Desk : Handles(e, "register")' => Sound(desk[e])'
      BY <3>1, EndKeepsDesks
    <3>3. desk[d].label.number \in Nat
      BY <3>1 DEF LabelsInv, Sound
    <3>4. PICK n \in Nat : \A q \in DOMAIN labels : q.number <= n
      BY DEF LabelsInv
    <3>5. PICK m \in Nat : n <= m /\ desk[d].label.number <= m
      BY <3>3
    <3>6. \A q \in DOMAIN labels' : q.number \in Nat /\ q.number <= m
      BY <3>1, <3>3, <3>4, <3>5 DEF LabelsInv
    <3> QED BY <3>2, <3>6 DEF LabelsInv
  <2>11. CASE UpdateContainerStatus
    BY <2>11 DEF UpdateContainerStatus, LabelsInv, Handles, Sound
  <2>12. CASE UNCHANGED officeVars
    BY <2>1, <2>12 DEF officeVars
  <2> QED
    BY <2>3, <2>4, <2>5, <2>6, <2>7, <2>8, <2>9, <2>10, <2>11, <2>12 DEF OfficeNext
<1> QED
  BY <1>1, <1>2, PTL DEF OfficeSpec

(* A label createContainer made up is refused only if another of its       *)
(* prefix was registered since, or if a label it was made up from has a    *)
(* number that is not precise: the largest number of all that are          *)
(* registered, in use or not, padded or not, is counted on from.           *)
THEOREM MadeUpLabelsAreFree == OfficeSpec => []OnlyRacesAreRefused
<1>1. LabelsInv => OnlyRacesAreRefused
  <2> SUFFICES ASSUME LabelsInv, NEW d \in Desk, Handles(d, "register"), desk[d].rows # Nil,
                      Registered(desk[d].label),
                      Numbered(desk[d].label.prefix) = desk[d].rows,
                      ~\E q \in desk[d].rows : q.number >= Precise
               PROVE  FALSE
    BY DEF OnlyRacesAreRefused
  <2>1. desk[d].label \in Numbered(desk[d].label.prefix)
    BY DEF Numbered, Registered
  <2>2. desk[d].label \notin desk[d].rows
    BY DEF LabelsInv, Sound
  <2> QED BY <2>1, <2>2
<1> QED
  BY <1>1, LabelsInvHolds, PTL

-----------------------------------------------------------------------------
(* What DeliverToStation and the updates of a station keep.                *)
OutlookInv ==
  /\ today \in Day
  /\ incoming \in [Day -> Nat]
  /\ stock \in Nat
  /\ capacity \in Size
  /\ form \in Size \cup {Nobody}

(* The invariant of the outlook holds in every state.                      *)
LEMMA OutlookInvHolds == OutlookSpec => []OutlookInv
<1> USE OutlookAssumption
<1>1. OutlookInit => OutlookInv
  BY DEF OutlookInit, OutlookInv, Day
<1>2. OutlookInv /\ [OutlookNext]_outlookVars => OutlookInv'
  <2> SUFFICES ASSUME OutlookInv, [OutlookNext]_outlookVars PROVE OutlookInv'
    OBVIOUS
  <2> USE DEF OutlookInv
  <2>1. CASE NextDay
    BY <2>1 DEF NextDay, Day
  <2>2. CASE DeliverToStation
    <3>1. PICK l \in Load, d \in Day : /\ incoming' = [incoming EXCEPT ![d] = @ + l]
                                       /\ stock' = stock + l
                                       /\ UNCHANGED <<today, capacity, form>>
      BY <2>2 DEF DeliverToStation
    <3>2. l \in Nat
      OBVIOUS
    <3> QED BY <3>1, <3>2
  <2>3. CASE CheckCapacity
    BY <2>3 DEF CheckCapacity
  <2>4. CASE WriteCapacity
    BY <2>4 DEF WriteCapacity
  <2>5. CASE UNCHANGED outlookVars
    BY <2>5 DEF outlookVars
  <2> QED
    BY <2>1, <2>2, <2>3, <2>4, <2>5 DEF OutlookNext
<1> QED
  BY <1>1, <1>2, PTL DEF OutlookSpec

(* The first of the days that dailyIncomingByStation averages over.        *)
LEMMA LeastDay ==
  ASSUME NEW days, days \subseteq Nat, days # {}
  PROVE  Min(days) \in days /\ \A d \in days : Min(days) <= d
BY LeastNatural DEF Min

Delivered == {d \in Day : d \in (today - 6)..today /\ incoming[d] > 0}

(* The history a forecast reads is a finite set of past days.              *)
LEMMA HistoryIsRecent ==
  ASSUME OutlookInv
  PROVE  /\ Delivered = {} => HistoryDays = {} /\ HistorySize = 0
         /\ Delivered # {} => /\ Min(Delivered) \in Delivered
                              /\ HistoryDays = Min(Delivered)..today
                              /\ HistorySize = today - Min(Delivered) + 1
                              /\ HistorySize \in 1..7
<1>0. Delivered \subseteq Nat /\ today \in Nat
  BY OutlookAssumption DEF Delivered, OutlookInv, Day
<1>1. CASE Delivered = {}
  BY <1>1, FS_EmptySet DEF HistoryDays, Delivered, HistorySize
<1>2. CASE Delivered # {}
  <2>1. Min(Delivered) \in Delivered
    BY <1>0, <1>2, LeastDay
  <2>2. HistoryDays = Min(Delivered)..today
    BY <1>2 DEF HistoryDays, Delivered
  <2>3. Min(Delivered) \in Nat /\ today - 6 <= Min(Delivered) /\ Min(Delivered) <= today
    BY <1>0, <2>1 DEF Delivered
  <2>4. Cardinality(Min(Delivered)..today) = today - Min(Delivered) + 1
    BY <1>0, <2>3, FS_Interval
  <2> QED BY <1>0, <1>2, <2>1, <2>2, <2>3, <2>4 DEF HistorySize
<1> QED BY <1>1, <1>2

(* What came in on some days is a volume.                                  *)
LEMMA IncomingType ==
  ASSUME OutlookInv, NEW days
  PROVE  Incoming(days) \in Nat
<1>1. IsFiniteSet(Day)
  BY FS_Interval, OutlookAssumption DEF Day
<1>2. IsFiniteSet(days \cap Day)
  BY <1>1, FS_Subset
<1>3. \A d \in days \cap Day : incoming[d] \in Nat
  BY DEF OutlookInv
<1> QED BY <1>2, <1>3, SumType DEF Incoming

(* Rounding to the nearest, as Math.round does.                            *)
LEMMA Rounding ==
  ASSUME NEW a \in Nat, NEW b \in Nat \ {0}
  PROVE  /\ a \div b \in Nat
         /\ b * (a \div b) <= a
         /\ a < b * (a \div b) + b
  BY SMTT(60)

(* The averages a forecast divides are volumes.                            *)
LEMMA AverageType ==
  ASSUME OutlookInv
  PROVE  AverageDailyIncoming \in Nat
<1>1. CASE HistoryDays = {}
  BY <1>1 DEF AverageDailyIncoming
<1>2. CASE HistoryDays # {}
  <2>1. HistorySize \in 1..7
    BY <1>2, HistoryIsRecent
  <2>2. 2000 * Incoming(HistoryDays) + HistorySize \in Nat /\ 2 * HistorySize \in Nat \ {0}
    BY <2>1, IncomingType
  <2> QED BY <1>2, <2>2, Rounding DEF AverageDailyIncoming
<1> QED BY <1>1, <1>2

(* At n tenths of a day or more, what comes in n tenths and half a tenth   *)
(* does not fill the station; at fewer, what comes in one more does.       *)
LEMMA EstimateBounds ==
  ASSUME NEW r \in Nat, NEW average \in Nat \ {0}
  PROVE  /\ (20 * r + average) \div (2 * average) > 70 => 7 * average < r
         /\ 20 * r < 61 * average => (20 * r + average) \div (2 * average) <= 30
<1> DEFINE a == 20 * r + average
           b == 2 * average
           q == a \div b
<1>1. q \in Nat /\ b * q <= a /\ a < b * q + b
  <2>1. a \in Nat /\ b \in Nat \ {0}
    OBVIOUS
  <2> HIDE DEF a, b
  <2> QED BY <2>1, Rounding
<1> HIDE DEF q
<1>2. q > 70 => b * 71 <= b * q
  BY <1>1, SMTT(60)
<1>3. q > 30 => b * 31 <= b * q
  BY <1>1, SMTT(60)
<1>4. b * q \in Nat
  BY <1>1
<1>5. q > 70 => 7 * average < r
  BY <1>1, <1>2, <1>4
<1>6. 20 * r < 61 * average => q <= 30
  BY <1>1, <1>3, <1>4
<1> QED BY <1>5, <1>6 DEF q

(* stationFillAlertCandidate and stationFillForecast say of a station what *)
(* its stock is: one that is full, also after a stale change of its        *)
(* capacity, has a HIGH alert, and a STABLE one has room for the week.     *)
THEOREM OutlookSaysTheTruth == OutlookSpec => []OutlookIsHonest
<1>1. ASSUME OutlookInv, stock >= capacity
      PROVE  AlertSeverity = "HIGH" /\ RemainingCapacity = 0
  <2>1. FillStatus = "FULL" /\ RemainingCapacity = 0
    BY <1>1 DEF FillStatus, AlreadyFull, RemainingCapacity
  <2>2. AlertStatus = "FULL"
    BY <2>1 DEF AlertStatus
  <2> QED BY <2>1, <2>2 DEF AlertSeverity
<1>2. ASSUME OutlookInv, FillStatus = "STABLE"
      PROVE  Projected(7) < 1000 * capacity
  <2>1. ~AlreadyFull /\ ~FullWithin(70)
    <3>1. CASE AlreadyFull
      BY <1>2, <3>1 DEF FillStatus
    <3>2. CASE ~AlreadyFull /\ HistorySize < 3
      BY <1>2, <3>2 DEF FillStatus
    <3>3. HistorySize \in Nat
      BY <1>2, HistoryIsRecent
    <3>4. CASE ~AlreadyFull /\ HistorySize >= 3 /\ FullWithin(70)
      BY <1>2, <3>4 DEF FillStatus
    <3> QED BY <3>1, <3>2, <3>3, <3>4
  <2>2. stock \in Nat /\ capacity \in Nat /\ stock < capacity
    BY <1>2, <2>1, OutlookAssumption DEF OutlookInv, AlreadyFull
  <2>3. RemainingCapacity = 1000 * (capacity - stock) /\ RemainingCapacity \in Nat
    BY <2>1, <2>2 DEF RemainingCapacity
  <2>4. AverageDailyIncoming \in Nat
    BY <1>2, AverageType
  <2>5. 7 * AverageDailyIncoming < RemainingCapacity
    <3>1. CASE AverageDailyIncoming = 0
      BY <2>2, <2>3, <3>1
    <3>2. CASE AverageDailyIncoming > 0
      <4>1. EstimatedDaysUntilFull > 70
        <5>1. EstimatedDaysUntilFull \in Nat
          BY <2>1, <2>3, <2>4, <3>2, Rounding DEF EstimatedDaysUntilFull
        <5> QED BY <2>1, <3>2, <5>1 DEF FullWithin, HasEstimate
      <4> QED BY <2>1, <2>3, <2>4, <3>2, <4>1, EstimateBounds DEF EstimatedDaysUntilFull
    <3> QED BY <2>4, <3>1, <3>2
  <2>6. 1000 * stock + 7 * AverageDailyIncoming < 1000 * capacity
    BY <2>2, <2>3, <2>4, <2>5
  <2>7. 1000 * stock + 7 * AverageDailyIncoming \in Nat /\ 1000 * capacity \in Nat
    BY <2>2, <2>4
  <2> QED BY <2>1, <2>6, <2>7 DEF Projected
<1>3. OutlookInv => OutlookIsHonest
  BY <1>1, <1>2 DEF OutlookIsHonest
<1> QED
  BY <1>3, OutlookInvHolds, PTL

(* What an ordinary delivery that fills the station says of the average.   *)
LEMMA OrdinaryDelivery ==
  ASSUME NEW l \in Nat \ {0}, NEW size \in 3..7, NEW total \in Nat,
         l * size <= 3 * total
  PROVE  LET average == (2000 * total + size) \div (2 * size)
         IN average \in Nat \ {0} /\ 20 * (1000 * l) < 61 * average
<1> DEFINE average == (2000 * total + size) \div (2 * size)
<1>1. /\ average \in Nat
      /\ 2000 * total + size < 2 * size * average + 2 * size
  <2> DEFINE a == 2000 * total + size
             b == 2 * size
  <2>1. a \in Nat /\ b \in Nat \ {0}
    OBVIOUS
  <2> HIDE DEF a, b
  <2>2. a \div b \in Nat /\ a < b * (a \div b) + b
    BY <2>1, Rounding
  <2> QED BY <2>2 DEF a, b
<1> HIDE DEF average
<1>2. 20 * (1000 * l) < 61 * average
  <2>1. CASE size = 3
    BY <1>1, <2>1
  <2>2. CASE size = 4
    BY <1>1, <2>2
  <2>3. CASE size = 5
    BY <1>1, <2>3
  <2>4. CASE size = 6
    BY <1>1, <2>4
  <2>5. CASE size = 7
    BY <1>1, <2>5
  <2> QED BY <2>1, <2>2, <2>3, <2>4, <2>5
<1>3. average # 0
  BY <1>1, <1>2
<1> QED BY <1>1, <1>2, <1>3 DEF average

(* The delivery that fills a station, which brings no more than three days *)
(* do on the average, finds a HIGH alert for it: the forecast is CRITICAL. *)
THEOREM FillsAreForetold == OutlookSpec => FullIsForetold
<1>1. ASSUME OutlookInv, [OutlookNext]_outlookVars, ~UNCHANGED outlookVars PROVE FillsForetold
  <2> DEFINE IsFirst(d) == /\ d \in (today - 6)..today /\ incoming[d] > 0
                           /\ \A e \in (today - 6)..(d - 1) : e \in Day => incoming[e] = 0
             days == (CHOOSE d \in Day : IsFirst(d))..today
  <2> SUFFICES ASSUME stock < capacity, stock' = capacity, stock' > stock,
                      \E d \in Day : d \in (today - 6)..(today - 2) /\ incoming[d] > 0,
                      (stock' - stock) * Cardinality(days) <= 3 * Incoming(days)
               PROVE  AlertSeverity = "HIGH"
    BY DEF FillsForetold
  <2>1. /\ Delivered \subseteq Nat /\ today \in Nat /\ Day \subseteq Nat
        /\ \A d \in Day : incoming[d] \in Nat
    BY <1>1, OutlookAssumption DEF Delivered, OutlookInv, Day
  <2>2. PICK d0 \in Delivered : d0 <= today - 2
    BY <2>1 DEF Delivered
  <2> DEFINE first == Min(Delivered)
  <2>3. first \in Delivered /\ \A d \in Delivered : first <= d
    BY <2>1, <2>2, LeastDay
  <2> HIDE DEF first
  <2>4. (CHOOSE d \in Day : IsFirst(d)) = first
    <3>1. first \in Day /\ IsFirst(first)
      <4> SUFFICES ASSUME NEW e \in (today - 6)..(first - 1), e \in Day, incoming[e] # 0
                   PROVE  FALSE
        BY <2>3 DEF Delivered
      <4>1. incoming[e] > 0 /\ e \in (today - 6)..today /\ e < first
        BY <2>1, <2>3 DEF Delivered
      <4> QED BY <2>1, <2>3, <4>1 DEF Delivered
    <3>2. ASSUME NEW d \in Day, IsFirst(d) PROVE d = first
      <4>1. d \in Delivered
        BY <3>2 DEF Delivered
      <4>2. first <= d
        BY <2>3, <4>1
      <4>3. ~(first < d)
        BY <2>1, <2>3, <3>2 DEF Delivered
      <4> QED BY <2>1, <2>3, <4>1, <4>2, <4>3
    <3> HIDE DEF IsFirst
    <3> QED BY <3>1, <3>2
  <2>5. HistoryDays = days /\ HistorySize = today - first + 1 /\ HistorySize \in 1..7
    BY <1>1, <2>2, <2>4, HistoryIsRecent DEF first
  <2>6. HistorySize \in 3..7
    BY <2>1, <2>2, <2>3, <2>5
  <2> DEFINE l == capacity - stock
  <2>7. stock \in Nat /\ capacity \in Nat /\ l \in Nat \ {0} /\ ~AlreadyFull
    BY <1>1, OutlookAssumption DEF OutlookInv, AlreadyFull
  <2>8. l * HistorySize <= 3 * Incoming(HistoryDays)
    BY <2>5 DEF HistorySize
  <2> DEFINE average == (2000 * Incoming(HistoryDays) + HistorySize) \div (2 * HistorySize)
  <2>9. average \in Nat \ {0} /\ 20 * (1000 * l) < 61 * average
    <3> DEFINE total == Incoming(HistoryDays)
               size == HistorySize
    <3>1. total \in Nat /\ l * size <= 3 * total /\ size \in 3..7 /\ l \in Nat \ {0}
      BY <1>1, <2>6, <2>7, <2>8, IncomingType
    <3> HIDE DEF l, total, size
    <3>2. LET mean == (2000 * total + size) \div (2 * size)
          IN mean \in Nat \ {0} /\ 20 * (1000 * l) < 61 * mean
      BY ONLY <3>1, OrdinaryDelivery
    <3> QED BY <3>2 DEF total, size
  <2>10. HistoryDays # {}
    <3>1. HistoryDays = {} => HistorySize = 0
      <4>1. Cardinality({}) = 0
        BY FS_EmptySet
      <4> QED BY <4>1 DEF HistorySize
    <3> QED BY <2>6, <3>1
  <2>11. AverageDailyIncoming = average /\ RemainingCapacity = 1000 * l
    BY <2>7, <2>10 DEF AverageDailyIncoming, RemainingCapacity
  <2> HIDE DEF average, l, days
  <2>12. FullWithin(30)
    BY <2>7, <2>9, <2>11, EstimateBounds DEF FullWithin, HasEstimate, EstimatedDaysUntilFull
  <2>13. FillStatus = "CRITICAL"
    BY <2>6, <2>7, <2>12 DEF FillStatus
  <2>14. AlertStatus = "CRITICAL"
    BY <2>13 DEF AlertStatus
  <2> QED BY <2>14 DEF AlertSeverity
<1>2. OutlookInv /\ [OutlookNext]_outlookVars => [FillsForetold]_outlookVars
  BY <1>1
<1> QED
  BY <1>2, OutlookInvHolds, PTL DEF OutlookSpec, FullIsForetold
=============================================================================
