--------------------------- MODULE PaymentPeriod ---------------------------
(***************************************************************************)
(* payment-period.ts: the ISO week, in Vietnam time, that a collection is  *)
(* paid in, and the instants at which a week begins and ends.              *)
(*                                                                         *)
(* Instants are hours since 1970-01-01T00:00Z, days are days since then: a *)
(* finer clock would not change a week.  A period is its year and week;    *)
(* the text between the two is not modelled, except that the week has two  *)
(* digits.                                                                 *)
(***************************************************************************)
EXTENDS Integers

VIETNAM_OFFSET == 7
DAY == 24

(* JavaScript's Date in UTC.                                               *)
JanuaryFirst(year) ==
  365 * (year - 1970) + ((year - 1969) \div 4)
    - ((year - 1901) \div 100) + ((year - 1601) \div 400)

YearOf(day) ==
  CHOOSE year \in (1970 + (day \div 366))..(1970 + (day \div 365)) :
    JanuaryFirst(year) <= day /\ day < JanuaryFirst(year + 1)

IsoDay(day) == ((day + 3) % 7) + 1

Local_mutant(t) == t

Local(t) == t + VIETNAM_OFFSET

(* The week of a day is the week of its Thursday.                          *)
PaymentPeriodFor(t) ==
  LET day == Local(t) \div DAY
      thursday == day + 4 - IsoDay(day)
      year == YearOf(thursday)
  IN [year |-> year, week |-> (thursday - JanuaryFirst(year) + 1 + 6) \div 7]

(* Week 1 is the week of January 4th.                                      *)
From(period) ==
  LET januaryFourth == JanuaryFirst(period.year) + 3
      firstMonday == januaryFourth - (IsoDay(januaryFourth) - 1)
  IN (firstMonday + 7 * (period.week - 1)) * DAY - VIETNAM_OFFSET

To(period) == From(period) + 7 * DAY

(* Any other period is refused.                                            *)
IsPeriod(period) == PaymentPeriodFor(From(period) + VIETNAM_OFFSET) = period

-----------------------------------------------------------------------------
CONSTANTS
  Years,  \* years whose periods are checked
  Days    \* days whose hours are checked

ASSUME CalendarAssumption ==
  /\ \A year \in Years : year \in Nat /\ year >= 1970
  /\ Days \subseteq Nat

(* ISO 8601: a year has 53 weeks if it begins on a Thursday, or on a       *)
(* Wednesday and is a leap year.                                           *)
WeeksOf(year) ==
  LET leap == JanuaryFirst(year + 1) - JanuaryFirst(year) = 366
      begins == IsoDay(JanuaryFirst(year))
  IN IF begins = 4 \/ (begins = 3 /\ leap) THEN 53 ELSE 52

(* The periods that are accepted are the weeks of the ISO calendar.        *)
PeriodsAreWeeks ==
  \A year \in Years : \A week \in 0..99 :
    IsPeriod([year |-> year, week |-> week]) <=> week \in 1..WeeksOf(year)

(* Whether an instant falls between the bounds of its own period.          *)
Bounded(t) ==
  LET period == PaymentPeriodFor(t)
  IN IsPeriod(period) /\ From(period) <= t /\ t < To(period)

HoursAreBounded ==
  \A day \in Days : \A hour \in 0..(DAY - 1) : Bounded(day * DAY + hour)
=============================================================================
