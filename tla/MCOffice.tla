------------------------------- MODULE MCOffice ----------------------------
(***************************************************************************)
(* A small instance of what administrators do: prices and payments, the    *)
(* outlook of a station and the review of anomalies.  The three share no   *)
(* variable: a behaviour moves one of them, so that every state of each is *)
(* reached and no product of them.                                         *)
(***************************************************************************)
EXTENDS Payments, StationOutlook, AnomalyReview, TLC

CONSTANTS m1, m2

(* The last hours of 2025-W52 in Vietnam, and the first of 2026-W01, which *)
(* still lies in 2025.                                                     *)
FirstHour == From([year |-> 2026, week |-> 1])
MCInstant == (FirstHour - 2)..(FirstHour + 1)

(* Years of every kind, and all days from 2020, a year of 53 weeks, on.    *)
MCYears == 1990..2050
MCDays == JanuaryFirst(2020)..JanuaryFirst(2032)

(* Five collections that are alike and weighed, one of the next morning    *)
(* that was not, one that differs from them in every way, and one of       *)
(* another merchant whose oil weighs too much.                             *)
Entered(m, day, minute, liters, kg) ==
  [merchant |-> m, at |-> (20 + day) * MINUTES + minute, liters |-> liters, kg |-> kg, scale |-> kg # Nothing]
MCEntry ==
  {Entered(m1, day, 120, 20, 18) : day \in 1..5}
    \cup {Entered(m1, 6, 120, 22, Nothing), Entered(m1, 6, 700, 100, 40), Entered(m2, 4, 120, 20, 40)}

Symmetry == Permutations(Transaction) \cup Permutations(Price) \cup Permutations(Worker)

MCInit == Init /\ OutlookInit /\ ReviewInit

(* The station the other parts are checked beside.                         *)
FirstStation == OutlookInit /\ capacity = Min(Size)

OfficeVars == <<vars, outlookVars, reviewVars>>

MCNext ==
  \/ FirstStation /\ ReviewInit /\ Next /\ UNCHANGED <<outlookVars, reviewVars>>
  \/ Init /\ ReviewInit /\ OutlookNext /\ UNCHANGED <<vars, reviewVars>>
  \/ Init /\ FirstStation /\ ReviewNext /\ UNCHANGED <<vars, outlookVars>>

MCSpec == MCInit /\ [][MCNext]_OfficeVars
=============================================================================
