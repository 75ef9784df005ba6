---------------------------- MODULE AnomalyReview ---------------------------
(***************************************************************************)
(* The search for anomalous collections and the administrators' verdicts   *)
(* on them: transaction-anomaly-scorer.ts, and scoreAnomalyTransactions,   *)
(* listAiAnomalies, updateAiAnomalyFeedback and aiAnomalyPerformance of    *)
(* admin.service.ts.                                                       *)
(*                                                                         *)
(* Collections are recorded in any order: those of phones that were        *)
(* offline come after later ones.  Nothing is stored of a score but in a   *)
(* verdict; it is computed each time the console asks.  Instants are       *)
(* minutes.  Points, densities and deviations are in thousandths and       *)
(* robust z-scores in ten-thousandths, rounded down; samples are taken     *)
(* four times, so that medians of medians are whole.                       *)
(***************************************************************************)
EXTENDS Integers, FiniteSets

CONSTANTS
  Entry,    \* collections that may be recorded: [merchant, at, liters, kg, scale]
  Density,  \* expectedDensityKgPerLiter, in thousandths
  Verdict,  \* verdicts of administrators
  MaxReviewed,  \* bound: collections that get a verdict
  Nothing   \* null

ASSUME ReviewAssumption ==
  /\ \A e \in Entry : e.at \in Nat /\ e.liters \in Nat \ {0} /\ e.scale \in BOOLEAN
                      /\ e.kg \in (Nat \ {0}) \cup {Nothing}
  /\ Density \in Nat \ {0} /\ MaxReviewed \in Nat
  /\ Nothing \notin Nat

VARIABLES
  recorded,  \* collection_transactions
  scored,    \* the verdict an administrator is giving, with the score it was read with
  feedback   \* anomaly_feedback, by transaction

reviewVars == <<recorded, scored, feedback>>

MIN_HISTORY == 5
MINUTES == 1440

-----------------------------------------------------------------------------
(* The k-th smallest of the numbers f takes, and their median.             *)
Kth(f, k) ==
  LET below(v) == Cardinality({x \in DOMAIN f : f[x] < v})
      upTo(v) == Cardinality({x \in DOMAIN f : f[x] <= v})
      x0 == CHOOSE x \in DOMAIN f : below(f[x]) < k /\ k <= upTo(f[x])
  IN f[x0]

Median(f) ==
  LET n == Cardinality(DOMAIN f)
  IN IF n % 2 = 1 THEN Kth(f, (n + 1) \div 2)
     ELSE (Kth(f, n \div 2) + Kth(f, n \div 2 + 1)) \div 2

Gap(a, b) == IF a < b THEN b - a ELSE a - b

AtMost(bound, n) == IF n > bound THEN bound ELSE n

Signal(points, thin) == [points |-> points, thin |-> thin]

Silent == Signal(0, FALSE)

(* evaluateSignal, of a value at most worth max points.  Where the samples *)
(* agree but for few, the relative deviation counts, for at most cap       *)
(* thousandths and from the threshold on.                                  *)
Evaluate(value, samples, max, threshold, cap) ==
  LET center == Median(samples)
      mad == Median([x \in DOMAIN samples |-> Gap(samples[x], center)])
      z == (6745 * Gap(value, center)) \div mad
      deviation == IF center = 0 THEN 250 * value ELSE (1000 * Gap(value, center)) \div center
  IN CASE Cardinality(DOMAIN samples) < MIN_HISTORY -> Silent
       [] Cardinality(DOMAIN samples) >= MIN_HISTORY /\ mad > 0 ->
            Signal(IF z <= 35000 THEN 0 ELSE (max * (AtMost(80000, z) - 35000)) \div 45, FALSE)
       [] OTHER ->
            Signal(IF deviation <= threshold THEN 0
                   ELSE AtMost(cap, (cap * (AtMost(2 * threshold, deviation) - threshold)) \div threshold),
                   TRUE)

(* evaluateConfiguredDensitySignal.                                        *)
AgainstDensity(density) ==
  LET deviation == (1000 * Gap(density, Density)) \div Density
  IN Signal(IF deviation <= 200 THEN 0 ELSE AtMost(35000, (350 * (AtMost(1000, deviation) - 200)) \div 8), FALSE)

DensityOf(t) == (1000 * t.kg) \div t.liters

Weighed(history) == {h \in history : h.scale /\ h.kg # Nothing}

DensitySignal(t, history) ==
  CASE ~t.scale \/ t.kg = Nothing -> Silent
    [] t.scale /\ t.kg # Nothing /\ Cardinality(Weighed(history)) >= MIN_HISTORY ->
         Evaluate(4 * DensityOf(t), [h \in Weighed(history) |-> 4 * DensityOf(h)], 35, 150, 35000)
    [] OTHER -> AgainstDensity(DensityOf(t))

(* In kilograms if enough were weighed, whatever the source of the weight  *)
(* of this one, and else in litres.                                        *)
MassSignal(t, history) ==
  IF t.kg # Nothing /\ Cardinality(Weighed(history)) >= MIN_HISTORY
  THEN Evaluate(4 * t.kg, [h \in Weighed(history) |-> 4 * h.kg], 35, 500, 14000)
  ELSE Evaluate(4 * t.liters, [h \in history |-> 4 * h.liters], 35, 500, 14000)

(* minuteOfVietnamDay.                                                     *)
MinuteOfDay(t) == (t.at + 7 * 60) % MINUTES

TimeSignal(t, history) ==
  Evaluate(4 * MinuteOfDay(t), [h \in history |-> 4 * MinuteOfDay(h)], 15, 250, 6000)

(* frequencySamples: the day before, against each of the 14 days before it.*)
CollectedIn(history, from, until) == Cardinality({h \in history : h.at >= from /\ h.at < until})

FrequencySignal(t, history) ==
  LET days == [i \in 1..14 |-> 4 * CollectedIn(history, t.at - (i + 1) * MINUTES, t.at - i * MINUTES)]
      current == 1 + CollectedIn(history, t.at - MINUTES, t.at)
  IN IF Cardinality(history) < MIN_HISTORY THEN Silent
     ELSE Evaluate(4 * current, days, 15, 1000, 6000)

Signals(t, history) ==
  <<DensitySignal(t, history), MassSignal(t, history),
    TimeSignal(t, history), FrequencySignal(t, history)>>

(* Signals that all come from histories without spread.                    *)
Thin(s) == \A i \in 1..4 : s[i].points = 0 \/ s[i].thin

Points(s) == (s[1].points + s[2].points + s[3].points + s[4].points + 500) \div 1000

(* scoreTransactionAnomaly.                                                *)
ScoreOf(t, history) ==
  LET s == Signals(t, history)
  IN AtMost(IF Thin(s) THEN 49 ELSE 100, Points(s))

Level(score) ==
  CASE score >= 60 -> "HIGH_RISK"
    [] score \in 30..59 -> "REVIEW"
    [] OTHER -> "NORMAL"

-----------------------------------------------------------------------------
(* The rows scoreAnomalyTransactions reads to score a batch.               *)
Loaded(batch) ==
  {h \in recorded : /\ \E t \in batch : h.merchant = t.merchant
                    /\ \E t \in batch : h.at < t.at}

(* Mutant: a collection is compared with all that was loaded of its        *)
(* merchant.                                                               *)
History_mutant(t, batch) == {h \in Loaded(batch) : h.merchant = t.merchant /\ h # t}

(* What it compares a collection of the batch with.                        *)
History(t, batch) == {h \in Loaded(batch) : h.merchant = t.merchant /\ h.at < t.at}

(* What the console lists; all is scored in one batch.                     *)
Score(t) == ScoreOf(t, History(t, recorded))

Alerts == {t \in recorded : Level(Score(t)) # "NORMAL"}

(* aiAnomalyPerformance.                                                   *)
Reviewed == Alerts \cap DOMAIN feedback

WithVerdict(v) == {t \in Reviewed : feedback[t].verdict = v}

ReviewInit ==
  /\ recorded = {}
  /\ scored = Nothing
  /\ feedback = <<>>

RecordCollection ==
  /\ \E e \in Entry \ recorded : recorded' = recorded \cup {e}
  /\ UNCHANGED <<scored, feedback>>

(* updateAiAnomalyFeedback scores the one transaction again; the score is  *)
(* kept as the history it is computed from.                                *)
ScoreForFeedback ==
  /\ scored = Nothing
  /\ \E t \in recorded, v \in Verdict :
       /\ Cardinality(DOMAIN feedback \cup {t}) <= MaxReviewed
       /\ scored' = [of |-> t, verdict |-> v, history |-> History(t, {t})]
  /\ UNCHANGED <<recorded, feedback>>

(* Then it writes, over the verdict of another administrator if there is   *)
(* one, and whatever was recorded in between.                              *)
UpsertFeedback ==
  /\ scored # Nothing
  /\ feedback' = [t \in DOMAIN feedback \cup {scored.of} |->
       IF t = scored.of THEN [verdict |-> scored.verdict, history |-> scored.history]
       ELSE feedback[t]]
  /\ scored' = Nothing
  /\ UNCHANGED recorded

ReviewNext == RecordCollection \/ ScoreForFeedback \/ UpsertFeedback

ReviewSpec == ReviewInit /\ [][ReviewNext]_reviewVars

RiskScoreSnapshot(t) == ScoreOf(t, feedback[t].history)

-----------------------------------------------------------------------------
(* The score a verdict was given on is the one the console shows beside    *)
(* it: the list, which scores everything at once, and the feedback, which  *)
(* scores one transaction, agree, and nothing recorded later changes the   *)
(* score, unless an earlier collection of the merchant has turned up.      *)
SnapshotStands ==
  \A t \in DOMAIN feedback :
    LET earlier == {h \in recorded : h.merchant = t.merchant /\ h.at < t.at}
    IN earlier = feedback[t].history => RiskScoreSnapshot(t) = Score(t)
=============================================================================
