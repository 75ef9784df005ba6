----------------------------- MODULE MCAccounts -----------------------------
(***************************************************************************)
(* Small instances of the accounts of collectors and of the sessions.  The *)
(* two share no variable: a behaviour moves one of them, so that every     *)
(* state of each is reached and no product of the two.                     *)
(***************************************************************************)
EXTENDS CollectorAccounts, Sessions, TLC

AccountsInit == Init /\ SessionsInit

(* The one that stands still does so in one of its initial states.         *)
CollectorsStill == Init /\ ~\E u \in User : merchant[u] \/ role[u] = "COLLECTOR"

SessionsStill == SessionsInit /\ \A a \in Account : roles[a] = "NONE"

(* An answer that is ready leaves before anything else moves: it holds     *)
(* nothing and no property looks at it, so that it commutes with every     *)
(* step of the other requests.                                             *)
AnswersReady == \E w \in Caller : serving[w].phase \in {"done", "refused", "failed"}

AccountsNext ==
  \/ SessionsStill /\ Next /\ UNCHANGED sessionVars
  \/ CollectorsStill /\ ~AnswersReady /\ SessionsNext /\ UNCHANGED vars
  \/ CollectorsStill /\ (\E w \in Caller : Answered(w)) /\ UNCHANGED vars

AccountsSpec == AccountsInit /\ [][AccountsNext]_<<vars, sessionVars>>

(* The requests of the two parts have the same names.                      *)
Symmetry == Permutations(User) \cup Permutations(Collector) \cup Permutations(Worker)
=============================================================================
