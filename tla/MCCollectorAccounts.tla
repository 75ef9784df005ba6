------------------------ MODULE MCCollectorAccounts ------------------------
(* Small instances of CollectorAccounts for TLC.                           *)
EXTENDS CollectorAccounts, TLC

Symmetry == Permutations(User) \cup Permutations(Collector) \cup Permutations(Worker)
=============================================================================
