------------------------- MODULE MCFieldOperations -------------------------
(* Small instances of FieldOperations for TLC.                             *)
EXTENDS FieldOperations, TLC

MCServes == [c \in Collector |-> Merchant]
MCCapacity == [s \in Station |-> 3]

Symmetry ==
  Permutations(Merchant) \cup Permutations(Collector) \cup Permutations(Container)
  \cup Permutations(Order) \cup Permutations(Route) \cup Permutations(Uuid)
  \cup Permutations(DeliveryUuid) \cup Permutations(Worker)
=============================================================================
