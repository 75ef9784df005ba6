---------------------------- MODULE OrderLedger ----------------------------
(***************************************************************************)
(* What the order desk promises to merchants and collectors, with routes,  *)
(* stops, containers, client UUIDs and half-finished requests hidden:      *)
(*                                                                         *)
(*   - an order is opened, then withdrawn by its merchant or collected;    *)
(*   - a collector claims a whole set of open orders at once, and only     *)
(*     while holding none;                                                 *)
(*   - what a collector holds is given back all together or not at all;    *)
(*   - a held order is collected by its holder only, and every collected   *)
(*     order has exactly one receipt.                                      *)
(*                                                                         *)
(* FieldOperations implements this specification (its property             *)
(* ImplementsLedger).                                                      *)
(***************************************************************************)
CONSTANTS Order, Collector, None

VARIABLES phase,     \* where each order is in its life
          holder,    \* the collector who holds it, None if nobody does
          receipts   \* the <<order, collector>> pairs of collections done

lvars == <<phase, holder, receipts>>

Phase == {"NONE", "READY", "ASSIGNED", "COLLECTED", "CANCELLED"}

LedgerTypeOK ==
  /\ phase \in [Order -> Phase]
  /\ holder \in [Order -> Collector \cup {None}]
  /\ receipts \subseteq Order \X Collector

Held(c) == {o \in Order : phase[o] = "ASSIGNED" /\ holder[o] = c}

LInit ==
  /\ phase = [o \in Order |-> "NONE"]
  /\ holder = [o \in Order |-> None]
  /\ receipts = {}

Open(o) ==
  /\ phase[o] = "NONE"
  /\ phase' = [phase EXCEPT ![o] = "READY"]
  /\ UNCHANGED <<holder, receipts>>

Withdraw(o) ==
  /\ phase[o] = "READY"
  /\ phase' = [phase EXCEPT ![o] = "CANCELLED"]
  /\ UNCHANGED <<holder, receipts>>

Claim(c, S) ==
  /\ S # {}
  /\ \A o \in S : phase[o] = "READY"
  /\ Held(c) = {}
  /\ phase' = [o \in Order |-> IF o \in S THEN "ASSIGNED" ELSE phase[o]]
  /\ holder' = [o \in Order |-> IF o \in S THEN c ELSE holder[o]]
  /\ UNCHANGED receipts

Release(c) ==
  /\ Held(c) # {}
  /\ phase' = [o \in Order |-> IF o \in Held(c) THEN "READY" ELSE phase[o]]
  /\ holder' = [o \in Order |-> IF o \in Held(c) THEN None ELSE holder[o]]
  /\ UNCHANGED receipts

Collect(o, c) ==
  /\ phase[o] = "READY" \/ o \in Held(c)
  /\ phase' = [phase EXCEPT ![o] = "COLLECTED"]
  /\ holder' = [holder EXCEPT ![o] = None]
  /\ receipts' = receipts \cup {<<o, c>>}

LNext ==
  \/ \E o \in Order : Open(o) \/ Withdraw(o)
  \/ \E c \in Collector : Release(c) \/ \E S \in SUBSET Order : Claim(c, S)
  \/ \E o \in Order, c \in Collector : Collect(o, c)

LSpec == LInit /\ [][LNext]_lvars
=============================================================================
