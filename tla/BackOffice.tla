----------------------------- MODULE BackOffice -----------------------------
(***************************************************************************)
(* The registers an administrator keeps: wards, merchants and the codes of *)
(* containers (admin.service.ts, merchants.service.ts,                     *)
(* containers.service.ts, qr-code.ts).                                     *)
(*                                                                         *)
(* A handler that reads before it writes occupies a desk in between, and   *)
(* the others go on meanwhile.  A container is the code on its QR label:   *)
(* whom it belongs to and what is in it is told by FieldOperations.        *)
(* Whether a merchant is approved has no bearing on labels and is left     *)
(* out: of an approval, the ward it assigns remains.                       *)
(***************************************************************************)
EXTENDS Integers, FiniteSets

CONSTANTS
  Ward, Merchant,
  WardCode,  \* codes of wards, as typed
  Prefix,    \* containerQrPrefix, by code: several codes may be normalised to one
  Typed,     \* labels an administrator may type in
  Precise,   \* 2^53: from here on a number plus one need not be another number
  Doubles,   \* bound: the numbers beyond that may be the next
  MaxLabels, \* bound: containers registered
  Desk,      \* requests under way at a time
  Nil        \* null; no row; no request

ASSUME BackOfficeAssumption ==
  /\ MaxLabels \in Nat
  /\ Precise \in Nat /\ Doubles \subseteq Nat
  /\ \A q \in Typed : q.number \in Nat /\ q.prefix \in {Prefix[c] : c \in WardCode}
                      /\ q.padded \in BOOLEAN
  /\ Nil \notin Ward \cup WardCode \cup Typed

VARIABLES
  wards,      \* by ward: its code and whether it is active, or Nil
  merchants,  \* by merchant: ward and whether it is active, or Nil
  labels,     \* by QR code registered: whether the container is active
  desk        \* by desk: what its handler has read, or Nil

officeVars == <<wards, merchants, labels, desk>>

-----------------------------------------------------------------------------
(* buildContainerQrCode pads a number; a typed one need not be.            *)
Label(prefix, number) == [prefix |-> prefix, number |-> number, padded |-> TRUE]

(* Mutant: only containers in use are looked at.                           *)
Numbered_mutant(prefix) == {q \in DOMAIN labels : q.prefix = prefix /\ labels[q]}

(* The rows nextQrCode and nextAdminQrCode read, those in use or not.      *)
Numbered(prefix) == {q \in DOMAIN labels : q.prefix = prefix}

Largest(rows) ==
  CHOOSE n \in {0} \cup {q.number : q \in rows} : \A q \in rows : q.number <= n

(* Numbers are doubles: the largest plus one is rounded, to the largest    *)
(* itself or to a larger number.                                           *)
NextNumbers(rows) ==
  LET max == Largest(rows)
  IN IF max < Precise THEN {max + 1} ELSE {max} \cup {n \in Doubles : n > max}

(* The request of a registration: the label typed, or the next one and the *)
(* rows it was computed from.                                              *)
Registrations(prefix, typed) ==
  IF typed # Nil THEN {[does |-> "register", label |-> typed, rows |-> Nil]}
  ELSE {[does |-> "register", label |-> Label(prefix, n), rows |-> Numbered(prefix)] :
          n \in NextNumbers(Numbered(prefix))}

Exists(table, x) == table[x] # Nil

ActiveWard(w) == w # Nil /\ Exists(wards, w) /\ wards[w].active

Starts(d, request) == desk[d] = Nil /\ desk' = [desk EXCEPT ![d] = request]

Ends(d) == desk' = [desk EXCEPT ![d] = Nil]

Handles(d, does) == desk[d] # Nil /\ desk[d].does = does

-----------------------------------------------------------------------------
OfficeInit ==
  /\ wards = [w \in Ward |-> Nil]
  /\ merchants = [m \in Merchant |-> Nil]
  /\ labels = <<>>
  /\ desk = [d \in Desk |-> Nil]

CodesTaken(w) == {wards[v].code : v \in {x \in Ward \ {w} : Exists(wards, x)}}

(* Whether the look-up or the unique index finds it, a code taken, also by *)
(* a deleted ward, is answered with a conflict.                            *)
CreateWard ==
  \E w \in Ward, c \in WardCode :
    /\ ~Exists(wards, w)
    /\ c \notin CodesTaken(w)
    /\ wards' = [wards EXCEPT ![w] = [code |-> c, active |-> TRUE]]
    /\ UNCHANGED <<merchants, labels, desk>>

(* updateWard looks at the ward, which is not deleted, and at its          *)
(* merchants, and then writes.                                             *)
CheckWard ==
  \E d \in Desk, w \in Ward, c \in WardCode, disabling \in BOOLEAN :
    /\ ActiveWard(w)
    /\ disabling => \A m \in Merchant :
         Exists(merchants, m) /\ merchants[m].ward = w => ~merchants[m].active
    /\ c \in CodesTaken(w) => \E v \in Ward \ {w} :
         Exists(wards, v) /\ wards[v].code = c /\ ~wards[v].active
    /\ Starts(d, [does |-> "ward", ward |-> w, code |-> c, disabling |-> disabling])
    /\ UNCHANGED <<wards, merchants, labels>>

(* The unique index refuses the code of another ward, deleted or not.      *)
WriteWard ==
  \E d \in Desk :
    /\ Handles(d, "ward")
    /\ LET r == desk[d]
       IN wards' = IF r.code \in CodesTaken(r.ward) THEN wards
                   ELSE [wards EXCEPT ![r.ward].code = r.code,
                                      ![r.ward].active = IF r.disabling THEN FALSE ELSE @]
    /\ Ends(d)
    /\ UNCHANGED <<merchants, labels>>

-----------------------------------------------------------------------------
(* MerchantsService.register, and registerPublic for a new user.           *)
RegisterMerchant ==
  \E m \in Merchant, w \in Ward \cup {Nil} :
    /\ ~Exists(merchants, m)
    /\ w # Nil => ActiveWard(w)
    /\ merchants' = [merchants EXCEPT ![m] = [ward |-> w, active |-> TRUE]]
    /\ UNCHANGED <<wards, labels, desk>>

(* approveMerchant reads the merchant and its location, and then decides   *)
(* in a transaction with the ward it was given or the one it read.         *)
ReadForApproval ==
  \E d \in Desk, m \in Merchant, w \in Ward \cup {Nil} :
    /\ Exists(merchants, m)
    /\ Starts(d, [does |-> "approve", merchant |-> m, ward |-> IF w = Nil THEN merchants[m].ward ELSE w])
    /\ UNCHANGED <<wards, merchants, labels>>

(* The ward has to be active by then.                                      *)
ApproveMerchant ==
  \E d \in Desk :
    /\ Handles(d, "approve")
    /\ merchants' = IF ActiveWard(desk[d].ward)
         THEN [merchants EXCEPT ![desk[d].merchant].ward = desk[d].ward]
         ELSE merchants
    /\ Ends(d)
    /\ UNCHANGED <<wards, labels>>

(* MerchantsService.update: the ward sent is any active one if an          *)
(* administrator sends it, and the merchant's own if the owner does.       *)
ReadForUpdate ==
  \E d \in Desk, m \in Merchant, w \in Ward \cup {Nil} :
    /\ Exists(merchants, m)
    /\ w # Nil => ActiveWard(w)
    /\ Starts(d, [does |-> "update", merchant |-> m, ward |-> w])
    /\ UNCHANGED <<wards, merchants, labels>>

(* The ward was active when it was read, and need not be now.              *)
UpdateMerchant ==
  \E d \in Desk :
    /\ Handles(d, "update")
    /\ LET r == desk[d]
       IN merchants' = [merchants EXCEPT ![r.merchant].ward = IF r.ward = Nil THEN @ ELSE r.ward]
    /\ Ends(d)
    /\ UNCHANGED <<wards, labels>>

UpdateMerchantStatus ==
  \E m \in Merchant :
    /\ Exists(merchants, m)
    /\ merchants' = [merchants EXCEPT ![m].active = ~@]
    /\ UNCHANGED <<wards, labels, desk>>

-----------------------------------------------------------------------------
(* AdminService.createContainer: for an active ward.  A label that is      *)
(* taken is refused before or, by the unique index, when it is written.    *)
NumberForWard ==
  \E d \in Desk, w \in Ward, typed \in Typed \cup {Nil} :
    /\ ActiveWard(w)
    /\ \E r \in Registrations(Prefix[wards[w].code], typed) : Starts(d, r)
    /\ UNCHANGED <<wards, merchants, labels>>

(* ContainersService.create: for an active merchant that has a ward, which *)
(* need not be active.                                                     *)
NumberForMerchant ==
  \E d \in Desk, m \in Merchant, typed \in Typed \cup {Nil} :
    /\ Exists(merchants, m)
    /\ merchants[m].active
    /\ merchants[m].ward # Nil
    /\ \E r \in Registrations(Prefix[wards[merchants[m].ward].code], typed) : Starts(d, r)
    /\ UNCHANGED <<wards, merchants, labels>>

Registered(q) == q \in DOMAIN labels

RegisterContainer ==
  \E d \in Desk :
    /\ Handles(d, "register")
    /\ LET q == desk[d].label
       IN /\ Cardinality(DOMAIN labels \cup {q}) <= MaxLabels
          /\ labels' = [p \in DOMAIN labels \cup {q} |-> IF Registered(p) THEN labels[p] ELSE TRUE]
    /\ Ends(d)
    /\ UNCHANGED <<wards, merchants>>

UpdateContainerStatus ==
  \E q \in DOMAIN labels :
    /\ labels' = [labels EXCEPT ![q] = ~@]
    /\ UNCHANGED <<wards, merchants, desk>>

OfficeNext ==
  \/ CreateWard \/ CheckWard \/ WriteWard
  \/ RegisterMerchant \/ ReadForApproval \/ ApproveMerchant
  \/ ReadForUpdate \/ UpdateMerchant \/ UpdateMerchantStatus
  \/ NumberForWard \/ NumberForMerchant \/ RegisterContainer \/ UpdateContainerStatus

OfficeSpec == OfficeInit /\ [][OfficeNext]_officeVars

-----------------------------------------------------------------------------
(* A registration without a typed code is refused only in a race, or       *)
(* because of a typed label that no number comes after: a code the service *)
(* made up is taken when it is written only if a container of the prefix   *)
(* has been registered since its rows were read, or if one of those rows   *)
(* has a number of 2^53 or more, to which one cannot be added (that label  *)
(* stands in the way for good).  Containers out of use, other labels typed *)
(* with or without zeros, and wards whose codes are normalised to one      *)
(* prefix do not stand in its way (nextQrCode, nextAdminQrCode).           *)
OnlyRacesAreRefused ==
  \A d \in Desk :
    Handles(d, "register") /\ desk[d].rows # Nil /\ Registered(desk[d].label) =>
      \/ Numbered(desk[d].label.prefix) # desk[d].rows
      \/ \E q \in desk[d].rows : q.number >= Precise
=============================================================================
