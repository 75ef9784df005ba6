------------------------- MODULE MCCollectorScreens -------------------------
(***************************************************************************)
(* A small instance of what runs in the mini app of a collector besides    *)
(* the shift: the outbox, the form of a stop, and the camera and the       *)
(* location of the device.  They share no variable: a behaviour moves one  *)
(* of them, so that every state of each is reached and no product of them. *)
(* The device stays online: no guard of the outbox reads the connection,   *)
(* only its fairness does, and none is assumed here.                       *)
(***************************************************************************)
EXTENDS OutboxSync, CollectionEntry, Devices

(* Photos the analyzer would grade A or C, one it makes nothing of and one *)
(* it cannot decode.                                                       *)
Looks ==
  {[grade |-> "A", sure |-> TRUE], [grade |-> "C", sure |-> TRUE],
   [grade |-> Null, sure |-> FALSE], [grade |-> "broken", sure |-> FALSE]}

ScreensInit == Init /\ online /\ EntryInit /\ DevicesInit

screensVars == <<vars, entryVars, deviceVars>>

ScreensNext ==
  \/ EntryInit /\ DevicesInit /\ Next /\ UNCHANGED <<online, entryVars, deviceVars>>
  \/ Init /\ DevicesInit /\ EntryNext /\ UNCHANGED <<vars, deviceVars>>
  \/ Init /\ EntryInit /\ LocationInit /\ ScanNext /\ UNCHANGED <<vars, entryVars>>
  \/ Init /\ EntryInit /\ ScanInit /\ LocationNext /\ UNCHANGED <<vars, entryVars>>

ScreensSpec == ScreensInit /\ [][ScreensNext]_screensVars
=============================================================================
