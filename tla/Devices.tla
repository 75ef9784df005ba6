------------------------------ MODULE Devices -------------------------------
(***************************************************************************)
(* The devices of the mini app: the camera that scans a QR code in a       *)
(* browser (browser-qr-scanner.ts), and the location inside Zalo           *)
(* (zalo-client.ts), whose token the API exchanges for a place             *)
(* (zalo-location.provider.ts).                                            *)
(*                                                                         *)
(* A device answers when it likes: after the timer, after the button, or   *)
(* never.  An action is what runs between two awaits.  A place is only     *)
(* where it is from.  The app is not reloaded: a location token is not     *)
(* remembered any longer than the app runs.                                *)
(***************************************************************************)
EXTENDS Naturals, FiniteSets

CONSTANTS
  Scan,     \* scans ever opened
  Caller,   \* screens that may ask for the location at a time
  GpsToken, \* location tokens the SDK of Zalo may return, any of them again
  Off       \* not opened; no stage; no answer

ASSUME OffAssumption ==
  Off \notin {"sdk-load", "permission", "access-token", "location-result"} \cup GpsToken

VARIABLES
  scan,     \* by scan: whether it is over, its camera, its frames and its photo
  stage,    \* of acquireLocation, which all callers share; the token while
            \* it is exchanged; or Off
  asking,   \* by caller: "idle", "waiting", or where its place is from
  usedGps,  \* usedLocationTokens
  posted,   \* requests to exchange a token: [token, at]
  redeemed  \* by token: how often Zalo was given it

deviceVars == <<scan, stage, asking, usedGps, posted, redeemed>>
locationVars == <<stage, asking, usedGps, posted, redeemed>>

-----------------------------------------------------------------------------
(* finish: the first outcome settles the scan, stops what the camera has   *)
(* opened by then and cancels the frame that is due.                       *)
Finished(s) ==
  IF s.over THEN s
  ELSE [s EXCEPT !.over = TRUE,
                 !.camera = IF @ = "live" THEN "stopped" ELSE @,
                 !.frames = IF @ = "due" THEN "none" ELSE @]

Sets(id, s) == scan' = [scan EXCEPT ![id] = s] /\ UNCHANGED locationVars

(* The camera is asked for in the click itself, before anything is shown.  *)
OpenScan ==
  \E id \in Scan :
    /\ scan[id] = Off
    /\ Sets(id, [over |-> FALSE, camera |-> "asked", frames |-> "none", photo |-> "none"])

(* Mutant: a stream is shown, whatever happened since it was asked for.    *)
CameraOpened_mutant(s) == [s EXCEPT !.camera = "live", !.frames = "starting"]

(* A stream that comes too late is stopped at once.                        *)
CameraOpened(s) ==
  IF s.over THEN [s EXCEPT !.camera = "stopped"]
  ELSE [s EXCEPT !.camera = "live", !.frames = "starting"]

CameraOpens ==
  \E id \in Scan :
    /\ scan[id] # Off
    /\ scan[id].camera = "asked"
    /\ Sets(id, CameraOpened(scan[id]))

CameraRefused ==
  \E id \in Scan :
    /\ scan[id] # Off
    /\ scan[id].camera = "asked"
    /\ Sets(id, Finished([scan[id] EXCEPT !.camera = "refused"]))

(* video.play() comes back, or a decoded frame had no code in it: the next *)
(* frame looks whether the scan is over.                                   *)
NextFrame ==
  \E id \in Scan :
    /\ scan[id] # Off
    /\ scan[id].frames \in {"starting", "decoding"}
    /\ Sets(id, [scan[id] EXCEPT !.frames = "due"])

Frame ==
  \E id \in Scan :
    /\ scan[id] # Off
    /\ scan[id].frames = "due"
    /\ Sets(id, [scan[id] EXCEPT !.frames = IF scan[id].over THEN "none" ELSE "decoding"])

(* play() fails, or a frame has a code.                                    *)
FrameSettles ==
  \E id \in Scan :
    /\ scan[id] # Off
    /\ scan[id].frames \in {"starting", "decoding"}
    /\ Sets(id, Finished([scan[id] EXCEPT !.frames = "none"]))

(* One at a time, a bound: the code decodes as many as are chosen.         *)
ChoosePhoto ==
  \E id \in Scan :
    /\ scan[id] # Off
    /\ ~scan[id].over
    /\ scan[id].photo = "none"
    /\ Sets(id, [scan[id] EXCEPT !.photo = "decoding"])

(* It has a code in it, or it has none and the scan goes on.               *)
PhotoDecoded ==
  \E id \in Scan, code \in BOOLEAN :
    /\ scan[id] # Off
    /\ scan[id].photo = "decoding"
    /\ LET s == [scan[id] EXCEPT !.photo = "none"]
       IN Sets(id, IF code THEN Finished(s) ELSE s)

(* The button that closes the camera, or the timer of 45 seconds.          *)
EndScan ==
  \E id \in Scan :
    /\ scan[id] # Off
    /\ ~scan[id].over
    /\ Sets(id, Finished(scan[id]))

ScanNext ==
  \/ OpenScan \/ CameraOpens \/ CameraRefused
  \/ NextFrame \/ Frame \/ FrameSettles
  \/ ChoosePhoto \/ PhotoDecoded
  \/ EndScan

-----------------------------------------------------------------------------
(* All that wait get what the shared acquisition ended with.               *)
Told(place) ==
  /\ stage' = Off
  /\ asking' = [c \in Caller |-> IF asking[c] = "waiting" THEN place ELSE asking[c]]

(* getLocation joins the acquisition under way.                            *)
GetLocation ==
  \E c \in Caller :
    /\ asking[c] # "waiting"
    /\ asking' = [asking EXCEPT ![c] = "waiting"]
    /\ stage' = IF stage = Off THEN "sdk-load" ELSE stage
    /\ UNCHANGED <<scan, usedGps, posted, redeemed>>

(* The screen takes the centre of its ward after 12 seconds, and does not  *)
(* listen any more (resolveCollectionLocation).                            *)
CallerGivesUp ==
  \E c \in Caller :
    /\ asking[c] = "waiting"
    /\ asking' = [asking EXCEPT ![c] = "centre"]
    /\ UNCHANGED <<scan, stage, usedGps, posted, redeemed>>

(* An old SDK has no permission to ask for.                                *)
NextStage ==
  /\ \/ stage = "sdk-load" /\ stage' \in {"permission", "access-token"}
     \/ stage = "permission" /\ stage' = "access-token"
     \/ stage = "access-token" /\ stage' = "location-result"
  /\ UNCHANGED <<scan, asking, usedGps, posted, redeemed>>

(* Refused, empty, invalid, or 20 seconds without an answer.               *)
LocationFails ==
  /\ stage # Off
  /\ Told("failed")
  /\ UNCHANGED <<scan, usedGps, posted, redeemed>>

(* Older clients return coordinates themselves.                            *)
Coordinates ==
  /\ stage = "location-result"
  /\ Told("gps")
  /\ UNCHANGED <<scan, usedGps, posted, redeemed>>

(* The token is remembered before it is sent.                              *)
LocationToken ==
  \E t \in GpsToken :
    /\ stage = "location-result"
    /\ IF t \in usedGps
       THEN Told("failed") /\ UNCHANGED <<usedGps, posted>>
       ELSE /\ stage' = t
            /\ usedGps' = usedGps \cup {t}
            /\ posted' = posted \cup {[token |-> t, at |-> "sent"]}
            /\ UNCHANGED asking
    /\ UNCHANGED <<scan, redeemed>>

Moves(r, at) ==
  /\ posted' = (posted \ {r}) \cup {[r EXCEPT !.at = at]}
  /\ UNCHANGED <<scan, stage, asking, usedGps>>

(* The guard lets the request in, and the health of the relay is asked     *)
(* for, or it refuses the session: 401.                                    *)
Arrives ==
  \E r \in posted, at \in {"admitted", "unauthorized"} :
    /\ r.at = "sent"
    /\ Moves(r, at)
    /\ UNCHANGED redeemed

(* The provider gives the token to Zalo, directly or through the relay,    *)
(* and answers: a token that is used, or not of this app, is also a 401.   *)
Exchange ==
  \E r \in posted, at \in {"ok", "unauthorized", "unavailable"} :
    /\ r.at = "admitted"
    /\ redeemed' = [redeemed EXCEPT ![r.token] = @ + 1]
    /\ Moves(r, at)

(* The relay is not well, nothing is configured, or the answer is lost.    *)
RequestFails ==
  \E r \in posted :
    /\ posted' = posted \ {r}
    /\ UNCHANGED <<scan, stage, asking, usedGps, redeemed>>

(* Mutant: a 401 renews the session and sends the request again.           *)
AfterAnswer_mutant(r) ==
  IF r.at = "unauthorized" THEN {[r EXCEPT !.at = "sent"]} ELSE {}

(* retry: false.                                                           *)
AfterAnswer(r) == {}

ExchangeAnswered ==
  \E r \in posted :
    /\ r.at \in {"ok", "unauthorized", "unavailable"}
    /\ posted' = (posted \ {r}) \cup AfterAnswer(r)
    /\ IF stage = r.token THEN Told(IF r.at = "ok" THEN "gps" ELSE "failed")
       ELSE UNCHANGED <<stage, asking>>
    /\ UNCHANGED <<scan, usedGps, redeemed>>

LocationNext ==
  \/ GetLocation \/ CallerGivesUp
  \/ NextStage \/ LocationFails \/ Coordinates \/ LocationToken
  \/ Arrives \/ Exchange \/ RequestFails \/ ExchangeAnswered

-----------------------------------------------------------------------------
ScanInit == scan = [id \in Scan |-> Off]

LocationInit ==
  /\ stage = Off
  /\ asking = [c \in Caller |-> "idle"]
  /\ usedGps = {}
  /\ posted = {}
  /\ redeemed = [t \in GpsToken |-> 0]

DevicesInit == ScanInit /\ LocationInit

DevicesNext == ScanNext \/ LocationNext

DevicesSpec == DevicesInit /\ [][DevicesNext]_deviceVars

-----------------------------------------------------------------------------
(* Types; a caller waits only while the acquisition runs.                  *)
DevicesTypeOK ==
  /\ scan \in [Scan -> [over : BOOLEAN,
                        camera : {"asked", "live", "stopped", "refused"},
                        frames : {"none", "starting", "due", "decoding"},
                        photo : {"none", "decoding"}] \cup {Off}]
  /\ stage \in {Off, "sdk-load", "permission", "access-token", "location-result"} \cup GpsToken
  /\ asking \in [Caller -> {"idle", "waiting", "gps", "centre", "failed"}]
  /\ usedGps \subseteq GpsToken
  /\ posted \subseteq [token : GpsToken,
                       at : {"sent", "admitted", "ok", "unauthorized", "unavailable"}]
  /\ redeemed \in [GpsToken -> Nat]
  /\ \A c \in Caller : asking[c] = "waiting" => stage # Off

(* The camera is off when no scan is open, also if the stream was granted  *)
(* only after the scan was closed, timed out or found a photo with a code  *)
(* (cleanup, and the check of settled when the stream opens).              *)
CameraIsReleased ==
  \A id \in Scan : scan[id] # Off /\ scan[id].camera = "live" => ~scan[id].over

(* A location token is single-use, including provider failures: however    *)
(* requests, timers and renewed sessions race, and if the SDK returns it   *)
(* again, Zalo is given each token once at most (usedLocationTokens, the   *)
(* shared acquisition, and resolveZaloLocation, which is not retried).     *)
TokenRedeemedOnce == \A t \in GpsToken : redeemed[t] <= 1
=============================================================================
