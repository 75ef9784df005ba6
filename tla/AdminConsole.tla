---------------------------- MODULE AdminConsole ----------------------------
(***************************************************************************)
(* The session of the administration web app: lib/auth.tsx, the shared     *)
(* api-client and the token storage, in tabs of one browser, against the   *)
(* server of Sessions.                                                     *)
(*                                                                         *)
(* The tabs share the tokens in localStorage and the cookies the server    *)
(* sets; a tab has its own user, its own calls and at most one refresh at  *)
(* a time.  A call is one step at the server, a refresh and a sign-in take *)
(* as many as they do there.  Any call may get no answer, and a tab may be *)
(* reloaded at any time while the server works on.                         *)
(***************************************************************************)
EXTENDS Sessions

CONSTANTS
  Tab,     \* tabs of the browser
  Admin,   \* the account they sign in with
  Outages  \* whether a call may go unanswered or fail at the server

ASSUME ConsoleAssumption == Admin \in Account /\ Outages \in BOOLEAN

VARIABLES
  stale,    \* pairs whose access token has expired
  lapsed,   \* pairs whose refresh token was found to have expired
  storage,  \* localStorage: the pair of the access and of the refresh token
  cookie,   \* the cookies, likewise
  tab,      \* what each tab shows and waits for
  left      \* the browser signed out and nobody signed in since

console == <<storage, cookie, tab, left>>
consoleVars == <<sessionVars, stale, lapsed, storage, cookie, tab, left>>

-----------------------------------------------------------------------------
(* A call runs beside another one: what the page loads beside what the     *)
(* session does.                                                           *)
Slot == {"page", "session"}

(* A call is one of me, login, logout and data, and is sent; served: the   *)
(* server works on it; waiting: it got a 401 and waits for the refresh of  *)
(* its tab; again: it was sent once more, with no further retry.  access is*)
(* the token it went out with, body the refresh token it carries.          *)
NoCall == [kind |-> "none", phase |-> "none", access |-> Null, body |-> Null]

(* worker and refreshing: who at the server works on the session call and  *)
(* on the refresh of the tab.                                              *)
NewTab ==
  [user |-> FALSE, loading |-> TRUE, call |-> [s \in Slot |-> NoCall], worker |-> Null,
   refreshing |-> Null]

NoTokens == [access |-> Null, refresh |-> Null]

PairOf(p) == [access |-> p, refresh |-> p]

(* The header, or else the cookie.                                         *)
Bearer == IF storage.access # Null THEN storage.access ELSE cookie.access

(* What a refresh presents: the stored token, or else the cookie.          *)
Presented(jar) == IF storage.refresh # Null THEN storage.refresh ELSE jar.refresh

Awaited(w) == \E t \in Tab : w \in {tab[t].worker, tab[t].refreshing}

Free(w) == In(w, "idle") /\ ~Awaited(w)

InFlight(c) == c.phase \in {"sent", "again"}

(* The guard lets the call through; the password of a login is wrong.      *)
Passes(c) == c.kind # "login" /\ c.access # Null /\ Authorised(c.access) /\ c.access \notin stale

(* logout takes the refresh token of the body or of the cookie.            *)
Ending(c) == IF c.body # Null THEN c.body ELSE cookie.refresh

(* logout answers 401, too, when the token it is to revoke is not alive.   *)
NothingToEnd(c) == c.kind = "logout" /\ Ending(c) # Null /\ ~LogsOut(Admin, Ending(c))

(* The cookies after the answer: logout clears them before anything else.  *)
Jar(c) == IF c.kind = "logout" /\ Passes(c) THEN NoTokens ELSE cookie

-----------------------------------------------------------------------------
(* What the callers make of the end of calls S of a tab: ok, a 401, or     *)
(* another error.  me and signOut clear the tokens themselves.             *)
Clears(c, outcome) == c.kind = "logout" \/ (c.kind = "me" /\ outcome = "401")

Settled(t, S, outcome, worker, refreshing) ==
  [tab EXCEPT ![t] =
     [user |-> IF "session" \in S
               THEN tab[t].call["session"].kind \in {"me", "login"} /\ outcome = "ok"
               ELSE tab[t].user,
      loading |-> tab[t].loading /\ "session" \notin S,
      call |-> [s \in Slot |-> IF s \in S THEN NoCall ELSE tab[t].call[s]],
      worker |-> worker, refreshing |-> refreshing]]

Conclude(t, S, outcome, kept) ==
  /\ tab' = Settled(t, S, outcome, tab[t].worker, tab[t].refreshing)
  /\ storage' = IF \E s \in S : Clears(tab[t].call[s], outcome) THEN NoTokens ELSE kept
  /\ left' = (left \/ \E s \in S : tab[t].call[s].kind = "logout")

(* A call goes on: from now on the tab waits for these at the server.      *)
Moved(t, s, c, loading, worker, refreshing) ==
  [tab EXCEPT ![t] =
     [user |-> tab[t].user, loading |-> loading, call |-> [tab[t].call EXCEPT ![s] = c],
      worker |-> worker, refreshing |-> refreshing]]

Send(t, s, kind, body) ==
  tab' = [tab EXCEPT ![t].call[s] = [kind |-> kind, phase |-> "sent", access |-> Bearer,
                                     body |-> body]]

Mount(t) ==
  /\ tab[t] = NewTab
  /\ Send(t, "session", "me", Null)
  /\ UNCHANGED <<sessionVars, stale, lapsed, storage, cookie, left>>

Reload(t) ==
  /\ tab[t] # NewTab
  /\ tab' = [tab EXCEPT ![t] = NewTab]
  /\ UNCHANGED <<sessionVars, stale, lapsed, storage, cookie, left>>

(* A view loads or changes something.                                      *)
Query(t) ==
  /\ tab[t].user
  /\ tab[t].call["page"] = NoCall
  /\ Send(t, "page", "data", Null)
  /\ UNCHANGED <<sessionVars, stale, lapsed, storage, cookie, left>>

SignOut(t) ==
  /\ tab[t].user
  /\ tab[t].call["session"] = NoCall
  /\ Send(t, "session", "logout", storage.refresh)
  /\ UNCHANGED <<sessionVars, stale, lapsed, storage, cookie, left>>

(* The password goes without tokens.                                       *)
LoginCall(phase) == [kind |-> "login", phase |-> phase, access |-> Null, body |-> Null]

CanLogin(t) ==
  /\ ~tab[t].loading
  /\ ~tab[t].user
  /\ tab[t].call["session"] = NoCall

LoginAdmin(t, w) ==
  /\ CanLogin(t)
  /\ Free(w)
  /\ AdminLogin(w, Admin)
  /\ tab' = Moved(t, "session", LoginCall("served"), TRUE, w, tab[t].refreshing)
  /\ UNCHANGED <<stale, lapsed, storage, cookie, left>>

MistypePassword(t) ==
  /\ CanLogin(t)
  /\ tab' = Moved(t, "session", LoginCall("sent"), TRUE, tab[t].worker, tab[t].refreshing)
  /\ UNCHANGED <<sessionVars, stale, lapsed, storage, cookie, left>>

(* A sign-in, or a sign-out of every session, is answered.                 *)
SessionAnswered(t) ==
  LET w == tab[t].worker
      login == tab[t].call["session"].kind = "login"
      ok == In(w, "done")
  IN /\ w # Null
     /\ Answered(w)
     /\ tab' = Settled(t, {"session"}, IF ok THEN "ok" ELSE "error", Null, tab[t].refreshing)
     /\ storage' = IF login /\ ok THEN PairOf(serving[w].new)
                   ELSE IF login THEN storage ELSE NoTokens
     /\ left' = IF login THEN left /\ ~ok ELSE TRUE
     /\ UNCHANGED <<stale, lapsed, cookie>>

-----------------------------------------------------------------------------
CallAccepted(t, s) ==
  LET c == tab[t].call[s]
  IN /\ InFlight(c)
     /\ Passes(c)
     /\ cookie' = Jar(c)
     /\ \/ /\ c.kind # "logout"
           /\ Conclude(t, {s}, "ok", storage)
           /\ UNCHANGED sessionVars
        \/ /\ c.kind = "logout"
           /\ Ending(c) # Null
           /\ LogsOut(Admin, Ending(c))
           /\ LogoutOne(Admin, Ending(c))
           /\ Conclude(t, {s}, "ok", storage)
        \/ /\ c.kind = "logout"
           /\ Ending(c) = Null
           /\ \E w \in Caller :
                /\ Free(w)
                /\ LogoutAll(w, Admin)
                /\ tab' = Moved(t, s, [c EXCEPT !.phase = "served"], tab[t].loading,
                                w, tab[t].refreshing)
           /\ UNCHANGED <<storage, left>>
     /\ UNCHANGED <<stale, lapsed>>

(* No answer in time, or an error that is not a 401.                       *)
CallFails(t, s) ==
  /\ Outages
  /\ tab[t].call[s].phase \in {"sent", "again", "served"}
  /\ tab' = Settled(t, {s}, "error", IF s = "session" THEN Null ELSE tab[t].worker,
                    tab[t].refreshing)
  /\ storage' = IF Clears(tab[t].call[s], "error") THEN NoTokens ELSE storage
  /\ left' = (left \/ tab[t].call[s].kind = "logout")
  /\ UNCHANGED <<sessionVars, stale, lapsed, cookie>>

(* The first 401 of a call makes it wait for the refresh of its tab; with  *)
(* no token to present the refresh is refused at once.  The second 401 is  *)
(* final.                                                                  *)
CallUnauthorized(t, s) ==
  LET c == tab[t].call[s]
      p == Presented(Jar(c))
  IN /\ InFlight(c)
     /\ Passes(c) => NothingToEnd(c) /\ ~Locked(Ending(c))
     /\ cookie' = Jar(c)
     /\ \/ /\ c.phase = "again"
           /\ Conclude(t, {s}, "401", storage)
           /\ UNCHANGED <<sessionVars, lapsed>>
        \/ /\ c.phase = "sent"
           /\ tab[t].refreshing # Null
           /\ tab' = Moved(t, s, [c EXCEPT !.phase = "waiting"], tab[t].loading,
                           tab[t].worker, tab[t].refreshing)
           /\ UNCHANGED <<sessionVars, lapsed, storage, left>>
        \/ /\ c.phase = "sent"
           /\ tab[t].refreshing = Null
           /\ p = Null
           /\ Conclude(t, {s}, "401", NoTokens)
           /\ UNCHANGED <<sessionVars, lapsed>>
        \/ /\ c.phase = "sent"
           /\ tab[t].refreshing = Null
           /\ p # Null
           /\ \E w \in Caller, late \in BOOLEAN :
                /\ Free(w)
                /\ p \in lapsed => late
                /\ Refresh(w, p, late)
                /\ lapsed' = IF late THEN lapsed \cup {p} ELSE lapsed
                /\ tab' = Moved(t, s, [c EXCEPT !.phase = "waiting"], tab[t].loading,
                                tab[t].worker, w)
           /\ UNCHANGED <<storage, left>>
     /\ UNCHANGED stale

Waiting(t) == {s \in Slot : tab[t].call[s].phase = "waiting"}

SentAgain(c, p) == [kind |-> c.kind, phase |-> "again", access |-> p, body |-> c.body]

(* The refresh stores the new pair, and the calls that waited go out again.*)
RefreshAnswered(t) ==
  LET w == tab[t].refreshing
      p == serving[w].new
  IN /\ w # Null
     /\ In(w, "done")
     /\ Answered(w)
     /\ storage' = PairOf(p)
     /\ cookie' = PairOf(p)
     /\ tab' = [tab EXCEPT ![t] =
          [user |-> tab[t].user, loading |-> tab[t].loading,
           call |-> [s \in Slot |-> IF s \in Waiting(t) THEN SentAgain(tab[t].call[s], p)
                                                       ELSE tab[t].call[s]],
           worker |-> tab[t].worker, refreshing |-> Null]]
     /\ UNCHANGED <<stale, lapsed, left>>

EndsSession_mutant(answer) == TRUE

(* A timeout or a 5xx is no proof that the session is invalid.             *)
EndsSession(answer) == answer = "refused"

TimesOut_mutant(w) == FALSE

(* The fetch of the refresh has a time limit of its own.                   *)
TimesOut(w) == w # Null

(* The refresh is refused, fails, or is given up while the server works on.*)
RefreshFails(t, answer) ==
  LET w == tab[t].refreshing
      over == EndsSession(answer)
      outcome == IF over THEN "401" ELSE "error"
  IN /\ w # Null
     /\ Outages \/ answer = "refused"
     /\ \/ answer = "lost" /\ TimesOut(w) /\ UNCHANGED sessionVars
        \/ answer \in {"refused", "failed"} /\ In(w, answer) /\ Answered(w)
     /\ tab' = Settled(t, Waiting(t), outcome, tab[t].worker, Null)
     /\ storage' = IF over \/ \E s \in Waiting(t) : Clears(tab[t].call[s], outcome)
                   THEN NoTokens ELSE storage
     /\ left' = (left \/ \E s \in Waiting(t) : tab[t].call[s].kind = "logout")
     /\ UNCHANGED <<stale, lapsed, cookie>>

-----------------------------------------------------------------------------
(* An answer that nobody waits for any more.                               *)
Unheard(w) ==
  /\ ~Awaited(w)
  /\ Answered(w)
  /\ UNCHANGED <<stale, lapsed, console>>

(* The access token of p expires: minutes after it was issued, so not      *)
(* between a refresh and the calls that waited for it.                     *)
ExpireAccess(p) ==
  /\ p \in 1..minted \ stale
  /\ \A w \in Caller : serving[w].new # p
  /\ \A t \in Tab, s \in Slot : tab[t].call[s].phase = "again" => tab[t].call[s].access # p
  /\ stale' = stale \cup {p}
  /\ UNCHANGED <<sessionVars, lapsed, console>>

ConsoleInit ==
  /\ SessionsInit
  /\ roles[Admin] = "ADMIN"
  /\ stale = {}
  /\ lapsed = {}
  /\ storage = NoTokens
  /\ cookie = NoTokens
  /\ tab = [t \in Tab |-> NewTab]
  /\ left = FALSE

Visit(t) ==
  \/ Mount(t)
  \/ Reload(t)
  \/ Query(t)
  \/ SignOut(t)
  \/ MistypePassword(t)
  \/ \E w \in Caller : LoginAdmin(t, w)

Answer(t) ==
  \/ SessionAnswered(t)
  \/ \E s \in Slot : CallAccepted(t, s) \/ CallFails(t, s) \/ CallUnauthorized(t, s)
  \/ RefreshAnswered(t)
  \/ \E answer \in {"refused", "failed", "lost"} : RefreshFails(t, answer)

ConsoleNext ==
  \/ \E t \in Tab : Visit(t) \/ Answer(t)
  \/ \E w \in Caller : Unheard(w) \/ (Serve(w) /\ UNCHANGED <<stale, lapsed, console>>)
  \/ \E p \in Pair : ExpireAccess(p)

ConsoleSpec == ConsoleInit /\ [][ConsoleNext]_consoleVars

(* A fetch is aborted when its time is over, whatever the server does.     *)
FairConsole ==
  /\ ConsoleSpec
  /\ \A t \in Tab :
       /\ \A s \in Slot : WF_consoleVars(CallFails(t, s))
       /\ WF_consoleVars(RefreshFails(t, "lost"))

-----------------------------------------------------------------------------
(* The refresh token p was exchanged, signed out or found to have expired. *)
Spent(p) == pair[p].by # Null \/ p \in ended \/ p \in lapsed

(* The tab hears that its refresh is refused, for the token it presented.  *)
TurnedAway(t) ==
  /\ tab[t].refreshing # Null
  /\ In(tab[t].refreshing, "refused")
  /\ Spent(serving[tab[t].refreshing].pair)
  /\ tab'[t].refreshing = Null

(* "A timeout, network failure, or server-side 5xx is not proof that the   *)
(* session is invalid": unless somebody signed out, the browser gives its  *)
(* tokens up only in the step in which the server answers a refresh, and   *)
(* refuses it, because the very token it presented was exchanged before,   *)
(* signed out or has expired; a 401 to a call that was sent again is no    *)
(* reason, for that does not happen (request and getRefreshOnce of the     *)
(* api-client, AuthProvider).  A token whose exchange was not answered is  *)
(* still stored and is one that was exchanged before: an outage in a       *)
(* refresh does sign the administrator out, at the next 401.  And what is  *)
(* given up may be newer than that token, if a sign-in has replaced it     *)
(* while the refresh was under way.                                        *)
KeptUntilRefused ==
  [][storage # NoTokens /\ storage' = NoTokens /\ ~left' =>
       \E t \in Tab : TurnedAway(t)]_consoleVars

(* A call ends, whether the server answers or not, and so do those that    *)
(* wait for the refresh another one started (fetchWithTimeout,             *)
(* getRefreshOnce).                                                        *)
CallsEnd == \A t \in Tab : \A s \in Slot : tab[t].call[s] # NoCall ~> tab[t].call[s] = NoCall

=============================================================================
