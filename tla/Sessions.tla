------------------------------ MODULE Sessions ------------------------------
(***************************************************************************)
(* How accounts sign in and stay signed in: auth.service.ts, its           *)
(* controller and the guard of every other endpoint.                       *)
(*                                                                         *)
(* A sign-in issues a pair of tokens.  The access token, good for minutes, *)
(* carries the role the account had; the refresh token, good for weeks, is *)
(* exchanged for a new pair and is revoked by that.  A Zalo sign-in in the *)
(* browser ends in a redirect with a hand-over code, which the page that   *)
(* opens then exchanges.                                                   *)
(*                                                                         *)
(* An action is one statement or transaction of the database or one call   *)
(* to Redis; requests interleave between them.  The rotation is the one    *)
(* transaction with two writes: it holds the row of the token it revokes   *)
(* until it commits, and nobody sees its writes before.                    *)
(*                                                                         *)
(* Nothing in the program deletes an account, so users.deleted_at is left  *)
(* out.  The link of an invite is one step here; CollectorAccounts has it  *)
(* in full.  Signatures, hashes and the sealed state of the OAuth redirect *)
(* are taken to be what they are meant to be: nobody makes one up.         *)
(***************************************************************************)
EXTENDS Naturals, FiniteSets

CONSTANTS
  Account,   \* Zalo identities and the administrators
  Caller,    \* requests the server works on at a time
  MaxPairs,  \* bound: pairs of tokens ever issued
  MaxDrawn,  \* bound: hand-over codes ever drawn
  Null       \* null

ASSUME SessionsAssumption == MaxPairs \in Nat /\ MaxDrawn \in Nat

ASSUME NoSuchUser == Null \notin Account \cup Nat

VARIABLES
  roles,    \* users.role, NONE before the first sign-in
  pair,     \* the refresh_tokens table, with the claims of the access token
  minted,   \* pairs issued so far
  handoff,  \* Redis: the account under each hand-over code
  drawn,    \* hand-over codes drawn so far
  serving,  \* what each request is at
  ended,    \* history: pairs a sign-out that was answered with success was to end
  raced     \* history: pairs rotated while a sign-out that had found them went on

signOuts == <<ended, raced>>
tokens == <<pair, minted, ended, raced>>
given == <<handoff, drawn>>
sessionVars == <<roles, pair, minted, handoff, drawn, serving, ended, raced>>

-----------------------------------------------------------------------------
Role == {"NONE", "MERCHANT", "COLLECTOR", "ADMIN"}

Pair == 1..MaxPairs

HandoffCode == 1..MaxDrawn

(* by is replaced_by; from and via record, for the properties, the pair or *)
(* the hand-over code that was given for this pair.                        *)
PairRow ==
  [user : Account \cup {Null}, role : Role, revoked : BOOLEAN,
   by : Pair \cup {Null}, from : Pair \cup {Null}, via : HandoffCode \cup {Null}]

NoPair ==
  [user |-> Null, role |-> "NONE", revoked |-> FALSE, by |-> Null, from |-> Null, via |-> Null]

Stage ==
  {"idle", "identified", "known", "handing", "issuing", "signed", "rotating", "sweeping",
   "done", "refused", "failed"}

(* pair is the refresh token that was presented, code the hand-over code,  *)
(* seen the tokens a sign-out of the whole account found, new the pair     *)
(* that was issued.                                                        *)
Handled ==
  [phase : Stage, user : Account \cup {Null}, oauth : BOOLEAN, role : Role,
   pair : Pair \cup {Null}, code : HandoffCode \cup {Null}, seen : SUBSET Pair,
   new : Pair \cup {Null}]

Void ==
  [phase |-> "idle", user |-> Null, oauth |-> FALSE, role |-> "NONE", pair |-> Null,
   code |-> Null, seen |-> {}, new |-> Null]

In(w, phase) == serving[w].phase = phase
Move(w, phase) == serving' = [serving EXCEPT ![w].phase = phase]

(* done, refused and failed are the answers 2xx, 4xx and 5xx.              *)
Return(w, answer) == serving' = [serving EXCEPT ![w] = [Void EXCEPT !.phase = answer]]

Begin(w, r) ==
  /\ In(w, "idle")
  /\ serving' = [serving EXCEPT ![w] = r]

(* A refresh is turned away with the token it presented.                   *)
Refused(p) == [Void EXCEPT !.phase = "refused", !.pair = p]

(* A transaction that rotates p holds its row.                             *)
Locked(p) == \E w \in Caller : In(w, "rotating") /\ serving[w].pair = p

(* A sign-out of the whole account has found p and is to revoke it.        *)
Swept(p) == \E w \in Caller : p \in serving[w].seen

(* JwtAuthGuard, for the access token of p while it has not expired: the   *)
(* account has to have the role that the token claims.                     *)
Authorised(p) ==
  /\ p \in 1..minted
  /\ roles[pair[p].user] = pair[p].role

-----------------------------------------------------------------------------
(* login and the callback of the OAuth redirect, after Zalo told who it is.*)
VerifyZalo(w, u, oauth) ==
  /\ Begin(w, [Void EXCEPT !.phase = "identified", !.user = u, !.oauth = oauth])
  /\ UNCHANGED <<roles, tokens, given>>

FindUser(w) ==
  /\ In(w, "identified")
  /\ IF roles[serving[w].user] = "ADMIN" THEN Return(w, "refused") ELSE Move(w, "known")
  /\ UNCHANGED <<roles, tokens, given>>

(* The first sign-in makes a merchant.                                     *)
UpsertZaloUser(w) ==
  /\ In(w, "known")
  /\ roles' = [roles EXCEPT ![serving[w].user] = IF @ = "NONE" THEN "MERCHANT" ELSE @]
  /\ Move(w, IF serving[w].oauth THEN "handing" ELSE "issuing")
  /\ UNCHANGED <<tokens, given>>

(* The sealed state carried an invite.                                     *)
LinkSealedInvite(w) ==
  /\ In(w, "handing")
  /\ \/ /\ roles[serving[w].user] \in {"MERCHANT", "COLLECTOR"}
        /\ roles' = [roles EXCEPT ![serving[w].user] = "COLLECTOR"]
        /\ UNCHANGED serving
     \/ Return(w, "refused") /\ UNCHANGED roles
  /\ UNCHANGED <<tokens, given>>

CreateOAuthHandoff(w) ==
  /\ In(w, "handing")
  /\ \/ /\ drawn < MaxDrawn
        /\ drawn' = drawn + 1
        /\ handoff' = [handoff EXCEPT ![drawn + 1] = serving[w].user]
        /\ Return(w, "done")
     \/ Return(w, "failed") /\ UNCHANGED given
  /\ UNCHANGED <<roles, tokens>>

(* Seconds later nobody can exchange the code any more.                    *)
ExpireHandoff(k) ==
  /\ handoff[k] # Null
  /\ handoff' = [handoff EXCEPT ![k] = Null]
  /\ UNCHANGED <<roles, tokens, drawn, serving>>

Consumed_mutant(k) == handoff

Consumed(k) == [handoff EXCEPT ![k] = Null]

(* A failure after this loses the code.                                    *)
ExchangeZaloOAuthCode(w, k) ==
  /\ handoff[k] # Null
  /\ Begin(w, [Void EXCEPT !.phase = "issuing", !.user = handoff[k], !.code = k])
  /\ handoff' = Consumed(k)
  /\ UNCHANGED <<roles, tokens, drawn>>

(* With the right password.                                                *)
AdminLogin(w, u) ==
  /\ roles[u] = "ADMIN"
  /\ Begin(w, [Void EXCEPT !.phase = "issuing", !.user = u])
  /\ UNCHANGED <<roles, tokens, given>>

(* acceptCollectorInvite, once the invite was linked.                      *)
AcceptCollectorInvite(w, p) ==
  /\ Authorised(p)
  /\ pair[p].role \in {"MERCHANT", "COLLECTOR"}
  /\ roles' = [roles EXCEPT ![pair[p].user] = "COLLECTOR"]
  /\ Begin(w, [Void EXCEPT !.phase = "issuing", !.user = pair[p].user])
  /\ UNCHANGED <<tokens, given>>

-----------------------------------------------------------------------------
(* refresh: the token is looked at outside the transaction.  Weeks after   *)
(* it was issued it has expired; which moment that is stays open here.     *)
Refresh(w, p, late) ==
  /\ p \in 1..minted
  /\ \/ /\ ~pair[p].revoked
        /\ ~late
        /\ Begin(w, [Void EXCEPT !.phase = "issuing", !.user = pair[p].user, !.pair = p])
     \/ /\ pair[p].revoked \/ late
        /\ Begin(w, Refused(p))
  /\ UNCHANGED <<roles, tokens, given>>

(* issueTokens reads the account, and signs the role it has now.           *)
LoadUser(w) ==
  /\ In(w, "issuing")
  /\ serving' = [serving EXCEPT ![w].phase = "signed", ![w].role = roles[serving[w].user]]
  /\ UNCHANGED <<roles, tokens, given>>

NewPair(w) ==
  [user |-> serving[w].user, role |-> serving[w].role, revoked |-> FALSE, by |-> Null,
   from |-> serving[w].pair, via |-> serving[w].code]

Create(w, table) ==
  /\ minted < MaxPairs
  /\ minted' = minted + 1
  /\ pair' = [table EXCEPT ![minted + 1] = NewPair(w)]
  /\ serving' = [serving EXCEPT ![w] = [Void EXCEPT !.phase = "done", !.new = minted + 1]]

CreatePair(w) ==
  /\ In(w, "signed")
  /\ serving[w].pair = Null
  /\ \/ Create(w, pair)
     \/ Return(w, "failed") /\ UNCHANGED <<pair, minted>>
  /\ UNCHANGED <<roles, signOuts, given>>

Rotatable_mutant(p) == TRUE

Rotatable(p) == ~pair[p].revoked

(* The update waits for the row, and then looks at it as it is.            *)
RevokeRotated(w) ==
  LET p == serving[w].pair
  IN /\ In(w, "signed")
     /\ p # Null
     /\ ~Locked(p)
     /\ IF Rotatable(p) THEN Move(w, "rotating")
                        ELSE serving' = [serving EXCEPT ![w] = Refused(p)]
     /\ UNCHANGED <<roles, tokens, given>>

CommitRotation(w) ==
  LET p == serving[w].pair
  IN /\ In(w, "rotating")
     /\ \/ /\ Create(w, [pair EXCEPT ![p].revoked = TRUE, ![p].by = minted + 1])
           /\ raced' = IF Swept(p) THEN raced \cup {p} ELSE raced
        \/ Return(w, "failed") /\ UNCHANGED <<pair, minted, raced>>
     /\ UNCHANGED <<roles, ended, given>>

-----------------------------------------------------------------------------
LogsOut_mutant(u, p) == pair[p].user = u

LogsOut(u, p) == pair[p].user = u /\ ~pair[p].revoked

(* logout with a refresh token; it waits for a rotation of that token.     *)
LogoutOne(u, p) ==
  /\ ~Locked(p)
  /\ IF LogsOut(u, p)
     THEN /\ pair' = [pair EXCEPT ![p].revoked = TRUE]
          /\ ended' = ended \cup {p}
     ELSE UNCHANGED <<pair, ended>>
  /\ UNCHANGED <<roles, minted, raced, given, serving>>

(* logout without one: the statement finds the tokens that are committed   *)
(* when it starts, and waits for those that are being rotated.  One that   *)
(* was rotated meanwhile is passed over, its successor was not found, and  *)
(* the answer is success whatever the statement revoked.                   *)
LogoutAll(w, u) ==
  /\ Begin(w, [Void EXCEPT !.phase = "sweeping", !.user = u,
                           !.seen = {p \in 1..minted : LogsOut(u, p)}])
  /\ UNCHANGED <<roles, tokens, given>>

RevokeSeen(w) ==
  LET seen == {p \in serving[w].seen : ~pair[p].revoked}
  IN /\ In(w, "sweeping")
     /\ \A p \in seen : ~Locked(p)
     /\ pair' = [p \in Pair |-> IF p \in seen THEN [pair[p] EXCEPT !.revoked = TRUE] ELSE pair[p]]
     /\ ended' = ended \cup serving[w].seen
     /\ Return(w, "done")
     /\ UNCHANGED <<roles, minted, raced, given>>

-----------------------------------------------------------------------------
Answered(w) ==
  /\ serving[w].phase \in {"done", "refused", "failed"}
  /\ serving' = [serving EXCEPT ![w] = Void]
  /\ UNCHANGED <<roles, tokens, given>>

(* The server stops; a transaction that is open is rolled back.            *)
Halts ==
  /\ \E w \in Caller : ~In(w, "idle")
  /\ serving' = [w \in Caller |-> Void]
  /\ UNCHANGED <<roles, tokens, given>>

-----------------------------------------------------------------------------
(* Administrators are seeded; everybody else signs in for the first time.  *)
SessionsInit ==
  /\ roles \in [Account -> {"NONE", "ADMIN"}]
  /\ pair = [p \in Pair |-> NoPair]
  /\ minted = 0
  /\ handoff = [k \in HandoffCode |-> Null]
  /\ drawn = 0
  /\ serving = [w \in Caller |-> Void]
  /\ ended = {}
  /\ raced = {}

SignIn(w) ==
  \/ \E u \in Account, oauth \in BOOLEAN : VerifyZalo(w, u, oauth)
  \/ \E u \in Account : AdminLogin(w, u)
  \/ \E k \in HandoffCode : ExchangeZaloOAuthCode(w, k)
  \/ \E p \in Pair : AcceptCollectorInvite(w, p)

(* What a request does once it was accepted.                               *)
Serve(w) ==
  \/ FindUser(w)
  \/ UpsertZaloUser(w)
  \/ LinkSealedInvite(w)
  \/ CreateOAuthHandoff(w)
  \/ LoadUser(w)
  \/ CreatePair(w)
  \/ RevokeRotated(w)
  \/ CommitRotation(w)
  \/ RevokeSeen(w)

Logout ==
  \E a \in Pair :
    /\ Authorised(a)
    /\ \/ \E p \in 1..minted : LogoutOne(pair[a].user, p)
       \/ \E w \in Caller : LogoutAll(w, pair[a].user)

Time ==
  \/ \E k \in HandoffCode : ExpireHandoff(k)
  \/ Halts

SessionsNext ==
  \/ \E w \in Caller :
       \/ SignIn(w)
       \/ \E p \in Pair, late \in BOOLEAN : Refresh(w, p, late)
       \/ Serve(w)
       \/ Answered(w)
  \/ Logout
  \/ Time

SessionsSpec == SessionsInit /\ [][SessionsNext]_sessionVars

-----------------------------------------------------------------------------
(* Types, and pairs are issued in order: what is not issued has no row,    *)
(* what was rotated is revoked (issueTokens).                              *)
SessionsTypeOK ==
  /\ roles \in [Account -> Role]
  /\ pair \in [Pair -> PairRow]
  /\ minted \in 0..MaxPairs
  /\ handoff \in [HandoffCode -> Account \cup {Null}]
  /\ drawn \in 0..MaxDrawn
  /\ serving \in [Caller -> Handled]
  /\ ended \subseteq 1..minted
  /\ raced \subseteq 1..minted
  /\ \A p \in Pair : IF p \in 1..minted THEN pair[p].user \in Account ELSE pair[p] = NoPair

(* A refresh token is exchanged once: requests that present the same token *)
(* at once, a retry of a refresh whose answer was lost, and a refresh that *)
(* crosses another do not fork the session, and what was exchanged is      *)
(* revoked and names its successor (refresh reads the token before the     *)
(* transaction of issueTokens revokes it).                                 *)
OneSuccessor ==
  \A p \in 1..minted : pair[p].from # Null =>
    /\ pair[pair[p].from].revoked
    /\ pair[pair[p].from].by = p

(* A sign-out that was answered with success revoked every token it was    *)
(* about, that is, the one it was given or all that the account had when   *)
(* it started; and only a rotation that committed while a sign-out of the  *)
(* whole account was under way leaves a successor: none that was answered  *)
(* before, none that is later, and none beside a sign-out of one token     *)
(* (logout, issueTokens).  That rotation does, so a sign-out of the whole  *)
(* account does not always end all of its sessions.                        *)
LogoutEndsSession ==
  /\ \A p \in ended : pair[p].revoked
  /\ \A p \in 1..minted : pair[p].from \in ended => pair[p].from \in raced

(* A hand-over code opens one session at most, however often the page is   *)
(* loaded with it (exchangeZaloOAuthCode, consumeOneTime).                 *)
HandoffOpensOneSession ==
  \A p, q \in 1..minted : pair[p].via = pair[q].via /\ pair[p].via # Null => p = q

-----------------------------------------------------------------------------
(* Why this holds: a request that is served has its account, a refresh     *)
(* brings no hand-over code, the token a rotation holds is still good, one *)
(* rotation holds it, and a code that was consumed is with one request.    *)
Served == {"identified", "known", "handing", "issuing", "signed", "rotating", "sweeping"}

RotationHolds ==
  \A w \in Caller :
    /\ serving[w].pair # Null => serving[w].pair \in 1..minted
    /\ serving[w].code # Null => serving[w].pair = Null /\ serving[w].phase \in {"issuing", "signed"}
    /\ serving[w].seen \subseteq 1..minted
    /\ serving[w].phase \in Served => serving[w].user \in Account
    /\ In(w, "rotating") =>
         /\ serving[w].pair # Null
         /\ ~pair[serving[w].pair].revoked
         /\ \A v \in Caller : In(v, "rotating") /\ serving[v].pair = serving[w].pair => v = w

PairsAreLinked ==
  \A p \in 1..minted :
    /\ pair[p].from # Null => pair[p].from \in 1..minted
    /\ pair[p].revoked <=> pair[p].by # Null \/ p \in ended
    /\ pair[p].by # Null /\ (p \in ended \/ Swept(p)) => p \in raced

CodesAreSpent ==
  /\ \A k \in HandoffCode : handoff[k] # Null => k \in 1..drawn
  /\ \A w \in Caller : serving[w].phase \in {"issuing", "signed"} /\ serving[w].code # Null =>
       /\ serving[w].code \in 1..drawn
       /\ handoff[serving[w].code] = Null
       /\ \A p \in 1..minted : pair[p].via # serving[w].code
       /\ \A v \in Caller : serving[v].phase \in {"issuing", "signed"}
                              /\ serving[v].code = serving[w].code => v = w
  /\ \A p \in 1..minted : pair[p].via # Null =>
       pair[p].via \in 1..drawn /\ handoff[pair[p].via] = Null

SessionsInv ==
  /\ SessionsTypeOK
  /\ RotationHolds
  /\ PairsAreLinked
  /\ CodesAreSpent
  /\ OneSuccessor
  /\ LogoutEndsSession
  /\ HandoffOpensOneSession
=============================================================================
