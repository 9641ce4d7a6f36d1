------------------------------ MODULE AdminPanel ------------------------------
(***************************************************************************)
(* Signing in to the administration panel and using it: the limiter that   *)
(* spaces attempts by client address, the sessions and their two expiries, *)
(* and the guard in front of every page.  Requests run concurrently; each  *)
(* hold of the limiter's or the session store's mutex is one step.         *)
(*                                                                         *)
(* A browser reaches the panel through the operator's proxy, which appends *)
(* the browser's address to whatever X-Forwarded-For the browser sent.     *)
(***************************************************************************)
EXTENDS Integers, Sequences

CONSTANTS
  Browsers,
  Tokens,        \* session tokens, none ever issued twice
  Lifetime,      \* sessionLifetime
  IdleTimeout,   \* sessionIdleTimeout
  LoginDelay,    \* loginDelay
  PanelEnd,      \* bound: the clock stops there
  Claims,        \* what X-Forwarded-For may hold before the proxy
  Proxy          \* the proxy's address, the one trusted

ASSUME PanelAssumption ==
  /\ Lifetime \in Nat /\ IdleTimeout \in Nat /\ LoginDelay \in Nat /\ PanelEnd \in Nat \ {0}
  /\ \A f \in Claims : f \in Seq(STRING)

\* A browser has an address, and reaches the panel through the proxy.
ASSUME BrowserAssumption == Proxy \notin Browsers /\ "garbage" \notin Browsers

VARIABLES
  clock,
  sessions,      \* the session store: [expiresAt, lastSeen] by token, or NoSession
  notBefore,     \* the limiter's slots: client address to the time it is free, or 0
  nextPrune,
  cookie,        \* cookie[b]: the token the browser holds, or NoToken
  visit,         \* visit[b]: the request b is making
  issuedAt, usedAt, endedBy,   \* history of each token
  lastAttempt    \* history: when each browser's last attempt was let through,
                 \* or Never, also after a sign-in

sessionVars == <<sessions, issuedAt, usedAt, endedBy>>
limiterVars == <<notBefore, nextPrune, lastAttempt>>
panelVars   == <<clock, sessionVars, limiterVars, cookie, visit>>

NoToken   == "no token"
NoSession == [expiresAt |-> 0, lastSeen |-> 0]
Never     == -1
NoVisit   == [step |-> "none", token |-> NoToken, client |-> Proxy]

Addresses == Browsers \union {Proxy} \union UNION {{f[i] : i \in DOMAIN f} : f \in Claims}

PanelInit ==
  /\ clock = 1
  /\ sessions = [t \in Tokens |-> NoSession]
  /\ notBefore = [a \in Addresses |-> 0]
  /\ nextPrune = 0
  /\ cookie = [b \in Browsers |-> NoToken]
  /\ visit = [b \in Browsers |-> NoVisit]
  /\ issuedAt = [t \in Tokens |-> Never] /\ usedAt = [t \in Tokens |-> Never]
  /\ endedBy = [t \in Tokens |-> "none"]
  /\ lastAttempt = [b \in Browsers |-> Never]

-----------------------------------------------------------------------------
(***************************************************************************)
(* The client an attempt is counted against.                               *)
(***************************************************************************)

\* Variant: the leftmost entry is the client.
LeftmostClient(entries) ==
  IF entries = <<>> \/ Head(entries) = "garbage" THEN Proxy ELSE Head(entries)

\* forwardedClient: the rightmost entry the operator's proxies did not write, or
\* the leftmost when they wrote them all; the proxy itself when that one is no
\* address, or there is none.
ForwardedClient(entries) ==
  LET foreign == {i \in DOMAIN entries : entries[i] # Proxy}
      last    == CHOOSE i \in foreign : \A j \in foreign : j <= i
  IN IF foreign = {} THEN Proxy
     ELSE IF entries[last] = "garbage" THEN Proxy ELSE entries[last]

-----------------------------------------------------------------------------
(***************************************************************************)
(* The limiter.                                                            *)
(***************************************************************************)

\* The slots a sweep leaves.
Swept(slots) == [a \in Addresses |-> IF clock >= slots[a] THEN 0 ELSE slots[a]]

\* reserve lets the attempt through.
Reserve(client) ==
  /\ clock >= notBefore[client]
  /\ notBefore' = [IF clock >= nextPrune THEN Swept(notBefore) ELSE notBefore
                     EXCEPT ![client] = clock + LoginDelay]
  /\ nextPrune' = IF clock >= nextPrune THEN clock + LoginDelay ELSE nextPrune

Visit(b, step) == visit' = [visit EXCEPT ![b].step = step]

\* handleLogin, up to the reservation; a client inside its delay is refused.
Attempt(b, claimed) ==
  LET client == ForwardedClient(Append(claimed, b))
  IN /\ visit[b] = NoVisit
     /\ Reserve(client)
     /\ visit' = [visit EXCEPT ![b] = [step |-> "verify", token |-> cookie[b], client |-> client]]
     /\ lastAttempt' = [lastAttempt EXCEPT ![b] = clock]
     /\ UNCHANGED <<clock, sessionVars, cookie>>

\* The password is wrong, or it is right and the slot is released.
Verify(b) ==
  /\ visit[b].step = "verify"
  /\ \/ /\ visit' = [visit EXCEPT ![b] = NoVisit]
        /\ UNCHANGED <<notBefore, lastAttempt>>
     \/ /\ Visit(b, "replace")
        /\ notBefore' = [notBefore EXCEPT ![visit[b].client] = 0]
        /\ lastAttempt' = [lastAttempt EXCEPT ![b] = Never]
  /\ UNCHANGED <<clock, sessionVars, nextPrune, cookie>>

-----------------------------------------------------------------------------
(***************************************************************************)
(* The sessions.                                                           *)
(***************************************************************************)

\* destroy, of the session whose token the request carried.
Destroy(b, reason) ==
  LET t == visit[b].token
  IN IF t = NoToken THEN UNCHANGED sessionVars
     ELSE /\ sessions' = [sessions EXCEPT ![t] = NoSession]
          /\ endedBy' = [endedBy EXCEPT ![t] = reason]
          /\ UNCHANGED <<issuedAt, usedAt>>

\* Signing in ends the session this browser held.
Replace(b) ==
  /\ visit[b].step = "replace"
  /\ Destroy(b, "sign-in")
  /\ Visit(b, "create")
  /\ UNCHANGED <<clock, limiterVars, cookie>>

\* Variant: only use keeps a session alive, however old it is.
IsExpiredByIdling(session) == clock - session.lastSeen > IdleTimeout

IsExpired(session) ==
  clock > session.expiresAt \/ clock - session.lastSeen > IdleTimeout

\* create, which drops expired sessions, and the answer with the new cookie.
Create(b) ==
  \E t \in Tokens :
    /\ visit[b].step = "create" /\ issuedAt[t] = Never
    /\ sessions' = [u \in Tokens |->
                      IF u = t THEN [expiresAt |-> clock + Lifetime, lastSeen |-> clock]
                      ELSE IF IsExpired(sessions[u]) THEN NoSession ELSE sessions[u]]
    /\ issuedAt' = [issuedAt EXCEPT ![t] = clock]
    /\ usedAt' = [usedAt EXCEPT ![t] = clock]
    /\ cookie' = [cookie EXCEPT ![b] = t]
    /\ visit' = [visit EXCEPT ![b] = NoVisit]
    /\ UNCHANGED <<clock, limiterVars, endedBy>>

\* No token could be made, so no session is issued.
CreateFails(b) ==
  /\ visit[b].step = "create"
  /\ visit' = [visit EXCEPT ![b] = NoVisit]
  /\ UNCHANGED <<clock, sessionVars, limiterVars, cookie>>

\* guard finds the session of a request, whose idle time begins again.
Admit(b) ==
  LET t == cookie[b]
  IN /\ visit[b] = NoVisit
     /\ t # NoToken /\ sessions[t] # NoSession /\ ~IsExpired(sessions[t])
     /\ sessions' = [sessions EXCEPT ![t].lastSeen = clock]
     /\ usedAt' = [usedAt EXCEPT ![t] = clock]
     /\ visit' = [visit EXCEPT ![b] = [step |-> "inside", token |-> t, client |-> Proxy]]
     /\ UNCHANGED <<clock, limiterVars, cookie, issuedAt, endedBy>>

\* guard finds none, drops an expired one, and takes the browser's cookie away.
TurnAway(b) ==
  LET t == cookie[b]
  IN /\ visit[b] = NoVisit /\ t # NoToken
     /\ sessions[t] = NoSession \/ IsExpired(sessions[t])
     /\ sessions' = [sessions EXCEPT ![t] = NoSession]
     /\ cookie' = [cookie EXCEPT ![b] = NoToken]
     /\ UNCHANGED <<clock, limiterVars, visit, issuedAt, usedAt, endedBy>>

\* The handler behind the guard: a page, a form whose token is not the
\* session's and is refused, or an action.
Handled(b) ==
  /\ visit[b].step = "inside"
  /\ visit' = [visit EXCEPT ![b] = NoVisit]
  /\ UNCHANGED <<clock, sessionVars, limiterVars, cookie>>

\* handleLogout, behind the guard too.
Logout(b) ==
  /\ visit[b].step = "inside"
  /\ Destroy(b, "sign-out")
  /\ visit' = [visit EXCEPT ![b] = NoVisit]
  /\ cookie' = [cookie EXCEPT ![b] = NoToken]
  /\ UNCHANGED <<clock, limiterVars>>

\* Two browsers of one administrator, or two tabs: the cookie is carried over.
CopyCookie(b, other) ==
  /\ visit[b] = NoVisit /\ cookie[b] # cookie[other]
  /\ cookie' = [cookie EXCEPT ![b] = cookie[other]]
  /\ UNCHANGED <<clock, sessionVars, limiterVars, visit>>

PanelTick ==
  /\ clock < PanelEnd
  /\ clock' = clock + 1
  /\ UNCHANGED <<sessionVars, limiterVars, cookie, visit>>

PanelNext ==
  \/ \E b \in Browsers :
       \/ \E claimed \in Claims : Attempt(b, claimed)
       \/ Verify(b) \/ Replace(b) \/ Create(b) \/ CreateFails(b)
       \/ Admit(b) \/ TurnAway(b) \/ Handled(b) \/ Logout(b)
       \/ \E other \in Browsers : CopyCookie(b, other)
  \/ PanelTick

PanelSpec == PanelInit /\ [][PanelNext]_panelVars

-----------------------------------------------------------------------------
(***************************************************************************)
(* Properties.                                                             *)
(***************************************************************************)

\* A session is used only from its creation to Lifetime later, never after going
\* unused for longer than IdleTimeout, and never once it was signed out of or
\* replaced, however the requests that carry its token interleave.
SessionsEnd ==
  [][\A t \in Tokens :
       sessions'[t].lastSeen # sessions[t].lastSeen /\ sessions'[t] # NoSession =>
         /\ endedBy[t] = "none"
         /\ issuedAt'[t] <= clock /\ clock <= issuedAt'[t] + Lifetime
         /\ usedAt[t] = Never \/ clock <= usedAt[t] + IdleTimeout]_panelVars

\* Attempts of one browser are at least LoginDelay apart unless it signed in in
\* between, whatever it claims in X-Forwarded-For and whoever's expired slots
\* are swept meanwhile.
AttemptsSpaced ==
  [][\A b \in Browsers :
       visit[b].step = "none" /\ visit'[b].step = "verify" =>
         lastAttempt[b] = Never \/ clock >= lastAttempt[b] + LoginDelay]_panelVars

\* Every variable has its type; a token that was never issued has no session.
PanelTypeOK ==
  /\ clock \in 1 .. PanelEnd
  /\ \A t \in Tokens : issuedAt[t] = Never => sessions[t] = NoSession
  /\ \A b \in Browsers :
       /\ cookie[b] \in Tokens \union {NoToken}
       /\ visit[b].step \in {"none", "verify", "replace", "create", "inside"}
       /\ visit[b].client \in Addresses

=============================================================================
