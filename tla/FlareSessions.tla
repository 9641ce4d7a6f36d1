---------------------------- MODULE FlareSessions ----------------------------
(***************************************************************************)
(* The browser sessions Jacklet keeps on FlareSolverr, one per tracker,    *)
(* and the logins that live in them: flareSessionFor to                    *)
(* scrapeWithFlareSolverr and Close in pkg/scraper/scraper.go, and         *)
(* ensureLoggedIn in pkg/scraper/login.go.                                 *)
(*                                                                         *)
(* A worker is a goroutine running one scrape after another, each of a     *)
(* tracker that declares a login: it signs in first when the tracker's     *)
(* login is not known to be good, and then searches, one request each.     *)
(* Every hold of flareSessionsMu or loginStateMu is one step, and so is    *)
(* every command to FlareSolverr; everything else interleaves.             *)
(*                                                                         *)
(* FlareSolverr is outside src/ and modelled as Jacklet's comments rely on *)
(* it: it loses its sessions when it restarts, and it makes a fresh one,   *)
(* signed in nowhere, for a request that names a session it does not hold. *)
(* A session nobody will ever name again, because the command that made or *)
(* destroyed it went unanswered, drops out of the model.                   *)
(***************************************************************************)
EXTENDS Integers, FiniteSets

CONSTANTS
  Trackers,           \* the trackers that use FlareSolverr
  Tested,             \* those whose login block has a test
  Workers,            \* the goroutines that scrape
  Sessions,           \* the names FlareSolverr gives sessions
  MaxFlareSessions,   \* Options.MaxFlareSolverrSessions
  MaxFailures,        \* flareSessionMaxFailures
  MaxRestarts,        \* bound: how often FlareSolverr restarts
  LateRequests,       \* whether a request may be sent with so little time left
                      \* that FlareSolverr is told to stop after its deadline
  None                \* no session, no worker

ASSUME LimitAssumption ==
  /\ MaxFlareSessions \in Nat \ {0}
  /\ MaxFailures \in Nat \ {0}
  /\ MaxRestarts \in Nat
  /\ LateRequests \in BOOLEAN

ASSUME NameAssumption ==
  /\ Tested \subseteq Trackers
  /\ IsFiniteSet(Trackers) /\ IsFiniteSet(Workers)
  /\ None \notin Sessions /\ None \notin Workers /\ None \notin Trackers

VARIABLES
  closed,     \* isFlareClosed
  closing,    \* the sessions Close has still to destroy
  id,         \* id[t]: flareSession.id, None for ""
  failures,   \* failures[t]: flareSession.failures
  lastUsed,   \* lastUsed[t]: flareSession.lastUsed, as a rank among trackers
  holder,     \* holder[t]: the worker holding flareSession.slot, or None
  fresh,      \* fresh[t]: loginIsFresh
  live,       \* FlareSolverr's sessions
  signedIn,   \* those whose browser is signed in to its tracker
  busy,       \* those whose one tab is being driven
  restarts,   \* how often FlareSolverr has restarted
  pc,         \* where each worker stands
  tracker,    \* tracker[w]: what w scrapes, or None
  phase,      \* phase[w]: which of its requests w makes
  mine,       \* mine[w]: the session name w holds in a local variable
  victims     \* victims[w]: what w evicted, <<tracker, session>> until the
              \* session is destroyed and <<tracker, None>> until the login
              \* is forgotten

jackletVars == <<closed, closing, id, failures, lastUsed>>
remoteVars  == <<live, signedIn, busy, restarts>>
workerVars  == <<tracker, phase, mine, victims>>
vars == <<jackletVars, remoteVars, workerVars, holder, fresh, pc>>

Phases == {"test", "login", "verify", "search"}

\* Where a worker stands while it holds its tracker's slot.
Holding == {"reading", "verifying", "forgetting", "evicting", "destroying", "creating",
            "storing", "discarding", "asking", "driving", "spent", "retiring", "disowning"}

\* The sessions that are some tracker's.
Held == {id[t] : t \in Trackers} \ {None}

\* The evicted sessions that are still to be destroyed.
Doomed == UNION {{v[2] : v \in victims[w]} : w \in Workers}

\* The names Jacklet holds somewhere.
Named == Held \union closing \union Doomed \union {mine[w] : w \in Workers}

Init ==
  /\ closed = FALSE
  /\ closing = {}
  /\ id = [t \in Trackers |-> None]
  /\ failures = [t \in Trackers |-> 0]
  /\ lastUsed = [t \in Trackers |-> 0]
  /\ holder = [t \in Trackers |-> None]
  /\ fresh = [t \in Trackers |-> FALSE]
  /\ live = {} /\ signedIn = {} /\ busy = {}
  /\ restarts = 0
  /\ pc = [w \in Workers |-> "idle"]
  /\ tracker = [w \in Workers |-> None]
  /\ phase = [w \in Workers |-> "search"]
  /\ mine = [w \in Workers |-> None]
  /\ victims = [w \in Workers |-> {}]

-----------------------------------------------------------------------------
(***************************************************************************)
(* The requests of a scrape.                                               *)
(***************************************************************************)

\* Where signing in begins: with the login's test, where it has one.
Signing(t) == IF t \in Tested THEN "test" ELSE "login"

\* A scrape begins: ensureLoggedIn looks whether the login is fresh.
Start(w, t) ==
  /\ pc[w] = "idle"
  /\ tracker' = [tracker EXCEPT ![w] = t]
  /\ phase' = [phase EXCEPT ![w] = IF fresh[t] THEN "search" ELSE Signing(t)]
  /\ pc' = [pc EXCEPT ![w] = "entering"]
  /\ UNCHANGED <<jackletVars, remoteVars, holder, fresh, mine, victims>>

\* w's request has ended well or not, and w goes on to what its scrape does
\* next.  A test that fails for any reason is followed by a login; a failed
\* search is reason to distrust the login.
Proceed(w, how) ==
  LET t == tracker[w]
      over == IF phase[w] = "search" /\ how = "failed" THEN "distrusting" ELSE "idle"
      next == CASE phase[w] = "test"   -> IF how = "good" THEN "marking" ELSE "entering"
                [] phase[w] = "login"  -> IF how # "good" THEN "idle"
                                          ELSE IF t \in Tested THEN "entering" ELSE "marking"
                [] phase[w] = "verify" -> IF how = "good" THEN "marking" ELSE "idle"
                [] phase[w] = "search" -> over
  IN /\ pc' = [pc EXCEPT ![w] = next]
     /\ phase' = [phase EXCEPT ![w] =
                    IF next # "entering" THEN "search"
                    ELSE IF @ = "test" THEN "login" ELSE "verify"]
     /\ tracker' = [tracker EXCEPT ![w] = IF next = "idle" THEN None ELSE @]
     /\ mine' = [mine EXCEPT ![w] = None]

\* The same, leaving the session's slot to the next request.
Leave(w, how) ==
  /\ holder' = [holder EXCEPT ![tracker[w]] = None]
  /\ Proceed(w, how)

\* markLoggedIn, once the login or its test has been answered.
MarkLoggedIn(w) ==
  /\ pc[w] = "marking"
  /\ fresh' = [fresh EXCEPT ![tracker[w]] = TRUE]
  /\ pc' = [pc EXCEPT ![w] = "entering"]
  /\ UNCHANGED <<jackletVars, remoteVars, workerVars, holder>>

\* scrapeMirror's invalidateLogin after a search that failed.
Distrust(w) ==
  /\ pc[w] = "distrusting"
  /\ fresh' = [fresh EXCEPT ![tracker[w]] = FALSE]
  /\ pc' = [pc EXCEPT ![w] = "idle"]
  /\ tracker' = [tracker EXCEPT ![w] = None]
  /\ UNCHANGED <<jackletVars, remoteVars, holder, phase, mine, victims>>

\* flareSessionFor: after Close nothing queues any more.
Enter(w) ==
  /\ pc[w] = "entering"
  /\ IF closed
       THEN Proceed(w, "failed")
       ELSE pc' = [pc EXCEPT ![w] = "queued"] /\ UNCHANGED <<phase, tracker, mine>>
  /\ UNCHANGED <<jackletVars, remoteVars, holder, fresh, victims>>

\* w is next in the queue for the tracker's session.
TakeSlot(w) ==
  /\ pc[w] = "queued"
  /\ holder[tracker[w]] = None
  /\ holder' = [holder EXCEPT ![tracker[w]] = w]
  /\ pc' = [pc EXCEPT ![w] = "reading"]
  /\ UNCHANGED <<jackletVars, remoteVars, workerVars, fresh>>

\* The context ends while w queues: errFlareSolverrQueue.
GiveUp(w) ==
  /\ pc[w] = "queued"
  /\ Proceed(w, "queueWait")
  /\ UNCHANGED <<jackletVars, remoteVars, holder, fresh, victims>>

-----------------------------------------------------------------------------
(***************************************************************************)
(* flareSolverrSession: find the tracker's session, or make one.           *)
(***************************************************************************)

\* Ranks with t's the newest.
UsedNow(t) ==
  [u \in Trackers |->
     IF u = t THEN Cardinality(Trackers)
     ELSE IF lastUsed[u] > lastUsed[t] THEN lastUsed[u] - 1 ELSE lastUsed[u]]

\* The entry is read, and marked used, under flareSessionsMu.
ReadSession(w) ==
  LET t == tracker[w]
  IN /\ pc[w] = "reading"
     /\ lastUsed' = UsedNow(t)
     /\ \/ /\ id[t] # None
           /\ mine' = [mine EXCEPT ![w] = id[t]]
           /\ pc' = [pc EXCEPT ![w] = "verifying"]
           /\ UNCHANGED <<phase, tracker, holder>>
        \/ /\ id[t] = None /\ ~closed
           /\ pc' = [pc EXCEPT ![w] = "evicting"]
           /\ UNCHANGED <<phase, tracker, mine, holder>>
        \/ /\ id[t] = None /\ closed
           /\ Leave(w, "failed")
     /\ UNCHANGED <<closed, closing, id, failures, remoteVars, fresh, victims>>

\* resetFlareSessionLocked, when t's session is still s.
Reset(t, s) ==
  IF id[t] = s
    THEN /\ id' = [id EXCEPT ![t] = None]
         /\ failures' = [failures EXCEPT ![t] = 0]
    ELSE UNCHANGED <<id, failures>>

\* verifyFlareSolverrSession: FlareSolverr's list names the session or does
\* not, or there is no answer and the session is kept.
VerifySession(w) ==
  /\ pc[w] = "verifying"
  /\ \/ /\ pc' = [pc EXCEPT ![w] = "asking"]
        /\ UNCHANGED <<id, failures, mine>>
     \/ /\ mine[w] \notin live
        /\ Reset(tracker[w], mine[w])
        /\ mine' = [mine EXCEPT ![w] = None]
        /\ pc' = [pc EXCEPT ![w] = "forgetting"]
  /\ UNCHANGED <<closed, closing, lastUsed, remoteVars, tracker, phase, victims, holder, fresh>>

\* The lost session's login goes with it.
ForgetLost(w) ==
  /\ pc[w] = "forgetting"
  /\ fresh' = [fresh EXCEPT ![tracker[w]] = FALSE]
  /\ pc' = [pc EXCEPT ![w] = "evicting"]
  /\ UNCHANGED <<jackletVars, remoteVars, workerVars, holder>>

\* Variant: an entry with a session counts as idle whoever holds its slot.
IdleOrNot == {t \in Trackers : id[t] # None}

\* The trackers whose session nobody drives.
Idle == {t \in Trackers : id[t] # None /\ holder[t] = None}

\* Variant: sessions are evicted only once there are too many.
ExcessAfterwards == Cardinality({t \in Trackers : id[t] # None}) - MaxFlareSessions

\* How many sessions must go before there is room for one more.
Excess == Cardinality({t \in Trackers : id[t] # None}) - MaxFlareSessions + 1

\* The least recently used of the idle sessions' trackers.
Evictable ==
  {t \in Idle : Cardinality({u \in Idle : lastUsed[u] < lastUsed[t]}) < Excess}

\* evictIdleFlareSolverrSessions under the lock.
Evict(w) ==
  /\ pc[w] = "evicting"
  /\ victims' = [victims EXCEPT ![w] = {<<t, id[t]>> : t \in Evictable}]
  /\ id' = [t \in Trackers |-> IF t \in Evictable THEN None ELSE id[t]]
  /\ failures' = [t \in Trackers |-> IF t \in Evictable THEN 0 ELSE failures[t]]
  /\ pc' = [pc EXCEPT ![w] = IF Evictable = {} THEN "creating" ELSE "destroying"]
  /\ UNCHANGED <<closed, closing, lastUsed, remoteVars, tracker, phase, mine, holder, fresh>>

\* sessions.destroy of s, by FlareSolverr.
Destroyed(s) ==
  /\ live' = live \ {s}
  /\ signedIn' = signedIn \ {s}
  /\ busy' = busy \ {s}
  /\ UNCHANGED restarts

\* w destroys one of its victims; the lock is no longer held.
DestroyVictim(w, v) ==
  /\ pc[w] = "destroying"
  /\ v \in victims[w] /\ \A u \in victims[w] : u[2] # None
  /\ Destroyed(v[2])
  /\ victims' = [victims EXCEPT ![w] = (@ \ {v}) \union {<<v[1], None>>}]
  /\ UNCHANGED <<jackletVars, tracker, phase, mine, holder, fresh, pc>>

\* invalidateLogin for the tracker whose session was destroyed.
ForgetVictim(w, v) ==
  /\ pc[w] = "destroying"
  /\ v \in victims[w] /\ v[2] = None
  /\ fresh' = [fresh EXCEPT ![v[1]] = FALSE]
  /\ victims' = [victims EXCEPT ![w] = @ \ {v}]
  /\ pc' = [pc EXCEPT ![w] = IF victims[w] = {v} THEN "creating" ELSE @]
  /\ UNCHANGED <<jackletVars, remoteVars, tracker, phase, mine, holder>>

\* sessions.create.
CreateSession(w) ==
  /\ pc[w] = "creating"
  /\ \E s \in Sessions \ (live \union Named) :
       /\ live' = live \union {s}
       /\ mine' = [mine EXCEPT ![w] = s]
       /\ pc' = [pc EXCEPT ![w] = "storing"]
  /\ UNCHANGED <<jackletVars, signedIn, busy, restarts, tracker, phase, victims, holder, fresh>>

\* sessions.create fails, or is given up on.
CreateFails(w) ==
  /\ pc[w] = "creating"
  /\ Leave(w, "failed")
  /\ UNCHANGED <<jackletVars, remoteVars, fresh, victims>>

\* Variant: whether Close has run is not looked at again.
StoreRegardless(w) ==
  /\ id' = [id EXCEPT ![tracker[w]] = mine[w]]
  /\ pc' = [pc EXCEPT ![w] = "asking"]

\* The new session becomes the tracker's, unless Close ran meanwhile.
Store(w) ==
  IF closed
    THEN pc' = [pc EXCEPT ![w] = "discarding"] /\ UNCHANGED id
    ELSE /\ id' = [id EXCEPT ![tracker[w]] = mine[w]]
         /\ pc' = [pc EXCEPT ![w] = "asking"]

StoreSession(w) ==
  /\ pc[w] = "storing"
  /\ Store(w)
  /\ UNCHANGED <<closed, closing, failures, lastUsed, remoteVars, workerVars, holder, fresh>>

\* The session nobody else can know of is destroyed again.
Discard(w) ==
  /\ pc[w] = "discarding"
  /\ Destroyed(mine[w])
  /\ Leave(w, "failed")
  /\ UNCHANGED <<jackletVars, fresh, victims>>

-----------------------------------------------------------------------------
(***************************************************************************)
(* The request itself, and what its failure means for the session.         *)
(***************************************************************************)

\* The command goes out, and FlareSolverr makes the session if it lost it.
Send(w) ==
  /\ pc[w] = "asking"
  /\ live' = live \union {mine[w]}
  /\ busy' = busy \union {mine[w]}
  /\ pc' = [pc EXCEPT ![w] = "driving"]
  /\ UNCHANGED <<jackletVars, signedIn, restarts, workerVars, holder, fresh>>

\* FlareSolverr drove the browser.  What the tracker answered may still be a
\* failure; a test passes exactly in a browser that is signed in.
Answered(w, how) ==
  /\ pc[w] = "driving"
  /\ mine[w] \in live
  /\ how = "good" /\ phase[w] \in {"test", "verify"} => mine[w] \in signedIn
  /\ failures' = [failures EXCEPT ![tracker[w]] = 0]
  /\ signedIn' = IF how = "good" /\ phase[w] = "login" THEN signedIn \union {mine[w]} ELSE signedIn
  /\ busy' = busy \ {mine[w]}
  /\ Leave(w, how)
  /\ UNCHANGED <<closed, closing, id, lastUsed, live, restarts, victims, fresh>>

\* A banned address or an unusable reply, which says nothing of the browser.
Blocked(w) ==
  /\ pc[w] = "driving"
  /\ busy' = busy \ {mine[w]}
  /\ Leave(w, "failed")
  /\ UNCHANGED <<jackletVars, live, signedIn, restarts, victims, fresh>>

\* Any other failure, the request's deadline among them, counts against the
\* session.  FlareSolverr stopped on its own, unless it was told to too late.
Failed(w) ==
  LET t == tracker[w]
  IN /\ pc[w] = "driving"
     /\ busy' \in {busy \ {mine[w]}} \union (IF LateRequests THEN {busy} ELSE {})
     /\ failures' = [failures EXCEPT ![t] = IF @ < MaxFailures THEN @ + 1 ELSE @]
     /\ IF failures[t] + 1 >= MaxFailures
          THEN pc' = [pc EXCEPT ![w] = "spent"] /\ UNCHANGED <<phase, tracker, mine, holder>>
          ELSE Leave(w, "failed")
     /\ UNCHANGED <<closed, closing, id, lastUsed, live, signedIn, restarts, victims, fresh>>

\* noteFlareSolverrFailure of a canceled request: its tab may still be driven.
Canceled(w) ==
  /\ pc' = [pc EXCEPT ![w] = "spent"]
  /\ UNCHANGED <<phase, tracker, mine, holder>>

Cancel(w) ==
  /\ pc[w] = "driving"
  /\ Canceled(w)
  /\ UNCHANGED <<jackletVars, remoteVars, victims, fresh>>

\* retireFlareSolverrSession.
Retire(w) ==
  /\ pc[w] = "spent"
  /\ Reset(tracker[w], mine[w])
  /\ IF id[tracker[w]] = mine[w]
       THEN pc' = [pc EXCEPT ![w] = "retiring"] /\ UNCHANGED <<phase, tracker, mine, holder>>
       ELSE Leave(w, "failed")
  /\ UNCHANGED <<closed, closing, lastUsed, remoteVars, victims, fresh>>

\* Variant: the destroy is sent on the request's own, ended context.
DestroyRetiredInVain(w) ==
  /\ pc[w] = "retiring"
  /\ pc' = [pc EXCEPT ![w] = "disowning"]
  /\ UNCHANGED <<jackletVars, remoteVars, workerVars, holder, fresh>>

\* On a context of its own, so that the request's end does not stop it.
DestroyRetired(w) ==
  /\ pc[w] = "retiring"
  /\ Destroyed(mine[w])
  /\ pc' = [pc EXCEPT ![w] = "disowning"]
  /\ UNCHANGED <<jackletVars, workerVars, holder, fresh>>

\* The retired session's login goes with it.
Disown(w) ==
  /\ pc[w] = "disowning"
  /\ fresh' = [fresh EXCEPT ![tracker[w]] = FALSE]
  /\ Leave(w, "failed")
  /\ UNCHANGED <<jackletVars, remoteVars, victims>>

-----------------------------------------------------------------------------
(***************************************************************************)
(* Close, and what happens outside the workers.                            *)
(***************************************************************************)

\* Close takes every session out of the map at once.
Close ==
  /\ ~closed
  /\ closed' = TRUE
  /\ closing' = Held
  /\ id' = [t \in Trackers |-> None]
  /\ UNCHANGED <<failures, lastUsed, remoteVars, workerVars, holder, fresh, pc>>

\* Close destroys one of the sessions it took, the lock released.
CloseDestroys(s) ==
  /\ s \in closing
  /\ Destroyed(s)
  /\ closing' = closing \ {s}
  /\ UNCHANGED <<closed, id, failures, lastUsed, workerVars, holder, fresh, pc>>

\* A login's validity runs out, or the operator saves the tracker's settings.
LoginLapses(t) ==
  /\ fresh[t]
  /\ fresh' = [fresh EXCEPT ![t] = FALSE]
  /\ UNCHANGED <<jackletVars, remoteVars, workerVars, holder, pc>>

\* FlareSolverr gets to the end of a request nobody waits for any more.
TabFinishes(s) ==
  /\ s \in busy
  /\ \A w \in Workers : ~ (pc[w] = "driving" /\ mine[w] = s)
  /\ busy' = busy \ {s}
  /\ UNCHANGED <<jackletVars, live, signedIn, restarts, workerVars, holder, fresh, pc>>

\* FlareSolverr restarts with no sessions; Jacklet is not told.
Restart ==
  /\ restarts < MaxRestarts
  /\ restarts' = restarts + 1
  /\ live' = {} /\ signedIn' = {} /\ busy' = {}
  /\ UNCHANGED <<jackletVars, workerVars, holder, fresh, pc>>

Next ==
  \/ \E w \in Workers :
       \/ \E t \in Trackers : Start(w, t)
       \/ MarkLoggedIn(w) \/ Distrust(w)
       \/ Enter(w) \/ TakeSlot(w) \/ GiveUp(w)
       \/ ReadSession(w) \/ VerifySession(w) \/ ForgetLost(w)
       \/ Evict(w) \/ \E v \in victims[w] : DestroyVictim(w, v) \/ ForgetVictim(w, v)
       \/ CreateSession(w) \/ CreateFails(w) \/ StoreSession(w) \/ Discard(w)
       \/ Send(w) \/ \E how \in {"good", "failed"} : Answered(w, how)
       \/ Blocked(w) \/ Failed(w) \/ Cancel(w)
       \/ Retire(w) \/ DestroyRetired(w) \/ Disown(w)
  \/ Close \/ \E s \in closing : CloseDestroys(s)
  \/ \E t \in Trackers : LoginLapses(t)
  \/ \E s \in busy : TabFinishes(s)
  \/ Restart

Spec == Init /\ [][Next]_vars

-----------------------------------------------------------------------------
(***************************************************************************)
(* Properties.                                                             *)
(***************************************************************************)

\* Every variable has its type.
TypeOK ==
  /\ closed \in BOOLEAN /\ closing \subseteq Sessions
  /\ id \in [Trackers -> Sessions \union {None}]
  /\ failures \in [Trackers -> 0..MaxFailures]
  /\ lastUsed \in [Trackers -> 0..Cardinality(Trackers)]
  /\ holder \in [Trackers -> Workers \union {None}]
  /\ fresh \in [Trackers -> BOOLEAN]
  /\ live \subseteq Sessions /\ signedIn \subseteq live /\ busy \subseteq live
  /\ restarts \in 0..MaxRestarts
  /\ pc \in [Workers -> Holding \union {"idle", "entering", "queued", "marking", "distrusting"}]
  /\ tracker \in [Workers -> Trackers \union {None}]
  /\ phase \in [Workers -> Phases]
  /\ mine \in [Workers -> Sessions \union {None}]
  /\ victims \in [Workers -> SUBSET (Trackers \X (Sessions \union {None}))]

\* A tracker's slot is held by the one worker that is past the queue for it.
OneHolder ==
  /\ \A w \in Workers :
       /\ pc[w] \in Holding <=> \E t \in Trackers : holder[t] = w
       /\ pc[w] \in Holding => holder[tracker[w]] = w
       /\ pc[w] = "idle" <=> tracker[w] = None
  /\ \A t, u \in Trackers : holder[t] = holder[u] /\ holder[t] # None => t = u

\* A name Jacklet holds has one place: a tracker's entry, a worker that has it
\* to destroy or to store, or Close.
NamesApart ==
  /\ \A t, u \in Trackers : id[t] = id[u] /\ id[t] # None => t = u
  /\ \A w \in Workers :
       pc[w] \in {"storing", "discarding", "retiring", "disowning"} => mine[w] \notin Held
  /\ Held \intersect Doomed \subseteq {None}
  /\ Held \intersect closing = {}

\* A worker's request names the session its tracker has: nobody evicts,
\* retires or replaces it meanwhile, except that Close takes it away.
UsedIsCurrent ==
  \A w \in Workers :
    pc[w] \in {"verifying", "asking", "driving", "spent"} =>
      /\ mine[w] # None
      /\ id[tracker[w]] = mine[w] \/ closed

\* Once Close has run, no session is stored again.
ClosedForGood == closed => Held = {}

\* No request is sent to a session whose one tab is still being driven by an
\* earlier request, even one that was canceled.
TabNotShared == \A w \in Workers : pc[w] = "asking" => mine[w] \notin busy

\* What one queue slot per tracker and the two locks are there to keep true of
\* the entries, the workers, the sessions' tabs and Close, between any two steps
\* of any of them.
Consistent ==
  TypeOK /\ OneHolder /\ NamesApart /\ UsedIsCurrent /\ ClosedForGood /\ TabNotShared

\* No session disappears under the request that drives it, except by Close or
\* by a restart of FlareSolverr.
RequestsUndisturbed ==
  [][\A w \in Workers :
       pc[w] = "driving" /\ mine[w] \in live /\ mine[w] \notin live'
         => closed \/ restarts' # restarts]_vars

\* Until Close, Jacklet holds the name of every session FlareSolverr has: none
\* is forgotten without being destroyed.
Accounted == ~closed => live \subseteq Named

\* Sessions, and those about to be made, exceed the limit by fewer than there
\* are requests that can run at once.
SessionsBounded ==
  Cardinality({t \in Trackers : id[t] # None})
    + Cardinality({w \in Workers : pc[w] \in {"destroying", "creating", "storing"}})
      <= MaxFlareSessions + Cardinality(Workers) - 1

\* The documentation of evictIdleFlareSolverrSessions: an evicted tracker's
\* login is forgotten with its session, and its next search signs in again.
LoginsGoWithSessions ==
  \A t \in Trackers :
    /\ fresh[t] /\ ~closed /\ holder[t] = None
    /\ \A w \in Workers : \A v \in victims[w] : v[1] # t
    => id[t] # None

=============================================================================
