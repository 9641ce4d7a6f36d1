--------------------------- MODULE ScrapeScheduler ---------------------------
(***************************************************************************)
(* How Scraper.Scrape decides whether, when and on whose behalf a tracker  *)
(* is asked: the rate limiting, failure backoff, de-duplication and        *)
(* following of identical searches in pkg/scraper/scraper.go (planScrape,  *)
(* finishScrape and the skeleton of Scrape).                               *)
(*                                                                         *)
(* The module is about one tracker: scrapeState is a map from tracker to   *)
(* its own state, and nothing below reads another tracker's entry.  Each   *)
(* element of Requests is one call of Scrape, so a scrapeFlight, which is  *)
(* made by exactly one call, is named after the request that leads it.     *)
(* planScrape and finishScrape hold scrapeStateMu throughout and are one   *)
(* step each; whatever the calls do between the two is interleaved.        *)
(*                                                                         *)
(* Time is a counter.  now only moves in Tick, so any number of steps can  *)
(* share an instant and a timer can fire arbitrarily late.                 *)
(***************************************************************************)
EXTENDS Integers

CONSTANTS
  Requests,            \* the calls of Scrape for this tracker
  Keys,                \* the searches they make (SearchParams.cacheKey)
  MinScrapeInterval,   \* how long a completed search stands in for a repeat
  MinScrapeSpacing,    \* the gap between two searches of the tracker
  MaxScrapeWait,       \* the longest a search waits for its slot
  MaxScrapeBackoff,    \* the longest a failing tracker is left alone
  AskUntil,            \* bound: no request arrives after this instant
  None                 \* no flight, no search, no outcome, no answer

ASSUME TimingAssumption ==
  /\ MinScrapeInterval \in Nat /\ MinScrapeSpacing \in Nat
  /\ MaxScrapeWait \in Nat /\ MaxScrapeBackoff \in Nat
  /\ AskUntil \in Nat

ASSUME NoneAssumption ==
  /\ None \notin Requests
  /\ None \notin Keys
  /\ None \notin {"ok", "queueWait", "error", "canceled", "throttled"}

VARIABLES
  now,            \* time.Now()
  failures,       \* scrapeState.failures
  nextAllowed,    \* scrapeState.nextAllowed
  recent,         \* scrapeState.recent; Never where the map has no entry
  inFlight,       \* scrapeState.inFlight; None where the map has no entry
  outcome,        \* outcome[r]: what the flight r led ended with, or None
  pc,             \* where each call of Scrape stands
  key,            \* key[r]: the search r makes, or None before it asks
  leader,         \* leader[r]: the request whose flight r waits for, or None
  answer,         \* answer[r]: what Scrape returned to r, or None
  \* What follows records history for the properties; no guard reads it,
  \* but for slot, which is also the end of a leader's sleep.
  slot,           \* slot[r]: the instant planScrape reserved for leader r
  ended,          \* ended[r]: when the flight r led succeeded
  backoffUntil    \* the end of the longest backoff since the last success

stateVars   == <<failures, nextAllowed, recent, inFlight>>
flightVars  == <<outcome, slot, ended>>
requestVars == <<pc, key, leader, answer>>
vars == <<now, stateVars, flightVars, requestVars, backoffUntil>>

Never == -1

\* What a flight can end with: nil, errFlareSolverrQueue or errRequestQueue,
\* the context's error from the leader's own wait, or any other error, a
\* recovered panic among them.
Outcomes == {"ok", "queueWait", "canceled", "error"}
Answers  == Outcomes \union {"throttled"}

MaxOf(a, b) == IF a >= b THEN a ELSE b
MinOf(a, b) == IF a <= b THEN a ELSE b

\* 1 << n for the shifts finishScrape makes.
PowersOfTwo == <<2, 4, 8, 16, 32, 64, 128, 256>>

\* The backoff after the n-th consecutive failure.
Backoff(n) ==
  MinOf(MinScrapeInterval * PowersOfTwo[MinOf(n, 8)], MaxScrapeBackoff)

Leading(r) == pc[r] \in {"waiting", "scraping"}

Init ==
  /\ now = 0
  /\ failures = 0
  /\ nextAllowed = 0
  /\ recent = [k \in Keys |-> Never]
  /\ inFlight = [k \in Keys |-> None]
  /\ outcome = [r \in Requests |-> None]
  /\ pc = [r \in Requests |-> "new"]
  /\ key = [r \in Requests |-> None]
  /\ leader = [r \in Requests |-> None]
  /\ answer = [r \in Requests |-> None]
  /\ slot = [r \in Requests |-> Never]
  /\ ended = [r \in Requests |-> Never]
  /\ backoffUntil = 0

-----------------------------------------------------------------------------
(***************************************************************************)
(* planScrape.                                                             *)
(***************************************************************************)

\* Variant: the first failure is forgiven.
BackedOffFromSecond == failures > 1 /\ now < nextAllowed

\* IndexerStatus.BackedOff, and the same test in planScrape.
BackedOff == failures > 0 /\ now < nextAllowed

\* A completed copy of k is in the store already.
IsCurrent(k) == recent[k] # Never /\ now - recent[k] < MinScrapeInterval

\* The tracker's next free slot.
NextSlot == MaxOf(now, nextAllowed)

\* Variant: the slot after this one is counted from now.
ReservedFromNow == now + MinScrapeSpacing

\* Where the slot after this one may begin.
Reserved == NextSlot + MinScrapeSpacing

\* Variant: entries are dropped as soon as the tracker may be asked again.
PrunedBySpacing ==
  [k \in Keys |-> IF now - recent[k] >= MinScrapeSpacing THEN Never ELSE recent[k]]

\* Entries that can no longer suppress a scrape are dropped.
PrunedRecent ==
  [k \in Keys |-> IF now - recent[k] >= MinScrapeInterval THEN Never ELSE recent[k]]

\* r asks for k while an identical search is in progress, and follows it.
Follow(r, k) ==
  /\ inFlight[k] # None
  /\ leader' = [leader EXCEPT ![r] = inFlight[k]]
  /\ pc' = [pc EXCEPT ![r] = "following"]
  /\ UNCHANGED <<stateVars, flightVars, answer>>

\* r asks for k and is turned away with ErrThrottled.
Skip(r, k) ==
  /\ inFlight[k] = None
  /\ \/ BackedOff
     \/ IsCurrent(k)
     \/ NextSlot - now > MaxScrapeWait
  /\ answer' = [answer EXCEPT ![r] = "throttled"]
  /\ pc' = [pc EXCEPT ![r] = "done"]
  /\ UNCHANGED <<stateVars, flightVars, leader>>

\* r asks for k, reserves the tracker's next slot and leads a new flight; it
\* sleeps first when its slot is still ahead.
Lead(r, k) ==
  /\ inFlight[k] = None
  /\ ~BackedOff
  /\ ~IsCurrent(k)
  /\ NextSlot - now <= MaxScrapeWait
  /\ nextAllowed' = Reserved
  /\ recent' = PrunedRecent
  /\ inFlight' = [inFlight EXCEPT ![k] = r]
  /\ slot' = [slot EXCEPT ![r] = NextSlot]
  /\ leader' = [leader EXCEPT ![r] = r]
  /\ pc' = [pc EXCEPT ![r] = IF NextSlot > now THEN "waiting" ELSE "scraping"]
  /\ UNCHANGED <<failures, outcome, ended, answer>>

planScrape(r, k) ==
  /\ pc[r] = "new"
  /\ now <= AskUntil
  /\ key' = [key EXCEPT ![r] = k]
  /\ Follow(r, k) \/ Skip(r, k) \/ Lead(r, k)
  /\ UNCHANGED <<now, backoffUntil>>

-----------------------------------------------------------------------------
(***************************************************************************)
(* finishScrape, and the parts of Scrape around it.                        *)
(***************************************************************************)

\* A success ends the backoff and starts the de-duplication window.
FinishedWell(k) ==
  /\ failures' = 0
  /\ recent' = [recent EXCEPT ![k] = now]
  /\ backoffUntil' = 0
  /\ UNCHANGED nextAllowed

\* Variant: a failure sets the next slot without looking at what is reserved.
FinishedBadlyRegardless ==
  LET until == now + Backoff(failures + 1)
  IN /\ failures' = failures + 1
     /\ nextAllowed' = until
     /\ backoffUntil' = MaxOf(backoffUntil, until)
     /\ UNCHANGED recent

\* A failure of the tracker lengthens the backoff.
FinishedBadly ==
  LET until == now + Backoff(failures + 1)
  IN /\ failures' = failures + 1
     /\ nextAllowed' = MaxOf(nextAllowed, until)
     /\ backoffUntil' = MaxOf(backoffUntil, until)
     /\ UNCHANGED recent

\* Variant: the finished flight is left registered.
StillRegistered(r) == inFlight

\* inFlight without the flight r led, when that is still the one registered.
Deregistered(r) == [inFlight EXCEPT ![key[r]] = IF @ = r THEN None ELSE @]

\* Variant: a queue wait returns before the flight is published.
PublishedUnlessQueued(r, o) ==
  IF o = "queueWait" THEN outcome ELSE [outcome EXCEPT ![r] = o]

\* flight.err and flight.torrents are set and flight.done is closed.
Published(r, o) == [outcome EXCEPT ![r] = o]

\* The flight r leads ends with o: publish it to every follower and settle
\* the tracker's account.  A queue wait leaves the account alone.
finishScrape(r, o) ==
  /\ outcome' = Published(r, o)
  /\ inFlight' = Deregistered(r)
  /\ \/ o = "ok" /\ FinishedWell(key[r])
     \/ o = "queueWait" /\ UNCHANGED <<failures, recent, nextAllowed, backoffUntil>>
     \/ o \in {"canceled", "error"} /\ FinishedBadly
  /\ ended' = IF o = "ok" THEN [ended EXCEPT ![r] = now] ELSE ended
  /\ pc' = [pc EXCEPT ![r] = "returning"]
  /\ UNCHANGED <<now, slot, key, leader, answer>>

\* The leader's slot has come: it goes on to the tracker.
Wake(r) ==
  /\ pc[r] = "waiting"
  /\ now >= slot[r]
  /\ pc' = [pc EXCEPT ![r] = "scraping"]
  /\ UNCHANGED <<now, stateVars, flightVars, key, leader, answer, backoffUntil>>

\* A client can disconnect at any time, and only a call that waits notices by
\* itself: its going away and the call's noticing are one step below.  A
\* scrape under way may end in any way, whether or not its client is there.
\* The leader's client goes away while it waits for its slot: sleepContext
\* returns the context's own error, and that is what finishScrape is given.
AbandonWait(r) ==
  /\ pc[r] = "waiting"
  /\ finishScrape(r, "canceled")

\* The scrape itself ends, in whatever way the tracker and the network chose.
EndScrape(r, o) ==
  /\ pc[r] = "scraping"
  /\ finishScrape(r, o)

\* Scrape returns the outcome of the flight r led or followed.
Return(r) ==
  /\ pc[r] \in {"following", "returning"}
  /\ outcome[leader[r]] # None
  /\ answer' = [answer EXCEPT ![r] = outcome[leader[r]]]
  /\ pc' = [pc EXCEPT ![r] = "done"]
  /\ UNCHANGED <<now, stateVars, flightVars, key, leader, backoffUntil>>

\* A follower's client goes away before, or just as, the flight ends.
StopFollowing(r) ==
  /\ pc[r] = "following"
  /\ answer' = [answer EXCEPT ![r] = "canceled"]
  /\ pc' = [pc EXCEPT ![r] = "done"]
  /\ UNCHANGED <<now, stateVars, flightVars, key, leader, backoffUntil>>

\* Time passes, until the last slot anyone can have been given.
Tick ==
  /\ now < AskUntil + MaxScrapeWait
  /\ now' = now + 1
  /\ UNCHANGED <<stateVars, flightVars, requestVars, backoffUntil>>

Next ==
  \/ \E r \in Requests :
       \/ \E k \in Keys : planScrape(r, k)
       \/ Wake(r)
       \/ AbandonWait(r)
       \/ \E o \in {"ok", "queueWait", "error"} : EndScrape(r, o)
       \/ Return(r)
       \/ StopFollowing(r)
  \/ Tick

Spec == Init /\ [][Next]_vars

\* A timer fires, a goroutine that can run is run, and the HTTP client's
\* timeouts end every scrape.  Nobody is obliged to search or to disconnect.
Fairness ==
  /\ WF_vars(Tick)
  /\ \A r \in Requests :
       /\ WF_vars(Wake(r))
       /\ WF_vars(\E o \in {"ok", "queueWait", "error"} : EndScrape(r, o))
       /\ WF_vars(Return(r))

FairSpec == Spec /\ Fairness

-----------------------------------------------------------------------------
(***************************************************************************)
(* Properties.                                                             *)
(***************************************************************************)

\* Every variable has its type.
TypeOK ==
  /\ now \in Nat /\ failures \in Nat /\ nextAllowed \in Nat /\ backoffUntil \in Nat
  /\ recent \in [Keys -> Nat \union {Never}]
  /\ inFlight \in [Keys -> Requests \union {None}]
  /\ outcome \in [Requests -> Outcomes \union {None}]
  /\ pc \in [Requests -> {"new", "waiting", "scraping", "following", "returning", "done"}]
  /\ key \in [Requests -> Keys \union {None}]
  /\ leader \in [Requests -> Requests \union {None}]
  /\ answer \in [Requests -> Answers \union {None}]
  /\ slot \in [Requests -> Nat \union {Never}]
  /\ ended \in [Requests -> Nat \union {Never}]

\* A call has a search once it has asked, a slot once it leads, and an outcome
\* once it no longer does.
CallsInOrder ==
  \A r \in Requests :
    /\ pc[r] = "new" <=> key[r] = None
    /\ pc[r] = "new" => /\ leader[r] = None /\ outcome[r] = None
                        /\ slot[r] = Never /\ answer[r] = None
    /\ outcome[r] # None => ~Leading(r)

\* A call leads its own flight, and has not published its outcome, exactly
\* while that flight is the one registered for its search.
FlightsRegistered ==
  /\ \A k \in Keys : inFlight[k] # None => Leading(inFlight[k]) /\ key[inFlight[k]] = k
  /\ \A r \in Requests :
       Leading(r) => /\ key[r] \in Keys /\ inFlight[key[r]] = r
                     /\ leader[r] = r /\ outcome[r] = None

\* A call that waits, waits for a flight of its own search, which is either
\* led by somebody or already has an outcome.
NobodyWaitsForNothing ==
  \A r \in Requests :
    pc[r] \in {"following", "returning"} =>
      /\ key[r] \in Keys
      /\ leader[r] \in Requests /\ key[leader[r]] = key[r]
      /\ Leading(leader[r]) \/ outcome[leader[r]] # None
      /\ pc[r] = "returning" => outcome[leader[r]] # None
      /\ pc[r] = "following" => leader[r] # r

\* Every slot handed out lies a spacing before the next one to be handed out.
SlotsBehindNext ==
  \A r \in Requests : slot[r] # Never => slot[r] + MinScrapeSpacing <= nextAllowed

\* The account the tracker's backoff is kept in agrees with its history.
BackoffAccount ==
  /\ backoffUntil <= nextAllowed
  /\ failures = 0 => backoffUntil = 0

\* A success is remembered for as long as it suppresses a repeat.
SuccessRemembered ==
  /\ \A k \in Keys : recent[k] <= now
  /\ \A r \in Requests :
       outcome[r] = "ok" =>
         /\ key[r] \in Keys /\ ended[r] \in Nat
         /\ \/ recent[key[r]] >= ended[r]
            \/ now - ended[r] >= MinScrapeInterval

\* The inductive invariant.  It is what the rest of this section needs to be
\* true of the scheduler between any two of its steps.
Coordinated ==
  /\ TypeOK
  /\ CallsInOrder
  /\ FlightsRegistered
  /\ NobodyWaitsForNothing
  /\ SlotsBehindNext
  /\ BackoffAccount
  /\ SuccessRemembered

\* However many searches arrive at once, and however the ones before them end,
\* the instants planScrape lets two of them go to the tracker are at least
\* MinScrapeSpacing apart.
SlotsSpaced ==
  \A p, q \in Requests :
    p # q /\ slot[p] # Never /\ slot[q] # Never
      => \/ slot[p] + MinScrapeSpacing <= slot[q]
         \/ slot[q] + MinScrapeSpacing <= slot[p]

\* r was given a flight of its own in this step.
TakesOff(r) == pc[r] = "new" /\ leader'[r] = r

\* While the backoff of any failure since the last success still runs, no new
\* flight begins, whatever has been reserved or answered since.
BackoffHonoured == [][\A r \in Requests : TakesOff(r) => now >= backoffUntil]_vars

\* A search that completed is not sent to the tracker again within
\* MinScrapeInterval, across every flight, pruning and failure in between.
RepeatsSuppressed ==
  [][\A r, q \in Requests :
       TakesOff(r) /\ outcome[q] = "ok" /\ key[q] = key'[r]
         => now - ended[q] >= MinScrapeInterval]_vars

\* The searches being fetched, what each call waits for, and the outcome it is
\* about to return: how CoalescedSearch sees the scheduler.
Fetching == {k \in Keys : \E r \in Requests : Leading(r) /\ key[r] = k}
Want == [r \in Requests |-> IF pc[r] \in {"new", "done"} THEN None ELSE key[r]]
Owed == [r \in Requests |->
           IF pc[r] \in {"following", "returning"} THEN outcome[leader[r]] ELSE None]

Promise == INSTANCE CoalescedSearch WITH
  Callers <- Requests, Refused <- "throttled", Left <- "canceled",
  fetching <- Fetching, want <- Want, owed <- Owed

\* Identical searches share one fetch at a time, and every caller gets the
\* outcome of a fetch of its own search that ended after it asked.
KeepsPromise == Promise!Spec

\* Every call of Scrape returns, whoever it follows and however that ends.
EveryCallReturns == \A r \in Requests : pc[r] # "new" ~> pc[r] = "done"

=============================================================================
