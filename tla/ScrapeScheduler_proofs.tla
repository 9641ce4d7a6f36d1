----------------------- MODULE ScrapeScheduler_proofs -----------------------
(***************************************************************************)
(* Proofs about ScrapeScheduler, for every set of requests and searches    *)
(* and for all durations.                                                  *)
(*                                                                         *)
(* Coordinated is inductive: there is one lemma per kind of step, each     *)
(* with one step per conjunct, and CoordinatedStep gathers them.  The      *)
(* other safety properties and the refinement of CoalescedSearch follow    *)
(* from it.  EveryCallReturns, a liveness property, is left to TLC.        *)
(***************************************************************************)
EXTENDS ScrapeScheduler, TLAPS

\* The backoff finishScrape computes is a duration after any number of failures:
\* the shift stays within the table.
LEMMA BackoffType == ASSUME NEW n \in Nat, n >= 1 PROVE Backoff(n) \in Nat
<1>1. MinOf(n, 8) \in 1..8
  BY DEF MinOf
<1>2. ASSUME NEW m \in 1..8 PROVE PowersOfTwo[m] \in Nat
  BY DEF PowersOfTwo
<1>3. MinScrapeInterval * PowersOfTwo[MinOf(n, 8)] \in Nat
  BY <1>1, <1>2, TimingAssumption
<1>. QED
  BY <1>3, TimingAssumption DEF Backoff, MinOf

\* finishScrape, whatever the flight ended with, keeps every variable in its type.
LEMMA FinishType ==
  ASSUME TypeOK, NEW r \in Requests, NEW o \in Outcomes, Leading(r),
         key[r] \in Keys, finishScrape(r, o)
  PROVE  TypeOK'
<1>. USE DEF TypeOK, finishScrape, Leading, Outcomes
<1>1. failures + 1 \in Nat /\ failures + 1 >= 1 /\ Backoff(failures + 1) \in Nat
  BY BackoffType
<1>2. /\ failures' \in Nat /\ nextAllowed' \in Nat /\ backoffUntil' \in Nat
      /\ recent' \in [Keys -> Nat \union {Never}]
  <2>1. CASE o = "ok"
    BY <2>1 DEF FinishedWell, Never
  <2>2. CASE o = "queueWait"
    BY <2>2
  <2>3. CASE o \in {"canceled", "error"}
    BY <2>3, <1>1 DEF FinishedBadly, MaxOf
  <2>. QED  BY <2>1, <2>2, <2>3
<1>3. outcome' \in [Requests -> Outcomes \union {None}]
  BY DEF Published
<1>4. inFlight' \in [Keys -> Requests \union {None}]
  BY DEF Deregistered
<1>5. ended' \in [Requests -> Nat \union {Never}]
  BY DEF Never
<1>. QED
  BY <1>2, <1>3, <1>4, <1>5

\* planScrape keeps every variable in its type.
LEMMA PlanType ==
  ASSUME TypeOK, NEW r \in Requests, NEW k \in Keys, planScrape(r, k)
  PROVE  TypeOK'
<1>. USE DEF TypeOK, planScrape, stateVars, flightVars
<1>1. CASE Follow(r, k)
  BY <1>1 DEF Follow
<1>2. CASE Skip(r, k)
  BY <1>2 DEF Skip, Answers
<1>3. CASE Lead(r, k)
  <2>1. NextSlot \in Nat /\ Reserved \in Nat
    BY TimingAssumption DEF NextSlot, Reserved, MaxOf
  <2>2. PrunedRecent \in [Keys -> Nat \union {Never}]
    BY DEF PrunedRecent
  <2>. QED  BY <1>3, <2>1, <2>2 DEF Lead, Never
<1>. QED  BY <1>1, <1>2, <1>3

\* planScrape preserves the invariant, following, turning away or leading.
LEMMA PlanStep ==
  ASSUME Coordinated, NEW r \in Requests, NEW k \in Keys, planScrape(r, k)
  PROVE  Coordinated'
<1>. USE DEF Coordinated, planScrape, stateVars, flightVars
<1>1. TypeOK'
  BY PlanType
<1>2. CASE Follow(r, k)
  <2>. USE <1>2 DEF Follow
  <2>1. CallsInOrder'
    BY NoneAssumption DEF CallsInOrder, TypeOK, Leading
  <2>2. FlightsRegistered'
    BY DEF FlightsRegistered, CallsInOrder, TypeOK, Leading
  <2>3. NobodyWaitsForNothing'
    BY DEF NobodyWaitsForNothing, FlightsRegistered, CallsInOrder, TypeOK, Leading
  <2>4. SlotsBehindNext' /\ BackoffAccount'
    BY DEF SlotsBehindNext, BackoffAccount
  <2>5. SuccessRemembered'
    BY NoneAssumption DEF SuccessRemembered, CallsInOrder, TypeOK, Never
  <2>. QED  BY <1>1, <2>1, <2>2, <2>3, <2>4, <2>5
<1>3. CASE Skip(r, k)
  <2>. USE <1>3 DEF Skip
  <2>1. CallsInOrder'
    BY NoneAssumption DEF CallsInOrder, TypeOK, Leading
  <2>2. FlightsRegistered'
    BY DEF FlightsRegistered, CallsInOrder, TypeOK, Leading
  <2>3. NobodyWaitsForNothing'
    BY DEF NobodyWaitsForNothing, FlightsRegistered, CallsInOrder, TypeOK, Leading
  <2>4. SlotsBehindNext' /\ BackoffAccount'
    BY DEF SlotsBehindNext, BackoffAccount
  <2>5. SuccessRemembered'
    BY NoneAssumption DEF SuccessRemembered, CallsInOrder, TypeOK, Never
  <2>. QED  BY <1>1, <2>1, <2>2, <2>3, <2>4, <2>5
<1>4. CASE Lead(r, k)
  <2>. USE <1>4 DEF Lead
  <2>0. NextSlot \in Nat /\ nextAllowed <= NextSlot /\ NextSlot + MinScrapeSpacing = Reserved
    BY TimingAssumption DEF NextSlot, Reserved, MaxOf, TypeOK
  <2>1. CallsInOrder'
    BY NoneAssumption DEF CallsInOrder, TypeOK, Leading
  <2>2. FlightsRegistered'
    BY NoneAssumption DEF FlightsRegistered, CallsInOrder, TypeOK, Leading
  <2>3. NobodyWaitsForNothing'
    BY DEF NobodyWaitsForNothing, FlightsRegistered, CallsInOrder, TypeOK, Leading
  <2>4. SlotsBehindNext' /\ BackoffAccount'
    BY <2>0, TimingAssumption DEF SlotsBehindNext, BackoffAccount, TypeOK, Never
  <2>5. SuccessRemembered'
    BY NoneAssumption, TimingAssumption
       DEF SuccessRemembered, CallsInOrder, TypeOK, PrunedRecent, Never
  <2>. QED  BY <1>1, <2>1, <2>2, <2>3, <2>4, <2>5
<1>. QED  BY <1>2, <1>3, <1>4

\* finishScrape preserves the invariant: the flight it deregisters is the one
\* its caller leads, and the account it writes only moves the next slot forward.
LEMMA FinishStep ==
  ASSUME Coordinated, NEW r \in Requests, NEW o \in Outcomes, Leading(r),
         finishScrape(r, o)
  PROVE  Coordinated'
<1>. USE DEF Coordinated, finishScrape
<1>0. key[r] \in Keys /\ inFlight[key[r]] = r /\ leader[r] = r /\ o # None
  BY NoneAssumption DEF FlightsRegistered, Outcomes
<1>1. TypeOK'
  BY <1>0, FinishType
<1>2. CallsInOrder'
  BY <1>0 DEF CallsInOrder, TypeOK, Leading, Published
<1>3. FlightsRegistered'
  BY <1>0 DEF FlightsRegistered, CallsInOrder, TypeOK, Leading, Published, Deregistered
<1>4. NobodyWaitsForNothing'
  BY <1>0 DEF NobodyWaitsForNothing, FlightsRegistered, TypeOK, Leading, Published
<1>5. failures + 1 \in Nat /\ Backoff(failures + 1) \in Nat
  BY BackoffType DEF TypeOK
<1>6. CASE o = "ok"
  <2>1. SlotsBehindNext' /\ BackoffAccount'
    BY <1>6 DEF FinishedWell, SlotsBehindNext, BackoffAccount, TypeOK
  <2>2. SuccessRemembered'
    BY <1>0, <1>6 DEF FinishedWell, SuccessRemembered, TypeOK, Published, Never
  <2>. QED  BY <1>1, <1>2, <1>3, <1>4, <2>1, <2>2
<1>7. CASE o = "queueWait"
  <2>1. SlotsBehindNext' /\ BackoffAccount'
    BY <1>7 DEF SlotsBehindNext, BackoffAccount, TypeOK
  <2>2. SuccessRemembered'
    BY <1>0, <1>7 DEF SuccessRemembered, TypeOK, Published
  <2>. QED  BY <1>1, <1>2, <1>3, <1>4, <2>1, <2>2
<1>8. CASE o \in {"canceled", "error"}
  <2>1. SlotsBehindNext' /\ BackoffAccount'
    BY <1>5, <1>8, TimingAssumption
       DEF FinishedBadly, SlotsBehindNext, BackoffAccount, TypeOK, MaxOf, Never
  <2>2. SuccessRemembered'
    BY <1>0, <1>8 DEF FinishedBadly, SuccessRemembered, TypeOK, Published
  <2>. QED  BY <1>1, <1>2, <1>3, <1>4, <2>1, <2>2
<1>. QED  BY <1>6, <1>7, <1>8 DEF Outcomes

\* The steps of a call that touch neither the account nor a flight preserve the
\* invariant.
LEMMA MoveStep ==
  ASSUME Coordinated, NEW r \in Requests, Wake(r) \/ Return(r) \/ StopFollowing(r)
  PROVE  Coordinated'
<1>. USE DEF Coordinated, Wake, Return, StopFollowing, stateVars, flightVars
<1>1. TypeOK'
  BY NoneAssumption DEF TypeOK, Answers, Outcomes, NobodyWaitsForNothing
<1>2. CallsInOrder'
  BY DEF CallsInOrder, TypeOK, Leading
<1>3. FlightsRegistered'
  BY DEF FlightsRegistered, TypeOK, Leading
<1>4. NobodyWaitsForNothing'
  BY DEF NobodyWaitsForNothing, TypeOK, Leading
<1>5. SlotsBehindNext' /\ BackoffAccount' /\ SuccessRemembered'
  BY DEF SlotsBehindNext, BackoffAccount, SuccessRemembered
<1>. QED  BY <1>1, <1>2, <1>3, <1>4, <1>5

\* The passage of time preserves the invariant.
LEMMA TickStep == ASSUME Coordinated, Tick PROVE Coordinated'
<1>. USE DEF Coordinated, Tick, stateVars, flightVars, requestVars
<1>1. TypeOK'
  BY DEF TypeOK
<1>2. CallsInOrder' /\ FlightsRegistered' /\ NobodyWaitsForNothing' /\ SlotsBehindNext'
      /\ BackoffAccount'
  BY DEF CallsInOrder, FlightsRegistered, NobodyWaitsForNothing, SlotsBehindNext,
         BackoffAccount, Leading
<1>3. SuccessRemembered'
  BY TimingAssumption DEF SuccessRemembered, TypeOK, Never
<1>. QED  BY <1>1, <1>2, <1>3

\* The invariant is inductive.
LEMMA CoordinatedStep == Coordinated /\ [Next]_vars => Coordinated'
<1>. SUFFICES ASSUME Coordinated, [Next]_vars PROVE Coordinated'
  OBVIOUS
<1>1. ASSUME NEW r \in Requests, NEW k \in Keys, planScrape(r, k)
      PROVE  Coordinated'
  BY <1>1, PlanStep
<1>2. ASSUME NEW r \in Requests, Wake(r) \/ Return(r) \/ StopFollowing(r)
      PROVE  Coordinated'
  BY <1>2, MoveStep
<1>3. ASSUME NEW r \in Requests, AbandonWait(r)
      PROVE  Coordinated'
  BY <1>3, FinishStep DEF AbandonWait, Leading, Outcomes
<1>4. ASSUME NEW r \in Requests, NEW o \in {"ok", "queueWait", "error"}, EndScrape(r, o)
      PROVE  Coordinated'
  BY <1>4, FinishStep DEF EndScrape, Leading, Outcomes
<1>5. CASE Tick
  BY <1>5, TickStep
<1>6. CASE UNCHANGED vars
  BY <1>6 DEF vars, stateVars, flightVars, requestVars, Coordinated, TypeOK, CallsInOrder,
              FlightsRegistered, NobodyWaitsForNothing, SlotsBehindNext, BackoffAccount,
              SuccessRemembered, Leading
<1>. QED
  BY <1>1, <1>2, <1>3, <1>4, <1>5, <1>6 DEF Next

\* Type correctness and the whole inductive invariant: between any two steps of
\* planScrape and finishScrape every flight registered is led by somebody, nobody
\* waits for a flight that can no longer end, every slot handed out lies behind
\* the next one, and the backoff account agrees with the history.
THEOREM CoordinatedAlways == Spec => []Coordinated
<1>1. Init => Coordinated
  BY NoneAssumption
     DEF Init, Coordinated, TypeOK, CallsInOrder, FlightsRegistered, NobodyWaitsForNothing,
         SlotsBehindNext, BackoffAccount, SuccessRemembered, Leading, Never
<1>. QED  BY <1>1, CoordinatedStep, PTL DEF Spec

\* The instants planScrape lets two searches of a tracker go at are at least
\* MinScrapeSpacing apart, whatever finishScrape does to nextAllowed between.
THEOREM SlotsSpacedAlways == Spec => []SlotsSpaced
<1>1. Init => SlotsSpaced
  BY DEF Init, SlotsSpaced
<1>2. Coordinated /\ SlotsSpaced /\ [Next]_vars => SlotsSpaced'
  <2>. SUFFICES ASSUME Coordinated, SlotsSpaced, [Next]_vars PROVE SlotsSpaced'
    OBVIOUS
  <2>1. ASSUME NEW r \in Requests, NEW k \in Keys, planScrape(r, k), Lead(r, k)
        PROVE  SlotsSpaced'
    <3>1. NextSlot \in Nat /\ nextAllowed <= NextSlot
      BY DEF Coordinated, TypeOK, NextSlot, MaxOf
    <3>2. \A q \in Requests : slot[q] # Never => slot[q] + MinScrapeSpacing <= NextSlot
      BY <3>1, TimingAssumption DEF Coordinated, SlotsBehindNext, TypeOK, Never
    <3>3. slot' = [slot EXCEPT ![r] = NextSlot]
      BY <2>1 DEF Lead
    <3>. QED  BY <3>1, <3>2, <3>3 DEF SlotsSpaced, Coordinated, TypeOK
  <2>2. CASE UNCHANGED slot
    BY <2>2 DEF SlotsSpaced
  <2>. QED
    BY <2>1, <2>2
       DEF Next, vars, planScrape, Follow, Skip, Wake, AbandonWait, EndScrape, finishScrape,
           Return, StopFollowing, Tick, flightVars
<1>. QED  BY <1>1, <1>2, CoordinatedAlways, PTL DEF Spec

\* Only a step of planScrape that leads gives a call a flight of its own.
LEMMA TakesOffByLeading ==
  ASSUME Coordinated, Next, NEW r \in Requests, TakesOff(r)
  PROVE  \E k \in Keys : planScrape(r, k) /\ Lead(r, k)
<1>. USE DEF TakesOff
<1>0. pc[r] = "new" /\ leader'[r] = r /\ leader[r] # r /\ ~Leading(r)
  BY NoneAssumption DEF Coordinated, CallsInOrder, Leading
<1>1. ASSUME NEW q \in Requests, NEW k \in Keys, planScrape(q, k)
      PROVE  q = r /\ Lead(q, k)
  <2>1. CASE Follow(q, k)
    <3>1. inFlight[k] # r
      BY <1>0, <2>1 DEF Follow, Coordinated, FlightsRegistered
    <3>. QED  BY <1>0, <2>1, <3>1 DEF Follow, Coordinated, TypeOK
  <2>2. CASE Skip(q, k)
    BY <1>0, <2>2 DEF Skip
  <2>3. CASE Lead(q, k)
    BY <1>0, <2>3 DEF Lead, Coordinated, TypeOK
  <2>. QED  BY <1>1, <2>1, <2>2, <2>3 DEF planScrape
<1>2. ~ UNCHANGED leader
  BY <1>0
<1>. QED
  BY <1>1, <1>2
     DEF Next, Wake, AbandonWait, EndScrape, finishScrape, Return, StopFollowing, Tick,
         requestVars

\* planScrape starts no flight before the end of every backoff finishScrape has
\* set since the last success.
THEOREM BackoffHonouredAlways == Spec => BackoffHonoured
<1>1. Coordinated /\ [Next]_vars =>
        [\A r \in Requests : TakesOff(r) => now >= backoffUntil]_vars
  <2>. SUFFICES ASSUME Coordinated, Next, NEW r \in Requests, TakesOff(r)
                PROVE  now >= backoffUntil
    BY DEF vars
  <2>1. PICK k \in Keys : Lead(r, k)
    BY TakesOffByLeading
  <2>. QED
    BY <2>1 DEF Lead, BackedOff, Coordinated, BackoffAccount, TypeOK
<1>. QED  BY <1>1, CoordinatedAlways, PTL DEF Spec, BackoffHonoured

\* planScrape starts no flight for a search that finishScrape recorded as
\* completed less than MinScrapeInterval ago.
THEOREM RepeatsSuppressedAlways == Spec => RepeatsSuppressed
<1>. DEFINE Fresh == \A r, q \in Requests :
              TakesOff(r) /\ outcome[q] = "ok" /\ key[q] = key'[r]
                => now - ended[q] >= MinScrapeInterval
<1>1. Coordinated /\ [Next]_vars => [Fresh]_vars
  <2>. SUFFICES ASSUME Coordinated, Next, NEW r \in Requests, NEW q \in Requests,
                       TakesOff(r), outcome[q] = "ok", key[q] = key'[r]
                PROVE  now - ended[q] >= MinScrapeInterval
    BY DEF vars
  <2>1. PICK k \in Keys : planScrape(r, k) /\ Lead(r, k)
    BY TakesOffByLeading
  <2>2. key'[r] = k
    BY <2>1 DEF planScrape, Coordinated, TypeOK
  <2>3. ~IsCurrent(k)
    BY <2>1 DEF Lead
  <2>. QED
    BY <2>2, <2>3, TimingAssumption
       DEF IsCurrent, Coordinated, SuccessRemembered, TypeOK, Never
<1>. QED  BY <1>1, CoordinatedAlways, PTL DEF Spec, RepeatsSuppressed

\* planScrape is the Ask or the Refuse of CoalescedSearch.
LEMMA PlanKeepsPromise ==
  ASSUME Coordinated, NEW r \in Requests, NEW k \in Keys, planScrape(r, k)
  PROVE  Promise!Ask(r, k) \/ Promise!Refuse(r)
<1>. USE DEF Coordinated, planScrape
<1>0. pc[r] = "new" /\ outcome[r] = None /\ answer[r] = None /\ Want[r] = None
  BY DEF CallsInOrder, Want
<1>1. key' = [key EXCEPT ![r] = k]
  OBVIOUS
<1>2. CASE Follow(r, k)
  <2>. USE <1>2 DEF Follow
  <2>1. Leading(inFlight[k]) /\ key[inFlight[k]] = k /\ inFlight[k] \in Requests
    BY DEF FlightsRegistered, TypeOK
  <2>2. Want' = [Want EXCEPT ![r] = k]
    BY <1>0 DEF Want, TypeOK
  <2>3. Fetching' = Fetching \union {k}
    BY <1>0, <2>1 DEF Fetching, Leading, TypeOK
  <2>4. Owed' = Owed
    BY <1>0, <2>1 DEF Owed, TypeOK, FlightsRegistered, flightVars
  <2>5. answer' = [answer EXCEPT ![r] = None]
    BY <1>0 DEF TypeOK
  <2>. QED  BY <1>0, <2>2, <2>3, <2>4, <2>5 DEF Promise!Ask
<1>3. CASE Skip(r, k)
  <2>. USE <1>3 DEF Skip
  <2>1. Want' = Want /\ Owed' = Owed
    BY <1>0 DEF Want, Owed, TypeOK, flightVars
  <2>2. Fetching' = Fetching
    BY <1>0 DEF Fetching, Leading, TypeOK
  <2>. QED  BY <1>0, <2>1, <2>2 DEF Promise!Refuse
<1>4. CASE Lead(r, k)
  <2>. USE <1>4 DEF Lead
  <2>1. Want' = [Want EXCEPT ![r] = k]
    BY <1>0 DEF Want, TypeOK
  <2>2. Fetching' = Fetching \union {k}
    BY <1>0 DEF Fetching, Leading, TypeOK
  <2>3. Owed' = Owed
    BY <1>0 DEF Owed, TypeOK
  <2>4. answer' = [answer EXCEPT ![r] = None]
    BY <1>0 DEF TypeOK
  <2>. QED  BY <1>0, <2>1, <2>2, <2>3, <2>4 DEF Promise!Ask
<1>. QED  BY <1>2, <1>3, <1>4

\* finishScrape is the Settle of CoalescedSearch: it owes its outcome to exactly
\* the calls that wait for this search.
LEMMA FinishKeepsPromise ==
  ASSUME Coordinated, NEW r \in Requests, NEW o \in Outcomes, Leading(r),
         finishScrape(r, o)
  PROVE  Promise!Settle(key[r], o)
<1>. USE DEF Coordinated, finishScrape
<1>0. /\ key[r] \in Keys /\ inFlight[key[r]] = r /\ leader[r] = r
      /\ outcome[r] = None /\ o # None /\ key[r] # None
  BY NoneAssumption DEF FlightsRegistered, Outcomes
<1>1. key[r] \in Fetching
  BY <1>0 DEF Fetching
<1>2. Fetching' = Fetching \ {key[r]}
  BY <1>0 DEF Fetching, Leading, TypeOK, FlightsRegistered
<1>3. Want' = Want
  BY DEF Want, TypeOK, Leading
<1>4. ASSUME NEW q \in Requests
      PROVE  Owed'[q] = IF Want[q] = key[r] /\ Owed[q] = None THEN o ELSE Owed[q]
  <2>1. CASE q = r
    BY <1>0, <2>1 DEF Owed, Want, TypeOK, Leading, Published
  <2>2. CASE q # r /\ pc[q] \in {"following", "returning"}
    <3>1. /\ leader[q] \in Requests /\ key[leader[q]] = key[q]
          /\ Leading(leader[q]) \/ outcome[leader[q]] # None
      BY <2>2 DEF NobodyWaitsForNothing
    <3>2. key[q] = key[r] /\ Leading(leader[q]) => leader[q] = r
      BY <1>0, <3>1 DEF FlightsRegistered
    <3>3. Want[q] = key[q] /\ Owed[q] = outcome[leader[q]]
      BY <2>2 DEF Want, Owed
    <3>4. Owed'[q] = IF leader[q] = r THEN o ELSE outcome[leader[q]]
      BY <2>2, <3>1 DEF Owed, TypeOK, Published
    <3>. QED  BY <1>0, <3>1, <3>2, <3>3, <3>4
  <2>3. CASE q # r /\ Leading(q)
    BY <1>0, <2>3 DEF Owed, Want, TypeOK, Leading, FlightsRegistered
  <2>4. CASE q # r /\ pc[q] \in {"new", "done"}
    BY <1>0, <2>4 DEF Owed, Want, TypeOK
  <2>. QED  BY <2>1, <2>2, <2>3, <2>4 DEF TypeOK, Leading
<1>5. Owed' = [q \in Requests |->
                 IF Want[q] = key[r] /\ Owed[q] = None THEN o ELSE Owed[q]]
  BY <1>4 DEF Owed
<1>. QED  BY <1>1, <1>2, <1>3, <1>5 DEF Promise!Settle

\* The return of Scrape is the Deliver of CoalescedSearch.
LEMMA ReturnKeepsPromise ==
  ASSUME Coordinated, NEW r \in Requests, Return(r)
  PROVE  Promise!Deliver(r)
<1>. USE DEF Coordinated, Return
<1>1. Owed[r] # None /\ Owed[r] = outcome[leader[r]]
  BY DEF Owed
<1>2. Want' = [Want EXCEPT ![r] = None]
  BY DEF Want, TypeOK
<1>3. Owed' = [Owed EXCEPT ![r] = None]
  BY DEF Owed, TypeOK, flightVars
<1>4. Fetching' = Fetching
  BY DEF Fetching, Leading, TypeOK
<1>. QED  BY <1>1, <1>2, <1>3, <1>4 DEF Promise!Deliver

\* A follower whose client went away is the Leave of CoalescedSearch.
LEMMA StopFollowingKeepsPromise ==
  ASSUME Coordinated, NEW r \in Requests, StopFollowing(r)
  PROVE  Promise!Leave(r)
<1>. USE DEF Coordinated, StopFollowing
<1>1. Want[r] # None
  BY NoneAssumption DEF Want, NobodyWaitsForNothing
<1>2. Want' = [Want EXCEPT ![r] = None]
  BY DEF Want, TypeOK
<1>3. Owed' = [Owed EXCEPT ![r] = None]
  BY DEF Owed, TypeOK, flightVars
<1>4. Fetching' = Fetching
  BY DEF Fetching, Leading, TypeOK
<1>. QED  BY <1>1, <1>2, <1>3, <1>4 DEF Promise!Leave

\* The scheduler implements CoalescedSearch: identical searches share one fetch,
\* and every caller of Scrape is given the outcome of a fetch of its own search
\* that ended after it asked.
THEOREM KeepsPromiseAlways == Spec => KeepsPromise
<1>1. Init => Promise!Init
  BY DEF Init, Promise!Init, Fetching, Want, Owed, Leading
<1>2. Coordinated /\ [Next]_vars => [Promise!Next]_(Promise!coalescedVars)
  <2>. SUFFICES ASSUME Coordinated, [Next]_vars
                PROVE  Promise!Next \/ UNCHANGED Promise!coalescedVars
    OBVIOUS
  <2>1. ASSUME NEW r \in Requests, NEW k \in Keys, planScrape(r, k)
        PROVE  Promise!Next
    BY <2>1, PlanKeepsPromise DEF Promise!Next
  <2>2. ASSUME NEW r \in Requests, Wake(r)
        PROVE  UNCHANGED Promise!coalescedVars
    BY <2>2 DEF Wake, Promise!coalescedVars, Fetching, Want, Owed, Leading, flightVars,
                Coordinated, TypeOK
  <2>3. ASSUME NEW r \in Requests, NEW o \in Outcomes, Leading(r), finishScrape(r, o)
        PROVE  Promise!Next
    <3>1. key[r] \in Keys
      BY <2>3 DEF Coordinated, FlightsRegistered
    <3>. QED  BY <2>3, <3>1, FinishKeepsPromise DEF Promise!Next
  <2>4. ASSUME NEW r \in Requests, Return(r)
        PROVE  Promise!Next
    BY <2>4, ReturnKeepsPromise DEF Promise!Next
  <2>5. ASSUME NEW r \in Requests, StopFollowing(r)
        PROVE  Promise!Next
    BY <2>5, StopFollowingKeepsPromise DEF Promise!Next
  <2>6. CASE Tick \/ UNCHANGED vars
    BY <2>6 DEF Tick, vars, requestVars, flightVars, Promise!coalescedVars, Fetching, Want,
                Owed, Leading
  <2>7. ASSUME NEW r \in Requests, AbandonWait(r)
        PROVE  Promise!Next
    BY <2>3, <2>7 DEF AbandonWait, Leading, Outcomes
  <2>8. ASSUME NEW r \in Requests, NEW o \in {"ok", "queueWait", "error"}, EndScrape(r, o)
        PROVE  Promise!Next
    BY <2>3, <2>8 DEF EndScrape, Leading, Outcomes
  <2>. QED  BY <2>1, <2>2, <2>4, <2>5, <2>6, <2>7, <2>8 DEF Next
<1>. QED  BY <1>1, <1>2, CoordinatedAlways, PTL DEF Spec, KeepsPromise, Promise!Spec

=============================================================================
