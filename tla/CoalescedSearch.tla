--------------------------- MODULE CoalescedSearch ---------------------------
(***************************************************************************)
(* What Scraper.Scrape promises its callers, with no clock, no tracker and *)
(* no failure backoff in it.                                               *)
(*                                                                         *)
(* A caller asks for one search.  Either it is turned away, or a fetch of  *)
(* exactly that search is in progress from then on, started for this       *)
(* caller or already running for another.  At most one fetch of a search   *)
(* runs at a time, its outcome is owed to everyone who was waiting for it  *)
(* when it ended, and nobody is given the outcome of another search or of  *)
(* a fetch that had ended before the caller asked.  A caller may also stop *)
(* waiting: its client has gone away.                                      *)
(***************************************************************************)

CONSTANTS
  Callers,    \* goroutines that call Scrape
  Keys,       \* the identities of searches (SearchParams.cacheKey)
  Outcomes,   \* what a fetch can end with
  Refused,    \* the answer of a caller that was turned away
  Left,       \* the answer of a caller that stopped waiting
  None        \* no search, no outcome, no answer

VARIABLES
  fetching,   \* the searches being fetched
  want,       \* want[c]: the search caller c waits for, or None
  owed,       \* owed[c]: the outcome c is about to be given, or None
  answer      \* answer[c]: what c was given last, or None

coalescedVars == <<fetching, want, owed, answer>>

Init ==
  /\ fetching = {}
  /\ want = [c \in Callers |-> None]
  /\ owed = [c \in Callers |-> None]
  /\ answer = [c \in Callers |-> None]

\* c asks for k, which is being fetched from now on if it was not already.
Ask(c, k) ==
  /\ want[c] = None
  /\ want' = [want EXCEPT ![c] = k]
  /\ fetching' = fetching \union {k}
  /\ answer' = [answer EXCEPT ![c] = None]
  /\ UNCHANGED owed

\* c asks and is turned away at once.
Refuse(c) ==
  /\ want[c] = None
  /\ answer' = [answer EXCEPT ![c] = Refused]
  /\ UNCHANGED <<fetching, want, owed>>

\* The one fetch of k ends with o, which everyone still waiting for k is owed.
Settle(k, o) ==
  /\ k \in fetching
  /\ fetching' = fetching \ {k}
  /\ owed' = [c \in Callers |->
                IF want[c] = k /\ owed[c] = None THEN o ELSE owed[c]]
  /\ UNCHANGED <<want, answer>>

\* c is given what it is owed.
Deliver(c) ==
  /\ owed[c] # None
  /\ answer' = [answer EXCEPT ![c] = owed[c]]
  /\ want' = [want EXCEPT ![c] = None]
  /\ owed' = [owed EXCEPT ![c] = None]
  /\ UNCHANGED fetching

\* c stops waiting; a fetch it was waiting for goes on without it.
Leave(c) ==
  /\ want[c] # None
  /\ answer' = [answer EXCEPT ![c] = Left]
  /\ want' = [want EXCEPT ![c] = None]
  /\ owed' = [owed EXCEPT ![c] = None]
  /\ UNCHANGED fetching

Next ==
  \/ \E c \in Callers :
       \/ \E k \in Keys : Ask(c, k)
       \/ Refuse(c)
       \/ Deliver(c)
       \/ Leave(c)
  \/ \E k \in Keys, o \in Outcomes : Settle(k, o)

Spec == Init /\ [][Next]_coalescedVars

=============================================================================
