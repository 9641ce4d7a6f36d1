---------------------------- MODULE TorznabSearch ----------------------------
(***************************************************************************)
(* One search of the Torznab API, from the request to the reply: which     *)
(* trackers it covers, the scrapes it runs side by side, what the store    *)
(* holds when they are over, and what the client is told.                  *)
(*                                                                         *)
(* pkg/torznab asks pkg/scraper for each tracker, so the module is written *)
(* over what Scrape promises (CoalescedSearch, which ScrapeScheduler is    *)
(* proved to implement): a search is turned away, or attached to the one   *)
(* fetch of it, and UsesContract says that each tracker is used so.  The   *)
(* store is a set of results: tracker, release and the search that         *)
(* produced it, or Library for a row no search produced.  Which trackers   *)
(* can answer a search (handles) is a constant here.                       *)
(***************************************************************************)
EXTENDS Integers, FiniteSets

CONSTANTS
  Clients,         \* requests, each made once
  JsonClients,     \* those made to the JSON endpoint, Results
  Trackers,        \* the ids of the definitions that loaded
  Keys,            \* the searches (SearchParams.ResultKey)
  Releases,
  Handles,         \* the pairs <<t, k>> such that handles(t, k)
  MaxConcurrent,   \* maxConcurrentScrapes
  Limit,           \* the page size
  All, Unknown,    \* AggregateID, and an id no definition has
  Questions,       \* what a request may ask: an indexer and a search
  Library,         \* the origin of rows stored by no search
  None

ASSUME SearchAssumption ==
  /\ MaxConcurrent \in Nat \ {0} /\ Limit \in Nat
  /\ Handles \subseteq Trackers \X Keys /\ JsonClients \subseteq Clients
  /\ All \notin Trackers /\ Unknown \notin Trackers \union {All}
  /\ Questions \subseteq [id : Trackers \union {All, Unknown}, key : Keys]
  /\ Library \notin Keys /\ None \notin Keys \union Trackers \union Questions
  /\ None \notin {"ok", "failed", "throttled", "unreachable"}
  /\ IsFiniteSet(Trackers) /\ IsFiniteSet(Releases)

VARIABLES
  phase,      \* where each request stands
  asked,      \* asked[c]: the request
  call,       \* call[c][t]: how far c's scrape of t is
  total,      \* total[c]: what the count found
  reply,      \* reply[c]: what the client was answered
  stored,     \* the rows of the store, with what produced each
  fetching,   \* fetching[t]: the searches being fetched from t
  gained      \* history: the rows scrapes made for c stored, still there at the count

storeVars   == <<stored, gained>>
replyVars   == <<total, reply>>
searchVars  == <<phase, asked, call, replyVars, storeVars, fetching>>

NoReply == [kind |-> None, items |-> {}, failed |-> {}]

InFlight == {"fetching", "ok", "failed"}

SearchInit ==
  /\ phase = [c \in Clients |-> "new"]
  /\ asked = [c \in Clients |-> None]
  /\ call = [c \in Clients |-> [t \in Trackers |-> "none"]]
  /\ total = [c \in Clients |-> 0]
  /\ reply = [c \in Clients |-> NoReply]
  /\ stored \in {{}, Trackers \X {Library} \X Releases}
  /\ fetching = [t \in Trackers |-> {}]
  /\ gained = [c \in Clients |-> {}]

-----------------------------------------------------------------------------
(***************************************************************************)
(* The request.                                                            *)
(***************************************************************************)

\* authorizedIndexer: the definitions a request is answered from.
Addressed(q) == IF q.id = All THEN Trackers ELSE Trackers \intersect {q.id}

\* indexer.handling: those of them that can answer the search.
Covered(q) == {t \in Addressed(q) : <<t, q.key>> \in Handles}

Answer(c, r) ==
  /\ phase' = [phase EXCEPT ![c] = "done"]
  /\ reply' = [reply EXCEPT ![c] = r]

Refusal(kind) == [kind |-> kind, items |-> {}, failed |-> {}]

\* What is answered before anything is scraped: an id no definition has, an
\* aggregate of nothing, and a search none of the covered trackers can answer,
\* which the feed refuses and the JSON endpoint answers with nothing.
Declined(c, q) ==
  IF q.id = Unknown THEN "notFound"
  ELSE IF q.id = All /\ Trackers = {} THEN "unconfigured"
  ELSE IF Covered(q) = {} THEN IF c \in JsonClients THEN "results" ELSE "unsupported"
  ELSE None

\* ServeHTTP or Results, up to where the scrapes are started.
Receive(c, q) ==
  /\ phase[c] = "new"
  /\ asked' = [asked EXCEPT ![c] = q]
  /\ \/ /\ Declined(c, q) # None
        /\ Answer(c, Refusal(Declined(c, q)))
        /\ UNCHANGED call
     \/ /\ Declined(c, q) = None
        /\ phase' = [phase EXCEPT ![c] = "scraping"]
        /\ call' = [call EXCEPT ![c] =
                      [t \in Trackers |-> IF t \in Covered(q) THEN "queued" ELSE "none"]]
        /\ UNCHANGED reply
  /\ UNCHANGED <<total, storeVars, fetching>>

-----------------------------------------------------------------------------
(***************************************************************************)
(* The scrapes of one request, each in its goroutine.                      *)
(***************************************************************************)

\* Variant: a scrape that fails never gives its turn back.
InTurnUnlessPanicked(c) == {t \in Trackers : call[c][t] \in InFlight \union {"lost"}}

\* The scrapes that hold a place in the channel.
InTurn(c) == {t \in Trackers : call[c][t] \in InFlight}

\* A search of one tracker takes no turn; the others take one of the channel's.
HasTurn(c) ==
  \/ Cardinality(Covered(asked[c])) = 1
  \/ Cardinality(InTurn(c)) < MaxConcurrent

\* scrapeOne is turned away; ErrThrottled is no failure.
Throttled(c, t) ==
  /\ phase[c] = "scraping" /\ call[c][t] = "queued" /\ HasTurn(c)
  /\ asked[c].key \notin fetching[t]
  /\ call' = [call EXCEPT ![c][t] = "throttled"]
  /\ UNCHANGED <<phase, asked, replyVars, storeVars, fetching>>

\* scrapeOne fetches, or follows an identical fetch in progress.
Started(c, t) ==
  /\ phase[c] = "scraping" /\ call[c][t] = "queued" /\ HasTurn(c)
  /\ call' = [call EXCEPT ![c][t] = "fetching"]
  /\ fetching' = [fetching EXCEPT ![t] = @ \union {asked[c].key}]
  /\ UNCHANGED <<phase, asked, replyVars, storeVars>>

\* Who waits for the fetch of k from t.
Waiting(t, k) == {c \in Clients : call[c][t] = "fetching" /\ asked[c].key = k}

\* Variant: only whoever began the fetch is told how it ended.
SettledForOne(t, k, o) ==
  LET one == CHOOSE c \in Clients : Waiting(t, k) = {} \/ c \in Waiting(t, k)
  IN [call EXCEPT ![one][t] = IF one \in Waiting(t, k) THEN o ELSE @]

\* Everyone waiting is owed the outcome.
Settled(t, k, o) ==
  [c \in Clients |->
     [u \in Trackers |-> IF u = t /\ c \in Waiting(t, k) THEN o ELSE call[c][u]]]

\* Rows the fetch of k from t found are stored; the same release under another
\* search's name is the same row, which both searches may be answered with, and
\* which has stopped being one no search produced.
StoreRows(t, k, rs) ==
  /\ stored' = (stored \ ({t} \X {Library} \X rs)) \union ({t} \X {k} \X rs)
  /\ gained' = [c \in Clients |->
                  IF c \in Waiting(t, k) THEN gained[c] \union ({t} \X {k} \X rs)
                  ELSE gained[c]]

\* The fetch ends.  A Sink that fails is logged and loses the rows; a fetch that
\* fails, is given up at the search's deadline or panics may have stored some.
FetchEnds(t, k) ==
  /\ k \in fetching[t]
  /\ fetching' = [fetching EXCEPT ![t] = @ \ {k}]
  /\ \E o \in {"ok", "failed"} : call' = Settled(t, k, o)
  /\ \E rs \in SUBSET Releases : StoreRows(t, k, rs)
  /\ UNCHANGED <<phase, asked, replyVars>>

\* scrape records the outcome and the turn is given back.
Recorded(c, t) ==
  /\ call[c][t] \in {"ok", "failed"}
  /\ call' = [call EXCEPT ![c][t] = IF @ = "ok" THEN "refreshed" ELSE "lost"]
  /\ UNCHANGED <<phase, asked, replyVars, storeVars, fetching>>

\* The search's deadline, or its client's going away, while it follows: the
\* fetch goes on without it, for whoever leads it.
GivesUp(c, t) ==
  /\ call[c][t] = "fetching"
  /\ Cardinality(Waiting(t, asked[c].key)) > 1
  /\ call' = [call EXCEPT ![c][t] = "lost"]
  /\ UNCHANGED <<phase, asked, replyVars, storeVars, fetching>>

-----------------------------------------------------------------------------
(***************************************************************************)
(* The answer.                                                             *)
(***************************************************************************)

Gathered(c) == \A t \in Covered(asked[c]) : call[c][t] \in {"throttled", "refreshed", "lost"}

Lost(c) == {t \in Trackers : call[c][t] = "lost"}

\* scrape's error: no covered tracker could be asked.
ScrapeErr(c) == Lost(c) = Covered(asked[c])

\* Variant: rows other searches produced answer as well.
MatchesAny(c) == {<<row[1], row[3]>> : row \in {s \in stored : s[1] \in Covered(asked[c])}}

\* The rows a Catalog matches: of the covered trackers, produced by this search
\* or by none.
Matches(c) ==
  {<<row[1], row[3]>> :
     row \in {s \in stored : s[1] \in Covered(asked[c]) /\ s[2] \in {asked[c].key, Library}}}

\* The first of Search's two statements.
Count(c) ==
  /\ phase[c] = "scraping" /\ Gathered(c)
  /\ phase' = [phase EXCEPT ![c] = "counted"]
  /\ total' = [total EXCEPT ![c] = Cardinality(Matches(c))]
  /\ gained' = [gained EXCEPT ![c] = {}]
  /\ UNCHANGED <<asked, call, reply, stored, fetching>>

\* Variant: one failed tracker makes the feed an error.
KindIfAnyLost(c) ==
  IF c \in JsonClients THEN "results"
  ELSE IF Lost(c) # {} /\ total[c] = 0 THEN "unreachable" ELSE "feed"

\* handleSearch: an error only when nothing was refreshed and nothing is stored.
Kind(c) ==
  IF c \in JsonClients THEN "results"
  ELSE IF ScrapeErr(c) /\ total[c] = 0 THEN "unreachable" ELSE "feed"

\* The second statement, and the reply.
Page(c) ==
  /\ phase[c] = "counted"
  /\ \E page \in SUBSET Matches(c) :
       /\ Cardinality(page) = IF Cardinality(Matches(c)) < Limit
                                THEN Cardinality(Matches(c)) ELSE Limit
       /\ Answer(c, [kind |-> Kind(c),
                     items |-> IF Kind(c) = "unreachable" THEN {} ELSE page,
                     failed |-> IF c \in JsonClients THEN Lost(c) ELSE {}])
  /\ UNCHANGED <<asked, call, total, storeVars, fetching>>

\* Either statement fails.
SearchFails(c) ==
  /\ \/ phase[c] = "counted"
     \/ phase[c] = "scraping" /\ Gathered(c)
  /\ Answer(c, Refusal("failed"))
  /\ UNCHANGED <<asked, call, total, storeVars, fetching>>

-----------------------------------------------------------------------------
(***************************************************************************)
(* What goes on beside the searches.                                       *)
(***************************************************************************)

\* Bound: nothing more happens beside them once every request is answered.
Unanswered == \E c \in Clients : phase[c] \in {"scraping", "counted"}

\* The operator's clear, or the retention sweep, removes a tracker's rows.
Removes(t) ==
  /\ Unanswered
  /\ \E s \in stored : s[1] = t
  /\ stored' = {s \in stored : s[1] # t}
  /\ gained' = [c \in Clients |-> {s \in gained[c] : s[1] # t}]
  /\ UNCHANGED <<phase, asked, call, replyVars, fetching>>

SearchNext ==
  \/ \E c \in Clients :
       \/ \E q \in Questions : Receive(c, q)
       \/ \E t \in Trackers : Throttled(c, t) \/ Started(c, t) \/ Recorded(c, t) \/ GivesUp(c, t)
       \/ Count(c) \/ Page(c) \/ SearchFails(c)
  \/ \E t \in Trackers :
       \/ \E k \in Keys : FetchEnds(t, k)
       \/ Removes(t)

\* Goroutines that can run are run, and the search's deadline ends every fetch.
SearchFairness ==
  /\ \A c \in Clients :
       /\ WF_searchVars(Count(c)) /\ WF_searchVars(Page(c))
       /\ \A t \in Trackers :
            /\ WF_searchVars(Throttled(c, t) \/ Started(c, t))
            /\ WF_searchVars(Recorded(c, t))
  /\ \A t \in Trackers, k \in Keys : WF_searchVars(FetchEnds(t, k))

SearchSpec == SearchInit /\ [][SearchNext]_searchVars /\ SearchFairness

-----------------------------------------------------------------------------
(***************************************************************************)
(* Properties.                                                             *)
(***************************************************************************)

\* Every variable has its type, and what scrapes gained is in the store.
SearchTypeOK ==
  /\ phase \in [Clients -> {"new", "scraping", "counted", "done"}]
  /\ call \in [Clients -> [Trackers -> InFlight \union {"none", "queued", "throttled",
                                                        "refreshed", "lost"}]]
  /\ \A c \in Clients : gained[c] \subseteq stored

\* A client is given rows of trackers it asked for, each produced by this very
\* search or by none: a fallback on stored rows never answers with another
\* search's, and an indexer that covers nothing never answers with everything.
OnlyItsOwnRows ==
  [][\A c \in Clients : \A item \in reply'[c].items \ reply[c].items :
       /\ item[1] \in Covered(asked[c])
       /\ \E k \in {asked[c].key, Library} : <<item[1], k, item[2]>> \in stored]_searchVars

\* What a scrape stored for a client, and nobody removed, is counted in its
\* answer, and one tracker's failure never hides another's results: the feed is
\* an error only when no tracker was refreshed and nothing is stored.
FreshResultsAnswered ==
  [][\A c \in Clients :
       /\ Count(c) => total'[c] >= Cardinality({<<row[1], row[3]>> : row \in gained[c]})
       /\ reply'[c].kind = "unreachable" =>
            total[c] = 0 /\ \A t \in Covered(asked[c]) : call[c][t] = "lost"]_searchVars

\* Every request is answered, whatever its trackers do.
EverySearchAnswered == \A c \in Clients : phase[c] = "scraping" ~> phase[c] = "done"

\* What a tracker's searches look like to the contract of Scrape.
Contract(t) == INSTANCE CoalescedSearch WITH
  Callers  <- Clients,
  Outcomes <- {"ok", "failed"},
  Refused  <- "throttled",
  Left     <- "failed",
  fetching <- fetching[t],
  want     <- [c \in Clients |-> IF call[c][t] \in InFlight THEN asked[c].key ELSE None],
  owed     <- [c \in Clients |-> IF call[c][t] \in {"ok", "failed"} THEN call[c][t] ELSE None],
  answer   <- [c \in Clients |->
                 CASE call[c][t] = "refreshed" -> "ok"
                   [] call[c][t] = "lost" -> "failed"
                   [] call[c][t] = "throttled" -> "throttled"
                   [] OTHER -> None]

\* Scrape's contract is all the searches rely on: what they see of a tracker is
\* a behaviour the contract allows, however their scrapes interleave.
UsesContract ==
  [][\A t \in Trackers : Contract(t)!Next \/ UNCHANGED Contract(t)!coalescedVars]_searchVars

=============================================================================
