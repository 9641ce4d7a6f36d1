------------------------- MODULE TorznabSearch_proofs -------------------------
(***************************************************************************)
(* Proofs about the searches of the API, for any number of clients,        *)
(* trackers and releases: a client is answered with rows of its own        *)
(* search, what was scraped for it is counted, and each tracker is used as *)
(* the contract of Scrape has it.                                          *)
(*                                                                         *)
(* The invariant ties a client's scrapes and what they gained to what it   *)
(* asked for, and an error to the scrapes that all failed (Unreached),     *)
(* which nothing changes once they have.                                   *)
(***************************************************************************)
EXTENDS TorznabSearch, TLAPS, FiniteSetTheorems

Calls   == InFlight \union {"none", "queued", "throttled", "refreshed", "lost"}
Rows    == Trackers \X (Keys \union {Library}) \X Releases
Kinds   == {None, "notFound", "unconfigured", "unsupported", "results", "failed", "unreachable", "feed"}
Replies == [kind : Kinds, items : SUBSET (Trackers \X Releases), failed : SUBSET Trackers]

SearchType ==
  /\ phase \in [Clients -> {"new", "scraping", "counted", "done"}]
  /\ asked \in [Clients -> Questions \union {None}]
  /\ call \in [Clients -> [Trackers -> Calls]]
  /\ total \in [Clients -> Nat] /\ reply \in [Clients -> Replies]
  /\ stored \in SUBSET Rows /\ gained \in [Clients -> SUBSET Rows]
  /\ fetching \in [Trackers -> SUBSET Keys]

\* A client scrapes the trackers its request covers, once it has been made.
AsksItsOwn ==
  \A c \in Clients :
    /\ phase[c] # "new" => asked[c] \in Questions
    /\ phase[c] = "new" => gained[c] = {}
    /\ \A t \in Trackers :
         call[c][t] # "none" => phase[c] # "new" /\ t \in Covered(asked[c])

\* What was gained for it is its search's, and is there.
GainsItsOwn ==
  \A c \in Clients : \A row \in gained[c] :
    /\ row \in stored /\ row[1] \in Covered(asked[c]) /\ row[2] = asked[c].key /\ row[2] \in Keys

\* A client told that no tracker was reached has asked them all in vain.
Unreached ==
  \A c \in Clients :
    reply[c].kind = "unreachable" =>
      /\ phase[c] = "done" /\ total[c] = 0
      /\ \A t \in Covered(asked[c]) : call[c][t] = "lost"

SearchInv == SearchType /\ AsksItsOwn /\ GainsItsOwn /\ Unreached

LEMMA CoveredAre == \A q \in Questions : Covered(q) \subseteq Trackers /\ q.key \in Keys
BY SearchAssumption DEF Covered, Addressed

LEMMA SearchInitInv == SearchInit => SearchInv
<1>. SUFFICES ASSUME SearchInit PROVE SearchInv
  OBVIOUS
<1>. USE DEF SearchInit
<1>1. SearchType
  BY DEF SearchType, Calls, InFlight, Replies, Kinds, NoReply, Rows
<1>2. AsksItsOwn /\ GainsItsOwn
  BY DEF AsksItsOwn, GainsItsOwn
<1>3. Unreached
  BY SearchAssumption DEF Unreached, NoReply
<1>. QED  BY <1>1, <1>2, <1>3 DEF SearchInv

-----------------------------------------------------------------------------
\* The request is new, and is refused or its scrapes are queued.
LEMMA ReceiveStep ==
  ASSUME SearchInv, NEW c \in Clients, NEW q \in Questions, Receive(c, q)
  PROVE  SearchInv'
<1>. USE DEF SearchInv
<1>1. /\ phase[c] = "new" /\ asked' = [asked EXCEPT ![c] = q]
      /\ UNCHANGED <<total, stored, gained, fetching>> /\ gained[c] = {}
      /\ \A t \in Trackers : call[c][t] = "none"
  BY DEF Receive, storeVars, AsksItsOwn
<1>2. CASE /\ Answer(c, Refusal(Declined(c, q))) /\ UNCHANGED call
  <2>0. Declined(c, q) \in {"notFound", "unconfigured", "results", "unsupported", None}
    BY Zenon DEF Declined
  <2>1. Declined(c, q) \in Kinds /\ Declined(c, q) # "unreachable"
    BY <2>0, SearchAssumption DEF Kinds
  <2>2. Refusal(Declined(c, q)) \in Replies /\ Refusal(Declined(c, q)).kind # "unreachable"
    BY <2>1 DEF Refusal, Replies
  <2>3. /\ phase' = [phase EXCEPT ![c] = "done"]
        /\ reply' = [reply EXCEPT ![c] = Refusal(Declined(c, q))] /\ UNCHANGED call
    BY <1>2 DEF Answer
  <2>4. SearchType'
    BY <1>1, <2>2, <2>3 DEF SearchType
  <2>5. AsksItsOwn' /\ GainsItsOwn' /\ Unreached'
    BY <1>1, <2>2, <2>3 DEF SearchType, AsksItsOwn, GainsItsOwn, Unreached
  <2>. QED  BY <2>4, <2>5
<1>3. CASE /\ phase' = [phase EXCEPT ![c] = "scraping"] /\ UNCHANGED reply
           /\ call' = [call EXCEPT ![c] =
                         [t \in Trackers |-> IF t \in Covered(q) THEN "queued" ELSE "none"]]
  <2>1. SearchType'
    BY <1>1, <1>3 DEF SearchType, Calls
  <2>2. AsksItsOwn' /\ GainsItsOwn' /\ Unreached'
    BY <1>1, <1>3 DEF SearchType, AsksItsOwn, GainsItsOwn, Unreached
  <2>. QED  BY <2>1, <2>2
<1>. QED  BY <1>2, <1>3 DEF Receive

\* A step of one scrape, which the request was waiting for.
LEMMA ScrapeStep ==
  ASSUME SearchInv, NEW c \in Clients, NEW t \in Trackers,
         Throttled(c, t) \/ Started(c, t) \/ Recorded(c, t) \/ GivesUp(c, t)
  PROVE  SearchInv'
<1>. USE DEF SearchInv
<1>1. PICK to \in Calls : call' = [call EXCEPT ![c][t] = to]
  BY DEF Throttled, Started, Recorded, GivesUp, Calls, InFlight
<1>2. /\ call[c][t] \in {"queued", "fetching", "ok", "failed"}
      /\ UNCHANGED <<phase, asked, total, reply, stored, gained>>
  BY DEF Throttled, Started, Recorded, GivesUp, replyVars, storeVars
<1>3. phase[c] # "new" /\ asked[c] \in Questions /\ t \in Covered(asked[c])
  BY <1>2 DEF AsksItsOwn
<1>4. fetching' \in [Trackers -> SUBSET Keys]
  BY <1>3, CoveredAre DEF Throttled, Started, Recorded, GivesUp, SearchType
<1>5. SearchType' /\ \A d \in Clients : \A u \in Trackers : d # c \/ u # t => call'[d][u] = call[d][u]
  BY <1>1, <1>2, <1>4 DEF SearchType
<1>6. AsksItsOwn' /\ GainsItsOwn'
  BY <1>2, <1>3, <1>5 DEF SearchType, AsksItsOwn, GainsItsOwn
<1>7. Unreached'
  <2>1. reply[c].kind # "unreachable"
    BY <1>2, <1>3 DEF Unreached
  <2>2. \A d \in Clients : phase[d] = "done" /\ d # c /\ reply[d].kind = "unreachable" => Covered(asked[d]) \subseteq Trackers
    BY CoveredAre DEF AsksItsOwn, SearchType
  <2>. QED  BY <1>2, <1>5, <2>1, <2>2 DEF Unreached
<1>. QED  BY <1>5, <1>6, <1>7

\* A fetch ends: what it found is stored, and owed to the searches it was for.
LEMMA FetchEndsStep ==
  ASSUME SearchInv, NEW t \in Trackers, NEW k \in Keys, FetchEnds(t, k)
  PROVE  SearchInv'
<1>. USE DEF SearchInv
<1>1. PICK o \in {"ok", "failed"} : call' = Settled(t, k, o)
  BY DEF FetchEnds
<1>2. PICK rs \in SUBSET Releases : StoreRows(t, k, rs)
  BY DEF FetchEnds
<1>3. UNCHANGED <<phase, asked, total, reply>> /\ fetching' \in [Trackers -> SUBSET Keys]
  BY DEF FetchEnds, replyVars, SearchType
<1>4. /\ call' \in [Clients -> [Trackers -> Calls]]
      /\ \A c \in Clients, u \in Trackers :
           call'[c][u] # call[c][u] => call[c][u] = "fetching" /\ call'[c][u] = o
  BY <1>1 DEF Settled, Waiting, SearchType, Calls, InFlight
<1>5. /\ stored' \in SUBSET Rows /\ gained' \in [Clients -> SUBSET Rows]
      /\ \A c \in Clients : \A row \in gained'[c] :
           row \in gained[c] \/ (c \in Waiting(t, k) /\ row \in {t} \X {k} \X rs)
      /\ \A row \in {t} \X {k} \X rs : row \in stored' /\ row[1] = t /\ row[2] = k
      /\ \A row \in stored : row[2] # Library => row \in stored'
  <2>1. {t} \X {k} \X rs \subseteq Rows
    BY DEF Rows
  <2>2. /\ stored' = (stored \ ({t} \X {Library} \X rs)) \union ({t} \X {k} \X rs)
        /\ gained' = [c \in Clients |->
                        IF c \in Waiting(t, k) THEN gained[c] \union ({t} \X {k} \X rs) ELSE gained[c]]
    BY <1>2 DEF StoreRows
  <2>3. \A row \in {t} \X {k} \X rs : row[1] = t /\ row[2] = k
    OBVIOUS
  <2>4. \A row \in {t} \X {Library} \X rs : row[2] = Library
    OBVIOUS
  <2>. QED  BY <2>1, <2>2, <2>3, <2>4 DEF SearchType
<1>6. SearchType'
  BY <1>3, <1>4, <1>5 DEF SearchType
<1>7. AsksItsOwn'
  <2>1. ASSUME NEW c \in Clients, phase[c] = "new" PROVE gained'[c] = {}
    BY <1>5, <2>1 DEF AsksItsOwn, Waiting
  <2>2. ASSUME NEW c \in Clients, NEW u \in Trackers, call'[c][u] # "none" PROVE call[c][u] # "none"
    BY <1>4, <2>2
  <2>. QED  BY <1>3, <2>1, <2>2 DEF AsksItsOwn
<1>8. GainsItsOwn'
  <2>. SUFFICES ASSUME NEW c \in Clients, NEW row \in gained'[c]
                PROVE  /\ row \in stored' /\ row[1] \in Covered(asked[c])
                       /\ row[2] = asked[c].key /\ row[2] \in Keys
    BY <1>3 DEF GainsItsOwn
  <2>1. CASE row \in gained[c]
    BY <1>5, <2>1, SearchAssumption DEF GainsItsOwn
  <2>2. CASE c \in Waiting(t, k) /\ row \in {t} \X {k} \X rs
    BY <1>5, <2>2 DEF Waiting, AsksItsOwn
  <2>. QED  BY <1>5, <2>1, <2>2
<1>9. Unreached'
  <2>1. \A c \in Clients, u \in Trackers : call[c][u] = "lost" => call'[c][u] = "lost"
    BY <1>4
  <2>2. \A c \in Clients : phase[c] = "done" => Covered(asked[c]) \subseteq Trackers
    BY CoveredAre DEF AsksItsOwn
  <2>. QED  BY <1>3, <2>1, <2>2 DEF Unreached
<1>. QED  BY <1>6, <1>7, <1>8, <1>9

\* What a search matches is of the trackers it covers, produced by it or by none.
LEMMA MatchesAre ==
  ASSUME SearchInv, NEW c \in Clients, phase[c] # "new"
  PROVE  /\ Matches(c) \subseteq Trackers \X Releases /\ IsFiniteSet(Matches(c))
         /\ Cardinality(Matches(c)) \in Nat
         /\ \A item \in Matches(c) :
              /\ item[1] \in Covered(asked[c])
              /\ \E k \in {asked[c].key, Library} : <<item[1], k, item[2]>> \in stored
<1>. USE DEF SearchInv
<1>1. ASSUME NEW item \in Matches(c)
      PROVE  /\ item \in Trackers \X Releases /\ item[1] \in Covered(asked[c])
             /\ \E k \in {asked[c].key, Library} : <<item[1], k, item[2]>> \in stored
  <2>1. PICK row \in stored : /\ row[1] \in Covered(asked[c]) /\ row[2] \in {asked[c].key, Library}
                              /\ item = <<row[1], row[3]>>
    BY DEF Matches
  <2>2. row = <<row[1], row[2], row[3]>> /\ row[1] \in Trackers /\ row[3] \in Releases
    BY DEF SearchType, Rows
  <2>. QED  BY <2>1, <2>2
<1>2. IsFiniteSet(Trackers \X Releases)
  BY SearchAssumption, FS_Product
<1>. QED  BY <1>1, <1>2, FS_Subset, FS_CardinalityType

\* The answer.
LEMMA AnswerStep ==
  ASSUME SearchInv, NEW c \in Clients, Count(c) \/ Page(c) \/ SearchFails(c)
  PROVE  SearchInv'
<1>. USE DEF SearchInv
<1>1. CASE Count(c)
  <2>1. /\ phase[c] = "scraping" /\ phase' = [phase EXCEPT ![c] = "counted"]
        /\ total' = [total EXCEPT ![c] = Cardinality(Matches(c))]
        /\ gained' = [gained EXCEPT ![c] = {}] /\ UNCHANGED <<asked, call, reply, stored, fetching>>
    BY <1>1 DEF Count
  <2>2. SearchType'
    BY <2>1, MatchesAre DEF SearchType
  <2>3. AsksItsOwn' /\ GainsItsOwn' /\ Unreached'
    BY <2>1 DEF SearchType, AsksItsOwn, GainsItsOwn, Unreached
  <2>. QED  BY <2>2, <2>3
<1>2. ASSUME NEW r \in Replies, Answer(c, r), phase[c] \in {"scraping", "counted"},
             UNCHANGED <<asked, call, total, stored, gained, fetching>>,
             r.kind = "unreachable" => total[c] = 0 /\ \A t \in Covered(asked[c]) : call[c][t] = "lost"
      PROVE  SearchInv'
  <2>1. phase' = [phase EXCEPT ![c] = "done"] /\ reply' = [reply EXCEPT ![c] = r]
    BY <1>2 DEF Answer
  <2>2. SearchType'
    BY <1>2, <2>1 DEF SearchType
  <2>3. AsksItsOwn' /\ GainsItsOwn' /\ Unreached'
    BY <1>2, <2>1 DEF SearchType, AsksItsOwn, GainsItsOwn, Unreached
  <2>. QED  BY <2>2, <2>3
<1>3. CASE Page(c)
  <2>1. PICK page \in SUBSET Matches(c) :
          Answer(c, [kind |-> Kind(c), items |-> IF Kind(c) = "unreachable" THEN {} ELSE page,
                     failed |-> IF c \in JsonClients THEN Lost(c) ELSE {}])
    BY <1>3 DEF Page
  <2>2. /\ Kind(c) \in {"results", "unreachable", "feed"} /\ phase[c] = "counted"
        /\ UNCHANGED <<asked, call, total, stored, gained, fetching>>
    BY <1>3 DEF Kind, Page, storeVars
  <2>3. page \subseteq Trackers \X Releases /\ Lost(c) \subseteq Trackers
    BY <2>2, MatchesAre DEF Lost
  <2>4. Kind(c) = "unreachable" => total[c] = 0 /\ \A t \in Covered(asked[c]) : call[c][t] = "lost"
    BY DEF Kind, ScrapeErr, Lost
  <2>. DEFINE r == [kind |-> Kind(c), items |-> IF Kind(c) = "unreachable" THEN {} ELSE page,
                    failed |-> IF c \in JsonClients THEN Lost(c) ELSE {}]
  <2>5. r \in Replies /\ r.kind = Kind(c)
    BY <2>2, <2>3 DEF Replies, Kinds
  <2>6. Answer(c, r)
    BY <2>1
  <2>. HIDE DEF r
  <2>. QED  BY <1>2, <2>2, <2>4, <2>5, <2>6
<1>4. CASE SearchFails(c)
  <2>1. Refusal("failed") \in Replies /\ Refusal("failed").kind # "unreachable"
    BY DEF Refusal, Replies, Kinds
  <2>2. /\ Answer(c, Refusal("failed")) /\ phase[c] \in {"scraping", "counted"}
        /\ UNCHANGED <<asked, call, total, stored, gained, fetching>>
    BY <1>4 DEF SearchFails, storeVars
  <2>. QED  BY <1>2, <2>1, <2>2
<1>. QED  BY <1>1, <1>3, <1>4

LEMMA RemovesStep == ASSUME SearchInv, NEW t \in Trackers, Removes(t) PROVE SearchInv'
BY DEF SearchInv, SearchType, AsksItsOwn, GainsItsOwn, Unreached, Removes, replyVars

LEMMA SearchStep == ASSUME SearchInv, [SearchNext]_searchVars PROVE SearchInv'
<1>1. CASE UNCHANGED searchVars
  BY <1>1 DEF searchVars, replyVars, storeVars, SearchInv, SearchType, AsksItsOwn, GainsItsOwn, Unreached
<1>. QED  BY <1>1, ReceiveStep, ScrapeStep, FetchEndsStep, AnswerStep, RemovesStep DEF SearchNext

LEMMA SearchAlways == SearchSpec => []SearchInv
BY SearchInitInv, SearchStep, PTL DEF SearchSpec

-----------------------------------------------------------------------------
\* Only the reply of Page has items, and they are of what the search matches.
LEMMA ItemsAre ==
  ASSUME SearchInv, [SearchNext]_searchVars, NEW c \in Clients,
         NEW item \in reply'[c].items \ reply[c].items
  PROVE  /\ item[1] \in Covered(asked[c])
         /\ \E k \in {asked[c].key, Library} : <<item[1], k, item[2]>> \in stored
<1>. USE DEF SearchInv
<1>1. CASE reply'[c] = reply[c]
  BY <1>1
<1>2. ASSUME NEW d \in Clients, NEW r, Answer(d, r), r.items = {} PROVE FALSE
  BY <1>2 DEF Answer, SearchType
<1>3. ASSUME NEW d \in Clients, NEW q \in Questions, Receive(d, q) PROVE reply'[c] = reply[c]
  BY <1>2, <1>3 DEF Receive, Refusal
<1>4. ASSUME NEW d \in Clients, SearchFails(d) PROVE FALSE
  BY <1>2, <1>4 DEF SearchFails, Refusal
<1>5. ASSUME NEW d \in Clients, Page(d) PROVE item \in Matches(c) /\ phase[c] # "new"
  <2>1. PICK page \in SUBSET Matches(d) :
          Answer(d, [kind |-> Kind(d), items |-> IF Kind(d) = "unreachable" THEN {} ELSE page,
                     failed |-> IF d \in JsonClients THEN Lost(d) ELSE {}])
    BY <1>5 DEF Page
  <2>2. item \in page /\ c = d
    BY <2>1 DEF Answer, SearchType
  <2>. QED  BY <1>5, <2>1, <2>2 DEF Page
<1>6. CASE UNCHANGED reply
  BY <1>6
<1>7. CASE item \in Matches(c) /\ phase[c] # "new"
  BY <1>7, MatchesAre
<1>8. \/ UNCHANGED reply
      \/ \E d \in Clients : (\E q \in Questions : Receive(d, q)) \/ Page(d) \/ SearchFails(d)
  BY DEF SearchNext, searchVars, replyVars, Throttled, Started, Recorded, GivesUp, Count, FetchEnds, Removes
<1>. QED  BY <1>1, <1>3, <1>4, <1>5, <1>6, <1>7, <1>8

\* A client is answered with rows of the trackers it asked for, that its own search
\* produced or none did (Catalog.Search, indexer.handling).
THEOREM OnlyItsOwnRowsAlways == SearchSpec => OnlyItsOwnRows
<1>1. SearchInv /\ [SearchNext]_searchVars =>
        [\A c \in Clients : \A item \in reply'[c].items \ reply[c].items :
           /\ item[1] \in Covered(asked[c])
           /\ \E k \in {asked[c].key, Library} : <<item[1], k, item[2]>> \in stored]_searchVars
  BY ItemsAre
<1>. QED  BY <1>1, SearchAlways, PTL DEF SearchSpec, OnlyItsOwnRows

\* What was gained for a client matches its search.
LEMMA GainsCounted ==
  ASSUME SearchInv, NEW c \in Clients, Count(c)
  PROVE  total'[c] >= Cardinality({<<row[1], row[3]>> : row \in gained[c]})
<1>. DEFINE own == {<<row[1], row[3]>> : row \in gained[c]}
<1>1. own \subseteq Matches(c)
  BY DEF SearchInv, GainsItsOwn, Matches
<1>2. /\ IsFiniteSet(Matches(c)) /\ Cardinality(Matches(c)) \in Nat
      /\ total'[c] = Cardinality(Matches(c))
  BY MatchesAre DEF Count, SearchInv, SearchType
<1>3. Cardinality(own) <= Cardinality(Matches(c)) /\ Cardinality(own) \in Nat
  BY <1>1, <1>2, FS_Subset, FS_CardinalityType
<1>. QED  BY <1>2, <1>3

\* An error is for a search that lost every tracker, and stays with it.
LEMMA ErrorIsTrue ==
  ASSUME SearchInv, [SearchNext]_searchVars, NEW c \in Clients, reply'[c].kind = "unreachable"
  PROVE  total[c] = 0 /\ \A t \in Covered(asked[c]) : call[c][t] = "lost"
<1>. USE DEF SearchInv
<1>1. CASE reply[c].kind = "unreachable"
  BY <1>1 DEF Unreached
<1>2. CASE reply[c].kind # "unreachable"
  <2>1. ASSUME NEW d \in Clients, NEW r, Answer(d, r) PROVE d = c /\ r.kind = "unreachable"
    BY <1>2, <2>1 DEF Answer, SearchType
  <2>2. ASSUME NEW d \in Clients, NEW q \in Questions, Receive(d, q) PROVE FALSE
    <3>1. Answer(d, Refusal(Declined(d, q))) \/ UNCHANGED reply
      BY <2>2 DEF Receive
    <3>2. Declined(d, q) \in {"notFound", "unconfigured", "results", "unsupported", None}
      BY Zenon DEF Declined
    <3>3. Refusal(Declined(d, q)).kind = Declined(d, q)
      BY DEF Refusal
    <3>. QED  BY <1>2, <2>1, <3>1, <3>2, <3>3, SearchAssumption
  <2>3. ASSUME NEW d \in Clients, SearchFails(d) PROVE FALSE
    BY <2>1, <2>3 DEF SearchFails, Refusal
  <2>4. ASSUME NEW d \in Clients, Page(d) PROVE d = c /\ Kind(c) = "unreachable"
    BY <2>1, <2>4 DEF Page
  <2>5. \/ UNCHANGED reply
        \/ \E d \in Clients : (\E q \in Questions : Receive(d, q)) \/ Page(d) \/ SearchFails(d)
    BY DEF SearchNext, searchVars, replyVars, Throttled, Started, Recorded, GivesUp, Count, FetchEnds, Removes
  <2>6. Kind(c) = "unreachable"
    BY <1>2, <2>2, <2>3, <2>4, <2>5
  <2>. QED  BY <2>6 DEF Kind, ScrapeErr, Lost
<1>. QED  BY <1>1, <1>2

\* What was scraped for a client is counted in its answer, and it is told that no
\* tracker was reached only when none was and nothing is stored (handleSearch).
THEOREM FreshResultsAnsweredAlways == SearchSpec => FreshResultsAnswered
<1>1. SearchInv /\ [SearchNext]_searchVars =>
        [\A c \in Clients :
           /\ Count(c) => total'[c] >= Cardinality({<<row[1], row[3]>> : row \in gained[c]})
           /\ reply'[c].kind = "unreachable" =>
                total[c] = 0 /\ \A t \in Covered(asked[c]) : call[c][t] = "lost"]_searchVars
  BY GainsCounted, ErrorIsTrue
<1>. QED  BY <1>1, SearchAlways, PTL DEF SearchSpec, FreshResultsAnswered

-----------------------------------------------------------------------------
(***************************************************************************)
(* The contract of Scrape.                                                 *)
(***************************************************************************)

\* What the contract sees of the searches of t.
Wants(t)   == [c \in Clients |-> IF call[c][t] \in InFlight THEN asked[c].key ELSE None]
Owes(t)    == [c \in Clients |-> IF call[c][t] \in {"ok", "failed"} THEN call[c][t] ELSE None]
Answers(t) == [c \in Clients |->
                 CASE call[c][t] = "refreshed" -> "ok"
                   [] call[c][t] = "lost" -> "failed"
                   [] call[c][t] = "throttled" -> "throttled"
                   [] OTHER -> None]

\* A step that is none of t's scrapes is no step of its contract's.
LEMMA NoneOfIts ==
  ASSUME SearchInv, NEW t \in Trackers, fetching'[t] = fetching[t],
         \A c \in Clients : /\ call'[c][t] = call[c][t]
                            /\ call[c][t] \in InFlight => asked'[c] = asked[c]
  PROVE  UNCHANGED Contract(t)!coalescedVars
<1>1. Wants(t)' = Wants(t) /\ Owes(t)' = Owes(t) /\ Answers(t)' = Answers(t)
  BY DEF Wants, Owes, Answers
<1>. QED  BY <1>1 DEF Contract!coalescedVars, Wants, Owes, Answers

\* A scrape of t's is turned away, started, ended or given up.
LEMMA ScrapeKeepsContract ==
  ASSUME SearchInv, NEW c \in Clients, NEW t \in Trackers,
         Throttled(c, t) \/ Started(c, t) \/ Recorded(c, t) \/ GivesUp(c, t)
  PROVE  Contract(t)!Next
<1>. USE DEF SearchInv
<1>0. asked[c] \in Questions /\ asked[c].key \in Keys /\ asked[c].key # None
  BY CoveredAre, SearchAssumption DEF AsksItsOwn, Throttled, Started, Recorded, GivesUp
<1>1. /\ call \in [Clients -> [Trackers -> Calls]] /\ None \notin {"ok", "failed", "throttled"}
  BY SearchAssumption DEF SearchType
<1>2. CASE Throttled(c, t)
  <2>1. call[c][t] = "queued" /\ call' = [call EXCEPT ![c][t] = "throttled"] /\ UNCHANGED <<asked, fetching>>
    BY <1>2 DEF Throttled
  <2>2. /\ Wants(t)[c] = None /\ Wants(t)' = Wants(t) /\ Owes(t)' = Owes(t)
        /\ Answers(t)' = [Answers(t) EXCEPT ![c] = "throttled"]
    BY <1>1, <2>1 DEF Wants, Owes, Answers, InFlight
  <2>. QED  BY <2>1, <2>2 DEF Contract!Next, Contract!Refuse, Wants, Owes, Answers
<1>3. CASE Started(c, t)
  <2>1. /\ call[c][t] = "queued" /\ call' = [call EXCEPT ![c][t] = "fetching"] /\ UNCHANGED asked
        /\ fetching'[t] = fetching[t] \union {asked[c].key}
    BY <1>3 DEF Started, SearchType
  <2>2. /\ Wants(t)[c] = None /\ Wants(t)' = [Wants(t) EXCEPT ![c] = asked[c].key]
        /\ Owes(t)' = Owes(t) /\ Answers(t)' = [Answers(t) EXCEPT ![c] = None]
    BY <1>1, <2>1 DEF Wants, Owes, Answers, InFlight
  <2>. QED  BY <1>0, <2>1, <2>2 DEF Contract!Next, Contract!Ask, Wants, Owes, Answers
<1>4. CASE Recorded(c, t)
  <2>1. /\ call[c][t] \in {"ok", "failed"} /\ UNCHANGED <<asked, fetching>>
        /\ call' = [call EXCEPT ![c][t] = IF call[c][t] = "ok" THEN "refreshed" ELSE "lost"]
    BY <1>1, <1>4 DEF Recorded
  <2>2. /\ Owes(t)[c] # None /\ Wants(t)' = [Wants(t) EXCEPT ![c] = None]
        /\ Owes(t)' = [Owes(t) EXCEPT ![c] = None]
        /\ Answers(t)' = [Answers(t) EXCEPT ![c] = Owes(t)[c]]
    BY <1>1, <2>1 DEF Wants, Owes, Answers, InFlight
  <2>. QED  BY <2>1, <2>2 DEF Contract!Next, Contract!Deliver, Wants, Owes, Answers
<1>5. CASE GivesUp(c, t)
  <2>1. /\ call[c][t] = "fetching" /\ UNCHANGED <<asked, fetching>>
        /\ call' = [call EXCEPT ![c][t] = "lost"]
    BY <1>5 DEF GivesUp
  <2>2. /\ Wants(t)[c] # None /\ Wants(t)' = [Wants(t) EXCEPT ![c] = None]
        /\ Owes(t)' = [Owes(t) EXCEPT ![c] = None] /\ Answers(t)' = [Answers(t) EXCEPT ![c] = "failed"]
    BY <1>0, <1>1, <2>1 DEF Wants, Owes, Answers, InFlight
  <2>. QED  BY <2>1, <2>2 DEF Contract!Next, Contract!Leave, Wants, Owes, Answers
<1>. QED  BY <1>2, <1>3, <1>4, <1>5

\* A fetch that ends is settled with everyone who waits for it.
LEMMA FetchKeepsContract ==
  ASSUME SearchInv, NEW t \in Trackers, NEW k \in Keys, FetchEnds(t, k)
  PROVE  Contract(t)!Next /\ \A u \in Trackers \ {t} : UNCHANGED Contract(u)!coalescedVars
<1>. USE DEF SearchInv
<1>1. PICK o \in {"ok", "failed"} : call' = Settled(t, k, o)
  BY DEF FetchEnds
<1>2. UNCHANGED asked /\ k \in fetching[t] /\ fetching' = [fetching EXCEPT ![t] = fetching[t] \ {k}]
  BY DEF FetchEnds
<1>3. \A c \in Clients, u \in Trackers :
        call'[c][u] = IF u = t /\ call[c][u] = "fetching" /\ asked[c].key = k THEN o ELSE call[c][u]
  BY <1>1 DEF Settled, Waiting
<1>4. Contract(t)!Next
  <2>1. Wants(t)' = Wants(t) /\ Answers(t)' = Answers(t)
    BY <1>2, <1>3 DEF Wants, Answers, InFlight
  <2>2. Owes(t)' = [c \in Clients |-> IF Wants(t)[c] = k /\ Owes(t)[c] = None THEN o ELSE Owes(t)[c]]
    <3>. SUFFICES ASSUME NEW c \in Clients
                  PROVE  (IF call'[c][t] \in {"ok", "failed"} THEN call'[c][t] ELSE None)
                           = IF Wants(t)[c] = k /\ Owes(t)[c] = None THEN o ELSE Owes(t)[c]
      BY DEF Owes
    <3>1. Wants(t)[c] = k <=> call[c][t] \in InFlight /\ asked[c].key = k
      BY SearchAssumption DEF Wants
    <3>2. Owes(t)[c] = None <=> call[c][t] \notin {"ok", "failed"}
      BY SearchAssumption DEF Owes
    <3>. QED  BY <1>3, <3>1, <3>2 DEF Owes, InFlight
  <2>3. fetching'[t] = fetching[t] \ {k}
    BY <1>2 DEF SearchType
  <2>. QED  BY <1>2, <2>1, <2>2, <2>3 DEF Contract!Next, Contract!Settle, Wants, Owes, Answers
<1>5. ASSUME NEW u \in Trackers \ {t} PROVE UNCHANGED Contract(u)!coalescedVars
  BY <1>2, <1>3, NoneOfIts DEF SearchType
<1>. QED  BY <1>4, <1>5

LEMMA ContractKept ==
  ASSUME SearchInv, [SearchNext]_searchVars, NEW t \in Trackers
  PROVE  Contract(t)!Next \/ UNCHANGED Contract(t)!coalescedVars
<1>. USE DEF SearchInv
<1>1. ASSUME NEW c \in Clients, NEW u \in Trackers,
             Throttled(c, u) \/ Started(c, u) \/ Recorded(c, u) \/ GivesUp(c, u)
      PROVE  Contract(t)!Next \/ UNCHANGED Contract(t)!coalescedVars
  <2>1. CASE u = t
    BY <1>1, <2>1, ScrapeKeepsContract
  <2>2. CASE u # t
    <3>1. UNCHANGED asked /\ fetching'[t] = fetching[t] /\ \A d \in Clients : call'[d][t] = call[d][t]
      BY <1>1, <2>2 DEF Throttled, Started, Recorded, GivesUp, SearchType
    <3>. QED  BY <3>1, NoneOfIts
  <2>. QED  BY <2>1, <2>2
<1>2. ASSUME NEW u \in Trackers, NEW k \in Keys, FetchEnds(u, k)
      PROVE  Contract(t)!Next \/ UNCHANGED Contract(t)!coalescedVars
  BY <1>2, FetchKeepsContract
<1>3. ASSUME NEW c \in Clients, NEW q \in Questions, Receive(c, q)
      PROVE  UNCHANGED Contract(t)!coalescedVars
  <2>1. /\ UNCHANGED fetching /\ asked' = [asked EXCEPT ![c] = q] /\ call[c][t] = "none"
        /\ \A d \in Clients : d # c => call'[d][t] = call[d][t]
    BY <1>3 DEF Receive, SearchType, AsksItsOwn
  <2>2. call'[c][t] \in {"none", "queued"}
    BY <1>3, <2>1 DEF Receive, SearchType
  <2>3. Wants(t)' = Wants(t) /\ Owes(t)' = Owes(t) /\ Answers(t)' = Answers(t)
    BY <2>1, <2>2 DEF Wants, Owes, Answers, InFlight, SearchType
  <2>. QED  BY <2>1, <2>3 DEF Contract!coalescedVars, Wants, Owes, Answers
<1>4. CASE \/ \E c \in Clients : Count(c) \/ Page(c) \/ SearchFails(c)
           \/ \E u \in Trackers : Removes(u)
           \/ UNCHANGED searchVars
  <2>1. UNCHANGED <<asked, call, fetching>>
    BY <1>4 DEF Count, Page, SearchFails, Removes, searchVars
  <2>. QED  BY <2>1, NoneOfIts
<1>. QED  BY <1>1, <1>2, <1>3, <1>4 DEF SearchNext

\* The searches use each tracker as the contract of Scrape has it, which
\* ScrapeScheduler implements: what is proved of the one rests on nothing the
\* other does not promise (scraper.scrape, Scraper.Scrape).
THEOREM UsesContractAlways == SearchSpec => UsesContract
<1>1. SearchInv /\ [SearchNext]_searchVars =>
        [\A t \in Trackers : Contract(t)!Next \/ UNCHANGED Contract(t)!coalescedVars]_searchVars
  BY ContractKept
<1>. QED  BY <1>1, SearchAlways, PTL DEF SearchSpec, UsesContract

=============================================================================
