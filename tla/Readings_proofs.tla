--------------------------- MODULE Readings_proofs ---------------------------
(***************************************************************************)
(* Proofs about what is read and asked for: the identity of a search, the  *)
(* requests of the Torznab API, the rows of a tracker's pages, the         *)
(* downloads and the logins of a tracker, and timestamps, each for every   *)
(* value of its constants.                                                 *)
(***************************************************************************)
EXTENDS SearchIdentity, TorznabQuery, RowExtraction, TorrentDownload, FormLogin, FuzzyDate, TLAPS, SequenceTheorems,
        NaturalsInduction, WellFoundedInduction

-----------------------------------------------------------------------------
(***************************************************************************)
(* Induction over the naturals, for the recursive functions below.         *)
(***************************************************************************)

\* Every set of naturals has a smallest.
LEMMA SmallestIs ==
  ASSUME NEW S \in SUBSET Nat, S # {}
  PROVE  \E n \in S : \A m \in S : n <= m
<1>1. PICK n \in S : \A m \in S : ~ (<<m, n>> \in OpToRel(<, Nat))
  BY NatLessThanWellFounded, WFMin
<1>2. \A m \in S : m \in Nat /\ n \in Nat /\ ~ (m < n)
  BY <1>1 DEF OpToRel
<1>. QED
  BY <1>2

\* Induction, over a set.
LEMMA EveryNatural ==
  ASSUME NEW S, 0 \in S, \A n \in Nat : n \in S => n + 1 \in S
  PROVE  \A n \in Nat : n \in S
<1>. DEFINE missing == {n \in Nat : n \notin S}
<1>. SUFFICES ASSUME missing # {} PROVE FALSE
  OBVIOUS
<1>1. PICK n \in missing : \A m \in missing : n <= m
  <2>1. missing \in SUBSET Nat
    OBVIOUS
  <2>. HIDE DEF missing
  <2>. QED  BY <2>1, SmallestIs
<1>2. n - 1 \in Nat /\ (n - 1) + 1 = n /\ ~(n <= n - 1)
  OBVIOUS
<1>3. n - 1 \in S
  BY <1>1, <1>2
<1>. QED
  BY <1>2, <1>3

-----------------------------------------------------------------------------
(***************************************************************************)
(* The identity of a search. What two searches with one key have in common *)
(* is what every variable of a definition's templates is written from      *)
(* (SameUnpaged), but for the page, which a definition whose key leaves it *)
(* out writes nowhere (PageUnwritten): so they render the same requests    *)
(* (SameKeySameRequests).                                                  *)
(***************************************************************************)

\* The window keeps each search under its own key.
FiledAs ==
  /\ requester \in Requesters
  /\ \A k \in DOMAIN window : window[k] \in Asks /\ QueryKey(requester, window[k]) = k
  /\ \A a \in answered : /\ a.search \in Asks /\ a.put \in Asks
                         /\ QueryKey(requester, a.put) = QueryKey(requester, a.search)

-----------------------------------------------------------------------------
(***************************************************************************)
(* What a definition is given depends on what the key keeps.               *)
(***************************************************************************)

LEMMA InOrderFields ==
  ASSUME NEW p \in Asks
  PROVE  /\ InOrder(p).text = p.text /\ InOrder(p).season = p.season /\ InOrder(p).ep = p.ep
         /\ InOrder(p).categories = InOneOrder(p.categories)
         /\ InOrder(p).Limit = p.Limit /\ InOrder(p).Offset = p.Offset
         /\ SeasonOf(InOrder(p)) = SeasonOf(p)
BY AsksAssumption DEF InOrder, SeasonOf

\* What is rendered apart from the page depends on the texts, the season as it is
\* written, the episode and the categories.
LEMMA SameUnpaged ==
  ASSUME NEW p, NEW q, p.text = q.text, p.ep = q.ep, p.categories = q.categories,
         SeasonOf(p) = SeasonOf(q)
  PROVE  Unpaged(p) = Unpaged(q)
<1>1. EpisodeOf(p) = EpisodeOf(q)
  BY DEF EpisodeOf
<1>2. KeywordsOf(p) = KeywordsOf(q)
  BY <1>1 DEF KeywordsOf
<1>3. IsIDSearch(p) = IsIDSearch(q)
  BY DEF IsIDSearch
<1>. QED
  BY <1>1, <1>2, <1>3 DEF Unpaged

\* A template renders alike from queries that agree on what it writes.
LEMMA RenderedAlike ==
  ASSUME NEW t, NEW P, NEW Q, \A v \in t.writes : P[v] = Q[v]
  PROVE  Rendered(t, P) = Rendered(t, Q) /\ (IsBlank(t, P) <=> IsBlank(t, Q))
BY DEF Rendered, IsBlank

\* So does a block of inputs.
LEMMA SentAlike ==
  ASSUME NEW def, NEW inputs, NEW P, NEW Q,
         \A key \in DOMAIN inputs : \A v \in inputs[key].writes : P[v] = Q[v]
  PROVE  Sent(def, inputs, P) = Sent(def, inputs, Q) /\ RawFragment(inputs, P) = RawFragment(inputs, Q)
<1>1. \A key \in DOMAIN inputs :
        /\ Rendered(inputs[key], P) = Rendered(inputs[key], Q)
        /\ IsBlank(inputs[key], P) <=> IsBlank(inputs[key], Q)
  BY RenderedAlike
<1>. QED
  BY <1>1 DEF Sent, RawFragment

\* And all the requests of a definition.
LEMMA RequestsAlike ==
  ASSUME NEW def, NEW p, NEW q,
         \A v \in WrittenBy(def) : TemplateQuery(p)[v] = TemplateQuery(q)[v]
  PROVE  RequestsFor(def, p) = RequestsFor(def, q)
<1>. DEFINE P == TemplateQuery(p)
            Q == TemplateQuery(q)
<1>1. \A key \in DOMAIN def.inputs : \A v \in def.inputs[key].writes : P[v] = Q[v]
  BY DEF WrittenBy
<1>2. ASSUME NEW i \in DOMAIN def.paths
      PROVE  /\ Rendered(def.paths[i].path, P) = Rendered(def.paths[i].path, Q)
             /\ PathForm(def, def.paths[i], P) = PathForm(def, def.paths[i], Q)
  <2>. DEFINE path == def.paths[i]
  <2>1. path \in Range(def.paths)
    BY DEF Range
  <2>2. \A v \in path.path.writes : P[v] = Q[v]
    BY <2>1 DEF WrittenBy
  <2>3. \A key \in DOMAIN path.inputs : \A v \in path.inputs[key].writes : P[v] = Q[v]
    BY <2>1 DEF WrittenBy
  <2>. HIDE DEF P, Q, path
  <2>4. Rendered(path.path, P) = Rendered(path.path, Q)
    BY <2>2, RenderedAlike
  <2>5. /\ Sent(def, path.inputs, P) = Sent(def, path.inputs, Q)
        /\ RawFragment(path.inputs, P) = RawFragment(path.inputs, Q)
    BY <2>3, SentAlike
  <2>6. ASSUME NEW shared, shared = (IF path.inherits THEN def.inputs ELSE <<>>)
        PROVE  /\ Sent(def, shared, P) = Sent(def, shared, Q)
               /\ RawFragment(shared, P) = RawFragment(shared, Q)
    <3>1. \A key \in DOMAIN shared : \A v \in shared[key].writes : P[v] = Q[v]
      BY <1>1, <2>6
    <3>. QED  BY <3>1, SentAlike
  <2>7. PathForm(def, path, P) = PathForm(def, path, Q)
    BY <2>5, <2>6 DEF PathForm
  <2>. QED  BY <2>4, <2>7 DEF path
<1>. QED
  BY <1>2 DEF RequestsFor

-----------------------------------------------------------------------------
(***************************************************************************)
(* The page.                                                               *)
(***************************************************************************)

\* pagesServerSide looks wherever a definition writes anything.
LEMMA PageUnwritten ==
  ASSUME NEW def
  PROVE  WrittenBy(def) \intersect {"Limit", "Offset"} = {} <=> ~PagesServerSide(def)
<1>. DEFINE Writes(v) ==
              \/ \E key \in DOMAIN def.inputs : v \in def.inputs[key].writes
              \/ \E path \in Range(def.paths) :
                   \/ v \in path.path.writes
                   \/ \E key \in DOMAIN path.inputs : v \in path.inputs[key].writes
<1>1. ASSUME NEW v PROVE v \in WrittenBy(def) <=> Writes(v)
  <2>1. v \in WrittenBy(def) => Writes(v)
    BY DEF WrittenBy
  <2>2. ASSUME NEW key \in DOMAIN def.inputs, v \in def.inputs[key].writes
        PROVE  v \in WrittenBy(def)
    BY <2>2 DEF WrittenBy
  <2>3. ASSUME NEW path \in Range(def.paths), v \in path.path.writes
        PROVE  v \in WrittenBy(def)
    BY <2>3 DEF WrittenBy
  <2>4. ASSUME NEW path \in Range(def.paths), NEW key \in DOMAIN path.inputs,
               v \in path.inputs[key].writes
        PROVE  v \in WrittenBy(def)
    BY <2>4 DEF WrittenBy
  <2>. QED  BY <2>1, <2>2, <2>3, <2>4
<1>2. PagesServerSide(def) <=> Writes("Limit") \/ Writes("Offset")
  BY DEF PagesServerSide, WritesPage
<1>. HIDE DEF Writes
<1>. QED  BY <1>1, <1>2

LEMMA TemplateQueryOf ==
  ASSUME NEW p
  PROVE  /\ DOMAIN TemplateQuery(p) = {"Limit", "Offset"} \union DOMAIN Unpaged(p)
         /\ \A v \in DOMAIN Unpaged(p) \ {"Limit", "Offset"} : TemplateQuery(p)[v] = Unpaged(p)[v]
<1>. HIDE DEF Unpaged
<1>. QED  BY DEF TemplateQuery, LaidOver

\* Two searches with one key ask the tracker the same.
LEMMA SameKeySameRequests ==
  ASSUME NEW def \in Requesters, NEW p \in Asks, NEW q \in Asks, QueryKey(def, p) = QueryKey(def, q)
  PROVE  RequestsFor(def, InOrder(p)) = RequestsFor(def, InOrder(q))
<1>1. /\ p.text = q.text /\ p.ep = q.ep /\ SeasonOf(p) = SeasonOf(q)
      /\ InOneOrder(p.categories) = InOneOrder(q.categories)
  BY DEF QueryKey, CacheKey
<1>2. Unpaged(InOrder(p)) = Unpaged(InOrder(q))
  BY <1>1, InOrderFields, SameUnpaged
<1>3. CASE PagesServerSide(def)
  <2>1. p.Limit = q.Limit /\ p.Offset = q.Offset
    BY <1>3 DEF QueryKey, PagingKey
  <2>2. TemplateQuery(InOrder(p)) = TemplateQuery(InOrder(q))
    BY <1>2, <2>1, InOrderFields DEF TemplateQuery
  <2>. QED  BY <2>2, RequestsAlike
<1>4. CASE ~PagesServerSide(def)
  <2>1. DOMAIN Unpaged(InOrder(p)) = DOMAIN Unpaged(p)
    <3>. QED  BY InOrderFields DEF Unpaged, LaidOver
  <2>2. \A v \in WrittenBy(def) : v \in DOMAIN Unpaged(InOrder(p)) \ {"Limit", "Offset"}
    BY <1>4, <2>1, PageUnwritten, TemplateQueryOf, RequestersAssumption
  <2>3. \A v \in WrittenBy(def) : TemplateQuery(InOrder(p))[v] = TemplateQuery(InOrder(q))[v]
    BY <1>2, <2>2, TemplateQueryOf
  <2>. QED  BY <2>3, RequestsAlike
<1>. QED  BY <1>3, <1>4

-----------------------------------------------------------------------------
\* A search put to the tracker, or taken to repeat one that was.
LEMMA AskForFiled == ASSUME FiledAs, NEW p \in Asks, AskFor(p) PROVE FiledAs'
<1>. DEFINE key == QueryKey(requester, p)
            put == IF key \in DOMAIN window THEN window[key] ELSE p
<1>1. /\ window' = LaidOver([k \in {key} |-> put], window) /\ requester' = requester
      /\ answered' = answered \union {[search |-> p, put |-> put]}
  BY DEF AskFor
<1>2. put \in Asks /\ QueryKey(requester, put) = key
  BY DEF FiledAs
<1>. HIDE DEF key, put
<1>3. DOMAIN window' = DOMAIN window \union {key}
  BY <1>1 DEF LaidOver
<1>4. \A k \in DOMAIN window' : window'[k] = IF k = key THEN put ELSE window[k]
  BY <1>1 DEF LaidOver
<1>5. (\A k \in DOMAIN window : window[k] \in Asks /\ QueryKey(requester, window[k]) = k)'
  BY <1>1, <1>2, <1>3, <1>4 DEF FiledAs, QueryKey
<1>6. (\A a \in answered : /\ a.search \in Asks /\ a.put \in Asks
                           /\ QueryKey(requester, a.put) = QueryKey(requester, a.search))'
  BY <1>1, <1>2 DEF FiledAs, key
<1>. QED  BY <1>1, <1>5, <1>6 DEF FiledAs

LEMMA FiledStep == ASSUME FiledAs, [IdentityNext]_identityVars PROVE FiledAs'
<1>1. ASSUME NEW p \in Asks, AskFor(p) PROVE FiledAs'
  BY <1>1, AskForFiled
<1>2. ASSUME NEW key \in DOMAIN window, Expire(key) PROVE FiledAs'
  BY <1>2 DEF Expire, FiledAs
<1>3. CASE UNCHANGED identityVars
  BY <1>3 DEF identityVars, FiledAs
<1>. QED  BY <1>1, <1>2, <1>3 DEF IdentityNext

\* The invariant gives the property, both its parts.
LEMMA FiledAnswers == ASSUME FiledAs PROVE AnsweredAsAsked
<1>1. \A a \in answered : RequestsFor(requester, InOrder(a.put)) = RequestsFor(requester, InOrder(a.search))
  BY SameKeySameRequests DEF FiledAs
<1>2. ASSUME WrittenBy(requester) \intersect {"Limit", "Offset"} = {},
             NEW k \in DOMAIN window, NEW l \in DOMAIN window,
             WithoutPage(window[k]) = WithoutPage(window[l])
      PROVE  k = l
  <2>. DEFINE p == window[k]
              q == window[l]
  <2>1. ~PagesServerSide(requester)
    BY <1>2, PageUnwritten
  <2>2. p \in Asks /\ q \in Asks /\ QueryKey(requester, p) = k /\ QueryKey(requester, q) = l
    BY DEF FiledAs
  <2>3. WithoutPage(p) = WithoutPage(q)
    BY <1>2
  <2>. HIDE DEF p, q
  <2>4. \A r \in Asks : /\ WithoutPage(r).text = r.text /\ WithoutPage(r).season = r.season
                        /\ WithoutPage(r).ep = r.ep /\ WithoutPage(r).categories = r.categories
    BY AsksAssumption DEF WithoutPage
  <2>5. p.text = q.text /\ p.season = q.season /\ p.ep = q.ep /\ p.categories = q.categories
    BY <2>2, <2>3, <2>4
  <2>6. CacheKey(p) = CacheKey(q)
    BY <2>5 DEF CacheKey, SeasonOf
  <2>. QED  BY <2>1, <2>2, <2>6 DEF QueryKey
<1>. QED  BY <1>1, <1>2 DEF AnsweredAsAsked

\* Every search is answered with what was found by asking the tracker what it would
\* have asked, and no page is asked for in vain (cacheKey, pagingKey).
THEOREM AnsweredAsAskedAlways == IdentitySpec => []AnsweredAsAsked
<1>1. IdentityInit => FiledAs
  <2>. SUFFICES ASSUME IdentityInit PROVE FiledAs
    OBVIOUS
  <2>1. requester \in Requesters /\ DOMAIN window = {} /\ answered = {}
    BY DEF IdentityInit
  <2>. QED  BY <2>1 DEF FiledAs
<1>2. FiledAs /\ [IdentityNext]_identityVars => FiledAs'
  BY FiledStep
<1>3. FiledAs => AnsweredAsAsked
  BY FiledAnswers
<1>. QED  BY <1>1, <1>2, <1>3, PTL DEF IdentitySpec

-----------------------------------------------------------------------------
(***************************************************************************)
(* Requests of the Torznab API. A page is what the catalog says of its     *)
(* request (PageTrue): no scrape writes while there is one, as trackers    *)
(* are asked only while a request is being answered.                       *)
(***************************************************************************)

\* The page a search was answered with is what the catalog still says of it.
PageTrue ==
  page.kind = "rows" =>
    /\ page.request \in Requests
    /\ page.rows = {found \in catalog :
                      Matches(found, Params(page.request), {d.id : d \in Answering(page.request)},
                              ~page.request.isJSON)}

\* While a request is being answered there is no page, and trackers are asked only
\* then.
QueryInv ==
  /\ asking \in Requests \union {NoRequest}
  /\ asking # NoRequest => page = NoPage
  /\ asking = NoRequest => todo = {}
  /\ PageTrue /\ OffersStand

\* The mode a search is offered with serves it, whatever ids it is sent with, where
\* one of the trackers takes the IMDb id if it is sent.
LEMMA OfferAnswered ==
  ASSUME NEW ds, NEW offer \in Offers(ds),
         NEW ids \in SUBSET (offer[2] \intersect {"rid", "tvdbid", "imdbid"}),
         "imdbid" \in ids => offer[1] = "movie-search"
  PROVE  \E d \in ds : CanAnswer(d, [type |-> TypeOf(offer[1]), ids |-> ids])
<1>1. PICK m \in Advertised \intersect DOMAIN ModesOf(ds) : offer = <<m, ModesOf(ds)[m]>>
  BY DEF Offers
<1>2. offer[1] = m /\ offer[2] = ModesOf(ds)[m]
  BY <1>1
<1>3. DOMAIN ModesOf(ds) = UNION {DOMAIN SearchModes(d) : d \in ds}
  BY DEF ModesOf
<1>4. ModesOf(ds)[m] = UNION {SearchModes(d)[m] : d \in {e \in ds : m \in DOMAIN SearchModes(e)}}
  BY <1>1, <1>3 DEF ModesOf
<1>. DEFINE p == [type |-> TypeOf(m), ids |-> ids]
<1>5. CASE "imdbid" \in ids
  <2>1. m = "movie-search" /\ "imdbid" \in ModesOf(ds)[m]
    BY <1>2, <1>5
  <2>2. PICK d \in ds : m \in DOMAIN SearchModes(d) /\ "imdbid" \in SearchModes(d)[m]
    BY <1>4, <2>1
  <2>. QED  BY <1>2, <1>5, <2>1, <2>2 DEF CanAnswer, Takes, HasMode
<1>6. CASE "imdbid" \notin ids
  <2>1. PICK d \in ds : HasMode(d, m)
    BY <1>1, <1>3 DEF HasMode
  <2>2. m \in {"music-search", "audio-search", "book-search", "movie-search", "search", "tv-search"}
    BY <1>1 DEF Advertised
  <2>3. HandlesType(d, TypeOf(m))
    BY <2>1, <2>2 DEF HandlesType, TypeOf
  <2>4. CanAnswer(d, p)
    BY <1>6, <2>3 DEF CanAnswer
  <2>. QED  BY <1>2, <2>1, <2>4
<1>. QED  BY <1>5, <1>6

\* A category that is offered is one of the tracker's that maps it.
LEMMA CategoryTaken ==
  ASSUME NEW ds, NEW isMeta \in BOOLEAN, NEW c \in CategoriesOf(ds, isMeta)
  PROVE  \E d \in ds : SiteCategories(d, {c}) # {}
<1>1. PICK d \in ds :
        \E m \in d.mappings :
          m.std # Nothing /\ c \in {m.std} \union (IF isMeta THEN {} ELSE CustomCategory(m))
  BY DEF CategoriesOf
<1>2. PICK m \in d.mappings : m.std # Nothing /\ c \in {m.std} \union CustomCategory(m)
  BY <1>1
<1>3. c \in Expanded({c})
  BY DEF Expanded
<1>4. Selects(m, Expanded({c}))
  BY <1>2, <1>3 DEF Selects
<1>5. m.site \in SiteCategories(d, {c})
  BY <1>2, <1>4 DEF SiteCategories
<1>. QED  BY <1>5

\* The capabilities an indexer is told to have, it has.
LEMMA CapsStand ==
  ASSUME NEW r \in Requests, AskCaps(r)
  PROVE  OffersStand'
<1>. DEFINE ds == Addressed(r)
            isMeta == r.address.kind # "one"
<1>1. /\ page'.offers = Offers(ds) /\ page'.over = ds /\ page'.cats = CategoriesOf(ds, isMeta)
  BY DEF AskCaps
<1>. HIDE DEF ds
<1>2. isMeta \in BOOLEAN
  OBVIOUS
<1>. HIDE DEF isMeta
<1>3. \A offer \in Offers(ds) :
        \A ids \in SUBSET (offer[2] \intersect {"rid", "tvdbid", "imdbid"}) :
          ("imdbid" \in ids => offer[1] = "movie-search")
            => \E d \in ds : CanAnswer(d, [type |-> TypeOf(offer[1]), ids |-> ids])
  BY OfferAnswered
<1>4. \A c \in CategoriesOf(ds, isMeta) : \E d \in ds : SiteCategories(d, {c}) # {}
  BY <1>2, CategoryTaken
<1>. QED  BY <1>1, <1>3, <1>4 DEF OffersStand

\* Every step of a request preserves the invariant.
LEMMA QueryStep == ASSUME QueryInv, [QueryNext]_queryVars PROVE QueryInv'
<1>0. NoPage.kind = "none" /\ NoRequest \notin Requests
  BY RequestAssumption DEF NoPage, NoRequest
<1>1. ASSUME NEW r \in Requests, AskCaps(r) PROVE QueryInv'
  <2>1. page'.kind = "caps" /\ asking = NoRequest /\ UNCHANGED <<asking, todo, catalog>>
    BY <1>1 DEF AskCaps, MayAsk
  <2>. QED  BY <1>1, <2>1, CapsStand DEF QueryInv, PageTrue
<1>2. ASSUME NEW r \in Requests, Ask(r) PROVE QueryInv'
  <2>1. CASE Declines(r) # "none"
    <3>1. page' = [kind |-> Declines(r), rows |-> {}] /\ UNCHANGED <<asking, todo>> /\ asking = NoRequest
      BY <1>2, <2>1 DEF Ask, MayAsk
    <3>2. Declines(r) \in {"notFound", "noFunction", "empty", "unsupported"}
      BY <2>1 DEF Declines
    <3>3. page'.kind \notin {"rows", "caps"}
      BY <3>1, <3>2
    <3>. QED  BY <3>1, <3>3 DEF QueryInv, PageTrue, OffersStand
  <2>2. CASE Declines(r) = "none"
    <3>1. asking' = r /\ page' = NoPage
      BY <1>2, <2>2 DEF Ask
    <3>. QED  BY <1>0, <3>1 DEF QueryInv, PageTrue, OffersStand
  <2>. QED  BY <2>1, <2>2
<1>3. ASSUME NEW d \in Definitions, Scraped(d) PROVE QueryInv'
  <2>1. todo # {} /\ UNCHANGED <<asking, page>>
    BY <1>3 DEF Scraped
  <2>. QED  BY <1>0, <2>1 DEF QueryInv, PageTrue, OffersStand
<1>4. CASE Reply
  <2>1. /\ page'.kind = "rows" /\ page'.request = asking /\ asking \in Requests
        /\ asking' = NoRequest /\ todo' = {} /\ catalog' = catalog
        /\ page'.rows = {found \in catalog :
                           Matches(found, Params(asking), {d.id : d \in Answering(asking)}, ~asking.isJSON)}
    BY <1>4 DEF Reply, QueryInv
  <2>. QED  BY <2>1 DEF QueryInv, PageTrue, OffersStand
<1>5. CASE PruneAll
  <2>1. page' = NoPage /\ UNCHANGED <<asking, todo>>
    BY <1>5 DEF PruneAll
  <2>. QED  BY <1>0, <2>1 DEF QueryInv, PageTrue, OffersStand
<1>6. CASE UNCHANGED queryVars
  BY <1>6 DEF queryVars, QueryInv, PageTrue, OffersStand
<1>. QED  BY <1>1, <1>2, <1>3, <1>4, <1>5, <1>6 DEF QueryNext

LEMMA QueryAlways == QuerySpec => []QueryInv
<1>1. QueryInit => QueryInv
  BY DEF QueryInit, QueryInv, PageTrue, OffersStand, NoPage
<1>. QED  BY <1>1, QueryStep, PTL DEF QuerySpec

\* What a tracker lists for a search by category is filed where the search finds it.
LEMMA ListedMatches ==
  ASSUME NEW d, NEW p, NEW covered, NEW needsCategory, NEW entry \in Listed(d, p), d.id \in covered,
         SiteCategories(d, p.cats) # {},
         p.terms \subseteq entry.words, \A term \in p.episodes : NamesEpisode(entry, term)
  PROVE  Matches(Row(d, entry, p), p, covered, needsCategory)
<1>. DEFINE found == Row(d, entry, p)
<1>1. /\ found.tracker = d.id /\ found.words = entry.words /\ found.s = entry.s /\ found.e = entry.e
      /\ found.cats = MapCategories(d, entry.site) /\ found.keys = {ResultKey(p)}
  BY DEF Row
<1>. HIDE DEF found
<1>2. entry.site \in SiteCategories(d, p.cats)
  BY DEF Listed
<1>3. PICK m \in d.mappings : m.site = entry.site /\ m.std # Nothing /\ Selects(m, Expanded(p.cats))
  BY <1>2 DEF SiteCategories
<1>4. MappedTo(m) \subseteq found.cats
  BY <1>1, <1>3 DEF MapCategories
<1>5. found.cats # {} /\ found.cats \intersect Expanded(p.cats) # {}
  BY <1>3, <1>4 DEF MappedTo, Selects
<1>6. \A term \in p.episodes : NamesEpisode(found, term)
  BY <1>1 DEF NamesEpisode
<1>. QED  BY <1>1, <1>5, <1>6 DEF Matches, found

\* A client that takes up what it is offered is not refused, and what a tracker
\* returns for it is in the reply (searchingCaps, handles, siteCategoryIDs,
\* whereClause), for any definitions, mappings and listings.
THEOREM OffersTakenAlways == QuerySpec => []OffersTaken
<1>1. QueryInv => OffersTaken
  <2>1. SUFFICES ASSUME QueryInv, page.kind = "rows", NEW p, p = Params(page.request),
                        NEW d \in Answering(page.request), NEW entry \in Listed(d, p),
                        SiteCategories(d, p.cats) # {}, p.terms \subseteq entry.words,
                        \A term \in p.episodes : NamesEpisode(entry, term),
                        Row(d, entry, p) \in catalog
                 PROVE  Row(d, entry, p) \in page.rows
    BY DEF QueryInv, OffersTaken
  <2>. DEFINE covered == {e.id : e \in Answering(page.request)}
  <2>2. Matches(Row(d, entry, p), p, covered, ~page.request.isJSON)
    <3>1. d.id \in covered
      OBVIOUS
    <3>. HIDE DEF covered
    <3>. QED  BY <2>1, <3>1, ListedMatches
  <2>3. page.rows = {found \in catalog : Matches(found, p, covered, ~page.request.isJSON)}
    BY <2>1 DEF QueryInv, PageTrue
  <2>. QED  BY <2>1, <2>2, <2>3
<1>. QED  BY <1>1, QueryAlways, PTL

\* What the interactive search makes of the episode narrows a row as much as the
\* text and the parameters did.
LEMMA EpisodeNarrows ==
  ASSUME NEW r \in Requests, NEW found, NEW season, NEW ep, NEW kept,
         season = One(WrittenSeason(r), r.season), ep = EpisodeRead(r),
         kept = EpisodeTerms(r, season, ep),
         \A term \in (IF kept # {} THEN kept ELSE EpisodeSearched(season, ep)) : NamesEpisode(found, term)
  PROVE  /\ \A term \in r.written :
              \/ NamesEpisode(found, term)
              \/ term.s = 0 /\ r.ep # Nothing
              \/ term.e = 0 /\ HasSeason(r.season)
         /\ \A term \in EpisodeSearched(season, ep) : NamesEpisode(found, term)
<1>1. /\ \A s \in WrittenSeason(r) : season = s
      /\ WrittenSeason(r) = {} => season = r.season
      /\ WrittenSeason(r) # {} => season \in WrittenSeason(r)
  BY RequestAssumption DEF One, WrittenSeason
<1>2. /\ 0 \in WrittenEpisode(r) => ep = Nothing
      /\ 0 \notin WrittenEpisode(r) => \A e \in WrittenEpisode(r) : ep = e
      /\ WrittenEpisode(r) = {} => ep = r.ep
      /\ ep # Nothing /\ WrittenEpisode(r) # {} => ep \in WrittenEpisode(r)
  BY RequestAssumption DEF One, EpisodeRead, WrittenEpisode
<1>3. HasSeason(season) => EpisodeSearched(season, ep) = {[s |-> season, e |-> ep]}
  BY DEF EpisodeSearched
<1>4. ~HasSeason(season) => EpisodeSearched(season, ep) = {}
  BY DEF EpisodeSearched
<1>5. \A term \in r.written : /\ term.s = Nothing \/ term.s \in WrittenSeason(r)
                              /\ term.e = Nothing \/ term.e \in WrittenEpisode(r)
                              /\ term.s \in Nat \union {Nothing}
  BY RequestAssumption DEF WrittenSeason, WrittenEpisode
<1>6. CASE kept = r.written /\ kept # {}
  <2>1. \A term \in r.written : NamesEpisode(found, term)
    BY <1>6
  <2>2. ASSUME HasSeason(season) PROVE NamesEpisode(found, [s |-> season, e |-> ep])
    <3>1. /\ WrittenSeason(r) # {} /\ (ep # Nothing => WrittenEpisode(r) # {})
      BY <1>6, <2>2 DEF EpisodeTerms
    <3>2. season \in {Nothing, found.s}
      <4>1. PICK term \in r.written : term.s = season /\ term.s # Nothing
        BY <1>1, <3>1 DEF WrittenSeason
      <4>. QED  BY <2>1, <4>1 DEF NamesEpisode
    <3>3. ep \in {Nothing, found.e}
      <4>1. CASE ep # Nothing
        <5>1. PICK term \in r.written : term.e = ep /\ term.e # Nothing
          BY <1>2, <3>1, <4>1 DEF WrittenEpisode
        <5>. QED  BY <2>1, <5>1 DEF NamesEpisode
      <4>. QED  BY <4>1
    <3>. QED  BY <3>2, <3>3 DEF NamesEpisode
  <2>. QED  BY <1>3, <1>4, <2>1, <2>2
<1>7. CASE kept = {} /\ r.written # {}
  <2>1. HasSeason(season) => season \in {Nothing, found.s} /\ ep \in {Nothing, found.e}
    <3>1. HasSeason(season) => NamesEpisode(found, [s |-> season, e |-> ep])
      BY <1>3, <1>7
    <3>. QED  BY <3>1 DEF NamesEpisode
  <2>2. \/ HasSeason(season) /\ WrittenSeason(r) = {}
        \/ ep # Nothing /\ WrittenEpisode(r) = {}
    BY <1>7 DEF EpisodeTerms
  <2>3. ASSUME NEW term \in r.written
        PROVE  \/ NamesEpisode(found, term)
               \/ term.s = 0 /\ r.ep # Nothing
               \/ term.e = 0 /\ HasSeason(r.season)
    <3>1. CASE HasSeason(season) /\ WrittenSeason(r) = {}
      <4>1. term.s = Nothing /\ season = r.season
        BY <1>1, <1>5, <3>1
      <4>2. CASE term.e = 0
        BY <3>1, <4>1, <4>2
      <4>3. CASE term.e # 0
        <5>1. term.e = Nothing \/ term.e = ep
          <6>1. term.e # Nothing => 0 \notin WrittenEpisode(r)
            BY <4>3, RequestAssumption DEF WrittenEpisode, Nothing
          <6>. QED  BY <1>2, <1>5, <6>1
        <5>. QED  BY <2>1, <3>1, <4>1, <5>1 DEF NamesEpisode
      <4>. QED  BY <4>2, <4>3
    <3>2. CASE ep # Nothing /\ WrittenEpisode(r) = {}
      <4>1. term.e = Nothing /\ r.ep # Nothing
        BY <1>2, <1>5, <3>2
      <4>2. CASE term.s = Nothing
        BY <4>1, <4>2 DEF NamesEpisode
      <4>3. CASE term.s # Nothing
        <5>1. season = term.s /\ term.s \in Nat
          BY <1>1, <1>5, <4>3
        <5>2. CASE term.s = 0
          BY <4>1, <5>2
        <5>3. CASE term.s # 0
          <6>1. HasSeason(season)
            BY <5>1, <5>3 DEF HasSeason
          <6>. QED  BY <2>1, <4>1, <5>1, <6>1 DEF NamesEpisode
        <5>. QED  BY <5>2, <5>3
      <4>. QED  BY <4>2, <4>3
    <3>. QED  BY <2>2, <3>1, <3>2
  <2>. QED  BY <1>7, <2>3
<1>8. CASE r.written = {} /\ kept = {}
  BY <1>8
<1>. QED  BY <1>6, <1>7, <1>8 DEF EpisodeTerms

\* Taking the episode off the query narrows the stored rows as the text did
\* (interactiveSearch, whereClause), whatever is asked and stored.
THEOREM NarrowedAsWrittenAlways == QuerySpec => []NarrowedAsWritten
<1>1. QueryInv => NarrowedAsWritten
  <2>1. SUFFICES ASSUME QueryInv, page.kind = "rows", NEW found \in page.rows, found.keys = {},
                        NEW r, r = page.request
                 PROVE  /\ r.isIMDb \/ r.words \subseteq found.words
                        /\ \A term \in r.written :
                             \/ NamesEpisode(found, term)
                             \/ term.s = 0 /\ r.ep # Nothing
                             \/ term.e = 0 /\ HasSeason(r.season)
                        /\ \A term \in EpisodeSearched(Params(r).season, Params(r).ep) :
                             NamesEpisode(found, term)
    BY DEF NarrowedAsWritten
  <2>2. r \in Requests /\ Matches(found, Params(r), {d.id : d \in Answering(r)}, ~r.isJSON)
    BY <2>1 DEF QueryInv, PageTrue
  <2>3. /\ Params(r).terms \subseteq found.words
        /\ \A term \in Params(r).episodes : NamesEpisode(found, term)
        /\ \A term \in Params(r).unsearched : NamesEpisode(found, term)
    BY <2>1, <2>2 DEF Matches
  <2>4. CASE r.isJSON
    <3>. DEFINE season == One(WrittenSeason(r), r.season)
                ep == EpisodeRead(r)
                kept == EpisodeTerms(r, season, ep)
    <3>1. /\ Params(r).terms = (IF r.isIMDb THEN {} ELSE r.words)
          /\ Params(r).unsearched = (IF kept # {} THEN kept ELSE EpisodeSearched(season, ep))
          /\ Params(r).season = season /\ Params(r).ep = ep
      BY <2>4 DEF Params, InteractiveParams
    <3>. HIDE DEF season, ep, kept
    <3>2. \A term \in (IF kept # {} THEN kept ELSE EpisodeSearched(season, ep)) : NamesEpisode(found, term)
      BY <2>3, <3>1
    <3>3. /\ \A term \in r.written :
               \/ NamesEpisode(found, term)
               \/ term.s = 0 /\ r.ep # Nothing
               \/ term.e = 0 /\ HasSeason(r.season)
          /\ \A term \in EpisodeSearched(season, ep) : NamesEpisode(found, term)
      BY <2>2, <3>2, EpisodeNarrows DEF season, ep, kept
    <3>. QED  BY <2>3, <3>1, <3>3
  <2>5. CASE ~r.isJSON
    <3>1. /\ Params(r).terms = r.words /\ Params(r).episodes = r.written
          /\ Params(r).unsearched = EpisodeSearched(Params(r).season, Params(r).ep)
      BY <2>5 DEF Params, FeedParams
    <3>. QED  BY <2>3, <3>1
  <2>. QED  BY <2>4, <2>5
<1>. QED  BY <1>1, QueryAlways, PTL

-----------------------------------------------------------------------------
(***************************************************************************)
(* The rows of a mirror's pages. A torrent is right because its fields were *)
(* read of one row, whose place on the open page is known (AtRow,          *)
(* ReadSoFar), and it is found once because a page's rows are gone through *)
(* once and a GET is made once (FoundOnce, StoredOnce).                    *)
(***************************************************************************)

\* The page that is open, and the torrents of it that are right.
OpenPath == layout.paths[pathTurn]
OpenRows == Site[OpenPath.address].rows

IsRight(t) == t.path \in DOMAIN layout.paths /\ OwnTexts(t) /\ OwnLinks(t) /\ OwnPeers(t)

RowsType ==
  /\ layout \in Layouts /\ pathTurn \in Nat \ {0} /\ field \in 0 .. Len(layout.fields) + 1
  /\ field > 0 => pathTurn \in DOMAIN layout.paths
  /\ pageFound \in Seq(Range(pageFound)) /\ sink \in Seq(Range(sink))

\* Nothing of one page is left for the next, nor of the last row for the page's end.
NothingLeft ==
  /\ pageRows = <<>> => results = NoFields
  /\ field = 0 => pageRows = <<>> /\ carried = {} /\ pageFound = <<>>

\* The rows left are those from the nth on, under the nearest header above it.
AtRow ==
  field > 0 /\ pageRows # <<>> =>
    \E n \in layout.after + 1 .. Len(OpenRows) :
      /\ pageRows = SubSeq(OpenRows, n, Len(OpenRows))
      /\ carried = NearestHeader(OpenRows, n)
      /\ \A i \in DOMAIN pageFound : \E k \in 1 .. n - 1 : OpenRows[k].id = pageFound[i].row

\* What was read is the first row's own, and its date is not lost again.
ReadSoFar ==
  field > 0 /\ pageRows # <<>> =>
    LET top == Head(pageRows)
    IN /\ \A name \in DOMAIN results : \A text \in results[name] : text[1] = top.id
       /\ \A i \in 1 .. field - 1 : layout.fields[i].name \in DOMAIN results
       /\ \A i \in 1 .. field - 1 :
            ReadsDateAt(i) /\ "date" \in DOMAIN top.cells /\ top.cells["date"] # {} => results["date"] # {}

FoundOnce ==
  /\ \A i \in DOMAIN pageFound : IsRight(pageFound[i]) /\ pageFound[i].path = pathTurn
  /\ \A i, j \in DOMAIN pageFound : i # j => pageFound[i].row # pageFound[j].row

\* What a GET that was made before asked for.
IsAsked(path) == ~path.isPost => RequestOf(path) \in requestedGETs
Differ(p, q)  == p.isPost \/ q.isPost \/ RequestOf(p) # RequestOf(q)

StoredOnce ==
  /\ \A i \in DOMAIN sink : IsRight(sink[i]) /\ sink[i].path < pathTurn /\ IsAsked(layout.paths[sink[i].path])
  /\ \A i, j \in DOMAIN sink :
       /\ i # j /\ sink[i].path = sink[j].path => sink[i].row # sink[j].row
       /\ sink[i].path # sink[j].path => Differ(layout.paths[sink[i].path], layout.paths[sink[j].path])
  /\ field > 0 => /\ IsAsked(OpenPath)
                  /\ \A i \in DOMAIN sink : Differ(layout.paths[sink[i].path], OpenPath)

RowsInv == RowsType /\ NothingLeft /\ AtRow /\ ReadSoFar /\ FoundOnce /\ StoredOnce

LEMMA Kept ==
  ASSUME UNCHANGED <<layout, search>>
  PROVE  /\ \A t : IsRight(t)' <=> IsRight(t)
         /\ \A p : RequestOf(p)' = RequestOf(p)
         /\ \A p, q : Differ(p, q)' <=> Differ(p, q)
<1>1. \A p : RequestOf(p)' = RequestOf(p)
  BY DEF RequestOf, SharedCategories
<1>2. \A p, q : Differ(p, q)' <=> Differ(p, q)
  BY <1>1 DEF Differ
<1>3. \A rows, n : NearestHeader(rows, n)' = NearestHeader(rows, n)
  BY DEF NearestHeader, HeadersAbove, IsHeader
<1>4. \A t : PageOf(t)' = PageOf(t) /\ PlaceOf(t)' = PlaceOf(t)
  BY DEF PageOf, PlaceOf
<1>5. ReadsDate' <=> ReadsDate
  BY DEF ReadsDate, ReadsDateAt
<1>6. \A t : IsRight(t)' <=> IsRight(t)
  BY <1>3, <1>4, <1>5 DEF IsRight, OwnTexts, OwnLinks, HeaderDate
<1>. QED  BY <1>1, <1>2, <1>6

\* The nearest header above the next row is the row itself if it is one.
LEMMA HeaderNext ==
  ASSUME NEW rows, NEW n \in Nat, layout.after \in Nat, n > layout.after
  PROVE  NearestHeader(rows, n + 1) = IF IsHeader(rows[n]) THEN rows[n].header ELSE NearestHeader(rows, n)
<1>. DEFINE above == HeadersAbove(rows, n)
            next  == HeadersAbove(rows, n + 1)
<1>1. CASE IsHeader(rows[n])
  <2>1. next = above \union {n} /\ \A i \in above : i \in Int /\ i < n
    BY <1>1 DEF HeadersAbove
  <2>2. n \in next /\ \A j \in next : j <= n
    BY <2>1
  <2>3. \A i \in next : (\A j \in next : j <= i) => i = n
    BY <2>1, <2>2
  <2>4. (CHOOSE i \in next : \A j \in next : j <= i) = n
    BY <2>2, <2>3
  <2>. QED  BY <1>1, <2>2, <2>4 DEF NearestHeader
<1>2. CASE ~IsHeader(rows[n])
  <2>1. next = above
    BY <1>2 DEF HeadersAbove
  <2>. DEFINE at(S) == IF S = {} THEN {} ELSE rows[CHOOSE i \in S : \A j \in S : j <= i].header
  <2>2. NearestHeader(rows, n + 1) = at(next) /\ NearestHeader(rows, n) = at(above)
    BY DEF NearestHeader
  <2>. HIDE DEF at, next, above
  <2>. QED  BY <1>2, <2>1, <2>2
<1>. QED  BY <1>1, <1>2

\* Where the first of the rows left stands.
Stands(n) ==
  /\ n \in layout.after + 1 .. Len(OpenRows) /\ n \in DOMAIN OpenRows
  /\ Head(pageRows) = OpenRows[n] /\ Tail(pageRows) = SubSeq(OpenRows, n + 1, Len(OpenRows))
  /\ carried = NearestHeader(OpenRows, n)
  /\ \A i \in DOMAIN pageFound : \E k \in 1 .. n - 1 : OpenRows[k].id = pageFound[i].row
  /\ \A i, j \in DOMAIN OpenRows : OpenRows[i].id = OpenRows[j].id => i = j
  /\ \A i \in DOMAIN OpenRows : \A cell \in DOMAIN OpenRows[i].cells :
       \A text \in OpenRows[i].cells[cell] : text[1] = OpenRows[i].id

LEMMA FirstStands ==
  ASSUME RowsInv, field > 0, pageRows # <<>>
  PROVE  layout.after \in Nat /\ \E n \in Nat : Stands(n)
<1>1. layout \in Layouts /\ pathTurn \in DOMAIN layout.paths
  BY DEF RowsInv, RowsType
<1>2. layout.after \in Nat /\ OpenPath.address \in DOMAIN Site
  BY <1>1, LayoutAssumption DEF OpenPath
<1>3. /\ OpenRows \in Seq(Range(OpenRows))
      /\ \A i, j \in DOMAIN OpenRows : OpenRows[i].id = OpenRows[j].id => i = j
      /\ \A i \in DOMAIN OpenRows : \A cell \in DOMAIN OpenRows[i].cells :
           \A text \in OpenRows[i].cells[cell] : text[1] = OpenRows[i].id
  BY <1>2, SiteAssumption DEF OpenRows
<1>4. PICK n \in layout.after + 1 .. Len(OpenRows) :
        /\ pageRows = SubSeq(OpenRows, n, Len(OpenRows))
        /\ carried = NearestHeader(OpenRows, n)
        /\ \A i \in DOMAIN pageFound : \E k \in 1 .. n - 1 : OpenRows[k].id = pageFound[i].row
  BY DEF RowsInv, AtRow
<1>5. Len(OpenRows) \in Nat /\ DOMAIN OpenRows = 1 .. Len(OpenRows)
  BY <1>3, LenProperties
<1>6. n \in Nat /\ n \in 1 .. Len(OpenRows) /\ Len(OpenRows) \in n .. Len(OpenRows)
  BY <1>2, <1>5
<1>7. /\ Head(SubSeq(OpenRows, n, Len(OpenRows))) = OpenRows[n]
      /\ Tail(SubSeq(OpenRows, n, Len(OpenRows))) = SubSeq(OpenRows, n + 1, Len(OpenRows))
  BY <1>3, <1>6, HeadTailOfSubSeq
<1>. QED  BY <1>2, <1>3, <1>4, <1>5, <1>6, <1>7 DEF Stands

\* What is next when the first row is done with.
LEMMA DroppedNext ==
  ASSUME RowsInv, field > 0, pageRows # <<>>, Dropped(NextFields),
         UNCHANGED <<layout, search, pathTurn>>,
         NEW n \in Nat, Stands(n),
         carried' = IF IsHeader(OpenRows[n]) THEN OpenRows[n].header ELSE carried,
         \A i \in DOMAIN pageFound' : \E k \in 1 .. n : OpenRows[k].id = pageFound'[i].row
  PROVE  AtRow' /\ ReadSoFar' /\ NothingLeft' /\ field' \in 0 .. Len(layout'.fields) + 1
<1>1. layout \in Layouts /\ layout.after \in Nat
  BY FirstStands DEF RowsInv, RowsType
<1>2. field' = 1 /\ results' = NoFields /\ pageRows' = SubSeq(OpenRows, n + 1, Len(OpenRows))
  BY DEF Dropped, NextFields, Stands
<1>3. carried' = NearestHeader(OpenRows, n + 1)
  BY <1>1, HeaderNext DEF Stands
<1>4. OpenRows' = OpenRows /\ Len(OpenRows)' = Len(OpenRows)
  BY DEF OpenRows, OpenPath
<1>5. \A m : NearestHeader(OpenRows, m)' = NearestHeader(OpenRows, m)
  BY <1>4 DEF NearestHeader, HeadersAbove, IsHeader
<1>6. AtRow'
  <2>. SUFFICES ASSUME pageRows' # <<>> PROVE AtRow'
    BY DEF AtRow
  <2>1. Len(OpenRows) \in Nat
    BY <1>1 DEF Stands
  <2>2. n + 1 \in layout.after + 1 .. Len(OpenRows)
    BY <1>1, <1>2, <2>1, SubSeqEmpty DEF Stands
  <2>. QED  BY <1>2, <1>3, <1>4, <1>5, <2>2 DEF AtRow
<1>7. ReadSoFar'
  BY <1>2 DEF ReadSoFar, NoFields
<1>8. Len(layout.fields) \in Nat
  BY <1>1, LayoutAssumption, LenProperties
<1>. QED  BY <1>2, <1>6, <1>7, <1>8 DEF NothingLeft

\* A field is read of the row's own texts.
LEMMA ReadsOwn ==
  ASSUME NEW f, NEW top,
         \A name \in DOMAIN results : \A text \in results[name] : text[1] = top.id,
         \A cell \in DOMAIN top.cells : \A text \in top.cells[cell] : text[1] = top.id
  PROVE  \A text \in Defaulted(f, Read(f, top)) : text[1] = top.id
<1>1. \A name : \A text \in ResultOf(name) : text[1] = top.id
  BY DEF ResultOf
<1>2. ASSUME IsMatched(f, top) PROVE \A text \in ValueRead(f, top) : text[1] = top.id
  <2>1. CASE f.reads = "cell"
    BY <1>2, <2>1 DEF IsMatched, ValueRead
  <2>2. CASE f.reads = "case"
    BY <2>2 DEF ValueRead
  <2>3. CASE f.reads \notin {"cell", "case"}
    <3>1. ValueRead(f, top) = ResultOf(f.of)
      BY <2>3 DEF ValueRead
    <3>. QED  BY <1>1, <3>1
  <2>. QED  BY <2>1, <2>2, <2>3
<1>3. ASSUME NEW value, \A text \in value : text[1] = top.id
      PROVE  \A text \in FilteredBy(value, f) : text[1] = top.id
  BY <1>1, <1>3 DEF FilteredBy
<1>4. \A text \in Read(f, top)[2] : text[1] = top.id
  <2>1. CASE IsResolved(f) /\ IsMatched(f, top) /\ IsSet(f.argument)
    <3>1. Read(f, top)[2] = FilteredBy(ValueRead(f, top), f)
      BY <2>1 DEF Read
    <3>. QED  BY <1>2, <1>3, <2>1, <3>1
  <2>2. CASE ~(IsResolved(f) /\ IsMatched(f, top) /\ IsSet(f.argument))
    <3>1. Read(f, top)[2] = {}
      BY <2>2 DEF Read
    <3>. QED  BY <3>1
  <2>. QED  BY <2>1, <2>2
<1>. QED  BY <1>1, <1>4 DEF Defaulted

\* What a row shows as its date is read.
LEMMA ReadsItsDate ==
  ASSUME NEW i \in Nat, ReadsDateAt(i), NEW top,
         \A j \in 1 .. i - 1 : layout.fields[j].name \in DOMAIN results,
         "date" \in DOMAIN top.cells, top.cells["date"] # {}
  PROVE  LET f == layout.fields[i] IN Defaulted(f, Read(f, top)) # {}
<1>. DEFINE f == layout.fields[i]
<1>1. f.reads = "cell" /\ f.of = "date" /\ f.filter # "blank"
  BY DEF ReadsDateAt
<1>2. IsSet(f.argument)
  BY DEF ReadsDateAt, IsSet
<1>3. IsResolved(f) /\ IsMatched(f, top)
  BY <1>1 DEF IsResolved, IsMatched
<1>4. ValueRead(f, top) = top.cells["date"]
  BY <1>1 DEF ValueRead
<1>5. FilteredBy(ValueRead(f, top), f) # {}
  BY <1>1, <1>4 DEF FilteredBy
<1>6. Read(f, top) = <<"read", FilteredBy(ValueRead(f, top), f)>>
  BY <1>2, <1>3 DEF Read
<1>. HIDE DEF f
<1>7. Defaulted(f, Read(f, top)) # {}
  <2>1. Read(f, top)[2] = FilteredBy(ValueRead(f, top), f)
    BY <1>6
  <2>2. Defaulted(f, Read(f, top)) = Read(f, top)[2]
    BY <1>5, <2>1 DEF Defaulted
  <2>. QED  BY <1>5, <2>1, <2>2
<1>. QED  BY <1>7 DEF f

\* A row's step leaves what is stored, and what was found of the rows before it.
LEMMA StoredKept ==
  ASSUME RowsInv, field > 0, UNCHANGED <<layout, search, pathTurn, requestedGETs, sink>>
  PROVE  StoredOnce'
<1>1. UNCHANGED OpenPath
  BY DEF OpenPath
<1>2. \A p : IsAsked(p)' <=> IsAsked(p)
  BY Kept DEF IsAsked
<1>. QED  BY <1>1, <1>2, Kept DEF RowsInv, StoredOnce

LEMMA FoundKept ==
  ASSUME RowsInv, UNCHANGED <<layout, search, pathTurn, pageFound>>
  PROVE  FoundOnce'
BY Kept DEF RowsInv, FoundOnce

LEMMA ReadFieldStep == ASSUME RowsInv, ReadField PROVE RowsInv'
<1>. DEFINE f    == layout.fields[field]
            top  == Head(pageRows)
            read == Read(f, top)
            value == Defaulted(f, read)
<1>1. /\ field \in 1 .. Len(layout.fields) /\ field > 0 /\ pageRows # <<>> /\ ~IsHeader(top)
      /\ UNCHANGED <<layout, search, pathTurn, requestedGETs, carried, pageFound, sink>>
  BY DEF ReadField
<1>2. FoundOnce' /\ StoredOnce'
  BY <1>1, StoredKept, FoundKept
<1>3. PICK n \in Nat : Stands(n)
  BY <1>1, FirstStands
<1>4. CASE read[1] # "read" /\ ~IsOptional(f)
  <2>1. Dropped(NextFields)
    BY <1>4 DEF ReadField
  <2>2. \A i \in DOMAIN pageFound' : \E k \in 1 .. n : OpenRows[k].id = pageFound'[i].row
    <3>1. \A i \in DOMAIN pageFound : \E k \in 1 .. n - 1 : OpenRows[k].id = pageFound[i].row
      BY <1>3 DEF Stands
    <3>. QED  BY <1>1, <3>1
  <2>3. ~IsHeader(OpenRows[n])
    BY <1>1, <1>3 DEF Stands
  <2>4. AtRow' /\ ReadSoFar' /\ NothingLeft' /\ field' \in 0 .. Len(layout'.fields) + 1
    BY <1>1, <1>3, <2>1, <2>2, <2>3, DroppedNext
  <2>5. RowsType'
    BY <1>1, <2>4 DEF RowsInv, RowsType
  <2>. QED  BY <1>2, <2>4, <2>5 DEF RowsInv
<1>5. CASE ~(read[1] # "read" /\ ~IsOptional(f))
  <2>1. results' = Set(f, value) /\ field' = field + 1 /\ pageRows' = pageRows
    BY <1>5 DEF ReadField
  <2>2. layout \in Layouts /\ Len(layout.fields) \in Nat /\ DOMAIN layout.fields = 1 .. Len(layout.fields)
    BY LayoutAssumption, LenProperties DEF RowsInv, RowsType
  <2>3. RowsType' /\ NothingLeft'
    BY <1>1, <2>1, <2>2 DEF RowsInv, RowsType, NothingLeft
  <2>4. OpenRows' = OpenRows
    BY <1>1 DEF OpenRows, OpenPath
  <2>5. AtRow'
    <3>1. \A m : NearestHeader(OpenRows, m)' = NearestHeader(OpenRows, m)
      BY <1>1, <2>4 DEF NearestHeader, HeadersAbove, IsHeader
    <3>2. AtRow
      BY DEF RowsInv
    <3>3. /\ Len(OpenRows)' = Len(OpenRows) /\ layout'.after = layout.after
          /\ \A m : SubSeq(OpenRows, m, Len(OpenRows))' = SubSeq(OpenRows, m, Len(OpenRows))
      BY <1>1, <2>4
    <3>4. PICK m \in layout.after + 1 .. Len(OpenRows) :
            /\ pageRows = SubSeq(OpenRows, m, Len(OpenRows))
            /\ carried = NearestHeader(OpenRows, m)
            /\ \A i \in DOMAIN pageFound : \E k \in 1 .. m - 1 : OpenRows[k].id = pageFound[i].row
      BY <1>1, <3>2 DEF AtRow
    <3>5. /\ pageRows' = SubSeq(OpenRows, m, Len(OpenRows))'
          /\ carried' = NearestHeader(OpenRows, m)'
          /\ \A i \in DOMAIN pageFound' : \E k \in 1 .. m - 1 : OpenRows'[k].id = pageFound'[i].row
      BY <1>1, <2>1, <2>4, <3>1, <3>3, <3>4
    <3>. QED  BY <3>3, <3>4, <3>5 DEF AtRow
  <2>6. /\ \A name \in DOMAIN results : \A text \in results[name] : text[1] = top.id
        /\ \A i \in 1 .. field - 1 : layout.fields[i].name \in DOMAIN results
        /\ \A i \in 1 .. field - 1 :
             ReadsDateAt(i) /\ "date" \in DOMAIN top.cells /\ top.cells["date"] # {} => results["date"] # {}
    BY <1>1 DEF RowsInv, ReadSoFar
  <2>7. \A cell \in DOMAIN top.cells : \A text \in top.cells[cell] : text[1] = top.id
    BY <1>3 DEF Stands
  <2>8. \A text \in value : text[1] = top.id
    BY <2>6, <2>7, ReadsOwn
  <2>. DEFINE kept == IF Appends(f) THEN ResultOf(f.name) \union value ELSE value
  <2>9. /\ DOMAIN results' = DOMAIN results \union {f.name}
        /\ results'[f.name] = kept
        /\ \A name \in DOMAIN results \ {f.name} : results'[name] = results[name]
    BY <2>1 DEF Set
  <2>10. \A text \in kept : text[1] = top.id
    BY <2>6, <2>8 DEF ResultOf
  <2>11. \A name \in DOMAIN results' : \A text \in results'[name] : text[1] = top.id
    BY <2>6, <2>9, <2>10
  <2>12. \A i \in 1 .. field : layout.fields[i].name \in DOMAIN results'
    BY <1>1, <2>6, <2>9
  <2>13. ASSUME NEW i \in 1 .. field, ReadsDateAt(i), "date" \in DOMAIN top.cells, top.cells["date"] # {}
         PROVE  results'["date"] # {}
    <3>1. CASE i < field
      <4>1. f.name # "date"
        BY <1>1, <2>2, <2>13, <3>1 DEF ReadsDateAt
      <4>2. layout.fields[i].name = "date"
        BY <2>13 DEF ReadsDateAt
      <4>3. results["date"] # {} /\ "date" \in DOMAIN results
        <5>1. field \in Int /\ i \in 1 .. field - 1
          BY <1>1, <2>2, <3>1
        <5>. QED  BY <2>6, <2>13, <4>2, <5>1
      <4>. QED  BY <2>9, <4>1, <4>3
    <3>2. CASE i = field
      <4>1. value # {}
        BY <2>6, <2>13, <3>2, ReadsItsDate
      <4>2. f.name = "date" /\ ~Appends(f)
        BY <2>13, <3>2 DEF ReadsDateAt, Appends
      <4>. QED  BY <2>9, <4>1, <4>2
    <3>. QED  BY <1>1, <3>1, <3>2
  <2>14. ReadSoFar'
    <3>1. 1 .. field' - 1 = 1 .. field
      BY <1>1, <2>1
    <3>2. \A i : ReadsDateAt(i)' <=> ReadsDateAt(i)
      BY <1>1 DEF ReadsDateAt
    <3>3. top' = top
      BY <2>1
    <3>. HIDE DEF top
    <3>4. /\ \A name \in DOMAIN results' : \A text \in results'[name] : text[1] = top'.id
          /\ \A i \in 1 .. field' - 1 : layout'.fields[i].name \in DOMAIN results'
          /\ \A i \in 1 .. field' - 1 :
             ReadsDateAt(i)' /\ "date" \in DOMAIN top'.cells /\ top'.cells["date"] # {} => results'["date"] # {}
      BY <1>1, <2>11, <2>12, <2>13, <3>1, <3>2, <3>3
    <3>. QED  BY <3>4 DEF ReadSoFar, top
  <2>. QED  BY <1>2, <2>3, <2>5, <2>14 DEF RowsInv
<1>. QED  BY <1>4, <1>5

LEMMA ReadHeaderStep == ASSUME RowsInv, ReadHeader PROVE RowsInv'
<1>1. /\ field > 0 /\ pageRows # <<>> /\ IsHeader(Head(pageRows)) /\ carried' = Head(pageRows).header
      /\ Dropped(NextFields) /\ UNCHANGED <<layout, search, pathTurn, requestedGETs, pageFound, sink>>
  BY DEF ReadHeader
<1>2. PICK n \in Nat : Stands(n)
  BY <1>1, FirstStands
<1>3. IsHeader(OpenRows[n]) /\ carried' = OpenRows[n].header
  BY <1>1, <1>2 DEF Stands
<1>4. \A i \in DOMAIN pageFound' : \E k \in 1 .. n : OpenRows[k].id = pageFound'[i].row
  <2>1. \A i \in DOMAIN pageFound : \E k \in 1 .. n - 1 : OpenRows[k].id = pageFound[i].row
    BY <1>2 DEF Stands
  <2>. QED  BY <1>1, <2>1
<1>5. AtRow' /\ ReadSoFar' /\ NothingLeft' /\ field' \in 0 .. Len(layout'.fields) + 1
  BY <1>1, <1>2, <1>3, <1>4, DroppedNext
<1>6. RowsType'
  BY <1>1, <1>5 DEF RowsInv, RowsType
<1>. QED  BY <1>1, <1>5, <1>6, StoredKept, FoundKept DEF RowsInv

\* The torrent made of a row whose fields are all read is right.
LEMMA MadeRight ==
  ASSUME RowsInv, field = Len(layout.fields) + 1, pageRows # <<>>, NEW n \in Nat, Stands(n)
  PROVE  IsRight(TorrentOf(Head(pageRows), DateOf))
<1>. DEFINE top == Head(pageRows)
            t   == TorrentOf(top, DateOf)
<1>1. layout \in Layouts /\ Len(layout.fields) \in Nat /\ DOMAIN layout.fields = 1 .. Len(layout.fields)
  BY LayoutAssumption, LenProperties DEF RowsInv, RowsType
<1>2. field > 0 /\ 1 .. field - 1 = DOMAIN layout.fields
  BY <1>1
<1>3. /\ \A name \in DOMAIN results : \A text \in results[name] : text[1] = top.id
      /\ \A i \in DOMAIN layout.fields :
           ReadsDateAt(i) /\ "date" \in DOMAIN top.cells /\ top.cells["date"] # {} => results["date"] # {}
      /\ \A i \in DOMAIN layout.fields : layout.fields[i].name \in DOMAIN results
  BY <1>2 DEF RowsInv, ReadSoFar
<1>4. \A name : \A text \in ResultOf(name) : text[1] = top.id
  BY <1>3 DEF ResultOf
<1>5. /\ t.row = top.id /\ t.path = pathTurn /\ t.title = ResultOf("title") /\ t.date = DateOf
      /\ t.seeders = PeerCount(Shown[top.id])
  BY DEF TorrentOf
<1>6. pathTurn \in DOMAIN layout.paths
  BY <1>2 DEF RowsInv, RowsType
<1>7. PageOf(t) = OpenRows /\ PlaceOf(t) = n /\ PageOf(t)[PlaceOf(t)] = top
  <2>1. PageOf(t) = OpenRows
    BY <1>5 DEF PageOf, OpenRows, OpenPath
  <2>2. OpenRows[n].id = t.row /\ n \in DOMAIN OpenRows /\ \A i \in DOMAIN OpenRows : OpenRows[i].id = t.row => i = n
    BY <1>5 DEF Stands
  <2>3. (CHOOSE i \in DOMAIN OpenRows : OpenRows[i].id = t.row) = n
    BY <2>2
  <2>4. PlaceOf(t) = n
    BY <2>1, <2>3 DEF PlaceOf
  <2>. QED  BY <2>1, <2>4 DEF Stands
<1>8. HeaderDate(t) = carried
  BY <1>7 DEF HeaderDate, Stands
<1>. DEFINE offered == IF IsMagnetText(ResultOf("download")) THEN ResultOf("download")
                       ELSE IF IsMagnetText(ResultOf("magnet")) THEN ResultOf("magnet") ELSE {}
            hash    == ResultOf("infohash")
            mints   == offered = {} /\ hash # {} /\ layout.isPublic
<1>9. /\ t.magnet = IF mints THEN hash ELSE offered
      /\ t.isMinted = mints
      /\ t.download = IF IsMagnetText(ResultOf("download")) THEN {} ELSE ResultOf("download")
      /\ t.infoHash = IF hash # {} THEN hash ELSE offered
  BY DEF TorrentOf
<1>10. \A text \in offered : text[1] = top.id
  BY <1>4
<1>11. OwnLinks(t)
  <2>. HIDE DEF t
  <2>1. t.download # {} => ~IsMagnetText(t.download)
    BY <1>9
  <2>2. t.magnet # {} /\ ~t.isMinted => IsMagnetText(t.magnet)
    BY <1>9
  <2>3. t.isMinted => layout.isPublic
    BY <1>9
  <2>. QED  BY <2>1, <2>2, <2>3 DEF OwnLinks
<1>12. OwnTexts(t)
  <2>1. \A text \in t.title \union t.magnet \union t.download \union t.infoHash : text[1] = t.row
    <3>. HIDE DEF t, offered
    <3>. QED  BY <1>4, <1>5, <1>9, <1>10
  <2>2. \A text \in t.date : text[1] = t.row \/ t.date = HeaderDate(t)
    <3>. HIDE DEF t
    <3>. QED  BY <1>4, <1>5, <1>8 DEF DateOf
  <2>3. t.date = {} => HeaderDate(t) = {}
    <3>. HIDE DEF t
    <3>. QED  BY <1>5, <1>8 DEF DateOf
  <2>4. ASSUME ReadsDate, "date" \in DOMAIN top.cells, top.cells["date"] # {}
        PROVE  \A text \in t.date : text[1] = t.row
    <3>1. PICK i \in DOMAIN layout.fields : ReadsDateAt(i)
      BY <2>4 DEF ReadsDate
    <3>2. results["date"] # {} /\ "date" \in DOMAIN results
      <4>1. layout.fields[i].name = "date"
        BY <3>1 DEF ReadsDateAt
      <4>. QED  BY <1>3, <2>4, <3>1, <4>1
    <3>3. DateOf = ResultOf("date")
      BY <3>2 DEF DateOf, ResultOf
    <3>. HIDE DEF t
    <3>. QED  BY <1>4, <1>5, <3>3
  <2>. HIDE DEF t, top
  <2>. QED  BY <1>7, <2>1, <2>2, <2>3, <2>4 DEF OwnTexts
<1>13. OwnPeers(t)
  <2>. HIDE DEF t
  <2>. QED  BY <1>5, LayoutAssumption DEF PeerCount, OwnPeers
<1>. HIDE DEF t
<1>14. IsRight(t)
  BY <1>5, <1>6, <1>11, <1>12, <1>13 DEF IsRight
<1>. QED  BY <1>14 DEF t

LEMMA FinishRowStep == ASSUME RowsInv, FinishRow PROVE RowsInv'
<1>. DEFINE top == Head(pageRows)
            t   == TorrentOf(top, DateOf)
<1>1. /\ field = Len(layout.fields) + 1 /\ pageRows # <<>> /\ ~IsHeader(top)
      /\ Dropped(NextFields) /\ UNCHANGED <<layout, search, pathTurn, requestedGETs, carried, sink>>
      /\ pageFound' = pageFound \/ pageFound' = Append(pageFound, t)
  BY DEF FinishRow
<1>2. layout \in Layouts /\ Len(layout.fields) \in Nat /\ field > 0
  BY <1>1, LayoutAssumption, LenProperties DEF RowsInv, RowsType
<1>3. PICK n \in Nat : Stands(n)
  BY <1>1, <1>2, FirstStands
<1>4. IsRight(t) /\ t.path = pathTurn /\ t.row = OpenRows[n].id
  <2>1. t.path = pathTurn /\ t.row = top.id
    BY DEF TorrentOf
  <2>. QED  BY <1>1, <1>3, <2>1, MadeRight DEF Stands
<1>5. /\ \A i \in DOMAIN pageFound : \E k \in 1 .. n - 1 : OpenRows[k].id = pageFound[i].row
      /\ \A i, j \in DOMAIN OpenRows : OpenRows[i].id = OpenRows[j].id => i = j
      /\ n \in DOMAIN OpenRows /\ 1 .. n \subseteq DOMAIN OpenRows
  <2>1. OpenRows \in Seq(Range(OpenRows))
    <3>1. OpenPath.address \in DOMAIN Site
      BY <1>2, LayoutAssumption DEF RowsInv, RowsType, OpenPath
    <3>. QED  BY <3>1, SiteAssumption DEF OpenRows
  <2>2. DOMAIN OpenRows = 1 .. Len(OpenRows) /\ Len(OpenRows) \in Nat
    BY <2>1, LenProperties
  <2>. QED  BY <1>3, <2>2 DEF Stands
<1>. HIDE DEF t
<1>6. /\ pageFound' \in Seq(Range(pageFound'))
      /\ \A i \in DOMAIN pageFound' :
           \/ i \in DOMAIN pageFound /\ pageFound'[i] = pageFound[i]
           \/ i = Len(pageFound) + 1 /\ pageFound'[i] = t
      /\ Len(pageFound) \in Nat /\ DOMAIN pageFound = 1 .. Len(pageFound)
  <2>. DEFINE S == Range(pageFound) \union {t}
  <2>1. pageFound \in Seq(Range(pageFound))
    BY DEF RowsInv, RowsType
  <2>2. pageFound \in Seq(S) /\ t \in S
    BY <2>1, SeqMonotonic
  <2>3. Len(pageFound) \in Nat /\ DOMAIN pageFound = 1 .. Len(pageFound)
    BY <2>1, LenProperties
  <2>. HIDE DEF S
  <2>4. /\ Append(pageFound, t) \in Seq(S) /\ Len(Append(pageFound, t)) = Len(pageFound) + 1
        /\ \A i \in 1 .. Len(pageFound) : Append(pageFound, t)[i] = pageFound[i]
        /\ Append(pageFound, t)[Len(pageFound) + 1] = t
    BY <2>2, AppendProperties
  <2>5. /\ Append(pageFound, t) \in Seq(Range(Append(pageFound, t)))
        /\ DOMAIN Append(pageFound, t) = 1 .. Len(pageFound) + 1
    BY <2>4, SeqOfRange, LenProperties
  <2>6. CASE pageFound' = pageFound
    BY <2>1, <2>3, <2>6
  <2>7. CASE pageFound' = Append(pageFound, t)
    BY <2>3, <2>4, <2>5, <2>7
  <2>. QED  BY <1>1, <2>6, <2>7
<1>7. \A i \in DOMAIN pageFound' : \E k \in 1 .. n : OpenRows[k].id = pageFound'[i].row
  <2>1. \A i \in DOMAIN pageFound : \E k \in 1 .. n : OpenRows[k].id = pageFound[i].row
    BY <1>5
  <2>2. n \in 1 .. n
    BY <1>3 DEF Stands, LayoutAssumption
  <2>. QED  BY <1>4, <1>6, <2>1, <2>2
<1>8. \A i \in DOMAIN pageFound : pageFound[i].row # t.row
  <2>. SUFFICES ASSUME NEW i \in DOMAIN pageFound, pageFound[i].row = t.row PROVE FALSE
    OBVIOUS
  <2>1. PICK k \in 1 .. n - 1 : OpenRows[k].id = OpenRows[n].id
    BY <1>4, <1>5
  <2>2. k \in DOMAIN OpenRows /\ k # n
    BY <1>5
  <2>. QED  BY <1>5, <2>1, <2>2
<1>9. FoundOnce'
  <2>1. FoundOnce
    BY DEF RowsInv
  <2>2. \A i \in DOMAIN pageFound' : IsRight(pageFound'[i]) /\ pageFound'[i].path = pathTurn'
    BY <1>1, <1>4, <1>6, <2>1 DEF FoundOnce
  <2>3. \A i \in DOMAIN pageFound' : IsRight(pageFound[i])'
    BY <1>1, <2>2, Kept
  <2>4. \A i, j \in DOMAIN pageFound' : i # j => pageFound'[i].row # pageFound'[j].row
    BY <1>6, <1>8, <2>1 DEF FoundOnce
  <2>. QED  BY <2>2, <2>3, <2>4 DEF FoundOnce
<1>10. AtRow' /\ ReadSoFar' /\ NothingLeft' /\ field' \in 0 .. Len(layout'.fields) + 1
  <2>1. ~IsHeader(OpenRows[n])
    BY <1>1, <1>3 DEF Stands
  <2>. QED  BY <1>1, <1>2, <1>3, <1>7, <2>1, DroppedNext
<1>11. RowsType'
  BY <1>1, <1>6, <1>10 DEF RowsInv, RowsType
<1>. QED  BY <1>1, <1>2, <1>9, <1>10, <1>11, StoredKept DEF RowsInv

LEMMA StartPathStep == ASSUME RowsInv, StartPath PROVE RowsInv'
<1>. DEFINE p == layout.paths[pathTurn]
<1>1. /\ field = 0 /\ pathTurn <= Len(layout.paths)
      /\ UNCHANGED <<layout, search, carried, results, pageFound, sink>>
      /\ pageRows = <<>> /\ carried = {} /\ pageFound = <<>> /\ results = NoFields
  BY DEF StartPath, RowsInv, NothingLeft
<1>2. layout \in Layouts /\ layout.after \in Nat /\ Len(layout.fields) \in Nat
      /\ DOMAIN layout.paths = 1 .. Len(layout.paths) /\ Len(layout.paths) \in Nat
  BY LayoutAssumption, LenProperties DEF RowsInv, RowsType
<1>3. pathTurn \in DOMAIN layout.paths /\ pathTurn \in Nat \ {0}
  BY <1>1, <1>2 DEF RowsInv, RowsType
<1>4. p.address \in DOMAIN Site /\ Site[p.address].rows \in Seq(Range(Site[p.address].rows))
  BY <1>2, <1>3, LayoutAssumption, SiteAssumption
<1>5. /\ requestedGETs \subseteq requestedGETs'
      /\ \/ pathTurn' = pathTurn + 1 /\ pageRows' = <<>> /\ field' = 0
         \/ /\ ~Repeats(p) /\ (~p.isPost => RequestOf(p) \in requestedGETs')
            /\ pageRows' = RowsOf(Site[p.address]) /\ field' = 1 /\ pathTurn' = pathTurn
  BY <1>1 DEF StartPath
<1>6. FoundOnce'
  BY <1>1 DEF FoundOnce
<1>7. \A q : IsAsked(q) => IsAsked(q)'
  BY <1>1, <1>5, Kept DEF IsAsked
<1>8. StoredOnce
  BY DEF RowsInv
<1>9. CASE pathTurn' = pathTurn + 1 /\ pageRows' = <<>> /\ field' = 0
  <2>1. RowsType'
    BY <1>1, <1>2, <1>3, <1>9 DEF RowsInv, RowsType
  <2>2. NothingLeft' /\ AtRow' /\ ReadSoFar'
    BY <1>1, <1>9 DEF NothingLeft, AtRow, ReadSoFar
  <2>3. \A i \in DOMAIN sink : sink[i].path \in Int /\ sink[i].path < pathTurn'
    BY <1>2, <1>3, <1>8, <1>9 DEF StoredOnce, IsRight
  <2>4. StoredOnce'
    BY <1>1, <1>7, <1>8, <1>9, <2>3, Kept DEF StoredOnce
  <2>. QED  BY <1>6, <2>1, <2>2, <2>4 DEF RowsInv
<1>10. CASE /\ ~Repeats(p) /\ (~p.isPost => RequestOf(p) \in requestedGETs')
            /\ pageRows' = RowsOf(Site[p.address]) /\ field' = 1 /\ pathTurn' = pathTurn
  <2>1. RowsType'
    BY <1>1, <1>2, <1>3, <1>10 DEF RowsInv, RowsType
  <2>2. NothingLeft' /\ ReadSoFar'
    BY <1>1, <1>10 DEF NothingLeft, ReadSoFar, NoFields
  <2>3. OpenPath = p /\ OpenPath' = p /\ OpenRows' = Site[p.address].rows
    BY <1>1, <1>10 DEF OpenPath, OpenRows
  <2>4. AtRow'
    <3>. DEFINE rows == Site[p.address].rows
    <3>. SUFFICES ASSUME pageRows' # <<>> PROVE AtRow'
      BY DEF AtRow
    <3>1. pageRows' = SubSeq(rows, layout.after + 1, Len(rows))
      BY <1>10 DEF RowsOf
    <3>2. Len(rows) \in Nat
      BY <1>4, LenProperties
    <3>3. layout.after + 1 \in layout.after + 1 .. Len(rows)
      <4>1. ASSUME Len(rows) < layout.after + 1 PROVE FALSE
        <5>1. layout.after + 1 \in Int /\ Len(rows) \in Int
          BY <1>2, <3>2
        <5>. HIDE DEF rows
        <5>2. SubSeq(rows, layout.after + 1, Len(rows)) = <<>>
          BY <4>1, <5>1, SubSeqEmpty
        <5>. QED  BY <3>1, <5>2
      <4>. QED  BY <1>2, <3>2, <4>1
    <3>4. NearestHeader(OpenRows, layout.after + 1)' = {}
      <4>1. layout'.after + 1 .. (layout'.after + 1) - 1 = {}
        BY <1>1, <1>2
      <4>2. (layout.after + 1)' = layout'.after + 1
        OBVIOUS
      <4>3. HeadersAbove(OpenRows, layout.after + 1)' = {}
        BY <4>1 DEF HeadersAbove
      <4>. QED  BY <4>3 DEF NearestHeader
    <3>5. /\ pageRows' = SubSeq(OpenRows', layout'.after + 1, Len(OpenRows'))
          /\ carried' = NearestHeader(OpenRows, layout.after + 1)'
          /\ \A i \in DOMAIN pageFound' : FALSE
      BY <1>1, <2>3, <3>1, <3>4
    <3>. DEFINE m == layout.after + 1
    <3>6. m \in layout'.after + 1 .. Len(OpenRows')
      BY <1>1, <2>3, <3>3
    <3>7. m' = m
      BY <1>1
    <3>. HIDE DEF rows
    <3>. QED  BY <1>1, <3>5, <3>6, <3>7 DEF AtRow
  <2>5. IsAsked(p)'
    BY <1>1, <1>10, Kept DEF IsAsked
  <2>6. \A i \in DOMAIN sink : Differ(layout.paths[sink[i].path], p)
    BY <1>8, <1>10 DEF StoredOnce, IsAsked, Differ, Repeats
  <2>7. StoredOnce'
    BY <1>1, <1>7, <1>8, <1>10, <2>3, <2>5, <2>6, Kept DEF StoredOnce
  <2>. QED  BY <1>6, <2>1, <2>2, <2>4, <2>7 DEF RowsInv
<1>. QED  BY <1>5, <1>9, <1>10

\* A page's torrents are all of one path, later than those of the pages before.
LEMMA StorePageStep == ASSUME RowsInv, StorePage PROVE RowsInv'
<1>1. /\ field > 0 /\ pageRows = <<>> /\ sink' = sink \o pageFound
      /\ pathTurn' = pathTurn + 1 /\ field' = 0 /\ pageFound' = <<>> /\ carried' = {}
      /\ UNCHANGED <<layout, search, requestedGETs, pageRows, results>>
      /\ results = NoFields
  BY DEF StorePage, RowsInv, NothingLeft
<1>2. layout \in Layouts /\ Len(layout.fields) \in Nat
      /\ DOMAIN layout.paths = 1 .. Len(layout.paths) /\ Len(layout.paths) \in Nat
  BY LayoutAssumption, LenProperties DEF RowsInv, RowsType
<1>3. pathTurn \in DOMAIN layout.paths /\ pathTurn \in Nat \ {0}
  BY <1>1 DEF RowsInv, RowsType
<1>4. /\ sink' \in Seq(Range(sink'))
      /\ \A i \in DOMAIN sink' :
           \/ i \in DOMAIN sink /\ sink'[i] = sink[i]
           \/ i - Len(sink) \in DOMAIN pageFound /\ sink'[i] = pageFound[i - Len(sink)] /\ i \notin DOMAIN sink
      /\ \A i \in DOMAIN sink' : i \in Int
      /\ Len(sink) \in Int
  <2>. DEFINE S == Range(sink) \union Range(pageFound)
  <2>1. sink \in Seq(S) /\ pageFound \in Seq(S)
    BY SeqMonotonic DEF RowsInv, RowsType
  <2>. HIDE DEF S
  <2>2. /\ sink' \in Seq(S) /\ Len(sink') = Len(sink) + Len(pageFound)
        /\ \A i \in 1 .. Len(sink) + Len(pageFound) :
             sink'[i] = IF i <= Len(sink) THEN sink[i] ELSE pageFound[i - Len(sink)]
    BY <1>1, <2>1, ConcatProperties
  <2>3. /\ Len(sink) \in Nat /\ DOMAIN sink = 1 .. Len(sink)
        /\ Len(pageFound) \in Nat /\ DOMAIN pageFound = 1 .. Len(pageFound)
        /\ DOMAIN sink' = 1 .. Len(sink') /\ sink' \in Seq(Range(sink'))
    BY <2>1, <2>2, LenProperties, SeqOfRange
  <2>. QED  BY <2>2, <2>3
<1>5. FoundOnce /\ StoredOnce
  BY DEF RowsInv
<1>6. RowsType'
  <2>1. pageFound' \in Seq(Range(pageFound'))
    BY <1>1, EmptySeq
  <2>. QED  BY <1>1, <1>2, <1>3, <1>4, <2>1 DEF RowsInv, RowsType
<1>7. NothingLeft' /\ AtRow' /\ ReadSoFar' /\ FoundOnce'
  BY <1>1 DEF NothingLeft, AtRow, ReadSoFar, FoundOnce
<1>8. \A q : IsAsked(q)' <=> IsAsked(q)
  BY <1>1, Kept DEF IsAsked
<1>9. IsAsked(OpenPath) /\ \A i \in DOMAIN sink : Differ(layout.paths[sink[i].path], OpenPath)
  BY <1>1, <1>5 DEF StoredOnce
<1>10. \A i \in DOMAIN sink : /\ IsRight(sink[i]) /\ sink[i].path < pathTurn /\ sink[i].path \in Int
                              /\ IsAsked(layout.paths[sink[i].path])
  BY <1>2, <1>5 DEF StoredOnce, IsRight
<1>11. \A i \in DOMAIN pageFound : IsRight(pageFound[i]) /\ pageFound[i].path = pathTurn
  BY <1>5 DEF FoundOnce
<1>12. \A i \in DOMAIN sink' :
         IsRight(sink[i])' /\ sink'[i].path < pathTurn' /\ IsAsked(layout.paths[sink[i].path])'
  <2>1. \A i \in DOMAIN sink' :
          IsRight(sink'[i]) /\ sink'[i].path < pathTurn' /\ IsAsked(layout.paths[sink'[i].path])
    BY <1>1, <1>3, <1>4, <1>9, <1>10, <1>11 DEF OpenPath
  <2>. QED  BY <1>1, <1>8, <2>1, Kept
<1>13. \A i, j \in DOMAIN sink' :
         /\ i # j /\ sink'[i].path = sink'[j].path => sink'[i].row # sink'[j].row
         /\ sink'[i].path # sink'[j].path => Differ(layout.paths[sink'[i].path], layout.paths[sink'[j].path])
  <2>. SUFFICES ASSUME NEW i \in DOMAIN sink', NEW j \in DOMAIN sink'
                PROVE  /\ i # j /\ sink'[i].path = sink'[j].path => sink'[i].row # sink'[j].row
                       /\ sink'[i].path # sink'[j].path =>
                            Differ(layout.paths[sink'[i].path], layout.paths[sink'[j].path])
    OBVIOUS
  <2>. DEFINE old(k) == k \in DOMAIN sink /\ sink'[k] = sink[k]
              new(k) == k - Len(sink) \in DOMAIN pageFound /\ sink'[k] = pageFound[k - Len(sink)]
  <2>1. CASE old(i) /\ old(j)
    BY <1>5, <2>1 DEF StoredOnce
  <2>2. CASE old(i) /\ new(j)
    <3>1. sink'[i].path # sink'[j].path /\ layout.paths[sink'[j].path] = OpenPath
      BY <1>3, <1>10, <1>11, <2>2 DEF OpenPath
    <3>. QED  BY <1>9, <2>2, <3>1
  <2>3. CASE new(i) /\ old(j)
    <3>1. sink'[i].path # sink'[j].path /\ layout.paths[sink'[i].path] = OpenPath
      BY <1>3, <1>10, <1>11, <2>3 DEF OpenPath
    <3>2. Differ(layout.paths[sink'[j].path], OpenPath)
      BY <1>9, <2>3
    <3>. QED  BY <3>1, <3>2 DEF Differ
  <2>4. CASE new(i) /\ new(j)
    <3>1. sink'[i].path = sink'[j].path
      BY <1>11, <2>4
    <3>2. i # j => i - Len(sink) # j - Len(sink)
      BY <1>4
    <3>. QED  BY <1>5, <2>4, <3>1, <3>2 DEF FoundOnce
  <2>. QED  BY <1>4, <2>1, <2>2, <2>3, <2>4
<1>14. StoredOnce'
  <2>1. \A i, j \in DOMAIN sink' :
          sink'[i].path # sink'[j].path => Differ(layout.paths[sink[i].path], layout.paths[sink[j].path])'
    BY <1>1, <1>13, Kept
  <2>2. \A i, j \in DOMAIN sink' : i # j /\ sink'[i].path = sink'[j].path => sink'[i].row # sink'[j].row
    BY <1>13
  <2>3. (\A i \in DOMAIN sink : IsRight(sink[i]) /\ sink[i].path < pathTurn /\ IsAsked(layout.paths[sink[i].path]))'
    BY <1>12
  <2>4. (\A i, j \in DOMAIN sink :
          /\ i # j /\ sink[i].path = sink[j].path => sink[i].row # sink[j].row
          /\ sink[i].path # sink[j].path => Differ(layout.paths[sink[i].path], layout.paths[sink[j].path]))'
    BY <2>1, <2>2
  <2>5. ~(field > 0)'
    BY <1>1
  <2>. QED  BY <2>3, <2>4, <2>5 DEF StoredOnce
<1>. QED  BY <1>6, <1>7, <1>14 DEF RowsInv

LEMMA RowsStep == ASSUME RowsInv, [RowNext]_rowVars PROVE RowsInv'
<1>1. CASE UNCHANGED rowVars
  <2>. USE <1>1 DEF rowVars
  <2>1. AtRow' <=> AtRow
    BY DEF AtRow, OpenRows, OpenPath, NearestHeader, HeadersAbove, IsHeader
  <2>2. ReadSoFar' <=> ReadSoFar
    BY DEF ReadSoFar, ReadsDateAt
  <2>3. FoundOnce' /\ (StoredOnce' <=> StoredOnce)
    BY Kept, FoundKept DEF StoredOnce, IsAsked, OpenPath
  <2>. QED  BY <2>1, <2>2, <2>3 DEF RowsInv, RowsType, NothingLeft
<1>. QED  BY <1>1, StartPathStep, StorePageStep, ReadHeaderStep, ReadFieldStep, FinishRowStep DEF RowNext

\* Whatever a definition reads, however its fields name one another and whichever
\* pages answer, each release the Sink is handed has its own row's texts, links,
\* count and date, and none is handed twice (scrapeMirror, storeRows,
\* extractFields, torrentFrom).
THEOREM RowsAsShownAlways == RowSpec => []RowsAsShown
<1>1. RowInit => RowsInv
  <2>. SUFFICES ASSUME RowInit PROVE RowsInv
    OBVIOUS
  <2>. USE DEF RowInit
  <2>1. layout \in Layouts /\ Len(layout.fields) \in Nat
    BY LayoutAssumption, LenProperties
  <2>2. RowsType
    BY <2>1, EmptySeq DEF RowsType
  <2>. QED  BY <2>2 DEF RowsInv, NothingLeft, AtRow, ReadSoFar, FoundOnce, StoredOnce
<1>2. RowsInv => RowsAsShown
  BY DEF RowsInv, StoredOnce, IsRight, Differ, RowsAsShown
<1>3. RowsInv /\ [RowNext]_rowVars => RowsInv'
  BY RowsStep
<1>. QED  BY <1>1, <1>2, <1>3, PTL DEF RowSpec

-----------------------------------------------------------------------------
(***************************************************************************)
(* Downloads. StaysHome is not inductive as it stands: a redirect is       *)
(* judged against the last address of the chain, so there must be one      *)
(* whenever a link is being fetched, of requests that are not a page's;    *)
(* the release's page is asked for at the row's link, so that must be the  *)
(* tracker's own (Home); and the chain must be a sequence of links.        *)
(***************************************************************************)

\* The chain's type, whose it is, and where the row's link leads.
Home ==
  /\ StaysHome
  /\ chain \in Seq(Links)
  /\ stage \in {"fetch", "page"} => chain # <<>>
  /\ stage = "fetch" => asked # "page"
  /\ stage = "page" => asked = "page"
  /\ row \in Rows \union {NoRow}
  /\ stage # "idle" => IsOwn(row.link)

\* A web address a row is stored with is a link.
LEMMA RowLinkKnown == ASSUME NEW r \in Rows \union {NoRow}, IsOwn(r.link) PROVE r.link \in Links
BY DownloadAssumption DEF IsOwn, IsWeb, NoRow, NoLink, Magnets, GoodMagnet, BadMagnet

\* A chain of no address stays home.
LEMMA NothingRequested ==
  ASSUME chain' = <<>>, stage' \notin {"fetch", "page"}, row' \in Rows \union {NoRow},
         stage' # "idle" => IsOwn(row'.link)
  PROVE  Home'
<1>1. DOMAIN chain' = {} /\ Len(chain') = 0 /\ chain' \in Seq(Links)
  OBVIOUS
<1>2. StaysHome'
  BY <1>1, DownloadAssumption DEF StaysHome
<1>. QED
  BY <1>1, <1>2 DEF Home, IsOwn, IsWeb

\* A step that leaves the chain alone and begins no fetch keeps the invariant.
LEMMA ChainKept ==
  ASSUME Home, chain' = chain, asked' = asked, stage' \in {"fetch", "page"} => stage' = stage,
         row' \in Rows \union {NoRow}, stage' # "idle" => IsOwn(row'.link)
  PROVE  Home'
<1>1. StaysHome'
  BY DEF Home, StaysHome, IsOwn, IsWeb
<1>. QED  BY <1>1 DEF Home, IsOwn, IsWeb

\* An answer ends the chain.
LEMMA AnsweredHome == ASSUME NEW reply, Answered(reply) PROVE Home'
BY NothingRequested DEF Answered

\* So does a failure.
LEMMA FailsHome == ASSUME NEW error, Fails(error) PROVE Home'
BY AnsweredHome DEF Fails

\* A link that leads to nothing ends the chain, and the next selector has its turn.
LEMMA LinkFailsHome == ASSUME Home, stage # "idle", NEW error, LinkFails(error) PROVE Home'
<1>1. CASE block.selectors > 0
  <2>1. row' = row /\ chain' = <<>> /\ stage' = "choose"
    BY <1>1 DEF LinkFails
  <2>. QED  BY <2>1, NothingRequested DEF Home
<1>2. CASE ~(block.selectors > 0)
  BY <1>2, FailsHome DEF LinkFails
<1>. QED  BY <1>1, <1>2

\* The first address of a chain is the tracker's own.
LEMMA AsksHome ==
  ASSUME Home, stage # "idle", NEW link \in Links, IsOwn(link),
         NEW what \in {"page", "before", "file"}, StartsAt(what, link), row' = row,
         stage' = "page" => what = "page", stage' = "fetch" => what # "page"
  PROVE  Home'
<1>1. /\ chain' \in Seq(Links) /\ chain' # <<>> /\ Len(chain') = 1
      /\ DOMAIN chain' = {1} /\ chain'[1] = link
  BY DEF StartsAt
<1>2. StaysHome'
  BY <1>1, DownloadAssumption DEF StaysHome, IsOwn, IsWeb
<1>. QED  BY <1>1, <1>2 DEF Home, StartsAt

LEMMA RequestHome == ASSUME Home, stage # "idle", NEW link \in Links, Request(link) PROVE Home'
<1>1. CASE IsOwn(link)
  BY <1>1, AsksHome DEF Request
<1>2. CASE ~IsOwn(link)
  BY <1>2, LinkFailsHome DEF Request
<1>. QED  BY <1>1, <1>2

\* An address more: what the chain was, and its end.
LEMMA OneMore ==
  ASSUME Home, chain # <<>>, NEW next \in Links, chain' = Append(chain, next)
  PROVE  /\ Len(chain) \in Nat /\ Len(chain) >= 1 /\ DOMAIN chain = 1 .. Len(chain)
         /\ Len(chain') = Len(chain) + 1 /\ DOMAIN chain' = 1 .. (Len(chain) + 1)
         /\ chain' \in Seq(Links) /\ chain' # <<>>
         /\ chain'[Len(chain) + 1] = next /\ chain'[1] = chain[1]
         /\ \A i \in 1 .. Len(chain) : chain'[i] = chain[i]
         /\ Last(chain) = chain[Len(chain)]
BY DEF Home, Last

\* A redirect that is followed stays on the tracker, and does not leave HTTPS.
LEMMA RedirectedHome ==
  ASSUME Home, NEW next \in Links \union Magnets, Redirected(next)
  PROVE  Home'
<1>1. CASE Len(chain) >= MaxRedirects
  BY <1>1, LinkFailsHome DEF Redirected
<1>2. CASE ~(Len(chain) >= MaxRedirects) /\ next \in Magnets
  BY <1>2, AnsweredHome DEF Redirected
<1>3. CASE /\ ~(Len(chain) >= MaxRedirects) /\ next \notin Magnets
           /\ SameDownloadOrigin(chain, next)
  <2>1. /\ chain' = Append(chain, next) /\ row' = row /\ stage = "fetch" /\ stage' = stage
        /\ asked # "page" /\ asked' = asked
        /\ chain # <<>> /\ next \in Links
    BY <1>3 DEF Redirected, Home
  <2>2. /\ Len(chain) \in Nat /\ Len(chain) >= 1 /\ DOMAIN chain = 1 .. Len(chain)
        /\ Len(chain') = Len(chain) + 1 /\ DOMAIN chain' = 1 .. (Len(chain) + 1)
        /\ chain' \in Seq(Links) /\ chain' # <<>>
        /\ chain'[Len(chain) + 1] = next /\ chain'[1] = chain[1]
        /\ \A i \in 1 .. Len(chain) : chain'[i] = chain[i]
        /\ Last(chain) = chain[Len(chain)]
    BY <2>1, OneMore
  <2>4. /\ IsOwn(next)
        /\ Last(chain).scheme = "https" => next.scheme = "https"
    BY <1>3, <2>1, <2>2 DEF SameDownloadOrigin, IsOwn, Home, StaysHome
  <2>5. Len(chain') <= MaxRedirects
    BY <1>3, <2>2, DownloadAssumption
  <2>6. \A i \in DOMAIN chain' : IsOwn(chain'[i])
    BY <2>1, <2>2, <2>4 DEF Home, StaysHome
  <2>7. \A i, j \in DOMAIN chain' : i < j /\ chain'[i].scheme = "https" => chain'[j].scheme = "https"
    <3>. SUFFICES ASSUME NEW i \in 1 .. (Len(chain) + 1), NEW j \in 1 .. (Len(chain) + 1),
                         i < j, chain'[i].scheme = "https"
                  PROVE  chain'[j].scheme = "https"
      BY <2>2
    <3>1. i \in 1 .. Len(chain) /\ chain[i].scheme = "https"
      BY <2>2
    <3>2. CASE j \in 1 .. Len(chain)
      BY <2>1, <2>2, <3>1, <3>2 DEF Home, StaysHome
    <3>3. CASE j = Len(chain) + 1
      <4>1. chain[Len(chain)].scheme = "https"
        BY <2>1, <2>2, <3>1 DEF Home, StaysHome
      <4>. QED  BY <2>2, <2>4, <3>3, <4>1
    <3>. QED  BY <2>2, <3>2, <3>3
  <2>8. IsOwn(chain'[1])
    BY <2>2, <2>6
  <2>9. StaysHome'
    BY <2>5, <2>6, <2>7, <2>8 DEF StaysHome, IsOwn, IsWeb
  <2>. QED  BY <2>1, <2>2, <2>9 DEF Home
<1>4. CASE /\ ~(Len(chain) >= MaxRedirects) /\ next \notin Magnets
           /\ ~SameDownloadOrigin(chain, next)
  BY <1>4, LinkFailsHome DEF Redirected
<1>. QED  BY <1>1, <1>2, <1>3, <1>4

\* The release's page is asked for at the row's link.
LEMMA FetchPageHome == ASSUME Home, FetchPage PROVE Home'
<1>1. stage # "idle" /\ row' = row /\ stage' = "page" /\ StartsAt("page", row.link)
  BY DEF FetchPage, ReadsAPage
<1>2. row.link \in Links /\ IsOwn(row.link)
  BY <1>1, RowLinkKnown DEF Home
<1>. QED  BY <1>1, <1>2, AsksHome

\* Its redirects are followed anywhere, as long as the chain is not full.
LEMMA PageRedirectedHome ==
  ASSUME Home, NEW next \in Links \union Magnets, PageRedirected(next)
  PROVE  Home'
<1>1. CASE Len(chain) >= MaxRedirects \/ ~IsWeb(next)
  BY <1>1, FailsHome DEF PageRedirected
<1>2. CASE ~(Len(chain) >= MaxRedirects) /\ IsWeb(next)
  <2>1. next \in Links
    BY <1>2 DEF IsWeb, Magnets, GoodMagnet, BadMagnet
  <2>2. /\ chain' = Append(chain, next) /\ chain # <<>> /\ row' = row
        /\ stage = "page" /\ stage' = stage /\ asked = "page" /\ asked' = asked
    BY <1>2 DEF PageRedirected, Home
  <2>3. /\ Len(chain) \in Nat /\ Len(chain') = Len(chain) + 1 /\ chain' \in Seq(Links)
        /\ chain' # <<>> /\ chain'[1] = chain[1]
    BY <2>1, <2>2, OneMore
  <2>4. StaysHome'
    BY <1>2, <2>2, <2>3, DownloadAssumption DEF StaysHome, Home, IsOwn, IsWeb
  <2>. QED  BY <2>2, <2>3, <2>4 DEF Home
<1>. QED  BY <1>1, <1>2

LEMMA PageAnsweredHome == ASSUME Home, PageAnswered PROVE Home'
<1>1. CASE Fails("other")
  BY <1>1, FailsHome
<1>2. CASE ~Fails("other")
  <2>1. /\ chain' = chain /\ asked' = asked /\ row' = row /\ stage = "page"
        /\ stage' \in {"before", "choose"}
    BY <1>2 DEF PageAnswered
  <2>. QED  BY <2>1, ChainKept DEF Home
<1>. QED  BY <1>1, <1>2

\* The stored link is fetched, or one a selector read.
LEMMA FetchLinkHome == ASSUME Home, FetchLink PROVE Home'
<1>1. row.link \in Links /\ stage # "idle"
  BY RowLinkKnown DEF Home, FetchLink
<1>. QED  BY <1>1, RequestHome DEF FetchLink

LEMMA SelectHome == ASSUME Home, Select PROVE Home'
<1>. stage = "choose"
  BY DEF Select
<1>1. CASE UNCHANGED <<row, stage, asked, chain>>
  BY <1>1, ChainKept DEF Home
<1>2. ASSUME NEW magnet \in Magnets, Answered(HandOn(magnet)) PROVE Home'
  BY <1>2, AnsweredHome
<1>3. ASSUME NEW link \in Links, Request(link) PROVE Home'
  BY <1>3, RequestHome
<1>. QED  BY <1>1, <1>2, <1>3 DEF Select

\* The before request goes to the tracker's own address.
LEMMA RequestBeforeHome == ASSUME Home, RequestBefore PROVE Home'
<1>1. CASE Fails("foreign") \/ Fails("other")
  BY <1>1, FailsHome
<1>2. ASSUME NEW path \in Links, IsOwn(path), StartsAt("before", path), stage' = "choose", row' = row
      PROVE  Home'
  BY <1>2, AsksHome DEF RequestBefore
<1>. QED  BY <1>1, <1>2 DEF RequestBefore

LEMMA FetchAnsweredHome == ASSUME Home, FetchAnswered PROVE Home'
BY AnsweredHome, LinkFailsHome DEF FetchAnswered

\* Every step of a download keeps the invariant.
LEMMA HomeStep == ASSUME Home, [DownloadNext]_downloadVars PROVE Home'
<1>1. ASSUME NEW r \in Rows, NEW b \in Blocks, Serve(r, b) PROVE Home'
  <2>1. CASE MagnetOf(r) # NoLink \/ r.link = NoLink \/ ~IsOwn(r.link)
    <3>1. UNCHANGED <<row, stage, asked, chain>>
      BY <1>1, <2>1 DEF Serve
    <3>. QED  BY <3>1, ChainKept DEF Home
  <2>2. CASE ~(MagnetOf(r) # NoLink \/ r.link = NoLink \/ ~IsOwn(r.link))
    <3>1. chain' = chain /\ asked' = asked /\ stage' = "login" /\ row' = r /\ IsOwn(r.link)
      BY <1>1, <2>2 DEF Serve
    <3>. QED  BY <3>1, ChainKept
  <2>. QED  BY <2>1, <2>2
<1>2. CASE LogIn
  <2>1. CASE Fails("other")
    BY <2>1, FailsHome
  <2>2. CASE ~Fails("other")
    <3>1. /\ chain' = chain /\ asked' = asked /\ row' = row /\ stage = "login"
          /\ stage' \in {"before", "choose"}
      BY <1>2, <2>2 DEF LogIn
    <3>. QED  BY <3>1, ChainKept DEF Home
  <2>. QED  BY <2>1, <2>2
<1>3. CASE RequestBefore
  BY <1>3, RequestBeforeHome
<1>4. CASE ReadInfoHash
  BY <1>4, AnsweredHome DEF ReadInfoHash
<1>5. CASE FetchLink
  BY <1>5, FetchLinkHome
<1>6. CASE Select
  BY <1>6, SelectHome
<1>7. CASE NoneSelected
  BY <1>7, FailsHome DEF NoneSelected
<1>8. ASSUME NEW next \in Links \union Magnets, Redirected(next) PROVE Home'
  BY <1>8, RedirectedHome
<1>9. CASE FetchAnswered
  BY <1>9, FetchAnsweredHome
<1>10. CASE UNCHANGED downloadVars
  BY <1>10, ChainKept DEF downloadVars, Home
<1>11. CASE FetchPage
  BY <1>11, FetchPageHome
<1>12. ASSUME NEW next \in Links \union Magnets, PageRedirected(next) PROVE Home'
  BY <1>12, PageRedirectedHome
<1>13. CASE PageAnswered
  BY <1>13, PageAnsweredHome
<1>. QED
  BY <1>1, <1>2, <1>3, <1>4, <1>5, <1>6, <1>7, <1>8, <1>9, <1>10, <1>11, <1>12, <1>13 DEF DownloadNext

\* However a page, a selector or a redirect leads a download, its before request
\* and its requests for the file go to the tracker's own addresses, and not back to
\* plain HTTP from HTTPS; the request for the release's page begins there
\* (trackerSiteOf, sameDownloadOrigin).
THEOREM StaysHomeAlways == DownloadSpec => []StaysHome
<1>1. DownloadInit => Home
  <2>. SUFFICES ASSUME DownloadInit PROVE Home
    OBVIOUS
  <2>1. chain = <<>> /\ stage = "idle" /\ row = NoRow
    BY DEF DownloadInit
  <2>2. DOMAIN chain = {} /\ Len(chain) = 0 /\ chain \in Seq(Links)
    BY <2>1
  <2>. QED  BY <2>1, <2>2, DownloadAssumption DEF Home, StaysHome
<1>2. Home /\ [DownloadNext]_downloadVars => Home'
  BY HomeStep
<1>3. Home => StaysHome
  BY DEF Home
<1>. QED  BY <1>1, <1>2, <1>3, PTL DEF DownloadSpec

-----------------------------------------------------------------------------
(***************************************************************************)
(* One sign-in.  What is posted is what the page gives, under the inputs   *)
(* of the definition, under what was read off the page; so it is about the *)
(* names these go out under (NamedFrom) and about what a form's inputs add *)
(* up to (AdoptedIs).                                                      *)
(***************************************************************************)

\* The name an input that a selector finds goes out under.
NameOf(key) == loginPage.inputs[FirstOf(loginPage.inputs, key)].name

\* Every input of a set, and no other, goes out under its name.
NamedFrom(keys) ==
  /\ DOMAIN named = {NameOf(key) : key \in keys}
  /\ \A name \in DOMAIN named : \E key \in keys : name = NameOf(key) /\ named[name] = login.inputs[key]

\* All the definition's inputs have names, and no credential of theirs is empty.
AllNamed ==
  /\ IF login.bySelector
     THEN /\ \A key \in DOMAIN login.inputs : FirstOf(loginPage.inputs, key) # 0
          /\ NamedFrom(DOMAIN login.inputs)
     ELSE named = login.inputs
  /\ ~LacksCredentials(named)

SignInInv ==
  /\ loginPage \in Pages
  /\ signIn \in {"render", "page", "name", "fill"} => posted = NoPost
  /\ login.method = "form" =>
       /\ signIn \in {"page", "name", "fill"} =>
            ~LacksCredentials(login.inputs) /\ CookieNames(login.cookies) \subseteq cookiesSent
       /\ signIn = "name" =>
            /\ login.bySelector /\ unnamed \subseteq DOMAIN login.inputs
            /\ \A key \in DOMAIN login.inputs \ unnamed : FirstOf(loginPage.inputs, key) # 0
            /\ NamedFrom(DOMAIN login.inputs \ unnamed)
       /\ signIn = "fill" => AllNamed
       /\ posted # NoPost =>
            /\ posted.values = LaidOver(ReadOff, LaidOver(named, Adopted))
            /\ AllNamed /\ CookieNames(login.cookies) \subseteq cookiesSent
  /\ signIn \in {"page", "name", "fill"} => login.method = "form"

-----------------------------------------------------------------------------
(***************************************************************************)
(* What the form's own inputs add up to.                                   *)
(***************************************************************************)

\* The recursion has a solution, so AdoptedOf is one.
LEMMA AdoptedOfDef ==
  ASSUME Len(loginPage.inputs) \in Nat
  PROVE  /\ AdoptedOf[0] = Empty
         /\ \A n \in 1 .. Len(loginPage.inputs) : AdoptedOf[n] = Adopt(AdoptedOf[n - 1], loginPage.inputs[n])
<1>. DEFINE Is(k, g) == g = [n \in 0 .. k |-> IF n = 0 THEN Empty ELSE Adopt(g[n - 1], loginPage.inputs[n])]
            solved == {k \in Nat : \E g : Is(k, g)}
<1>1. 0 \in solved
  <2>1. Is(0, [n \in 0 .. 0 |-> Empty])
    OBVIOUS
  <2>. QED  BY <2>1
<1>2. ASSUME NEW k \in Nat, k \in solved PROVE k + 1 \in solved
  <2>1. PICK g : Is(k, g)
    BY <1>2
  <2>. DEFINE h == [n \in 0 .. k + 1 |-> IF n = k + 1 THEN Adopt(g[k], loginPage.inputs[k + 1]) ELSE g[n]]
  <2>2. ASSUME NEW n \in 0 .. k + 1
        PROVE  h[n] = IF n = 0 THEN Empty ELSE Adopt(h[n - 1], loginPage.inputs[n])
    <3>1. CASE n = k + 1
      <4>1. h[n - 1] = g[k] /\ n # 0
        BY <3>1
      <4>. QED  BY <3>1, <4>1
    <3>2. CASE n # k + 1
      <4>1. n \in 0 .. k /\ h[n] = g[n]
        BY <3>2
      <4>2. g[n] = IF n = 0 THEN Empty ELSE Adopt(g[n - 1], loginPage.inputs[n])
        BY <4>1, <2>1
      <4>3. n # 0 => h[n - 1] = g[n - 1]
        BY <4>1
      <4>. QED  BY <4>1, <4>2, <4>3
    <3>. QED  BY <3>1, <3>2
  <2>3. h = [n \in 0 .. k + 1 |-> IF n = 0 THEN Empty ELSE Adopt(h[n - 1], loginPage.inputs[n])]
    <3>. DEFINE e == [n \in 0 .. k + 1 |-> IF n = 0 THEN Empty ELSE Adopt(h[n - 1], loginPage.inputs[n])]
    <3>1. \A n \in 0 .. k + 1 : h[n] = e[n]
      BY <2>2
    <3>. QED  BY <3>1
  <2>4. Is(k + 1, h)
    BY <2>3
  <2>. HIDE DEF Is, h
  <2>. QED  BY <2>4
<1>3. \A k \in Nat : k \in solved
  <2>. HIDE DEF solved
  <2>. QED  BY <1>1, <1>2, EveryNatural
<1>4. \E g : Is(Len(loginPage.inputs), g)
  BY <1>3
<1>5. AdoptedOf = CHOOSE g : Is(Len(loginPage.inputs), g)
  BY DEF AdoptedOf
<1>6. Is(Len(loginPage.inputs), AdoptedOf)
  BY <1>4, <1>5
<1>. QED
  BY <1>6


\* Of the inputs of the form a browser would send under a name, the last one among
\* the first n of the page is the one that counts.
LEMMA AdoptedIs ==
  ASSUME loginPage \in Pages, NEW name
  PROVE  /\ name \in DOMAIN Adopted <=> Carried(name) # {}
         /\ name \in DOMAIN Adopted =>
              \E i \in Carried(name) : /\ Adopted[name] = loginPage.inputs[i].value
                                       /\ \A j \in Carried(name) : j <= i
<1>. DEFINE inputs == loginPage.inputs
            last == Len(inputs)
            LastOf(n) == \E i \in Carried(name) : /\ i <= n /\ AdoptedOf[n][name] = inputs[i].value
                                                  /\ \A j \in Carried(name) : j <= n => j <= i
            Good(n) == n <= last => /\ name \in DOMAIN AdoptedOf[n] <=> \E i \in Carried(name) : i <= n
                                    /\ name \in DOMAIN AdoptedOf[n] => LastOf(n)
            good == {n \in Nat : Good(n)}
<1>1. last \in Nat /\ DOMAIN inputs = 1 .. last
  BY PagesAssumption, LenProperties
<1>2. /\ AdoptedOf[0] = Empty
      /\ \A n \in 1 .. last : AdoptedOf[n] = Adopt(AdoptedOf[n - 1], inputs[n])
  BY <1>1, AdoptedOfDef
<1>3. Carried(name) \subseteq 1 .. last
  BY <1>1 DEF Carried
<1>4. 0 \in good
  <2>1. DOMAIN AdoptedOf[0] = {}
    BY <1>2 DEF Empty
  <2>. QED  BY <1>3, <2>1
<1>5. ASSUME NEW n \in Nat, n \in good PROVE n + 1 \in good
  <2>. SUFFICES ASSUME n + 1 <= last PROVE Good(n + 1)
    OBVIOUS
  <2>. DEFINE input == inputs[n + 1]
              before == AdoptedOf[n]
  <2>1. Good(n) /\ n <= last /\ n + 1 \in 1 .. last
    BY <1>1, <1>5
  <2>2. AdoptedOf[n + 1] = Adopt(before, input)
    BY <1>2, <2>1
  <2>3. n + 1 \in Carried(name) <=>
          input.form = FormIndex /\ input.name = name /\ input.name # "" /\ IsSubmitted(input)
    BY <1>1, <2>1 DEF Carried, IsSubmitted
  <2>4. \A i \in Carried(name) : i <= n + 1 <=> i <= n \/ i = n + 1
    BY <1>1, <1>3
  <2>. HIDE DEF input, before
  <2>5. CASE n + 1 \in Carried(name)
    <3>1. AdoptedOf[n + 1] = LaidOver([x \in {name} |-> input.value], before)
      BY <2>2, <2>3, <2>5 DEF Adopt
    <3>2. name \in DOMAIN AdoptedOf[n + 1] /\ AdoptedOf[n + 1][name] = input.value
      BY <3>1 DEF LaidOver
    <3>. QED  BY <1>1, <1>3, <2>5, <3>2 DEF input
  <2>6. CASE n + 1 \notin Carried(name)
    <3>1. /\ name \in DOMAIN AdoptedOf[n + 1] <=> name \in DOMAIN before
          /\ name \in DOMAIN before => AdoptedOf[n + 1][name] = before[name]
      <4>1. CASE input.form = FormIndex /\ input.name # "" /\ IsSubmitted(input)
        <5>1. AdoptedOf[n + 1] = LaidOver([x \in {input.name} |-> input.value], before) /\ input.name # name
          BY <2>2, <2>3, <2>6, <4>1 DEF Adopt
        <5>. QED  BY <5>1 DEF LaidOver
      <4>2. CASE ~(input.form = FormIndex /\ input.name # "" /\ IsSubmitted(input))
        BY <2>2, <4>2 DEF Adopt
      <4>. QED  BY <4>1, <4>2
    <3>. QED  BY <2>1, <2>4, <2>6, <3>1 DEF before
  <2>. QED  BY <2>5, <2>6
<1>6. last \in good
  <2>. HIDE DEF good
  <2>. QED  BY <1>1, <1>4, <1>5, EveryNatural
<1>. QED
  BY <1>1, <1>3, <1>6 DEF Adopted

-----------------------------------------------------------------------------
LEMMA RenderSigns == ASSUME SignInInv, Render PROVE SignInInv'
<1>1. /\ UNCHANGED <<login, loginPage, unnamed, named>> /\ posted = NoPost /\ signIn = "render"
  BY DEF Render, SignInInv
<1>2. CASE login.method = "form"
  <2>1. \/ signIn' = "over" /\ UNCHANGED posted
        \/ /\ signIn' = "page" /\ UNCHANGED posted /\ ~LacksCredentials(login.inputs)
           /\ CookieNames(login.cookies) \subseteq cookiesSent'
    BY <1>2 DEF Render, EndSignIn
  <2>. QED  BY <1>1, <1>2, <2>1 DEF SignInInv, LacksCredentials, CookieNames
<1>3. CASE login.method # "form"
  <2>1. signIn' \in {"over", "posted"}
    BY <1>3 DEF Render, EndSignIn
  <2>. QED  BY <1>1, <1>3, <2>1 DEF SignInInv
<1>. QED
  BY <1>2, <1>3

LEMMA LoadPageSigns == ASSUME SignInInv, LoadPage PROVE SignInInv'
<1>1. /\ UNCHANGED <<login, loginPage, cookiesSent, posted>> /\ posted = NoPost
      /\ login.method = "form" /\ ~LacksCredentials(login.inputs) /\ CookieNames(login.cookies) \subseteq cookiesSent
      /\ loginPage \in Pages
  BY DEF LoadPage, SignInInv
<1>2. \/ signIn' = "over"
      \/ signIn' = "name" /\ login.bySelector /\ unnamed' = DOMAIN login.inputs /\ named' = Empty
      \/ signIn' = "fill" /\ ~login.bySelector /\ named' = login.inputs
  BY DEF LoadPage, EndSignIn
<1>3. signIn' = "name" => NamedFrom(DOMAIN login.inputs \ unnamed)'
  BY <1>1, <1>2 DEF NamedFrom, NameOf, Empty
<1>4. signIn' = "fill" => AllNamed'
  BY <1>1, <1>2 DEF AllNamed, LacksCredentials
<1>. QED
  BY <1>1, <1>2, <1>3, <1>4 DEF SignInInv, LacksCredentials, CookieNames

LEMMA NameInputSigns == ASSUME SignInInv, NameInput PROVE SignInInv'
<1>. PICK selector \in unnamed :
       LET i == FirstOf(loginPage.inputs, selector)
       IN /\ signIn = "name"
          /\ unnamed' = unnamed \ {selector}
          /\ IF i = 0 \/ loginPage.inputs[i].name = ""
             THEN EndSignIn("no input") /\ UNCHANGED named
             ELSE /\ named' = LaidOver([name \in {loginPage.inputs[i].name} |-> login.inputs[selector]], named)
                  /\ UNCHANGED <<signIn, verdict>>
          /\ UNCHANGED <<login, loginPage, cookiesSent, posted>>
  BY DEF NameInput
<1>1. /\ UNCHANGED <<login, loginPage, cookiesSent, posted>> /\ posted = NoPost /\ loginPage \in Pages
      /\ login.method = "form" /\ ~LacksCredentials(login.inputs) /\ CookieNames(login.cookies) \subseteq cookiesSent
      /\ login.bySelector /\ unnamed \subseteq DOMAIN login.inputs
      /\ \A key \in DOMAIN login.inputs \ unnamed : FirstOf(loginPage.inputs, key) # 0
      /\ NamedFrom(DOMAIN login.inputs \ unnamed)
  BY DEF SignInInv
<1>2. CASE FirstOf(loginPage.inputs, selector) = 0 \/ NameOf(selector) = ""
  <2>1. signIn' = "over"
    BY <1>2 DEF EndSignIn, NameOf
  <2>. QED  BY <1>1, <2>1 DEF SignInInv
<1>3. CASE FirstOf(loginPage.inputs, selector) # 0 /\ NameOf(selector) # ""
  <2>. DEFINE had == DOMAIN login.inputs \ unnamed
              has == DOMAIN login.inputs \ unnamed'
  <2>1. /\ signIn' = "name" /\ unnamed' = unnamed \ {selector} /\ selector \in DOMAIN login.inputs
        /\ named' = LaidOver([name \in {NameOf(selector)} |-> login.inputs[selector]], named)
    BY <1>1, <1>3 DEF NameOf
  <2>2. has = had \union {selector}
    BY <1>1, <2>1
  <2>3. /\ DOMAIN named' = DOMAIN named \union {NameOf(selector)}
        /\ \A name \in DOMAIN named' : named'[name] = IF name = NameOf(selector) THEN login.inputs[selector] ELSE named[name]
    BY <2>1 DEF LaidOver
  <2>4. /\ DOMAIN named = {NameOf(key) : key \in had}
        /\ \A name \in DOMAIN named : \E key \in had : name = NameOf(key) /\ named[name] = login.inputs[key]
    BY <1>1 DEF NamedFrom
  <2>. HIDE DEF had
  <2>5. DOMAIN named' = {NameOf(key) : key \in had \union {selector}}
    BY <2>3, <2>4
  <2>6. \A name \in DOMAIN named' : \E key \in had \union {selector} : name = NameOf(key) /\ named'[name] = login.inputs[key]
    BY <2>3, <2>4
  <2>7. NamedFrom(DOMAIN login.inputs \ unnamed)'
    <3>1. DOMAIN login'.inputs \ unnamed' = had \union {selector}
      BY <1>1, <2>2
    <3>2. DOMAIN named' = {NameOf(key) : key \in DOMAIN login'.inputs \ unnamed'}
      BY <2>5, <3>1
    <3>3. \A name \in DOMAIN named' : \E key \in DOMAIN login'.inputs \ unnamed' :
            name = NameOf(key) /\ named'[name] = login'.inputs[key]
      BY <1>1, <2>6, <3>1
    <3>4. loginPage' = loginPage
      BY <1>1
    <3>5. (DOMAIN named = {NameOf(key) : key \in DOMAIN login.inputs \ unnamed})'
      BY <3>2, <3>4 DEF NameOf
    <3>6. ASSUME NEW name \in DOMAIN named'
          PROVE  \E key \in DOMAIN login'.inputs \ unnamed' : name = NameOf(key)' /\ named'[name] = login'.inputs[key]
      <4>1. PICK key \in DOMAIN login'.inputs \ unnamed' : name = NameOf(key) /\ named'[name] = login'.inputs[key]
        BY <3>3
      <4>2. NameOf(key)' = NameOf(key)
        BY <3>4 DEF NameOf
      <4>. QED  BY <4>1, <4>2
    <3>. QED  BY <3>5, <3>6 DEF NamedFrom
  <2>8. \A key \in DOMAIN login.inputs \ unnamed' : FirstOf(loginPage.inputs, key) # 0
    BY <1>1, <1>3, <2>1
  <2>. QED
    BY <1>1, <2>1, <2>7, <2>8 DEF SignInInv, LacksCredentials, CookieNames
<1>. QED
  BY <1>2, <1>3 DEF NameOf

LEMMA NamesKnownSigns == ASSUME SignInInv, NamesKnown PROVE SignInInv'
<1>1. /\ UNCHANGED <<login, loginPage, cookiesSent, unnamed, named, posted>> /\ posted = NoPost /\ loginPage \in Pages
      /\ login.method = "form" /\ ~LacksCredentials(login.inputs) /\ CookieNames(login.cookies) \subseteq cookiesSent
      /\ login.bySelector /\ unnamed = {}
      /\ \A key \in DOMAIN login.inputs : FirstOf(loginPage.inputs, key) # 0
      /\ NamedFrom(DOMAIN login.inputs)
  <2>1. unnamed = {} => DOMAIN login.inputs \ unnamed = DOMAIN login.inputs
    OBVIOUS
  <2>. QED  BY <2>1 DEF NamesKnown, SignInInv
<1>2. \/ signIn' = "over"
      \/ signIn' = "fill" /\ ~LacksCredentials(named)
  BY DEF NamesKnown, EndSignIn, LacksNamedCredentials
<1>3. NamedFrom(DOMAIN login.inputs)'
  BY <1>1 DEF NamedFrom, NameOf
<1>4. signIn' = "fill" => AllNamed'
  BY <1>1, <1>2, <1>3 DEF AllNamed, LacksCredentials
<1>. QED
  BY <1>1, <1>2, <1>4 DEF SignInInv, LacksCredentials, CookieNames

\* Nothing a posted request was made from changes again.
LEMMA PostedKept ==
  ASSUME UNCHANGED <<login, loginPage, named>>
  PROVE  AllNamed' = AllNamed /\ ReadOff' = ReadOff /\ Adopted' = Adopted
<1>1. AllNamed' = AllNamed
  BY DEF AllNamed, NamedFrom, NameOf, LacksCredentials
<1>2. ReadOff' = ReadOff
  BY DEF ReadOff, Reads
<1>3. Adopted' = Adopted
  BY DEF Adopted, AdoptedOf, Adopt, FormIndex
<1>. QED
  BY <1>1, <1>2, <1>3

LEMMA FillSigns == ASSUME SignInInv, Fill PROVE SignInInv'
<1>1. /\ UNCHANGED <<login, loginPage, cookiesSent, unnamed, named>> /\ loginPage \in Pages
      /\ login.method = "form" /\ CookieNames(login.cookies) \subseteq cookiesSent /\ AllNamed /\ posted = NoPost
  BY DEF Fill, SignInInv
<1>2. \/ signIn' = "over" /\ UNCHANGED posted
      \/ signIn' = "posted" /\ posted'.values = LaidOver(ReadOff, LaidOver(named, Adopted))
  <2>1. CASE \E name \in DOMAIN login.selectorInputs : IsUnread(name)
    BY <2>1 DEF Fill, EndSignIn
  <2>2. CASE ~ \E name \in DOMAIN login.selectorInputs : IsUnread(name)
    <3>1. signIn' = "posted"
          /\ posted' = [method |-> "post", path |-> Action, values |-> LaidOver(ReadOff, LaidOver(named, Adopted))]
      BY <2>2, Zenon DEF Fill
    <3>. QED  BY <3>1
  <2>. QED  BY <2>1, <2>2
<1>. QED
  BY <1>1, <1>2, PostedKept DEF SignInInv, CookieNames

LEMMA AnswerSigns == ASSUME SignInInv, Answer PROVE SignInInv'
<1>1. UNCHANGED <<login, loginPage, cookiesSent, unnamed, named, posted>> /\ signIn = "posted" /\ signIn' = "over"
  BY DEF Answer, EndSignIn
<1>. QED
  BY <1>1, PostedKept DEF SignInInv, CookieNames

LEMMA SignInStep == ASSUME SignInInv, [SignInNext]_loginVars PROVE SignInInv'
<1>1. CASE UNCHANGED loginVars
  <2>1. UNCHANGED <<login, loginPage, signIn, cookiesSent, unnamed, named, posted>>
    BY <1>1 DEF loginVars
  <2>2. \A keys : NamedFrom(keys)' = NamedFrom(keys)
    BY <2>1 DEF NamedFrom, NameOf
  <2>. QED  BY <2>1, <2>2, PostedKept DEF SignInInv, CookieNames, LacksCredentials
<1>. QED
  BY <1>1, RenderSigns, LoadPageSigns, NameInputSigns, NamesKnownSigns, FillSigns, AnswerSigns DEF SignInNext

LEMMA AllNamedGives ==
  ASSUME AllNamed, NEW name
  PROVE  /\ name \in DOMAIN named <=> Given(name) # {}
         /\ name \in DOMAIN named => named[name] \in {login.inputs[key] : key \in Given(name)}
         /\ name \in DOMAIN named \intersect Credentials => named[name] # ""
<1>1. CASE login.bySelector
  <2>1. /\ \A key \in DOMAIN login.inputs : FirstOf(loginPage.inputs, key) # 0
        /\ DOMAIN named = {NameOf(key) : key \in DOMAIN login.inputs}
        /\ \A x \in DOMAIN named : \E key \in DOMAIN login.inputs : x = NameOf(key) /\ named[x] = login.inputs[key]
    BY <1>1 DEF AllNamed, NamedFrom
  <2>2. Given(name) = {key \in DOMAIN login.inputs : NameOf(key) = name}
    BY <1>1, <2>1 DEF Given, NameOf
  <2>. QED  BY <2>1, <2>2 DEF AllNamed, LacksCredentials
<1>2. CASE ~login.bySelector
  BY <1>2 DEF AllNamed, Given, LacksCredentials
<1>. QED
  BY <1>1, <1>2

LEMMA SignInPosts == ASSUME SignInInv PROVE PostsTheForm
<1>. SUFFICES ASSUME login.method = "form", posted # NoPost PROVE PostsTheForm
  BY DEF PostsTheForm
<1>. DEFINE names  == DOMAIN posted.values
            tokens == {n \in DOMAIN login.selectorInputs : Reads(n).selector \in DOMAIN loginPage.reads}
<1>1. /\ posted.values = LaidOver(ReadOff, LaidOver(named, Adopted))
      /\ AllNamed /\ CookieNames(login.cookies) \subseteq cookiesSent /\ loginPage \in Pages
  BY DEF SignInInv
<1>2. DOMAIN ReadOff = tokens /\ \A n \in tokens : ReadOff[n] = loginPage.reads[Reads(n).selector]
  BY DEF ReadOff
<1>3. /\ names = tokens \union DOMAIN named \union DOMAIN Adopted
      /\ \A n \in names : posted.values[n] = IF n \in tokens THEN ReadOff[n]
                                             ELSE IF n \in DOMAIN named THEN named[n] ELSE Adopted[n]
  <2>. HIDE DEF tokens
  <2>. QED  BY <1>1, <1>2 DEF LaidOver
<1>4. \A n : /\ n \in DOMAIN named <=> Given(n) # {}
             /\ n \in DOMAIN named => named[n] \in {login.inputs[key] : key \in Given(n)}
             /\ n \in DOMAIN named \intersect Credentials => named[n] # ""
  BY <1>1, AllNamedGives
<1>5. \A n : /\ n \in DOMAIN Adopted <=> Carried(n) # {}
             /\ n \in DOMAIN Adopted =>
                  \E i \in Carried(n) : Adopted[n] = loginPage.inputs[i].value /\ \A j \in Carried(n) : j <= i
  BY <1>1, AdoptedIs
<1>. HIDE DEF names, tokens
<1>6. names = {n \in names \union {loginPage.inputs[i].name : i \in DOMAIN loginPage.inputs} \union DOMAIN login.inputs :
                 n \in tokens \/ Given(n) # {} \/ Carried(n) # {}} \union tokens
  BY <1>3, <1>4, <1>5
<1>7. ASSUME NEW n \in names
      PROVE  /\ n \in tokens => posted.values[n] = loginPage.reads[Reads(n).selector]
             /\ n \notin tokens /\ Given(n) # {} => posted.values[n] \in {login.inputs[key] : key \in Given(n)}
             /\ n \notin tokens /\ Given(n) = {} =>
                  \E i \in Carried(n) : posted.values[n] = loginPage.inputs[i].value
                                        /\ \A j \in Carried(n) : j <= i
             /\ n \in Credentials \ tokens /\ Given(n) # {} => posted.values[n] # ""
  BY <1>2, <1>3, <1>4, <1>5
<1>. QED
  BY <1>1, <1>6, <1>7 DEF PostsTheForm, names, tokens

\* A form login posts what a browser would post after an administrator filled in
\* the definition's inputs (loginWithForm, inputsBySelector, readSelectorInputs), for
\* any login block, any page and any number of inputs, and in any order of the
\* selectors.
THEOREM PostsTheFormAlways == SignInSpec => []PostsTheForm
<1>1. LoginInit => SignInInv
  BY DEF LoginInit, SignInInv
<1>2. SignInInv /\ [SignInNext]_loginVars => SignInInv'
  BY SignInStep
<1>3. SignInInv => PostsTheForm
  BY SignInPosts
<1>. QED
  BY <1>1, <1>2, <1>3, PTL DEF SignInSpec

-----------------------------------------------------------------------------
(***************************************************************************)
(* A timestamp.  The days before a year and before a month are sums that   *)
(* grow (SumsGrow), so that each day is in one year and one month (DateIs);*)
(* an instant shows the day and, where there is one, the hour it was made  *)
(* for (InstantShows); and each shape makes it for the day the text names. *)
(***************************************************************************)

LEMMA SumsDef ==
  ASSUME NEW s \in Seq(Nat)
  PROVE  /\ Sums(s)[0] = 0
         /\ \A n \in 1 .. Len(s) : Sums(s)[n] = Sums(s)[n - 1] + s[n]
<1>. DEFINE Is(k, g) == g = [n \in 0 .. k |-> IF n = 0 THEN 0 ELSE g[n - 1] + s[n]]
            solved == {k \in Nat : \E g : Is(k, g)}
<1>1. 0 \in solved
  <2>1. Is(0, [n \in 0 .. 0 |-> 0])
    OBVIOUS
  <2>. QED  BY <2>1
<1>2. ASSUME NEW k \in Nat, k \in solved PROVE k + 1 \in solved
  <2>1. PICK g : Is(k, g)
    BY <1>2
  <2>. DEFINE h == [n \in 0 .. k + 1 |-> IF n = k + 1 THEN g[k] + s[k + 1] ELSE g[n]]
  <2>2. ASSUME NEW n \in 0 .. k + 1
        PROVE  h[n] = IF n = 0 THEN 0 ELSE h[n - 1] + s[n]
    <3>1. CASE n = k + 1
      <4>1. h[n - 1] = g[k] /\ n # 0
        BY <3>1
      <4>. QED  BY <3>1, <4>1
    <3>2. CASE n # k + 1
      <4>1. n \in 0 .. k /\ h[n] = g[n]
        BY <3>2
      <4>2. g[n] = IF n = 0 THEN 0 ELSE g[n - 1] + s[n]
        BY <4>1, <2>1
      <4>3. n # 0 => h[n - 1] = g[n - 1]
        BY <4>1
      <4>. QED  BY <4>1, <4>2, <4>3
    <3>. QED  BY <3>1, <3>2
  <2>3. Is(k + 1, h)
    <3>. DEFINE e == [n \in 0 .. k + 1 |-> IF n = 0 THEN 0 ELSE h[n - 1] + s[n]]
    <3>1. \A n \in 0 .. k + 1 : h[n] = e[n]
      BY <2>2
    <3>. QED  BY <3>1
  <2>. HIDE DEF Is, h
  <2>. QED  BY <2>3
<1>3. \A k \in Nat : k \in solved
  <2>. HIDE DEF solved
  <2>. QED  BY <1>1, <1>2, EveryNatural
<1>4. \E g : Is(Len(s), g)
  BY <1>3
<1>5. Sums(s) = CHOOSE g : Is(Len(s), g)
  BY DEF Sums
<1>6. Is(Len(s), Sums(s))
  BY <1>4, <1>5
<1>. QED
  BY <1>6

\* The sums are numbers that grow by each element.
LEMMA SumsGrow ==
  ASSUME NEW s \in Seq(Nat)
  PROVE  /\ \A n \in 0 .. Len(s) : Sums(s)[n] \in Nat
         /\ \A n \in 0 .. Len(s), k \in 0 .. Len(s) :
              n < k => Sums(s)[n] + s[n + 1] <= Sums(s)[k]
<1>. DEFINE typed == {k \in Nat : k <= Len(s) => Sums(s)[k] \in Nat}
            grown == {k \in Nat : k <= Len(s) => \A n \in 0 .. Len(s) : n < k => Sums(s)[n] + s[n + 1] <= Sums(s)[k]}
<1>1. \A k \in Nat : k \in typed
  <2>1. 0 \in typed
    BY SumsDef
  <2>2. ASSUME NEW k \in Nat, k \in typed PROVE k + 1 \in typed
    BY <2>2, SumsDef
  <2>. HIDE DEF typed
  <2>. QED  BY <2>1, <2>2, EveryNatural
<1>2. \A k \in Nat : k \in grown
  <2>1. 0 \in grown
    OBVIOUS
  <2>2. ASSUME NEW k \in Nat, k \in grown PROVE k + 1 \in grown
    <3>. SUFFICES ASSUME k + 1 <= Len(s), NEW n \in 0 .. Len(s), n < k + 1
                  PROVE  Sums(s)[n] + s[n + 1] <= Sums(s)[k + 1]
      OBVIOUS
    <3>1. Sums(s)[k + 1] = Sums(s)[k] + s[k + 1] /\ s[k + 1] \in Nat /\ s[n + 1] \in Nat
      BY SumsDef
    <3>2. Sums(s)[k] \in Nat /\ Sums(s)[n] \in Nat
      BY <1>1
    <3>3. n < k => Sums(s)[n] + s[n + 1] <= Sums(s)[k]
      BY <2>2
    <3>. QED  BY <3>1, <3>2, <3>3
  <2>. HIDE DEF grown
  <2>. QED  BY <2>1, <2>2, EveryNatural
<1>. QED
  BY <1>1, <1>2

-----------------------------------------------------------------------------
(***************************************************************************)
(* The calendar.  Each day is in one year and one month.                   *)
(***************************************************************************)

LEMMA YearsAre ==
  /\ \A year \in YearsKnown :
       /\ MonthLengths(year) \in Seq(Nat) /\ Len(MonthLengths(year)) = Len(Months)
       /\ \A month \in DOMAIN Months : MonthLengths(year)[month] = LengthOf(month, year) /\ LengthOf(month, year) \in Nat
  /\ YearLengths \in Seq(Nat) /\ Len(YearLengths) = LastYear + 1
  /\ \A year \in YearsKnown : YearLengths[year + 1] = YearLength(year) /\ YearLength(year) \in Nat
<1>1. ASSUME NEW year
      PROVE  /\ MonthLengths(year) \in Seq(Nat) /\ Len(MonthLengths(year)) = Len(Months)
             /\ \A month \in DOMAIN Months : MonthLengths(year)[month] = LengthOf(month, year) /\ LengthOf(month, year) \in Nat
  BY DateAssumption DEF MonthLengths, LengthOf
<1>2. \A year : YearLength(year) \in Nat
  BY <1>1, SumsGrow, DateAssumption DEF YearLength
<1>3. YearLengths \in Seq(Nat) /\ Len(YearLengths) = LastYear + 1
  BY <1>2, DateAssumption DEF YearLengths
<1>. QED
  BY <1>1, <1>2, <1>3, DateAssumption DEF YearLengths, YearsKnown

\* The days before a year, and those of the year before a month.
StartOf(year)     == Sums(YearLengths)[year]
Into(year, month) == Sums(MonthLengths(year))[month - 1]

LEMMA YearsFollow ==
  /\ \A year \in 0 .. LastYear + 1 : StartOf(year) \in Nat
  /\ \A year \in YearsKnown : StartOf(year + 1) = StartOf(year) + YearLength(year)
  /\ \A year \in 0 .. LastYear + 1, other \in 0 .. LastYear + 1 : year < other => StartOf(year + 1) <= StartOf(other)
<1>1. /\ YearLengths \in Seq(Nat) /\ Len(YearLengths) = LastYear + 1 /\ LastYear \in Nat
      /\ \A year \in YearsKnown : YearLengths[year + 1] = YearLength(year)
  BY YearsAre, DateAssumption
<1>2. \A year \in YearsKnown : StartOf(year + 1) = StartOf(year) + YearLength(year)
  <2>. TAKE year \in YearsKnown
  <2>1. year + 1 \in 1 .. Len(YearLengths) /\ (year + 1) - 1 = year
    BY <1>1 DEF YearsKnown
  <2>2. Sums(YearLengths)[year + 1] = Sums(YearLengths)[(year + 1) - 1] + YearLengths[year + 1]
    BY <1>1, <2>1, SumsDef
  <2>. QED  BY <1>1, <2>1, <2>2 DEF StartOf
<1>3. \A year \in 0 .. LastYear + 1, other \in 0 .. LastYear + 1 :
        year < other => StartOf(year) + YearLengths[year + 1] <= StartOf(other)
  BY <1>1, SumsGrow DEF StartOf
<1>4. \A year \in 0 .. LastYear + 1 : StartOf(year) \in Nat
  BY <1>1, SumsGrow DEF StartOf
<1>5. ASSUME NEW year \in 0 .. LastYear + 1, NEW other \in 0 .. LastYear + 1, year < other
      PROVE  StartOf(year + 1) <= StartOf(other)
  <2>1. year \in YearsKnown
    BY <1>1, <1>5 DEF YearsKnown
  <2>. QED  BY <1>1, <1>2, <1>3, <1>5, <2>1
<1>. QED
  BY <1>2, <1>4, <1>5

LEMMA MonthsFollow ==
  ASSUME NEW year \in YearsKnown, NEW month \in DOMAIN Months
  PROVE  /\ Into(year, month) \in Nat /\ LengthOf(month, year) \in Nat
         /\ \A other \in DOMAIN Months : month < other => Into(year, month) + LengthOf(month, year) <= Into(year, other)
         /\ month # Len(Months) => Into(year, month + 1) = Into(year, month) + LengthOf(month, year)
         /\ Into(year, month) + LengthOf(month, year) <= YearLength(year)
<1>. DEFINE s == MonthLengths(year)
<1>1. /\ s \in Seq(Nat) /\ Len(s) = Len(Months) /\ DOMAIN Months = 1 .. Len(Months) /\ Len(Months) \in Nat
      /\ s[month] = LengthOf(month, year) /\ LengthOf(month, year) \in Nat
  BY YearsAre, DateAssumption
<1>2. /\ \A n \in 0 .. Len(s) : Sums(s)[n] \in Nat
      /\ \A n \in 0 .. Len(s), k \in 0 .. Len(s) : n < k => Sums(s)[n] + s[n + 1] <= Sums(s)[k]
      /\ \A n \in 1 .. Len(s) : Sums(s)[n] = Sums(s)[n - 1] + s[n]
  BY <1>1, SumsGrow, SumsDef
<1>. HIDE DEF s
<1>3. /\ Into(year, month) = Sums(s)[month - 1] /\ YearLength(year) = Sums(s)[Len(Months)]
      /\ \A other \in DOMAIN Months : Into(year, other) = Sums(s)[other - 1]
  BY DEF Into, YearLength, s
<1>4. month - 1 \in 0 .. Len(s) /\ (month - 1) + 1 = month /\ month - 1 < Len(s) /\ Len(s) \in 0 .. Len(s)
  BY <1>1
<1>5. Into(year, month) \in Nat
  BY <1>2, <1>3, <1>4
<1>6. ASSUME NEW other \in DOMAIN Months, month < other
      PROVE  Into(year, month) + LengthOf(month, year) <= Into(year, other)
  <2>1. other - 1 \in 0 .. Len(s) /\ month - 1 < other - 1
    BY <1>1, <1>6
  <2>2. Sums(s)[month - 1] + s[(month - 1) + 1] <= Sums(s)[other - 1]
    BY <1>2, <1>4, <2>1
  <2>. QED  BY <1>1, <1>3, <1>4, <2>2
<1>7. ASSUME month # Len(Months) PROVE Into(year, month + 1) = Into(year, month) + LengthOf(month, year)
  <2>1. month + 1 \in DOMAIN Months /\ (month + 1) - 1 = month /\ month \in 1 .. Len(s)
    BY <1>1, <1>7
  <2>. QED  BY <1>1, <1>2, <1>3, <2>1
<1>8. Into(year, month) + LengthOf(month, year) <= YearLength(year)
  BY <1>1, <1>2, <1>3, <1>4
<1>. QED
  BY <1>1, <1>5, <1>6, <1>7, <1>8

LEMMA NumberIs ==
  /\ \A year \in 0 .. LastYear + 1 : DayNumber(year, 1, 1) = StartOf(year) + 1
  /\ \A year, month, day : DayNumber(year, month, day) = StartOf(year) + Into(year, month) + day
<1>1. \A year : Into(year, 1) = 0
  <2>1. \A year : MonthLengths(year) \in Seq(Nat)
    BY DateAssumption DEF MonthLengths, LengthOf
  <2>. QED  BY <2>1, SumsDef DEF Into
<1>. QED
  BY <1>1, YearsFollow DEF DayNumber, StartOf, Into

LEMMA YearIs ==
  ASSUME NEW year \in YearsKnown, NEW n \in Int, StartOf(year) < n, n <= StartOf(year + 1)
  PROVE  YearOf(n) = year
<1>. DEFINE Within(y) == DayNumber(y, 1, 1) <= n /\ n < DayNumber(y + 1, 1, 1)
<1>1. LastYear \in Nat /\ \A y \in YearsKnown : y \in 0 .. LastYear + 1 /\ y + 1 \in 0 .. LastYear + 1
  BY DateAssumption DEF YearsKnown
<1>2. \A y \in YearsKnown : Within(y) <=> StartOf(y) < n /\ n <= StartOf(y + 1)
  <2>1. \A y \in YearsKnown : /\ DayNumber(y, 1, 1) = StartOf(y) + 1 /\ DayNumber(y + 1, 1, 1) = StartOf(y + 1) + 1
                              /\ StartOf(y) \in Nat /\ StartOf(y + 1) \in Nat
    BY <1>1, NumberIs, YearsFollow
  <2>. QED  BY <2>1
<1>3. \A y \in YearsKnown : Within(y) => y = year
  <2>1. ASSUME NEW y \in YearsKnown, Within(y), y # year PROVE FALSE
    <3>1. /\ y \in 0 .. LastYear + 1 /\ year \in 0 .. LastYear + 1
          /\ y + 1 \in 0 .. LastYear + 1 /\ year + 1 \in 0 .. LastYear + 1
      BY <1>1
    <3>2. /\ StartOf(y) \in Nat /\ StartOf(year) \in Nat /\ StartOf(y + 1) \in Nat /\ StartOf(year + 1) \in Nat
          /\ y < year => StartOf(y + 1) <= StartOf(year)
          /\ year < y => StartOf(year + 1) <= StartOf(y)
      BY <3>1, YearsFollow
    <3>3. StartOf(y) < n /\ n <= StartOf(y + 1)
      BY <1>2, <2>1
    <3>. QED  BY <2>1, <3>1, <3>2, <3>3
  <2>. QED  BY <2>1
<1>4. Within(year)
  BY <1>2
<1>5. YearOf(n) = CHOOSE y \in YearsKnown : Within(y)
  BY DEF YearOf
<1>. HIDE DEF Within
<1>. QED
  BY <1>3, <1>4, <1>5

LEMMA YearFound ==
  ASSUME NEW n \in Int, 0 < n, n <= StartOf(LastYear + 1)
  PROVE  YearOf(n) \in YearsKnown /\ StartOf(YearOf(n)) < n /\ n <= StartOf(YearOf(n) + 1)
<1>. DEFINE Found == \E year \in YearsKnown : StartOf(year) < n /\ n <= StartOf(year + 1)
            good == {k \in Nat : k <= LastYear + 1 /\ n <= StartOf(k) => Found}
<1>0. LastYear \in Nat
  BY DateAssumption
<1>1. 0 \in good
  <2>1. StartOf(0) = 0
    BY YearsAre, SumsDef DEF StartOf
  <2>. QED  BY <2>1
<1>2. ASSUME NEW k \in Nat, k \in good PROVE k + 1 \in good
  <2>. SUFFICES ASSUME k + 1 <= LastYear + 1, n <= StartOf(k + 1) PROVE Found
    OBVIOUS
  <2>1. k \in YearsKnown /\ k \in 0 .. LastYear + 1
    BY <1>0 DEF YearsKnown
  <2>2. StartOf(k) \in Nat
    BY <2>1, YearsFollow
  <2>3. CASE n <= StartOf(k)
    BY <1>0, <1>2, <2>1, <2>3
  <2>4. CASE StartOf(k) < n
    BY <2>1, <2>4
  <2>. QED  BY <2>2, <2>3, <2>4
<1>3. \A k \in Nat : k \in good
  <2>. HIDE DEF good
  <2>. QED  BY <1>1, <1>2, EveryNatural
<1>4. Found
  BY <1>0, <1>3
<1>. QED
  BY <1>4, YearIs

\* A day of a month is read back.
LEMMA DateIs ==
  ASSUME NEW year \in YearsKnown, NEW month \in DOMAIN Months, NEW day \in 1 .. LengthOf(month, year)
  PROVE  LET n == DayNumber(year, month, day)
         IN /\ n \in Nat /\ StartOf(year) < n /\ n <= StartOf(year + 1)
            /\ YearOf(n) = year /\ MonthOf(n) = month /\ DayOfMonth(n) = day
<1>. DEFINE n == DayNumber(year, month, day)
<1>1. /\ LengthOf(month, year) \in Nat /\ Into(year, month) \in Nat /\ DOMAIN Months \subseteq Nat
      /\ Into(year, month) + LengthOf(month, year) <= YearLength(year)
  <2>1. DOMAIN Months \subseteq Nat
    BY DateAssumption
  <2>. QED  BY <2>1, MonthsFollow
<1>2. /\ StartOf(year) \in Nat /\ StartOf(year + 1) = StartOf(year) + YearLength(year) /\ YearLength(year) \in Nat
  BY YearsFollow, YearsAre, DateAssumption DEF YearsKnown
<1>3. n = StartOf(year) + Into(year, month) + day
  BY NumberIs
<1>4. n \in Nat /\ StartOf(year) < n /\ n <= StartOf(year + 1)
  BY <1>1, <1>2, <1>3
<1>. HIDE DEF n
<1>5. YearOf(n) = year
  BY <1>4, YearIs
<1>6. MonthOf(n) = month
  <2>. DEFINE Within(m) == DayNumber(year, m, 1) <= n /\ n < DayNumber(year, m, 1) + LengthOf(m, year)
  <2>1. \A m \in DOMAIN Months : Within(m) <=> /\ StartOf(year) + Into(year, m) + 1 <= n
                                               /\ n < StartOf(year) + Into(year, m) + 1 + LengthOf(m, year)
    BY NumberIs
  <2>2. Within(month)
    BY <1>1, <1>2, <1>3, <2>1
  <2>3. ASSUME NEW m \in DOMAIN Months, Within(m), m # month PROVE FALSE
    <3>1. /\ Into(year, m) \in Nat /\ LengthOf(m, year) \in Nat
          /\ m < month => Into(year, m) + LengthOf(m, year) <= Into(year, month)
          /\ month < m => Into(year, month) + LengthOf(month, year) <= Into(year, m)
      BY MonthsFollow
    <3>2. /\ StartOf(year) + Into(year, m) + 1 <= n
          /\ n < StartOf(year) + Into(year, m) + 1 + LengthOf(m, year)
      BY <2>1, <2>3
    <3>. QED  BY <1>1, <1>2, <1>3, <2>3, <3>1, <3>2
  <2>4. MonthOf(n) = CHOOSE m \in DOMAIN Months : Within(m)
    BY <1>5 DEF MonthOf
  <2>. HIDE DEF Within
  <2>. QED  BY <2>2, <2>3, <2>4
<1>7. DayOfMonth(n) = day
  BY <1>1, <1>2, <1>3, <1>5, <1>6, NumberIs DEF DayOfMonth
<1>. QED
  BY <1>4, <1>5, <1>6, <1>7 DEF n

-----------------------------------------------------------------------------
(***************************************************************************)
(* The clock.                                                              *)
(***************************************************************************)

LEMMA Divided ==
  ASSUME NEW q \in Int, NEW d \in Nat \ {0}, NEW r \in 0 .. d - 1
  PROVE  (q * d + r) \div d = q /\ (q * d + r) % d = r
OBVIOUS

LEMMA Divides ==
  ASSUME NEW a \in Int, NEW d \in Nat \ {0}
  PROVE  a \div d \in Int /\ a % d \in 0 .. d - 1 /\ a = ((a \div d) * d) + (a % d)
<1>1. a \div d \in Int /\ a % d \in 0 .. d - 1
  OBVIOUS
<1>2. a = ((a \div d) * d) + (a % d)
  OBVIOUS
<1>. QED
  BY <1>1, <1>2

LEMMA ApartByOne ==
  ASSUME NEW u \in Int, NEW v \in Int, u < v, NEW d \in Nat \ {0}
  PROVE  u * d \in Int /\ v * d \in Int /\ (v * d) - (u * d) >= d
<1>1. (v - u - 1) * d >= 0
  OBVIOUS
<1>. QED
  BY <1>1

\* Each weekday is once among the days of a week.
LEMMA WeekdayOnce ==
  ASSUME NEW today \in Int, NEW weekday \in 1 .. Week
  PROVE  \E n \in today - Week + 1 .. today :
           /\ WeekdayOf(n) = weekday
           /\ \A k \in today - Week + 1 .. today : WeekdayOf(k) = weekday => k = n
<1>. DEFINE q == today \div Week
            r == today % Week
            n == IF weekday - 1 <= r THEN (q * Week) + (weekday - 1) ELSE ((q - 1) * Week) + (weekday - 1)
<1>1. /\ Week \in Nat \ {0} /\ q \in Int /\ r \in 0 .. Week - 1 /\ today = (q * Week) + r
  BY DateAssumption, Divides
<1>2. weekday - 1 \in 0 .. Week - 1
  BY <1>1
<1>3. n % Week = weekday - 1
  <2>1. CASE weekday - 1 <= r
    BY <1>1, <1>2, <2>1, Divided
  <2>2. CASE ~(weekday - 1 <= r)
    <3>1. q - 1 \in Int
      BY <1>1
    <3>2. (((q - 1) * Week) + (weekday - 1)) % Week = weekday - 1
      BY <1>1, <1>2, <3>1, Divided
    <3>. QED  BY <2>2, <3>2
  <2>. QED  BY <2>1, <2>2
<1>4. (q - 1) * Week = (q * Week) - Week
  BY <1>1
<1>. HIDE DEF q, r
<1>5. q * Week \in Int
  BY <1>1
<1>6. n \in today - Week + 1 .. today
  BY <1>1, <1>2, <1>4, <1>5
<1>7. ASSUME NEW k \in today - Week + 1 .. today, WeekdayOf(k) = weekday PROVE k = n
  <2>1. k \in Int /\ n \in Int
    BY <1>1, <1>6
  <2>2. /\ k \div Week \in Int /\ n \div Week \in Int
        /\ k = ((k \div Week) * Week) + (k % Week) /\ n = ((n \div Week) * Week) + (n % Week)
    BY <1>1, <2>1, Divides
  <2>3. k % Week = n % Week
    <3>1. k % Week \in Int /\ (k % Week) + 1 = weekday
      BY <1>1, <1>7, <2>1, Divides DEF WeekdayOf
    <3>. HIDE DEF n
    <3>. QED  BY <1>3, <3>1
  <2>. DEFINE u == k \div Week
              v == n \div Week
  <2>4. u \in Int /\ v \in Int /\ k - n = (u * Week) - (v * Week) /\ k - n < Week /\ n - k < Week
    <3>1. u * Week \in Int /\ v * Week \in Int /\ k % Week \in Int
      BY <1>1, <2>1, <2>2, Divides
    <3>. QED  BY <1>1, <1>6, <2>1, <2>2, <2>3, <3>1
  <2>. HIDE DEF u, v, n
  <2>5. u * Week \in Int /\ v * Week \in Int /\ u = v
    <3>1. u * Week \in Int /\ v * Week \in Int
      BY <1>1, <2>4
    <3>2. u < v => (v * Week) - (u * Week) >= Week
      BY <1>1, <2>4, ApartByOne
    <3>3. v < u => (u * Week) - (v * Week) >= Week
      BY <1>1, <2>4, ApartByOne
    <3>4. k - n \in Int /\ n - k = 0 - (k - n)
      BY <2>1
    <3>5. ~(u < v)
      BY <1>1, <2>4, <3>1, <3>2, <3>4
    <3>6. ~(v < u)
      BY <1>1, <2>4, <3>1, <3>3, <3>4
    <3>. QED  BY <2>4, <3>1, <3>5, <3>6
  <2>6. k - n = 0
    BY <2>4, <2>5
  <2>. QED  BY <2>1, <2>6
<1>8. WeekdayOf(n) = weekday
  BY <1>1, <1>3 DEF WeekdayOf
<1>. HIDE DEF n
<1>. QED
  BY <1>6, <1>7, <1>8

LEMMA LastDayIs ==
  ASSUME NEW weekday \in 1 .. Week, DayOf(now) \in Int
  PROVE  LastDay(weekday) \in DayOf(now) - Week + 1 .. DayOf(now) /\ WeekdayOf(LastDay(weekday)) = weekday
<1>. DEFINE today == DayOf(now)
            days == {n \in today - Week + 1 .. today : WeekdayOf(n) = weekday}
<1>1. PICK n \in today - Week + 1 .. today :
        /\ WeekdayOf(n) = weekday
        /\ \A k \in today - Week + 1 .. today : WeekdayOf(k) = weekday => k = n
  BY WeekdayOnce
<1>2. n \in days /\ \A k \in days : k = n
  BY <1>1
<1>3. LastDay(weekday) = CHOOSE x \in days : \A y \in days : x >= y
  BY DEF LastDay, Max
<1>4. n >= n
  BY DateAssumption
<1>. HIDE DEF days
<1>5. LastDay(weekday) = n
  BY <1>2, <1>3, <1>4
<1>. QED
  BY <1>1, <1>5

\* An instant shows the day it was made for, and the hour where there is one.
LEMMA InstantShows ==
  ASSUME NEW number \in Int, NEW hour \in 0 .. DayHours - 1
  PROVE  LET instant == Instant(number, hour)
         IN /\ instant \in Int /\ DayOf(instant) = number /\ HourOf(instant) \in 0 .. DayHours - 1
            /\ IsShown(number, hour) => HourOf(instant) = hour
<1>. DEFINE wall == (number * DayHours) + hour
            instant == Instant(number, hour)
<1>1. DayHours \in Nat \ {0} /\ number * DayHours \in Int /\ wall \in Int
  BY DateAssumption
<1>2. wall \div DayHours = number /\ wall % DayHours = hour
  BY <1>1, Divided
<1>. HIDE DEF wall
<1>3. \/ instant \in Int /\ WallHours(instant) = wall
      \/ /\ instant \in Int /\ WallHours(instant) = wall + 1
         /\ wall \in Summer /\ wall - 1 \notin Summer
  <2>1. instant = IF Offset(wall - Offset(wall)) = Offset(wall) THEN wall - Offset(wall)
                  ELSE wall - Offset(wall - Offset(wall))
    BY DEF Instant, wall
  <2>. HIDE DEF instant
  <2>2. CASE wall \notin Summer
    <3>1. Offset(wall) = 0 /\ wall - 0 = wall
      BY <1>1, <2>2 DEF Offset
    <3>2. instant = wall
      BY <2>1, <3>1
    <3>. QED  BY <1>1, <3>1, <3>2 DEF WallHours
  <2>3. CASE wall \in Summer /\ wall - 1 \in Summer
    <3>1. Offset(wall) = 1 /\ Offset(wall - 1) = 1
      BY <2>3 DEF Offset
    <3>2. instant = wall - 1
      BY <2>1, <3>1
    <3>. QED  BY <1>1, <3>1, <3>2 DEF WallHours
  <2>4. CASE wall \in Summer /\ wall - 1 \notin Summer
    <3>1. Offset(wall) = 1 /\ Offset(wall - 1) = 0 /\ wall - 0 = wall
      BY <1>1, <2>4 DEF Offset
    <3>2. instant = wall
      BY <2>1, <3>1
    <3>. QED  BY <1>1, <2>4, <3>1, <3>2 DEF WallHours
  <2>. QED  BY <2>2, <2>3, <2>4
<1>. HIDE DEF instant
<1>4. CASE WallHours(instant) = wall
  BY <1>1, <1>2, <1>3, <1>4 DEF DayOf, HourOf, instant
<1>5. CASE WallHours(instant) = wall + 1 /\ wall \in Summer /\ wall - 1 \notin Summer
  <2>1. hour # DayHours - 1
    BY <1>2, <1>5, ZoneAssumption
  <2>2. hour + 1 \in 0 .. DayHours - 1 /\ wall + 1 = (number * DayHours) + (hour + 1)
    BY <1>1, <2>1 DEF wall
  <2>3. (wall + 1) \div DayHours = number /\ (wall + 1) % DayHours = hour + 1
    BY <1>1, <2>2, Divided
  <2>4. ~IsShown(number, hour)
    <3>1. WallHours(wall) = wall + 1 /\ WallHours(wall - 1) = wall - 1
      BY <1>1, <1>5 DEF WallHours, Offset
    <3>. QED  BY <1>1, <3>1 DEF IsShown, wall
  <2>. QED  BY <1>3, <1>5, <2>2, <2>3, <2>4 DEF DayOf, HourOf, instant
<1>. QED
  BY <1>3, <1>4, <1>5

\* A later instant is not on an earlier day.
LEMMA DaysInOrder ==
  ASSUME NEW i \in Int, NEW k \in Int, DayOf(i) < DayOf(k)
  PROVE  i <= k
<1>. DEFINE a == WallHours(i)
            b == WallHours(k)
<1>1. a \in Int /\ b \in Int /\ a \in {i, i + 1} /\ b \in {k, k + 1}
  BY DEF WallHours, Offset
<1>2. /\ DayHours \in Nat \ {0} /\ a \div DayHours \in Int /\ b \div DayHours \in Int
      /\ a % DayHours \in 0 .. DayHours - 1 /\ b % DayHours \in 0 .. DayHours - 1
      /\ a = ((a \div DayHours) * DayHours) + (a % DayHours) /\ b = ((b \div DayHours) * DayHours) + (b % DayHours)
  BY <1>1, DateAssumption, Divides
<1>3. a \div DayHours < b \div DayHours
  BY DEF DayOf
<1>. HIDE DEF a, b
<1>. DEFINE u == a \div DayHours
            v == b \div DayHours
<1>4. u * DayHours \in Int /\ v * DayHours \in Int /\ (v * DayHours) - (u * DayHours) >= DayHours
  BY <1>2, <1>3, ApartByOne
<1>5. a < b
  <2>. HIDE DEF u, v
  <2>. QED  BY <1>1, <1>2, <1>4 DEF u, v
<1>. QED
  BY <1>1, <1>5

-----------------------------------------------------------------------------
(***************************************************************************)
(* What is read, shape by shape.                                           *)
(***************************************************************************)

\* Today's number, and that its year and the one before it are known.
LEMMA TodayKnown ==
  ASSUME now \in DateStart .. DateEnd
  PROVE  LET today == DayOf(now)
         IN /\ today \in Nat /\ YearOf(today) \in YearsKnown \ {0}
            /\ StartOf(YearOf(today)) < today /\ today <= StartOf(YearOf(today) + 1)
<1>. DEFINE today == DayOf(now)
            w == WallHours(now)
            first == DayNumber(1, 1, 1)
            last == DayNumber(LastYear + 1, 1, 1)
<1>1. /\ w \in Int /\ now <= w /\ w <= now + 1 /\ now \in Nat /\ DayHours \in Nat \ {0} /\ LastYear \in Nat
      /\ DateStart <= now /\ now <= DateEnd
  BY DateAssumption DEF WallHours, Offset
<1>2. /\ today \in Int /\ w % DayHours \in 0 .. DayHours - 1 /\ w = (today * DayHours) + (w % DayHours)
  BY <1>1, Divides DEF DayOf
<1>3. /\ first = StartOf(1) + 1 /\ StartOf(1) \in Nat /\ StartOf(0) = 0
      /\ last = StartOf(LastYear + 1) + 1 /\ StartOf(LastYear + 1) \in Nat
  BY <1>1, NumberIs, YearsFollow, YearsAre, SumsDef DEF StartOf
<1>4. first * DayHours <= now /\ now + 1 < last * DayHours
  <2>1. first * DayHours \in Int /\ last * DayHours \in Int
    BY <1>1, <1>3
  <2>. QED  BY <1>1, <2>1, ClockAssumption, DateAssumption
<1>. HIDE DEF today, w, first, last
<1>5. first <= today
  <2>1. ASSUME today < first PROVE FALSE
    <3>1. (first * DayHours) - (today * DayHours) >= DayHours /\ first * DayHours \in Int /\ today * DayHours \in Int
      BY <1>1, <1>2, <1>3, <2>1, ApartByOne
    <3>. QED  BY <1>1, <1>2, <1>4, <3>1
  <2>. QED  BY <1>2, <1>3, <2>1
<1>6. today < last
  <2>1. ASSUME last <= today PROVE FALSE
    <3>1. last * DayHours \in Int /\ today * DayHours \in Int /\ last * DayHours <= today * DayHours
      <4>1. CASE last = today
        BY <1>1, <1>2, <4>1
      <4>2. CASE last < today
        BY <1>1, <1>2, <1>3, <4>2, ApartByOne
      <4>. QED  BY <1>2, <1>3, <2>1, <4>1, <4>2
    <3>. QED  BY <1>1, <1>2, <1>4, <3>1
  <2>. QED  BY <1>2, <1>3, <2>1
<1>7. /\ YearOf(today) \in YearsKnown
      /\ StartOf(YearOf(today)) < today /\ today <= StartOf(YearOf(today) + 1)
  BY <1>2, <1>3, <1>5, <1>6, YearFound
<1>8. YearOf(today) # 0
  <2>1. ASSUME YearOf(today) = 0 PROVE FALSE
    <3>1. today <= StartOf(1)
      BY <1>7, <2>1
    <3>. QED  BY <1>2, <1>3, <1>5, <3>1
  <2>. QED  BY <2>1
<1>. QED
  BY <1>2, <1>3, <1>5, <1>7, <1>8 DEF today

\* The same date of the year before, or the day after where that year lacks it.
LEMMA AYearBefore ==
  ASSUME NEW year \in YearsKnown \ {0}, NEW month \in DOMAIN Months, NEW day \in 1 .. LengthOf(month, year)
  PROVE  LET n == DayNumber(year - 1, month, day)
         IN /\ n \in Nat /\ n <= StartOf(year) /\ YearOf(n) = year - 1
            /\ day <= LengthOf(month, year - 1) => MonthOf(n) = month /\ DayOfMonth(n) = day
<1>. DEFINE n == DayNumber(year - 1, month, day)
<1>1. year - 1 \in YearsKnown /\ (year - 1) + 1 = year /\ day \in Nat \ {0}
  BY MonthsFollow, DateAssumption DEF YearsKnown
<1>2. CASE day <= LengthOf(month, year - 1)
  <2>1. LengthOf(month, year - 1) \in Nat
    BY <1>1, MonthsFollow
  <2>2. day \in 1 .. LengthOf(month, year - 1)
    BY <1>1, <1>2, <2>1
  <2>. QED  BY <1>1, <2>2, DateIs
<1>3. CASE ~(day <= LengthOf(month, year - 1))
  <2>1. /\ month = LeapMonth /\ day = LengthOf(month, year - 1) + 1
        /\ month + 1 \in DOMAIN Months /\ month # Len(Months)
    BY <1>1, <1>3, DateAssumption DEF LengthOf
  <2>2. 1 \in 1 .. LengthOf(month + 1, year - 1)
    BY <2>1, DateAssumption DEF LengthOf
  <2>3. /\ Into(year - 1, month + 1) = Into(year - 1, month) + LengthOf(month, year - 1)
        /\ Into(year - 1, month) \in Nat /\ LengthOf(month, year - 1) \in Nat
    BY <1>1, <2>1, MonthsFollow
  <2>4. StartOf(year - 1) \in Nat
    BY <1>1, YearsFollow, DateAssumption DEF YearsKnown
  <2>5. n = DayNumber(year - 1, month + 1, 1)
    BY <2>1, <2>3, <2>4, NumberIs
  <2>. QED  BY <1>1, <1>3, <2>1, <2>2, <2>5, DateIs
<1>. QED
  BY <1>2, <1>3

LEMMA HourReadIs ==
  ASSUME NEW t \in Texts, IsTimeOfDay(t.clock)
  PROVE  HourRead(t.clock) \in 0 .. DayHours - 1
BY TextsAssumption, DateAssumption DEF IsTimeOfDay, HourRead

\* An instant of a day shows the hour of a text, where the day has it.
Hours(t, instant) == IsShown(DayOf(instant), HourRead(t.clock)) => HourOf(instant) = HourRead(t.clock)

LEMMA ClockAtShows ==
  ASSUME NEW t \in Texts, IsTimeOfDay(t.clock), NEW number \in Int
  PROVE  LET instant == ClockAt(HourRead(t.clock), number) IN DayOf(instant) = number /\ Hours(t, instant)
BY HourReadIs, InstantShows DEF ClockAt, Hours

LEMMA RelativeDayShows ==
  ASSUME NEW t \in Texts, RelativeDay(t).isDated, DayOf(now) \in Int
  PROVE  /\ t.word \in DOMAIN DayWords /\ t.weekday = 0 /\ t.month = 0
         /\ DayOf(RelativeDay(t).instant) = DayOf(now) + DayWords[t.word] /\ Hours(t, RelativeDay(t).instant)
<1>1. /\ t.word \in DOMAIN DayWords /\ IsClockOnly(t) /\ t.weekday = 0
      /\ RelativeDay(t).instant = ClockAt(HourRead(t.clock), DayOf(now) + DayWords[t.word])
  BY DEF RelativeDay, At, Undated
<1>2. IsTimeOfDay(t.clock) /\ t.month = 0
  BY <1>1 DEF IsClockOnly
<1>3. DayOf(now) + DayWords[t.word] \in Int
  BY <1>1 DEF DayWords
<1>. QED
  BY <1>1, <1>2, <1>3, ClockAtShows

LEMMA WeekdayBeforeShows ==
  ASSUME NEW t \in Texts, WeekdayBefore(t).isDated, DayOf(now) \in Int
  PROVE  /\ t.word = "none" /\ t.weekday # 0 /\ t.month = 0
         /\ LET n == DayOf(WeekdayBefore(t).instant)
            IN WeekdayOf(n) = t.weekday /\ n \in DayOf(now) - Week + 1 .. DayOf(now)
         /\ Hours(t, WeekdayBefore(t).instant)
<1>1. /\ t.word = "none" /\ t.weekday # 0 /\ IsClockOnly(t)
      /\ WeekdayBefore(t).instant = ClockAt(HourRead(t.clock), LastDay(t.weekday))
  BY DEF WeekdayBefore, At, Undated
<1>2. IsTimeOfDay(t.clock) /\ t.month = 0
  BY <1>1 DEF IsClockOnly
<1>3. t.weekday \in 1 .. Week
  BY <1>1, TextsAssumption, DateAssumption
<1>4. /\ LastDay(t.weekday) \in DayOf(now) - Week + 1 .. DayOf(now)
      /\ WeekdayOf(LastDay(t.weekday)) = t.weekday
  BY <1>3, LastDayIs
<1>5. LastDay(t.weekday) \in Int
  BY <1>4, DateAssumption
<1>. QED
  BY <1>1, <1>2, <1>4, <1>5, ClockAtShows

LEMMA BareClockShows ==
  ASSUME NEW t \in Texts, BareClock(t).isDated, DayOf(now) \in Int
  PROVE  /\ t.word = "none" /\ t.weekday = 0 /\ t.month = 0
         /\ DayOf(BareClock(t).instant) = DayOf(now) /\ Hours(t, BareClock(t).instant)
<1>1. /\ t.word = "none" /\ t.weekday = 0 /\ IsClockOnly(t)
      /\ BareClock(t).instant = ClockAt(HourRead(t.clock), DayOf(now))
  BY DEF BareClock, At, Undated
<1>2. IsTimeOfDay(t.clock) /\ t.month = 0
  BY <1>1 DEF IsClockOnly
<1>. QED
  BY <1>1, <1>2, ClockAtShows

LEMMA MissingYearShows ==
  ASSUME NEW t \in Texts, MissingYear(t).isDated, now \in DateStart .. DateEnd
  PROVE  LET year == YearOf(DayOf(now))
             i == MissingYear(t).instant
             n == DayOf(i)
         IN /\ t.month # 0 /\ t.word = "none" /\ t.weekday = 0
            /\ i <= now /\ YearOf(n) \in {year, year - 1}
            /\ IF t.day <= LengthOf(t.month, YearOf(n)) THEN MonthOf(n) = t.month /\ DayOfMonth(n) = t.day
               ELSE n = DayNumber(YearOf(n), t.month, t.day)
            /\ IsShown(DayNumber(year, t.month, t.day), HourRead(t.clock)) => Hours(t, i)
<1>. DEFINE today == DayOf(now)
            year == YearOf(today)
            h == HourRead(t.clock)
            date == DayNumber(year, t.month, t.day)
            first == Instant(date, h)
            i == MissingYear(t).instant
<1>1. /\ t.month # 0 /\ t.word = "none" /\ t.weekday = 0 /\ IsTimeOfDay(t.clock)
      /\ t.day \in 1 .. LengthOf(t.month, year) /\ i = NotInTheFuture(first)
  BY DEF MissingYear, At, Undated
<1>2. t.month \in DOMAIN Months /\ h \in 0 .. DayHours - 1 /\ now \in Int
  BY <1>1, HourReadIs, TextsAssumption, DateAssumption
<1>3. today \in Nat /\ year \in YearsKnown \ {0} /\ StartOf(year) < today
  BY TodayKnown
<1>. HIDE DEF today, year, h
<1>4. date \in Nat /\ YearOf(date) = year /\ MonthOf(date) = t.month /\ DayOfMonth(date) = t.day
  BY <1>1, <1>2, <1>3, DateIs
<1>. HIDE DEF date
<1>5. /\ first \in Int /\ DayOf(first) = date /\ HourOf(first) \in 0 .. DayHours - 1
      /\ IsShown(date, h) => HourOf(first) = h
  BY <1>2, <1>4, InstantShows
<1>. HIDE DEF first, i
<1>6. CASE first <= now
  <2>1. i = first
    BY <1>1, <1>6 DEF NotInTheFuture
  <2>. QED
    BY <1>1, <1>4, <1>5, <1>6, <2>1 DEF Hours, h, date, year, today, i
<1>7. CASE ~(first <= now)
  <2>. DEFINE before == DayNumber(year - 1, t.month, t.day)
  <2>1. i = Instant(before, HourOf(first))
    BY <1>1, <1>4, <1>5, <1>7 DEF NotInTheFuture
  <2>2. /\ before \in Nat /\ before <= StartOf(year) /\ YearOf(before) = year - 1
        /\ t.day <= LengthOf(t.month, year - 1) => MonthOf(before) = t.month /\ DayOfMonth(before) = t.day
    BY <1>1, <1>2, <1>3, AYearBefore
  <2>. HIDE DEF before
  <2>3. /\ i \in Int /\ DayOf(i) = before
        /\ IsShown(before, HourOf(first)) => HourOf(i) = HourOf(first)
    <3>. DEFINE k == HourOf(first)
    <3>1. before \in Int /\ k \in 0 .. DayHours - 1 /\ i = Instant(before, k)
      BY <1>5, <2>1, <2>2
    <3>. HIDE DEF k
    <3>2. /\ i \in Int /\ DayOf(i) = before
          /\ IsShown(before, k) => HourOf(i) = k
      BY <3>1, InstantShows
    <3>. QED  BY <3>2 DEF k
  <2>4. StartOf(year) \in Nat
    BY <1>3, YearsFollow, DateAssumption DEF YearsKnown
  <2>5. DayOf(i) < DayOf(now)
    BY <1>3, <2>2, <2>3, <2>4 DEF today
  <2>6. i <= now
    BY <1>2, <2>3, <2>5, DaysInOrder
  <2>7. IsShown(date, h) => Hours(t, i)
    BY <1>5, <2>3 DEF Hours, h
  <2>. QED
    BY <1>1, <2>2, <2>3, <2>6, <2>7 DEF h, date, year, today, i, before
<1>. QED
  BY <1>6, <1>7

\* A text is dated by one of its shapes.
LEMMA DatedByShape ==
  ASSUME NEW t, Dated(t).isDated, t.exact = 0, t.word \notin {"now", "ago"}
  PROVE  \E shape \in {RelativeDay(t), WeekdayBefore(t), MissingYear(t), BareClock(t)} :
           Dated(t) = shape /\ shape.isDated
<1>. DEFINE dates == {i \in DOMAIN Shapes(t) : Shapes(t)[i].isDated}
            top == CHOOSE i \in dates : \A j \in dates : i <= j
<1>1. dates # {} /\ Dated(t) = Shapes(t)[top]
  BY DEF Dated, Undated
<1>2. DOMAIN Shapes(t) = 1 .. 7
  BY DEF Shapes
<1>3. \E i \in dates : \A j \in dates : i <= j
  BY <1>1, <1>2, SmallestIs
<1>4. top \in dates
  BY <1>3
<1>. HIDE DEF top
<1>5. top \in 1 .. 7 /\ Dated(t) = Shapes(t)[top] /\ Shapes(t)[top].isDated
  BY <1>1, <1>2, <1>4
<1>6. /\ Shapes(t)[1] = Undated /\ Shapes(t)[2] = Undated /\ Shapes(t)[3] = Undated
      /\ Shapes(t)[4] = RelativeDay(t) /\ Shapes(t)[5] = WeekdayBefore(t)
      /\ Shapes(t)[6] = MissingYear(t) /\ Shapes(t)[7] = BareClock(t)
  BY DEF Shapes
<1>7. top \notin {1, 2, 3}
  BY <1>5, <1>6 DEF Undated
<1>8. top \in {4, 5, 6, 7}
  BY <1>5, <1>7
<1>. QED
  BY <1>5, <1>6, <1>8

\* What was read was read of one of the texts, at the hour it still is.
DateInv ==
  /\ now \in DateStart .. DateEnd
  /\ stamp # Blank => stamp \in Texts /\ dated = Dated(stamp)

LEMMA ReadKeepsDate == ASSUME DateInv PROVE ShownDateKept
<1>. SUFFICES ASSUME stamp # Blank, dated.isDated, stamp.exact = 0, stamp.word \notin {"now", "ago"}
              PROVE  ShownDateKept
  BY DEF ShownDateKept
<1>1. stamp \in Texts /\ dated = Dated(stamp) /\ now \in DateStart .. DateEnd /\ DayOf(now) \in Int
  BY TodayKnown DEF DateInv
<1>2. "none" \notin DOMAIN DayWords
  BY DEF DayWords
<1>3. Hours(stamp, dated.instant) => ShowsClock
  BY DEF Hours, ShowsClock
<1>4. CASE dated = RelativeDay(stamp)
  <2>1. /\ stamp.word \in DOMAIN DayWords /\ stamp.weekday = 0 /\ stamp.month = 0
        /\ DayOf(dated.instant) = DayOf(now) + DayWords[stamp.word] /\ Hours(stamp, dated.instant)
    BY <1>1, <1>4, RelativeDayShows
  <2>. QED  BY <1>2, <1>3, <2>1 DEF ShownDateKept
<1>5. CASE dated = WeekdayBefore(stamp)
  <2>1. /\ stamp.word = "none" /\ stamp.weekday # 0 /\ stamp.month = 0
        /\ WeekdayOf(DayOf(dated.instant)) = stamp.weekday
        /\ DayOf(dated.instant) \in DayOf(now) - Week + 1 .. DayOf(now)
        /\ Hours(stamp, dated.instant)
    BY <1>1, <1>5, WeekdayBeforeShows
  <2>. QED  BY <1>2, <1>3, <2>1 DEF ShownDateKept
<1>6. CASE dated = MissingYear(stamp)
  <2>. DEFINE n == DayOf(dated.instant)
              year == YearOf(DayOf(now))
  <2>1. /\ stamp.month # 0 /\ stamp.word = "none" /\ stamp.weekday = 0
        /\ dated.instant <= now /\ YearOf(n) \in {year, year - 1}
        /\ IF stamp.day <= LengthOf(stamp.month, YearOf(n)) THEN MonthOf(n) = stamp.month /\ DayOfMonth(n) = stamp.day
           ELSE n = DayNumber(YearOf(n), stamp.month, stamp.day)
        /\ IsShown(DayNumber(year, stamp.month, stamp.day), HourRead(stamp.clock)) => Hours(stamp, dated.instant)
    BY <1>1, <1>6, MissingYearShows
  <2>2. ShowsClock
    BY <2>1 DEF Hours, ShowsClock
  <2>. QED  BY <1>2, <2>1, <2>2 DEF ShownDateKept
<1>7. CASE dated = BareClock(stamp)
  <2>1. /\ stamp.word = "none" /\ stamp.weekday = 0 /\ stamp.month = 0
        /\ DayOf(dated.instant) = DayOf(now) /\ Hours(stamp, dated.instant)
    BY <1>1, <1>7, BareClockShows
  <2>. QED  BY <1>2, <1>3, <2>1 DEF ShownDateKept
<1>. QED
  BY <1>1, <1>4, <1>5, <1>6, <1>7, DatedByShape

\* What is read of a timestamp is the day and the time of day that the tracker
\* printed (parseUnknownTimeValue), for any calendar and any texts and in any zone
\* whose offset is its standard one or one more.
THEOREM ShownDateKeptAlways == DateSpec => []ShownDateKept
<1>1. DateInit => DateInv
  BY ClockAssumption, DateAssumption DEF DateInit, DateInv
<1>2. ASSUME DateInv, [DateNext]_dateVars PROVE DateInv'
  <2>0. now' = now => \A t : Dated(t)' = Dated(t)
    BY DEF Dated, Shapes, TimeAgo, RelativeDay, WeekdayBefore, MissingYear, BareClock, LastDay, NotInTheFuture
  <2>1. CASE ReadTimestamp
    <3>1. \E t \in Texts : stamp' = t /\ dated' = Dated(t)
      BY <2>1 DEF ReadTimestamp
    <3>2. now' = now
      BY <2>1 DEF ReadTimestamp
    <3>. QED  BY <1>2, <2>0, <3>1, <3>2 DEF DateInv
  <2>2. CASE DateTick
    BY <1>2, <2>2, DateAssumption DEF DateTick, DateInv
  <2>3. CASE UNCHANGED dateVars
    <3>1. now' = now /\ stamp' = stamp /\ dated' = dated
      BY <2>3 DEF dateVars
    <3>. QED  BY <1>2, <2>0, <3>1 DEF DateInv
  <2>. QED  BY <1>2, <2>1, <2>2, <2>3 DEF DateNext
<1>3. DateInv => ShownDateKept
  BY ReadKeepsDate
<1>. QED
  BY <1>1, <1>2, <1>3, PTL DEF DateSpec

=============================================================================
