----------------------------- MODULE TorznabQuery -----------------------------
(***************************************************************************)
(* What a request of the Torznab API means: the capabilities it is told    *)
(* of, the trackers it is sent to, the categories they are asked for, and  *)
(* the rows of the catalog that answer it.  TorznabSearch has the scrapes  *)
(* of a search side by side; here each covered tracker answers once, or    *)
(* fails, and what matters is which rows the reply is made of.             *)
(*                                                                         *)
(* A row's name is a set of words and the season and episode it names; a   *)
(* text term is one of the words, and an episode term "S01E02", "S01" or   *)
(* "E02" matches where the LIKE of its text would.                         *)
(***************************************************************************)
EXTENDS Integers, FiniteSets

CONSTANTS
  Definitions,   \* the definitions that loaded: id, type, languages, modes,
                 \* byIMDb and mappings
  Standard,      \* the numbers of standardCategoryIDs
  Listing,       \* what each tracker lists: tracker, site category, name
  Filed,         \* rows of the catalog that no search produced
  Requests       \* what clients may ask

Nothing == -1    \* no season, no episode, no custom category

ASSUME QueryAssumption ==
  /\ Standard \subseteq Nat /\ Nothing \notin Standard
  /\ \A d, e \in Definitions : d.id = e.id => d = e
  /\ \A d \in Definitions : \A m \in d.mappings : m.std \in Standard \union {Nothing}

\* A text names one season and one episode at most, in digits.
ASSUME RequestAssumption ==
  /\ [t |-> "none"] \notin Requests
  /\ \A r \in Requests : \A a, b \in r.written :
       /\ a.s \in Nat \union {Nothing}
       /\ a.s # Nothing /\ b.s # Nothing => a.s = b.s
       /\ a.e # Nothing /\ b.e # Nothing => a.e = b.e

VARIABLES
  asking,        \* the request being answered, or NoRequest
  todo,          \* the covered trackers that have not answered
  catalog,       \* the rows of the store
  page           \* what the last request was answered

queryVars == <<asking, todo, catalog, page>>

NoRequest == [t |-> "none"]
NoPage    == [kind |-> "none", rows |-> {}]

QueryInit == asking = NoRequest /\ todo = {} /\ catalog = Filed /\ page = NoPage

-----------------------------------------------------------------------------
(***************************************************************************)
(* The modes of an indexer and the trackers that can answer a search.      *)
(***************************************************************************)

\* defaultSearchModes.
DefaultModes ==
  [m \in {"search", "tv-search", "movie-search"} |->
     CASE m = "search"       -> {"q"}
       [] m = "tv-search"    -> {"q", "season", "ep", "tvdbid"}
       [] m = "movie-search" -> {"q", "imdbid"}]

\* SearchModes: the modes a definition declares, with the parameters of each.
SearchModes(d) ==
  IF DOMAIN d.modes = {} THEN DefaultModes
  ELSE [m \in DOMAIN d.modes |-> IF d.modes[m] = {} THEN {"q"} ELSE d.modes[m]]

\* indexer.searchModes: the union over the definitions of the indexer.
ModesOf(ds) ==
  [m \in UNION {DOMAIN SearchModes(d) : d \in ds} |->
     UNION {SearchModes(d)[m] : d \in {e \in ds : m \in DOMAIN SearchModes(e)}}]

Advertised == {"music-search", "audio-search", "book-search", "movie-search", "search", "tv-search"}

\* searchingCaps: what each mode is offered with.  The audio mode is offered
\* under one element, music-search if it is there.
Offers(ds) ==
  {<<m, ModesOf(ds)[m]>> :
     m \in {n \in Advertised \intersect DOMAIN ModesOf(ds) :
              n = "audio-search" => "music-search" \notin DOMAIN ModesOf(ds)}}

\* canonicalSearchType, of the spellings ServeHTTP takes for a search.
SearchType(t) ==
  CASE t \in {"tvsearch", "tv-search"} -> "tvsearch"
    [] t \in {"movie", "moviesearch", "movie-search"} -> "movie"
    [] t \in {"music", "musicsearch", "music-search", "audio", "audiosearch", "audio-search"} -> "music"
    [] t \in {"book", "booksearch", "book-search"} -> "book"
    [] t \in {"", "search"} -> "search"
    [] OTHER -> "unknown"

HasMode(d, m)  == m \in DOMAIN SearchModes(d)
Takes(d, m, p) == HasMode(d, m) /\ p \in SearchModes(d)[m]

\* The mode a search needs, when no id decides.
HandlesType(d, type) ==
  CASE type = "tvsearch" -> HasMode(d, "tv-search")
    [] type = "movie"    -> HasMode(d, "movie-search")
    [] type = "music"    -> HasMode(d, "music-search") \/ HasMode(d, "audio-search")
    [] type = "book"     -> HasMode(d, "book-search")
    [] OTHER             -> TRUE

\* handles.
CanAnswer(d, p) ==
  IF "imdbid" \in p.ids
    THEN Takes(d, "movie-search", "imdbid") \/ (p.type = "tvsearch" /\ d.byIMDb)
    ELSE \/ "rid" \in p.ids /\ Takes(d, "tv-search", "rid")
         \/ "tvdbid" \in p.ids /\ Takes(d, "tv-search", "tvdbid")
         \/ HandlesType(d, p.type)

-----------------------------------------------------------------------------
(***************************************************************************)
(* Categories.                                                             *)
(***************************************************************************)

\* ExpandCategoryIDs: a parent category stands for its children, too.
Expanded(cats) ==
  cats \union {id \in Standard : \E c \in cats : c % 1000 = 0 /\ id > c /\ id < c + 1000}

\* customCategoryID: a mapping with a description has a category of its own.
CustomCategory(m) == IF m.isDescribed THEN {100000 + m.site} ELSE {}

\* Whether a mapping is asked for.
Selects(m, wanted) == m.std \in wanted \/ CustomCategory(m) \intersect wanted # {}

\* siteCategoryIDs: the tracker's own categories a search is sent with.
SiteCategories(d, cats) ==
  {m.site : m \in {n \in d.mappings : n.std # Nothing /\ Selects(n, Expanded(cats))}}

\* Variant: a release is filed under its standard categories alone.
MappedToStandard(m) == {m.std}

\* What one mapping files a release under.
MappedTo(m) == {m.std} \union CustomCategory(m)

\* mapCategories: every mapping of the release's category files it.
MapCategories(d, site) ==
  UNION {MappedTo(m) : m \in {n \in d.mappings : n.site = site /\ n.std # Nothing}}

\* indexer.categories: the custom ones are a single tracker's.
CategoriesOf(ds, isMeta) ==
  UNION {{m.std} \union (IF isMeta THEN {} ELSE CustomCategory(m)) :
           m \in {n \in UNION {d.mappings : d \in ds} : n.std # Nothing}}

-----------------------------------------------------------------------------
(***************************************************************************)
(* The parameters of a search.                                             *)
(***************************************************************************)

\* HasSeason: the specials are none.
HasSeason(season) == season > 0

\* EpisodeSearchString, as the term it is; no term without a season.
EpisodeSearched(season, ep) ==
  IF HasSeason(season) THEN {[s |-> season, e |-> ep]} ELSE {}

WrittenSeason(r)  == {term.s : term \in r.written} \ {Nothing}
WrittenEpisode(r) == {term.e : term \in r.written} \ {Nothing}

One(ns, fallback) == IF ns = {} THEN fallback ELSE CHOOSE n \in ns : TRUE

\* The episode as it is searched: a written one loses its zeros, and "E00" is none.
EpisodeRead(r) == IF 0 \in WrittenEpisode(r) THEN Nothing ELSE One(WrittenEpisode(r), r.ep)

\* Variant: the episode as the query wrote it narrows the stored rows even
\* where another parameter completes it.
EpisodeTermsAsWritten(r, season, ep) == r.written

\* interactiveSearch's episodeTerms.
EpisodeTerms(r, season, ep) ==
  IF (HasSeason(season) /\ WrittenSeason(r) = {}) \/ (ep # Nothing /\ WrittenEpisode(r) = {})
    THEN {} ELSE r.written

\* searchParamsFromQuery and searchTerms: the feed takes the text as it is.
FeedParams(r) ==
  [terms |-> r.words, episodes |-> r.written, unsearched |-> EpisodeSearched(r.season, r.ep),
   type |-> SearchType(r.t), ids |-> r.ids, cats |-> r.cats, season |-> r.season, ep |-> r.ep]

\* searchParamsFromQuery, then interactiveSearch: the episode is taken off the
\* text, and what is left of it may be an IMDb id.
InteractiveParams(r) ==
  LET season == One(WrittenSeason(r), r.season)
      ep     == EpisodeRead(r)
      kept   == EpisodeTerms(r, season, ep)
  IN [terms |-> IF r.isIMDb THEN {} ELSE r.words, episodes |-> {},
      unsearched |-> IF kept # {} THEN kept ELSE EpisodeSearched(season, ep),
      type |-> IF r.isIMDb THEN "" ELSE "search",
      ids |-> IF r.isIMDb THEN {"imdbid"} ELSE r.ids,
      cats |-> r.cats, season |-> season, ep |-> ep]

Params(r) == IF r.isJSON THEN InteractiveParams(r) ELSE FeedParams(r)

\* ResultKey: the paging takes no part in it, the season does as it is sent.
ResultKey(p) ==
  [p EXCEPT !.unsearched = {}, !.season = IF HasSeason(@) THEN @ ELSE Nothing]

-----------------------------------------------------------------------------
(***************************************************************************)
(* whereClause: the rows of the catalog that answer a search.              *)
(***************************************************************************)

\* The LIKE of an episode term.
NamesEpisode(row, term) ==
  /\ term.s \in {Nothing, row.s}
  /\ term.e \in {Nothing, row.e}

\* A search with no terms asks by its ids instead, for a row that holds one of
\* them and another value of none.
HoldsId(row, p) ==
  p.terms = {} /\ p.episodes = {} /\ p.ids # {} =>
    row.holds \intersect p.ids # {} /\ row.differs \intersect p.ids = {}

\* The rows a search produced answer that search; those none did answer any
\* that names them.
Matches(row, p, covered, needsCategory) ==
  /\ row.tracker \in covered
  /\ p.terms \subseteq row.words /\ \A term \in p.episodes : NamesEpisode(row, term)
  /\ p.cats # {} => row.cats = {} \/ row.cats \intersect Expanded(p.cats) # {}
  /\ needsCategory => row.cats # {}
  /\ IF row.keys = {}
       THEN (\A term \in p.unsearched : NamesEpisode(row, term)) /\ HoldsId(row, p)
       ELSE ResultKey(p) \in row.keys

-----------------------------------------------------------------------------
(***************************************************************************)
(* The request, from its arrival to the reply.                             *)
(***************************************************************************)

\* filterTerm and healthTerm: whether a term of a filter expression selects d.  A
\* definition's languages are the prefixes of the one it declares; no definition
\* has a tag; a tracker nothing has scraped has not failed.
Selected(d, r, term) ==
  CASE term.name = "lang" -> term.value \in d.languages
    [] term.name = "type" -> term.value = d.type
    [] term.name = "tag"  -> FALSE
    [] term.value \in {"healthy", "passed"} -> d.id \notin r.failing
    [] term.value \in {"failing", "failed"} -> d.id \in r.failing
    [] term.value = "unknown" -> d.id \in r.unscraped

\* filterTerm and healthTerm know the name and the value.
IsTerm(term) ==
  \/ term.name \in {"lang", "type", "tag"}
  \/ term.name = "status" /\ term.value \in {"healthy", "failing", "unknown"}
  \/ term.name = "test" /\ term.value \in {"passed", "failed"}

\* parseIndexerFilter: alternatives of terms that must all select, each of which
\* may be negated.
Filtered(r) ==
  {d \in Definitions :
     \E group \in r.address.groups :
       \A term \in group : Selected(d, r, term) # term.isNegated}

\* authorizedIndexer: the definitions the id in the path stands for.
Addressed(r) ==
  CASE r.address.kind = "all"    -> Definitions
    [] r.address.kind = "filter" -> Filtered(r)
    [] r.address.kind = "one"    -> {d \in Definitions : d.id = r.address.id}

IsKnown(r) ==
  CASE r.address.kind = "all"    -> TRUE
    [] r.address.kind = "filter" -> \A group \in r.address.groups : \A term \in group : IsTerm(term)
    [] r.address.kind = "one"    -> Addressed(r) # {}

\* restrictedTo, for the JSON endpoint's "Tracker[]"; then indexer.handling.
Over(r)      == {d \in Addressed(r) : r.isJSON /\ r.only # {} => d.id \in r.only}
Answering(r) == {d \in Over(r) : CanAnswer(d, Params(r))}

Declines(r) ==
  CASE ~IsKnown(r) -> "notFound"
    [] ~r.isJSON /\ SearchType(r.t) = "unknown" -> "noFunction"
    [] Over(r) # {} /\ Answering(r) = {} -> IF r.isJSON THEN "empty" ELSE "unsupported"
    [] Over(r) = {} -> "empty"
    [] OTHER -> "none"

\* Bound: what is asked of a catalog that a search has filled is that search.
MayAsk(r) == asking = NoRequest /\ (page = NoPage \/ (page.kind = "rows" /\ page.request = r))

\* t=caps.
AskCaps(r) ==
  LET ds == Addressed(r)
  IN /\ MayAsk(r) /\ IsKnown(r)
     /\ page' = [kind |-> "caps", rows |-> {}, offers |-> Offers(ds), over |-> ds,
                 cats |-> CategoriesOf(ds, r.address.kind # "one")]
     /\ UNCHANGED <<asking, todo, catalog>>

\* ServeHTTP or Results, up to the scrapes.
Ask(r) ==
  /\ MayAsk(r)
  /\ IF Declines(r) # "none"
       THEN page' = [kind |-> Declines(r), rows |-> {}] /\ UNCHANGED <<asking, todo>>
       ELSE asking' = r /\ todo' = Answering(r) /\ page' = NoPage
  /\ UNCHANGED catalog

\* What a tracker lists for a search: of the categories it was sent, or all.
Listed(d, p) ==
  {entry \in Listing :
     /\ entry.tracker = d.id
     /\ SiteCategories(d, p.cats) # {} => entry.site \in SiteCategories(d, p.cats)}

\* The row that is stored for an entry.
Row(d, entry, p) ==
  [tracker |-> d.id, words |-> entry.words, s |-> entry.s, e |-> entry.e,
   holds |-> {}, differs |-> {}, cats |-> MapCategories(d, entry.site), keys |-> {ResultKey(p)}]

\* One tracker answers, and its rows are stored, or it cannot be reached.
Scraped(d) ==
  /\ d \in todo
  /\ todo' = todo \ {d}
  /\ \/ catalog' = catalog \union {Row(d, entry, Params(asking)) : entry \in Listed(d, Params(asking))}
     \/ UNCHANGED catalog
  /\ UNCHANGED <<asking, page>>

\* The reply, from the catalog, whatever became of the scrapes.
Reply ==
  LET p == Params(asking)
  IN /\ asking # NoRequest /\ todo = {}
     /\ page' = [kind |-> "rows", request |-> asking,
                 rows |-> {row \in catalog :
                             Matches(row, p, {d.id : d \in Answering(asking)}, ~asking.isJSON)}]
     /\ asking' = NoRequest
     /\ UNCHANGED <<todo, catalog>>

\* The rows scrapes stored are pruned.
PruneAll ==
  /\ asking = NoRequest /\ page # NoPage
  /\ catalog' = Filed /\ page' = NoPage
  /\ UNCHANGED <<asking, todo>>

QueryNext ==
  \/ \E r \in Requests : (r.t = "caps" /\ AskCaps(r)) \/ (r.t # "caps" /\ Ask(r))
  \/ \E d \in Definitions : Scraped(d)
  \/ Reply \/ PruneAll

QuerySpec == QueryInit /\ [][QueryNext]_queryVars

-----------------------------------------------------------------------------
(***************************************************************************)
(* Properties.                                                             *)
(***************************************************************************)

\* The "t" a client sends for a mode it is offered.
TypeOf(m) ==
  CASE m = "tv-search" -> "tvsearch" [] m = "movie-search" -> "movie" [] m = "search" -> "search"
    [] m \in {"music-search", "audio-search"} -> "music" [] m = "book-search" -> "book"

\* A client that takes up what t=caps offers is not refused: a mode, with the ids
\* it is offered with, is answered by one of the trackers behind the indexer (an
\* IMDb id is the movie mode's), and a category it lists is one of theirs.
OffersStand ==
  page.kind = "caps" =>
    LET ds == page.over
    IN /\ \A offer \in page.offers :
            \A ids \in SUBSET (offer[2] \intersect {"rid", "tvdbid", "imdbid"}) :
              ("imdbid" \in ids => offer[1] = "movie-search")
                => \E d \in ds : CanAnswer(d, [type |-> TypeOf(offer[1]), ids |-> ids])
       /\ \A c \in page.cats : \E d \in ds : SiteCategories(d, {c}) # {}

\* And what it then asks for by category and a tracker returns is in the reply, if
\* its name is the one searched: what it is filed under is found by what was
\* asked, though one maps the other's way round.
OffersTaken ==
  /\ OffersStand
  /\ page.kind = "rows" =>
       LET p == Params(page.request)
       IN \A d \in Answering(page.request) : \A entry \in Listed(d, p) :
            /\ SiteCategories(d, p.cats) # {}
            /\ p.terms \subseteq entry.words /\ \A term \in p.episodes : NamesEpisode(entry, term)
            /\ Row(d, entry, p) \in catalog
            => Row(d, entry, p) \in page.rows

\* Taking the episode off the text narrows the rows no search produced as much
\* as the text did: one that answers has every word and the episode the client
\* wrote, and the one it sent apart.  The specials are no season, so "S00" with an
\* episode sent apart narrows nothing, nor does "E00" with a season sent apart.
NarrowedAsWritten ==
  page.kind = "rows" =>
    LET r == page.request
        p == Params(r)
    IN \A row \in page.rows :
         row.keys = {} =>
           /\ r.isIMDb \/ r.words \subseteq row.words
           /\ \A term \in r.written :
                \/ NamesEpisode(row, term)
                \/ term.s = 0 /\ r.ep # Nothing
                \/ term.e = 0 /\ HasSeason(r.season)
           /\ \A term \in EpisodeSearched(p.season, p.ep) : NamesEpisode(row, term)

=============================================================================
