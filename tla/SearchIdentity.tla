---------------------------- MODULE SearchIdentity ----------------------------
(***************************************************************************)
(* Which searches Jacklet holds to be one search: the key two searches of  *)
(* a tracker share within the de-duplication window, against what each     *)
(* would ask the tracker.                                                  *)
(*                                                                         *)
(* A value of a search is a sequence, the empty one being the empty string:*)
(* a text is the sequence of its words.  A season and an episode are       *)
(* written as a word or as zeros before a number, where "0" is one zero    *)
(* before nothing.  A template is a literal text and the set of variables  *)
(* it writes, so two templates rendered alike send the same text.          *)
(***************************************************************************)
EXTENDS Integers, Sequences, FiniteSets, SequencesExt, TLC, Overlays

CONSTANTS
  Asks,           \* the searches clients make: text, season, ep, categories, Limit, Offset
  Requesters,     \* what a definition builds its requests of: inputs and paths
  AirDays,        \* the words that are the "MM/dd" of a day
  MaxAsks         \* how many searches are followed

\* A season or an episode as a client writes one.
AsWritten == [word : STRING, number : Int, zeros : Nat]

\* What a client writes as text.
TextFields == {"Album", "Artist", "Author", "DoubanID", "Extended", "Genre", "IMDBID", "Label", "Publisher", "Query",
               "Title", "TMDBID", "Track", "TraktID", "TVDBID", "TVMazeID", "TVRageID", "Type", "Year"}

ASSUME AsksAssumption ==
  Asks \subseteq [text : [TextFields -> Seq(STRING)], season : AsWritten, ep : AsWritten,
                  categories : Seq(Int), Limit : Int, Offset : Int]

VARIABLES
  requester,      \* the definition, fixed from the start
  window,         \* the searches within the window: key -> the one put to the tracker
  answered        \* the searches answered, each with the one put to the tracker

identityVars == <<requester, window, answered>>

-----------------------------------------------------------------------------
(***************************************************************************)
(* A search as a definition is given it.                                   *)
(***************************************************************************)

Unsaid == <<>>
Flag(isSet) == IF isSet THEN <<TRUE>> ELSE Unsaid

IsNothing(w) == w.word = "" /\ w.number = 0 /\ w.zeros = 0

\* season: a number without its zeros, none of zero or less, and a word as it is.
SeasonOf(p) ==
  IF p.season.word # "" THEN <<p.season>>
  ELSE IF p.season.number > 0 THEN <<[p.season EXCEPT !.zeros = 0]>> ELSE Unsaid

\* padNumber: a number of at most two digits is written with two.
PadNumber(w) ==
  IF w.word # "" \/ IsNothing(w) \/ w.number \notin 0 .. 99 THEN w
  ELSE [w EXCEPT !.zeros = IF w.number = 0 THEN 2 ELSE IF w.number < 10 THEN 1 ELSE 0]

\* EpisodeSearchString: nothing without a season, the date a daily show was aired,
\* or the season and the episode.
EpisodeOf(p) ==
  LET season == SeasonOf(p)
  IN IF season = Unsaid THEN Unsaid
     ELSE IF season[1].number \in 1000 .. 9999 /\ p.ep.word \in AirDays THEN <<season[1], p.ep>>
     ELSE <<PadNumber(season[1])>> \o (IF IsNothing(p.ep) THEN Unsaid ELSE <<PadNumber(p.ep)>>)

\* The query and the terms sent in parameters of their own.
WordsOf(text) ==
  FlattenSeq([i \in 1 .. 6 |-> text[<<"Query", "Artist", "Album", "Track", "Author", "Title">>[i]]])

\* keywords: those and the episode.
KeywordsOf(p) ==
  IF WordsOf(p.text) = Unsaid /\ EpisodeOf(p) = Unsaid THEN Unsaid ELSE <<WordsOf(p.text), EpisodeOf(p)>>

narrowing == {"IMDBID", "TMDBID", "TVDBID", "TVMazeID", "TVRageID", "TraktID", "DoubanID", "Album",
              "Artist", "Label", "Genre", "Track", "Author", "Title", "Publisher", "Year"}

IsIDSearch(p) == ~IsNothing(p.ep) \/ SeasonOf(p) # Unsaid \/ \E f \in narrowing : p.text[f] # Unsaid

\* What templateQuery renders apart from the page.
Unpaged(p) ==
  LET text(f) == p.text[f]
      isType(t) == text("Type") = <<t>>
  IN LaidOver(p.text,
     [Q             |-> text("Query"),
      Categories    |-> p.categories,
      Ep            |-> IF IsNothing(p.ep) THEN Unsaid ELSE <<p.ep>>,
      Season        |-> SeasonOf(p),
      Episode       |-> EpisodeOf(p),
      Keywords      |-> KeywordsOf(p),
      IMDBIDShort   |-> IF text("IMDBID") # Unsaid /\ Head(text("IMDBID")) = "tt"
                          THEN Tail(text("IMDBID")) ELSE text("IMDBID"),
      IsBookSearch  |-> Flag(isType("book")),
      IsMovieSearch |-> Flag(isType("movie")),
      IsMusicSearch |-> Flag(isType("music")),
      IsSearch      |-> Flag(isType("search")),
      IsTVSearch    |-> Flag(isType("tvsearch")),
      IsDoubanQuery |-> Flag(text("DoubanID") # Unsaid),
      IsGenreQuery  |-> Flag(text("Genre") # Unsaid),
      IsImdbQuery   |-> Flag(text("IMDBID") # Unsaid),
      IsTVRageQuery |-> Flag(text("TVRageID") # Unsaid),
      IsIdSearch    |-> Flag(IsIDSearch(p)),
      IsRssSearch   |-> Flag(KeywordsOf(p) = Unsaid /\ ~IsIDSearch(p))])

\* templateQuery: the page is written only when one was asked for.
TemplateQuery(p) ==
  LaidOver([Limit  |-> IF p.Limit > 0 THEN <<p.Limit>> ELSE Unsaid,
            Offset |-> IF p.Offset > 0 THEN <<p.Offset>> ELSE Unsaid], Unpaged(p))

-----------------------------------------------------------------------------
(***************************************************************************)
(* What a definition asks the tracker.                                     *)
(***************************************************************************)

Rendered(template, query) == <<template.literal, [v \in template.writes |-> query[v]]>>

IsBlank(template, query) == template.literal = "" /\ \A v \in template.writes : query[v] = Unsaid

\* What a block of inputs sends: the blank ones are left out, a raw fragment is
\* added to the form apart from the others.
Sent(def, inputs, query) ==
  [key \in {k \in DOMAIN inputs \ {"$raw"} : def.allowsEmpty \/ ~IsBlank(inputs[k], query)} |->
     Rendered(inputs[key], query)]
RawFragment(inputs, query) ==
  IF "$raw" \in DOMAIN inputs THEN <<Rendered(inputs["$raw"], query)>> ELSE Unsaid

\* pathForm: what the path's own inputs send, over what the shared ones do.
PathForm(def, path, query) ==
  LET shared == IF path.inherits THEN def.inputs ELSE <<>>
  IN <<LaidOver(Sent(def, path.inputs, query), Sent(def, shared, query)),
       RawFragment(shared, query) \o RawFragment(path.inputs, query)>>

RequestsFor(def, p) ==
  [i \in DOMAIN def.paths |->
     <<Rendered(def.paths[i].path, TemplateQuery(p)), PathForm(def, def.paths[i], TemplateQuery(p))>>]

\* The variables written anywhere in a definition's requests.
WrittenBy(def) ==
  LET written(inputs) == UNION {inputs[key].writes : key \in DOMAIN inputs}
  IN written(def.inputs) \union UNION {path.path.writes \union written(path.inputs) : path \in Range(def.paths)}

ASSUME RequestersAssumption ==
  \A def \in Requesters, p \in Asks : WrittenBy(def) \subseteq DOMAIN TemplateQuery(p)

-----------------------------------------------------------------------------
(***************************************************************************)
(* What makes two searches one.                                            *)
(***************************************************************************)

InOneOrder(categories) == SortSeq(categories, <)

\* cacheKey, which ResultKey is too: every text, the season as it is written to
\* the tracker, the categories in one order.
CacheKey(p) == <<p.text, p.ep, SeasonOf(p), InOneOrder(p.categories)>>

WritesPage(template) == {"Limit", "Offset"} \intersect template.writes # {}

\* Variant: only the inputs that paths share are looked at.
PagesByShared(def) ==
  \/ \E key \in DOMAIN def.inputs : WritesPage(def.inputs[key])
  \/ \E path \in Range(def.paths) : WritesPage(path.path)

\* pagesServerSide.
PagesServerSide(def) ==
  \/ \E key \in DOMAIN def.inputs : WritesPage(def.inputs[key])
  \/ \E path \in Range(def.paths) :
       WritesPage(path.path) \/ \E key \in DOMAIN path.inputs : WritesPage(path.inputs[key])

PagingKey(p) == <<p.Limit, p.Offset>>

QueryKey(def, p) == <<CacheKey(p), IF PagesServerSide(def) THEN PagingKey(p) ELSE Unsaid>>

-----------------------------------------------------------------------------
IdentityInit ==
  /\ requester \in Requesters
  /\ window = [key \in {} |-> {}] /\ answered = {}

\* A search within the window of one with its key is answered with what that one
\* found; another is put to the tracker.
AskFor(p) ==
  LET key == QueryKey(requester, p)
      put == IF key \in DOMAIN window THEN window[key] ELSE p
  IN /\ Cardinality(answered) < MaxAsks
     /\ window' = LaidOver([k \in {key} |-> put], window)
     /\ answered' = answered \union {[search |-> p, put |-> put]}
     /\ UNCHANGED requester

\* pruneRecentLocked: the window of a search has passed.
Expire(key) ==
  /\ key \in DOMAIN window
  /\ window' = [k \in DOMAIN window \ {key} |-> window[k]]
  /\ UNCHANGED <<requester, answered>>

IdentityNext == (\E p \in Asks : AskFor(p)) \/ (\E key \in DOMAIN window : Expire(key))

IdentitySpec == IdentityInit /\ [][IdentityNext]_identityVars

-----------------------------------------------------------------------------
\* The search with its categories in one order, which a tracker takes for the same.
InOrder(p) == [p EXCEPT !.categories = InOneOrder(p.categories)]

WithoutPage(p) == [p EXCEPT !.Limit = 0, !.Offset = 0]

\* A search is answered with what was found by asking the tracker what the search
\* itself would have asked, whichever search it was taken to repeat (cacheKey: "two
\* searches share a key only when they would produce the same results"); and where
\* the definition does not write the page, the pages of one search are put to the
\* tracker once (pagingKey: "a request the tracker did not need to serve").
AnsweredAsAsked ==
  /\ \A a \in answered : RequestsFor(requester, InOrder(a.put)) = RequestsFor(requester, InOrder(a.search))
  /\ WrittenBy(requester) \intersect {"Limit", "Offset"} = {}
       => \A k, l \in DOMAIN window : WithoutPage(window[k]) = WithoutPage(window[l]) => k = l

=============================================================================
