----------------------------- MODULE MCReadings -----------------------------
(***************************************************************************)
(* What the components that read something are given on small instances:   *)
(* requests, links, pages, torrent files, timestamps, login pages, JSON    *)
(* answers and repeated searches.  They share no state with one another or *)
(* with the components of MCComponents, and "part" may name any of them.   *)
(***************************************************************************)
EXTENDS MCComponents, TorznabQuery, TorrentDownload, RowExtraction, BencodeFile, FuzzyDate, FormLogin, JsonRows, SearchIdentity

-----------------------------------------------------------------------------
\* Of the queries.

MCTerm(s, e) == [s |-> s, e |-> e]
MCDefs ==
  {[id |-> "d1", type |-> "public", languages |-> {"en", "en-US"}, modes |-> [m \in {} |-> {}], byIMDb |-> FALSE,
    mappings |-> {[site |-> 1, std |-> 2040, isDescribed |-> TRUE],
                  [site |-> 1, std |-> 2030, isDescribed |-> FALSE],
                  [site |-> 2, std |-> 5000, isDescribed |-> FALSE]}],
   [id |-> "d2", type |-> "private", languages |-> {"de"}, modes |-> ("audio-search" :> {} @@ "tv-search" :> {"q", "rid"}), byIMDb |-> TRUE,
    mappings |-> {[site |-> 1, std |-> 3000, isDescribed |-> TRUE],
                  [site |-> 3, std |-> Nothing, isDescribed |-> TRUE]}],
   [id |-> "d3", type |-> "public", languages |-> {"en"}, modes |-> ("search" :> {} @@ "movie-search" :> {"imdbid"}), byIMDb |-> FALSE,
    mappings |-> {[site |-> 2, std |-> 2000, isDescribed |-> TRUE]}]}
MCStandard == {2000, 2030, 2040, 3000, 5000, 5030}
MCListing ==
  {[tracker |-> t, site |-> site, words |-> w, s |-> 1, e |-> 2] :
     t \in {"d1", "d2", "d3"}, site \in 1 .. 3, w \in {{"w"}}}
MCFiled ==
  {[tracker |-> "d1", words |-> {"w"}, s |-> term.s, e |-> term.e, holds |-> {}, differs |-> {},
    cats |-> {2040}, keys |-> {}] :
       term \in {MCTerm(0, 2), MCTerm(1, 1), MCTerm(1, 2), MCTerm(2, 2), MCTerm(-1, -1)}}
  \union {[tracker |-> "d1", words |-> {}, s |-> s, e |-> 2, holds |-> {"imdbid"},
           differs |-> {"tvdbid"}, cats |-> {}, keys |-> {}] : s \in {1, 2}}
MCOne(id) == [kind |-> "one", id |-> id]
MCAll     == [kind |-> "all"]
MCFilter(name, value, isNegated) == [name |-> name, value |-> value, isNegated |-> isNegated]
MCFilters ==
  {[kind |-> "filter", groups |-> gs] :
     gs \in {{{MCFilter("lang", "en", FALSE), MCFilter("status", "healthy", FALSE)}},
             {{MCFilter("type", "public", TRUE)}, {MCFilter("test", "failed", FALSE)}},
             {{MCFilter("tag", "mine", FALSE)}}, {{MCFilter("status", "good", FALSE)}},
             {{MCFilter("status", "unknown", TRUE)}}}}
MCPlain ==
  [isJSON |-> FALSE, address |-> MCOne("d1"), only |-> {}, failing |-> {"d3"},
   unscraped |-> {"d1"}, t |-> "search", words |-> {}, written |-> {}, season |-> -1,
   ep |-> -1, isIMDb |-> FALSE, ids |-> {}, cats |-> {}]
MCModes ==
  {[MCPlain EXCEPT !.address = a, !.t = t, !.ids = ids] :
     a \in MCFilters \union {MCOne("d1"), MCOne("d2"), MCOne("d4"), MCAll},
     t \in {"caps", "search", "tvsearch", "audio", "movie-search", "book", "register"},
     ids \in {{}, {"imdbid"}, {"rid"}, {"imdbid", "tvdbid"}}}
MCEpisodes ==
  {[MCPlain EXCEPT !.isJSON = j, !.words = w, !.written = x, !.season = s, !.ep = e, !.isIMDb = i] :
     j \in BOOLEAN, w \in {{}, {"w"}}, s \in {-1, 0, 1}, e \in {-1, 2}, i \in BOOLEAN,
     x \in {{}, {MCTerm(1, 2)}, {MCTerm(1, -1)}, {MCTerm(-1, 2)}, {MCTerm(1, -1), MCTerm(-1, 2)},
            {MCTerm(0, -1)}, {MCTerm(-1, 0)}}}
MCCats ==
  {[MCPlain EXCEPT !.isJSON = j, !.address = a, !.only = o, !.cats = c] :
     j \in BOOLEAN, a \in {MCOne("d1"), MCAll}, o \in {{}, {"d2", "d4"}},
     c \in {{2000}, {2040}, {100001}, {5000, 3000}, {8000}}}
MCRequests == MCModes \union {r \in MCEpisodes : r.isIMDb => r.isJSON /\ r.words = {}} \union MCCats

-----------------------------------------------------------------------------
\* Of the downloads.

MCLinks == {[scheme |-> s, host |-> h] : s \in {"http", "https"}, h \in {"tracker", "cdn.tracker", "elsewhere"}}
             \union {[scheme |-> "ftp", host |-> "tracker"]}
MCRows  == {[link |-> l, magnet |-> g] : l \in {[scheme |-> "http", host |-> "tracker"], [scheme |-> "https", host |-> "elsewhere"], BadMagnet, NoLink}, g \in {NoLink, GoodMagnet, BadMagnet}}
MCBlocks == {NoBlock} \union
  {[before |-> "path", isInfoHash |-> TRUE, selectors |-> 0, isTested |-> TRUE],
   [before |-> "selector", isInfoHash |-> FALSE, selectors |-> 2, isTested |-> TRUE],
   [before |-> "none", isInfoHash |-> FALSE, selectors |-> 2, isTested |-> FALSE]}

-----------------------------------------------------------------------------
\* Of the rows.

MCRowField(name, reads, of) ==
  [name |-> name, reads |-> reads, of |-> of, arms |-> <<>>, modifiers |-> {}, isOptional |-> FALSE,
   default |-> "", filter |-> "none", argument |-> ""]
MCRowCell(name) == MCRowField(name, "cell", name)
MCFieldLists ==
  {<<MCRowCell("title"), [MCRowCell("infohash") EXCEPT !.isOptional = TRUE],
     [MCRowCell("magnet") EXCEPT !.isOptional = TRUE], MCRowCell("download"),
     [MCRowCell("date") EXCEPT !.modifiers = {"optional"}]>>,
   <<[MCRowField("kind", "case", "") EXCEPT !.arms = <<"sub", "title">>],
     [MCRowCell("title") EXCEPT !.modifiers = {"append"}, !.filter = "append", !.argument = "kind"],
     [MCRowCell("description") EXCEPT !.default = "title", !.filter = "blank"],
     [MCRowField("download", "text", "poster") EXCEPT !.isOptional = TRUE],
     [MCRowCell("poster") EXCEPT !.filter = "append", !.argument = "infohash"],
     MCRowCell("infohash")>>}
MCSearchPath(address) == [address |-> address, categories |-> {}, isNegated |-> FALSE, sendsCategories |-> FALSE, isPost |-> FALSE]
MCSearchPaths ==
  {<<MCSearchPath("a"), MCSearchPath("a"), [MCSearchPath("b") EXCEPT !.categories = {1}]>>,
   <<[MCSearchPath("a") EXCEPT !.isPost = TRUE], [MCSearchPath("b") EXCEPT !.categories = {1}, !.isNegated = TRUE],
     [MCSearchPath("b") EXCEPT !.sendsCategories = TRUE]>>}
MCLayouts ==
  {[paths |-> p, after |-> a, dates |-> d, fields |-> f, isPublic |-> u, matchesAll |-> m, imdbModes |-> i] :
     p \in MCSearchPaths, a \in {0, 1}, d \in BOOLEAN, f \in MCFieldLists, u \in BOOLEAN, m \in BOOLEAN, i \in {{}, {"tv"}}}
MCText(id, kind) == {<<id, kind>>}
MCRow(id, cells) == [id |-> id, header |-> {}, words |-> {"w"}, cells |-> cells]
MCHeader(id) == [id |-> id, header |-> MCText(id, "day"), words |-> {}, cells |-> [c \in {} |-> {}]]
MCSite ==
  [a |-> [countsNone |-> FALSE, rows |-> <<
     MCHeader("a1"),
     MCRow("a2", [title |-> MCText("a2", "text"), infohash |-> MCText("a2", "hash"), download |-> MCText("a2", "link"), date |-> {}]),
     MCRow("a3", [title |-> MCText("a3", "text"), magnet |-> MCText("a3", "magnet"), download |-> MCText("a3", "link")]),
     MCHeader("a4"),
     [MCRow("a5", [title |-> MCText("a5", "text"), download |-> MCText("a5", "magnet"), date |-> MCText("a5", "date")])
        EXCEPT !.words = {}]>>],
   b |-> [countsNone |-> FALSE, rows |-> <<
     MCRow("b1", [title |-> MCText("b1", "text"), sub |-> {}, infohash |-> {}]),
     MCRow("b2", [title |-> MCText("b2", "text"), sub |-> {}, infohash |-> MCText("b2", "hash"), magnet |-> MCText("b2", "link"),
       poster |-> MCText("b2", "link"), download |-> MCText("b2", "link")])>>]]
MCShown == [id \in {"a2", "a3", "a5", "b1", "b2"} |->
  CASE id = "a2" -> <<1, Comma, 2, 3>> [] id = "a3" -> <<1, Comma, 2, Point, 5>>
    [] id = "a5" -> <<9, 9, 9, 9>> [] id = "b1" -> <<Letter, 4>> [] OTHER -> <<>>]

\* The texts a peer count may be read from, and what a reader takes each for: every
\* digit for its place among those before the decimals, of which there are some only
\* where both separators are.
MCCountTexts == UNION {[1 .. n -> {1, 9, Comma, Point, Letter}] : n \in 0 .. 5}
MCDecimals(text) ==
  {k \in DOMAIN text : {Comma, Point} \subseteq Range(text) /\ \A j \in k .. Len(text) : text[j] # Point}
MCCount(text) ==
  LET digits == {k \in DOMAIN text : text[k] < Comma} \ MCDecimals(text)
  IN MapThenSumSet(LAMBDA k : text[k] * 10 ^ Cardinality({j \in digits : j > k}), digits)
ASSUME CountsAsShown ==
  \A text \in MCCountTexts : PeerCount(text) = IF MCCount(text) < MaxPeers THEN MCCount(text) ELSE 0

MCSearches == {[cats |-> c, words |-> {"w"}, ids |-> i] : c \in {{}, {1, 2}, {2}}, i \in {{}, {"douban"}}}

-----------------------------------------------------------------------------
\* Of the identity of searches.

MCWord(w, n, z) == [word |-> w, number |-> n, zeros |-> z]
MCNone == MCWord("", 0, 0)
MCAsk(text, season, ep) ==
  [text |-> text @@ [f \in TextFields |-> <<>>], season |-> season, ep |-> ep, categories |-> <<>>, Limit |-> 0, Offset |-> 0]
MCBrowse == MCAsk(<<>>, MCNone, MCNone)
MCAsks ==
  {MCAsk("Query" :> <<"x">>, s, e) :
     s \in {MCNone, MCWord("", 1, 0), MCWord("", 1, 1), MCWord("", 0, 1), MCWord("", -1, 0), MCWord("", 2024, 0), MCWord("Extra", 0, 0)},
     e \in {MCNone, MCWord("", 2, 0), MCWord("", 2, 1), MCWord("03/15", 0, 0)}}
  \union {MCAsk(f :> <<"x">>, MCNone, MCNone) : f \in {"Artist", "Title", "Year", "TVDBID", "DoubanID", "Genre", "TVRageID"}}
  \union {MCAsk("IMDBID" :> i @@ "Type" :> <<t>>, MCNone, MCNone) : i \in {<<"tt", "1">>, <<"1">>}, t \in {"movie", "search"}}
  \union {[MCBrowse EXCEPT !.Limit = l, !.Offset = o] : l \in {0, 100}, o \in {0, 100, 200}}
  \union {[MCBrowse EXCEPT !.categories = c] : c \in {<<2000, 5000>>, <<5000, 2000>>, <<2000>>}}
MCWrites(literal, vars) == [literal |-> literal, writes |-> vars]
MCRequester(inputs, paths) == [inputs |-> inputs, paths |-> paths, allowsEmpty |-> FALSE]
MCAsksAt(path, inputs, inherits) == [path |-> path, inputs |-> inputs, inherits |-> inherits]
MCBrowsed == MCAsksAt(MCWrites("browse", {}), <<>>, TRUE)
MCRequesters ==
  {MCRequester("q" :> MCWrites("", {"Keywords"}) @@ "cat" :> MCWrites("", {"Categories"}), <<MCBrowsed>>),
   [MCRequester("imdb" :> MCWrites("tt", {"IMDBIDShort"}) @@ "s" :> MCWrites("", {"Season"}) @@ "e" :> MCWrites("", {"Ep"}),
                <<MCBrowsed, MCAsksAt(MCWrites("rss", {"IsRssSearch", "IsIdSearch"}), "t" :> MCWrites("", {"IsMovieSearch"}), FALSE)>>)
      EXCEPT !.allowsEmpty = TRUE],
   MCRequester("from" :> MCWrites("", {"Offset"}), <<MCBrowsed>>),
   MCRequester("q" :> MCWrites("", {"Q", "Title"}) @@ "$raw" :> MCWrites("y=", {"Year"}), <<MCBrowsed, MCAsksAt(MCWrites("more", {}), "n" :> MCWrites("", {"Limit"}), TRUE)>>),
   MCRequester(<<>>, <<MCAsksAt(MCWrites("page", {"Episode", "Offset", "IsDoubanQuery", "IsGenreQuery", "IsImdbQuery", "IsTVRageQuery"}), <<>>, TRUE)>>)}

-----------------------------------------------------------------------------
\* Of the torrent files.

MCTokens == {Opening("d"), Opening("l"), Ending, Text(1, 0), Text(2, 1), Integer(FALSE, <<7>>)}
MCOdd == {Text(3, 2), Junk, Integer(FALSE, <<>>), Integer(TRUE, <<0>>), Integer(FALSE, <<0, 1>>), Integer(FALSE, <<0>>),
          Integer(TRUE, <<1, 2, 8>>), Integer(FALSE, <<1, 2, 8>>), Integer(FALSE, <<1,0,0,0>>)}
MCBodies ==
  UNION {{<<Opening("d")>> \o s : s \in [1 .. n -> MCTokens]} : n \in 0 .. 5}
  \union {<<Opening("d"), Text(2, 0), odd, Text(1, 1)>> \o rest : odd \in MCOdd,
            rest \in {<<Ending>>, <<Opening("d"), Text(2, 0), Text(1, 0), Text(1, 0), Integer(FALSE, <<0>>), Ending, Ending, Junk>>,
                      <<Cut>>, <<Opening("l"), Opening("l"), Opening("d"), Ending, Ending, Ending, Ending>>}}

-----------------------------------------------------------------------------
\* Of the dates.

MCMonths == <<7, 6>>
MCClocks == {NoClock, NotAClock} \union {Clock(h) : h \in 0 .. 3}
MCAgo(n, u) == [number |-> n, unit |-> u]
MCTexts ==
  {[Blank EXCEPT !.exact = 70]} \union
  {[Blank EXCEPT !.word = w, !.clock = c] : w \in {"today", "yesterday", "tomorrow", "ago", "now"}, c \in MCClocks}
  \union {[Blank EXCEPT !.weekday = d, !.clock = c] : d \in 1 .. 7, c \in MCClocks}
  \union {[Blank EXCEPT !.month = 1, !.day = d, !.clock = c] : d \in {1, 3, 6, 8}, c \in MCClocks}
  \union {[Blank EXCEPT !.month = 2, !.day = d, !.clock = c] : d \in {1, 6}, c \in MCClocks}
  \union {[Blank EXCEPT !.clock = Clock(h)] : h \in 0 .. 3}
  \union {[Blank EXCEPT !.word = w, !.pairs = p] : w \in {"ago", "none", "today"},
            p \in {<<MCAgo(1, "day")>>, <<MCAgo(1, "day"), MCAgo(2, "hour")>>, <<MCAgo(1, "fortnight")>>}}
MCSummer == 78 .. 125
MCUnits == [hour |-> 1, day |-> 4, week |-> 28]

-----------------------------------------------------------------------------
\* Of the sign-ins.

MCInput(name, value) ==
  [name |-> name, value |-> value, type |-> "text", isDisabled |-> FALSE, isChecked |-> FALSE, form |-> 1,
   matches |-> {name}]
MCBox(name, value, isChecked) == [MCInput(name, value) EXCEPT !.type = "checkbox", !.isChecked = isChecked]
MCLoginForms == <<[matches |-> {"form", "#login"}, action |-> "takelogin"], [matches |-> {"form", "#search"}, action |-> ""]>>
MCPages ==
  {[forms |-> f, inputs |-> i, reads |-> r] :
     f \in {MCLoginForms, Reverse(MCLoginForms), <<>>},
     i \in {<<MCInput("username", ""), [MCInput("password", "old") EXCEPT !.matches = {"#pass", "#other"}],
              MCBox("keep", "1", FALSE), MCBox("keep", "2", TRUE), MCBox("keep", "3", FALSE), MCInput("token", "t"),
              [MCInput("q", "") EXCEPT !.form = 2]>>,
            <<[MCInput("username", "") EXCEPT !.matches = {"#pass"}, !.form = 2], [MCInput("password", "x") EXCEPT !.isDisabled = TRUE],
              [MCInput("", "y") EXCEPT !.matches = {"#other"}]>>},
     r \in {Empty, "#csrf" :> "c"}}
MCLoginBlock ==
  [method |-> "form", inputs |-> "username" :> "me" @@ "password" :> "secret", cookie |-> <<>>, cookies |-> <<>>,
   bySelector |-> FALSE, selectorInputs |-> Empty, form |-> "form", path |-> "login", submitPath |-> "", errors |-> <<>>]
MCToken(isOptional, isResolved) == [selector |-> "#csrf", isOptional |-> isOptional, isResolved |-> isResolved]
MCKeyed == {"username" :> "me" @@ "password" :> "secret", "username" :> "me" @@ "#pass" :> "",
            "#pass" :> "a" @@ "#other" :> "b", "password" :> "" @@ "username" :> "me", "#none" :> "a"}
MCCookie(name) == [name |-> name, value |-> "v"]
MCLogins ==
  {[MCLoginBlock EXCEPT !.inputs = i, !.bySelector = b, !.selectorInputs = s, !.form = f, !.submitPath = p,
                        !.cookies = <<MCCookie("js"), MCCookie("")>>, !.errors = <<"", ".err">>] :
     i \in MCKeyed, b \in BOOLEAN, f \in {"form", "#search"}, p \in {"", "go"},
     s \in {Empty, "token" :> MCToken(FALSE, TRUE), "token" :> MCToken(TRUE, TRUE), "x" :> MCToken(TRUE, FALSE)}}
  \union {[MCLoginBlock EXCEPT !.method = "cookie", !.cookie = c] : c \in {<<>>, <<MCCookie("")>>, <<MCCookie("uid"), MCCookie("")>>}}
  \union {[MCLoginBlock EXCEPT !.method = m, !.cookies = <<MCCookie("js")>>] : m \in {"get", "post"}}

-----------------------------------------------------------------------------
\* Of the JSON.

MCKeyOrder == <<"a", "b", "c", "data", "down", "error", "free", "hash", "name", "promo", "torrents">>
MCTree(path, filters) == [isUp |-> FALSE, path |-> path, filters |-> filters]
MCHas(tree) == [name |-> "has", tree |-> tree]
MCNot(tree) == [name |-> "not", tree |-> tree]
MCSays(text) == [name |-> "contains", text |-> text]
MCJSONTorrent(h) == Object("hash" :> Scalar(h) @@ "free" :> Scalar("1"))
MCItem == Object("name" :> Scalar("x") @@ "torrents" :> Array(<<MCJSONTorrent("h1"), Null, MCJSONTorrent("h2")>>)
                 @@ "promo" :> Object("down" :> Scalar("0")))
MCBare == Object("name" :> Scalar("y") @@ "torrents" :> Null)
MCObjectItem == Object("name" :> Scalar("z") @@ "torrents" :> Object("b" :> MCJSONTorrent("h3") @@ "a" :> MCJSONTorrent("h4") @@ "c" :> Scalar("5")))
MCDocuments ==
  {Object("data" :> Array(<<MCItem, MCBare, MCObjectItem>>)), Object("data" :> MCObjectItem), Object("data" :> Null),
   Object("error" :> Scalar("none")), Array(<<MCObjectItem, MCItem>>), Null}
MCFilterSets ==
  {<<>>, <<MCHas(MCTree(<<Key("torrents"), Key("a")>>, <<>>))>>, <<MCNot(MCTree(<<Key("promo"), Key("down")>>, <<MCSays("0")>>))>>,
   <<MCHas(MCTree(<<Key("torrents")>>, <<>>)), MCSays("h3")>>,
   <<MCNot(MCTree(<<Key("torrents")>>, <<MCHas(MCTree(<<Key("a")>>, <<>>)), MCSays("h4")>>))>>}
MCRowSpecs ==
  {[path |-> p, filters |-> MCTree(<<>>, f), attribute |-> a, isMultiple |-> m, missingIsNone |-> n] :
     p \in {<<Key("data")>>, <<>>}, f \in MCFilterSets, a \in {<<>>, <<Key("torrents")>>}, m \in BOOLEAN, n \in BOOLEAN}
MCFieldTrees ==
  {MCTree(<<Key("hash")>>, <<>>), MCTree(<<Key("torrents"), Index(0), Key("hash")>>, <<>>),
   [MCTree(<<Key("name")>>, <<MCNot(MCTree(<<>>, <<MCSays("y")>>))>>) EXCEPT !.isUp = TRUE],
   MCTree(<<>>, <<MCHas(MCTree(<<Key("torrents")>>, <<MCHas(MCTree(<<Index(2)>>, <<>>))>>)), MCNot(MCTree(<<Key("free")>>, <<MCSays("0")>>))>>),
   MCTree(<<>>, <<MCHas(MCTree(<<>>, <<MCNot(MCTree(<<Key("free")>>, <<>>)), MCSays("h3")>>))>>),
   MCTree(<<Key("free")>>, <<MCSays("1"), [name |-> "nth", tree |-> MCTree(<<Key("q")>>, <<>>)]>>)}

-----------------------------------------------------------------------------
\* Every reading at its beginning, one instance of each of the others that have several.
ReadingsInit ==
  /\ MCInit
  /\ \/ part = "rows"
     \/ part # "rows" /\ layout = (CHOOSE x \in Layouts : TRUE) /\ search = (CHOOSE x \in Searches : TRUE)
  /\ \/ part = "sign-in"
     \/ part # "sign-in" /\ login = (CHOOSE x \in Logins : TRUE) /\ loginPage = (CHOOSE x \in Pages : TRUE)
  /\ \/ part = "json"
     \/ part # "json" /\ rowSpec = (CHOOSE x \in RowSpecs : TRUE) /\ fieldTree = (CHOOSE x \in FieldTrees : TRUE)
  /\ \/ part = "identity"
     \/ part # "identity" /\ requester = (CHOOSE x \in Requesters : TRUE)
  /\ QueryInit /\ DownloadInit /\ BencodeInit /\ DateInit /\ RowInit /\ LoginInit /\ JSONInit /\ IdentityInit

readingVars == <<queryVars, downloadVars, rowVars, bencodeVars, dateVars, loginVars, jsonVars, identityVars>>

\* A step of the component or the reading that part names.
ReadingsNext ==
  \/ MCNext /\ UNCHANGED readingVars
  \/ /\ UNCHANGED MCVars
     /\ \/ part = "query" /\ QueryNext
           /\ UNCHANGED <<downloadVars, rowVars, bencodeVars, dateVars, loginVars, jsonVars, identityVars>>
        \/ part = "download" /\ DownloadNext
           /\ UNCHANGED <<queryVars, rowVars, bencodeVars, dateVars, loginVars, jsonVars, identityVars>>
        \/ part = "rows" /\ RowNext
           /\ UNCHANGED <<queryVars, downloadVars, bencodeVars, dateVars, loginVars, jsonVars, identityVars>>
        \/ part = "torrent file" /\ BencodeNext
           /\ UNCHANGED <<queryVars, downloadVars, rowVars, dateVars, loginVars, jsonVars, identityVars>>
        \/ part = "date" /\ DateNext
           /\ UNCHANGED <<queryVars, downloadVars, rowVars, bencodeVars, loginVars, jsonVars, identityVars>>
        \/ part = "sign-in" /\ SignInNext
           /\ UNCHANGED <<queryVars, downloadVars, rowVars, bencodeVars, dateVars, jsonVars, identityVars>>
        \/ part = "json" /\ JSONNext
           /\ UNCHANGED <<queryVars, downloadVars, rowVars, bencodeVars, dateVars, loginVars, identityVars>>
        \/ part = "identity" /\ IdentityNext
           /\ UNCHANGED <<queryVars, downloadVars, rowVars, bencodeVars, dateVars, loginVars, jsonVars>>

ReadingsSpec == ReadingsInit /\ [][ReadingsNext]_<<MCVars, readingVars>>

=============================================================================
