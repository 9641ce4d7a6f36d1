---------------------------- MODULE RowExtraction ----------------------------
(***************************************************************************)
(* One mirror's search, from the pages its paths name to the torrents the  *)
(* Sink is handed: scrapeMirror, storeRows, extractFields and torrentFrom. *)
(*                                                                         *)
(* A value is the set of the texts it is made of, each named by the row    *)
(* and the cell it was read from, so the empty set is the empty string and *)
(* joining texts is union.  What a cell holds ("magnet", "link") is the    *)
(* kind of its text.                                                       *)
(***************************************************************************)
EXTENDS Integers, Sequences, SequencesExt

CONSTANTS
  Layouts,       \* what a definition says of its search: paths, after, dates,
                 \* fields, isPublic, matchesAll, imdbModes
  Site,          \* the page of each address: its rows, and whether it counts none
  Searches,      \* what is searched for: site categories, words, ids
  Shown,         \* the text of a row's peer count, as a sequence of characters
  MaxPeers,      \* maxPeerCount
  MaxLong        \* the largest integer of 64 bits

ASSUME LayoutAssumption ==
  /\ MaxPeers \in Nat \ {0}
  /\ \A l \in Layouts :
       /\ l.after \in Nat
       /\ l.paths \in Seq(Range(l.paths)) /\ l.fields \in Seq(Range(l.fields))
       /\ \A i \in DOMAIN l.paths : l.paths[i].address \in DOMAIN Site

\* Texts are named by their row, and no two rows of a page are one.
ASSUME SiteAssumption ==
  \A address \in DOMAIN Site :
    LET rows == Site[address].rows
    IN /\ rows \in Seq(Range(rows))
       /\ \A i, j \in DOMAIN rows : rows[i].id = rows[j].id => i = j
       /\ \A i \in DOMAIN rows : \A cell \in DOMAIN rows[i].cells :
            \A text \in rows[i].cells[cell] : text[1] = rows[i].id

\* The characters that are no digit.
Comma  == 10
Point  == 11
Letter == 12

VARIABLES
  layout, search,   \* the definition and the search, fixed from the start
  pathTurn,         \* the search path whose turn it is
  requestedGETs,    \* the GETs made so far
  pageRows,         \* the rows of the page left to extract
  carried,          \* the date of the last date header
  results,          \* rowData: the fields read of the first of pageRows
  field,            \* the field to read next, 0 when no page is open
  pageFound,        \* the torrents found on the page
  sink              \* every torrent the Sink was handed, with its path

rowVars == <<layout, search, pathTurn, requestedGETs, pageRows, carried, results, field, pageFound, sink>>

NoFields == [name \in {} |-> {}]

RowInit ==
  /\ layout \in Layouts /\ search \in Searches
  /\ pathTurn = 1 /\ requestedGETs = {} /\ pageRows = <<>> /\ carried = {} /\ results = NoFields
  /\ field = 0 /\ pageFound = <<>> /\ sink = <<>>

-----------------------------------------------------------------------------
(***************************************************************************)
(* The pages a search asks for.                                            *)
(***************************************************************************)

\* selectCategories: those a path has in common with the search; a path that
\* declares none takes all, and one that negates runs only with none.
SharedCategories(p) == IF p.categories = {} THEN search.cats ELSE search.cats \intersect p.categories
Runs(p) == p.categories = {} \/ ((SharedCategories(p) # {}) # p.isNegated)

\* The request a path makes: its address, and the categories where its inputs
\* name them.
RequestOf(p) == <<p.address, IF p.sendsCategories THEN SharedCategories(p) ELSE {}>>

\* Variant: a repeated request is made again.
RepeatsNever(p) == FALSE

\* Two paths may build one GET, which is made once.
Repeats(p) == ~p.isPost /\ RequestOf(p) \in requestedGETs

\* applyRowLimits and jsonRowCount: the leading rows that are headers are dropped,
\* and a page that counts no results has none.
RowsOf(answer) ==
  IF answer.countsNone THEN <<>> ELSE SubSeq(answer.rows, layout.after + 1, Len(answer.rows))

\* One search path: skipped, unreachable, or fetched.
StartPath ==
  /\ field = 0 /\ pathTurn <= Len(layout.paths)
  /\ LET p == layout.paths[pathTurn]
     IN IF ~Runs(p) \/ Repeats(p)
          THEN pathTurn' = pathTurn + 1 /\ UNCHANGED <<requestedGETs, pageRows, field>>
          ELSE /\ requestedGETs' = IF p.isPost THEN requestedGETs ELSE requestedGETs \union {RequestOf(p)}
               /\ \/ pathTurn' = pathTurn + 1 /\ UNCHANGED <<pageRows, field>>
                  \/ pageRows' = RowsOf(Site[p.address]) /\ field' = 1 /\ UNCHANGED pathTurn
  /\ UNCHANGED <<layout, search, carried, results, pageFound, sink>>

\* UpsertAllForSearch, once for the page.
StorePage ==
  /\ field > 0 /\ pageRows = <<>>
  /\ sink' = sink \o pageFound
  /\ pathTurn' = pathTurn + 1 /\ field' = 0 /\ pageFound' = <<>> /\ carried' = {}
  /\ UNCHANGED <<layout, search, requestedGETs, pageRows, results>>

-----------------------------------------------------------------------------
(***************************************************************************)
(* The fields of a row.                                                    *)
(***************************************************************************)

alwaysOptional == {"description", "imdbid", "poster", "genre"}

\* isOptional: a field with a modifier is not looked up.
IsOptional(f) ==
  f.isOptional \/ "optional" \in f.modifiers \/ (f.modifiers = {} /\ f.name \in alwaysOptional)

Appends(f) == f.name \in {"title", "description"} /\ "append" \in f.modifiers

\* What ".Result" holds of a field; one never read is empty.
ResultOf(name) == IF name \in DOMAIN results THEN results[name] ELSE {}

\* renderFieldTemplate names only fields that were read before.
IsSet(name) == name = "" \/ name \in DOMAIN results

\* fieldValue and resolveCase: the arms are tried in order.
FirstArm(f, row) == SelectInSeq(f.arms, LAMBDA arm : arm \in DOMAIN row.cells)

IsResolved(f) == f.reads = "text" => IsSet(f.of)

IsMatched(f, row) ==
  CASE f.reads = "cell" -> f.of \in DOMAIN row.cells
    [] f.reads = "case" -> FirstArm(f, row) # 0
    [] OTHER            -> TRUE

ValueRead(f, row) ==
  CASE f.reads = "cell" -> row.cells[f.of]
    [] f.reads = "case" -> {<<row.id, f.arms[FirstArm(f, row)]>>}
    [] OTHER            -> ResultOf(f.of)

\* applyFieldFilters: "append" adds its argument, "blank" leaves nothing, and one
\* that fails is passed over.
FilteredBy(value, f) ==
  CASE f.filter = "append" -> value \union ResultOf(f.argument)
    [] f.filter = "blank"  -> {}
    [] OTHER               -> value

\* readField: the row's value, "unset" when a template names a field that was
\* not read, "missing" when nothing matched.
Read(f, row) ==
  IF ~IsResolved(f) \/ (IsMatched(f, row) /\ ~IsSet(f.argument)) THEN <<"unset", {}>>
  ELSE IF ~IsMatched(f, row) THEN <<"missing", {}>>
  ELSE <<"read", FilteredBy(ValueRead(f, row), f)>>

\* An optional field that comes back empty takes its default, unless a template
\* named what was not read.
Defaulted(f, read) ==
  IF IsOptional(f) /\ read[1] # "unset" /\ read[2] = {} /\ f.default # ""
    THEN ResultOf(f.default) ELSE read[2]

\* setField.
Set(f, value) ==
  [name \in DOMAIN results \union {f.name} |->
     IF name # f.name THEN results[name]
     ELSE IF Appends(f) THEN ResultOf(f.name) \union value ELSE value]

Dropped(next) == pageRows' = Tail(pageRows) /\ results' = next /\ field' = 1

\* extractFields makes rowData anew for each row.
NextFields == NoFields

\* dateHeader: a row that shows a date for those below it, where such rows are.
IsHeader(row) == layout.dates /\ row.header # {}

\* storeRows, for a date header.
ReadHeader ==
  /\ field = 1 /\ pageRows # <<>> /\ IsHeader(Head(pageRows))
  /\ carried' = Head(pageRows).header
  /\ Dropped(NextFields)
  /\ UNCHANGED <<layout, search, pathTurn, requestedGETs, pageFound, sink>>

\* extractFields, one field: a required one that is not there drops the row.
ReadField ==
  /\ field \in 1 .. Len(layout.fields) /\ pageRows # <<>>
  /\ ~IsHeader(Head(pageRows))
  /\ LET f    == layout.fields[field]
         read == Read(f, Head(pageRows))
     IN IF read[1] # "read" /\ ~IsOptional(f)
          THEN Dropped(NextFields)
          ELSE /\ results' = Set(f, Defaulted(f, read)) /\ field' = field + 1
               /\ UNCHANGED pageRows
  /\ UNCHANGED <<layout, search, pathTurn, requestedGETs, carried, pageFound, sink>>

-----------------------------------------------------------------------------
(***************************************************************************)
(* The torrent made of a row.                                              *)
(***************************************************************************)

\* idSearchSupported, of the gates that differ.
IsIdSearch ==
  LET byMovie == "movie" \in layout.imdbModes
      byTV    == "tv" \in layout.imdbModes
  IN \/ search.ids \intersect {"imdb", "douban", "trakt"} # {} /\ (byMovie \/ byTV)
     \/ search.ids \intersect {"tvmaze", "rage"} # {} /\ byTV

\* matchQueryStringAND, of the words that count.
HasEveryWord(row) == search.words \subseteq row.words

\* skipRow and skipByAndMatch.
IsFilteredOut(row) == layout.matchesAll /\ ~IsIdSearch /\ ~HasEveryWord(row)

\* isMagnetURI.
IsMagnetText(value) == value # {} /\ \A text \in value : text[2] = "magnet"

\* coerceLong, of what keepNumeric keeps: both separators group digits, and with
\* both of them the last point is decimal.
KeepNumeric(text)   == SelectSeq(text, LAMBDA c : c # Letter)
Whole(text)  ==
  IF Contains(text, Comma) /\ Contains(text, Point)
    THEN SubSeq(text, 1, SelectLastInSeq(text, LAMBDA c : c = Point) - 1) ELSE text
Number(text) == FoldLeft(LAMBDA n, digit : 10 * n + digit, 0,
                         SelectSeq(Whole(KeepNumeric(text)), LAMBDA c : c < Comma))
CoerceLong(text) == IF Number(text) <= MaxLong THEN Number(text) ELSE 0

\* coercePeerCount.
PeerCount(text) == IF CoerceLong(text) < MaxPeers THEN CoerceLong(text) ELSE 0

\* torrentFrom: a download that is a magnet is the magnet; a magnet is built from
\* an info hash where the tracker's torrents are on the DHT, and a hash is read
\* out of a magnet anywhere.
TorrentOf(row, dated) ==
  LET offered == IF IsMagnetText(ResultOf("download")) THEN ResultOf("download")
                 ELSE IF IsMagnetText(ResultOf("magnet")) THEN ResultOf("magnet") ELSE {}
      hash    == ResultOf("infohash")
      mints   == offered = {} /\ hash # {} /\ layout.isPublic
  IN [row      |-> row.id,
      path     |-> pathTurn,
      title    |-> ResultOf("title"),
      magnet   |-> IF mints THEN hash ELSE offered,
      isMinted |-> mints,
      download |-> IF IsMagnetText(ResultOf("download")) THEN {} ELSE ResultOf("download"),
      infoHash |-> IF hash # {} THEN hash ELSE offered,
      date     |-> dated,
      seeders  |-> PeerCount(Shown[row.id])]

\* The date of a row without one is its header's.
DateOf == IF carried # {} /\ ResultOf("date") = {} THEN carried ELSE ResultOf("date")

\* storeRows, once the row's fields are read.
FinishRow ==
  /\ field = Len(layout.fields) + 1 /\ pageRows # <<>> /\ ~IsHeader(Head(pageRows))
  /\ LET row == Head(pageRows)
     IN pageFound' = IF IsFilteredOut(row) \/ ResultOf("title") = {} THEN pageFound
                ELSE Append(pageFound, TorrentOf(row, DateOf))
  /\ Dropped(NextFields)
  /\ UNCHANGED <<layout, search, pathTurn, requestedGETs, carried, sink>>

RowNext == StartPath \/ StorePage \/ ReadHeader \/ ReadField \/ FinishRow

RowSpec == RowInit /\ [][RowNext]_rowVars

-----------------------------------------------------------------------------
(***************************************************************************)
(* Properties.                                                             *)
(***************************************************************************)

\* The rows a torrent was scraped with: its own, and the headers above it.
PageOf(t) == Site[layout.paths[t.path].address].rows
PlaceOf(t) == CHOOSE i \in DOMAIN PageOf(t) : PageOf(t)[i].id = t.row
HeadersAbove(rows, n) == {i \in layout.after + 1 .. n - 1 : IsHeader(rows[i])}
NearestHeader(rows, n) ==
  LET above == HeadersAbove(rows, n)
  IN IF above = {} THEN {} ELSE rows[CHOOSE i \in above : \A j \in above : j <= i].header
HeaderDate(t) == NearestHeader(PageOf(t), PlaceOf(t))

\* A field reads the row's date, and none after it takes its place.
ReadsDateAt(i) ==
  LET f == layout.fields[i]
  IN /\ f.name = "date" /\ f.reads = "cell" /\ f.of = "date" /\ f.filter # "blank"
     /\ f.argument \in {""} \union {layout.fields[j].name : j \in 1 .. i - 1}
     /\ \A j \in DOMAIN layout.fields : j > i => layout.fields[j].name # "date"
ReadsDate == \E i \in DOMAIN layout.fields : ReadsDateAt(i)

\* No text of one row reaches another row's torrent, though fields are read into
\* one map and refer to each other by name; the date alone comes down from the
\* nearest header above, to rows that show none.
OwnTexts(t) ==
  /\ \A text \in t.title \union t.magnet \union t.download \union t.infoHash : text[1] = t.row
  /\ \A text \in t.date : text[1] = t.row \/ t.date = HeaderDate(t)
  /\ t.date = {} => HeaderDate(t) = {}
  /\ ReadsDate /\ "date" \in DOMAIN PageOf(t)[PlaceOf(t)].cells
       /\ PageOf(t)[PlaceOf(t)].cells["date"] # {} => \A text \in t.date : text[1] = t.row

\* No link is taken for what it is not, and no magnet that the page did not offer
\* is made for a tracker whose torrents are private.
OwnLinks(t) ==
  /\ t.download # {} => ~IsMagnetText(t.download)
  /\ t.magnet # {} /\ ~t.isMinted => IsMagnetText(t.magnet)
  /\ t.isMinted => layout.isPublic

\* The peers are those its own row shows, and never as many as a tracker's
\* placeholder reads as.
OwnPeers(t) == t.seeders = PeerCount(Shown[t.row]) /\ t.seeders < MaxPeers

\* What the Sink is handed is what the tracker's pages show: every release with
\* the texts, links, date and peers of its own row, and none twice for one path,
\* nor for a GET that two paths share.
RowsAsShown ==
  /\ \A i \in DOMAIN sink : OwnTexts(sink[i]) /\ OwnLinks(sink[i]) /\ OwnPeers(sink[i])
  /\ \A i, j \in DOMAIN sink :
       i # j /\ sink[i].row = sink[j].row =>
         LET p == layout.paths[sink[i].path]
             q == layout.paths[sink[j].path]
         IN sink[i].path # sink[j].path /\ (p.isPost \/ q.isPost \/ RequestOf(p) # RequestOf(q))

=============================================================================
