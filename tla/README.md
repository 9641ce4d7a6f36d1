# Jacklet in TLA+

Jacklet is a Torznab proxy: a client asks it for releases over HTTP, it asks
the trackers described by Cardigann definitions, keeps what they answer in a
SQLite file, and answers the client from that file. This directory holds TLA+
modules that model its concurrent and stateful parts and the readings whose
boundary cases are hard, TLC configurations that check them on small instances,
and proofs that TLAPS checks.

Paths below are relative to `src/`.

## 1. The system and its parts

```
HTTP client ── pkg/torznab ──> Scraper.Scrape (pkg/scraper) ──> tracker
                  │                 │      └── FlareSolverr (a browser, outside)
                  │                 └──Sink──> pkg/database (SQLite)
                  └──── Catalog.Search ───────────┘
operator ──── pkg/admin ──> settings files, login state, ClearTracker
cmd/jacklet: start, prune loop, shutdown, log rotation, Windows service
```

| Part | Code | State | What is hard | What makes it correct | Modules |
|---|---|---|---|---|---|
| Scrape scheduling | `pkg/scraper/scraper.go` planScrape, finishScrape, Scrape | per tracker: failures, nextAllowed, recent, inFlight | calls of many clients interleave; waits end with their client; failures while slots are reserved; which searches are one | slots spaced, backoff and repeats honoured, a follower gets the outcome of a fetch of its own search, every call returns; a search is answered with what it would have asked | `ScrapeScheduler`, `CoalescedSearch`, `SearchIdentity` |
| FlareSolverr sessions | `scraper.go` flareSessionFor … scrapeWithFlareSolverr, Close | per tracker: session name, failures, last use, one slot | commands are sent with the lock released; FlareSolverr restarts; requests are canceled while the browser still works | one request per tab, no session evicted in use, none forgotten without being destroyed, limit respected | `FlareSessions` |
| Login state | `login.go`, `status.go` | validUntil per tracker, cookies | the login lives in a session that can go at any time; a page's form, tokens and named inputs | an evicted or retired session takes its login with it; a login posts what a browser would | `FlareSessions`, `RequestPacing`, `FormLogin` |
| Request pacing, mirrors | `requestdelay.go`, `scraper.go` Scrape's loop, scrapeMirror | a turn and the time of the last answer | a turn given back on every path; which error judges the tracker | one request at a time with the gap; a queue wait never hides a failure; every scrape ends | `RequestPacing` |
| Definitions | `store.go`, `definitions.go`, `categories.go` | cache per file: size, time, last good definition | files change, break and vanish while served | last good copy served, and no older one | `DefinitionStore`, `TorznabQuery` |
| Settings files | `config.go`, `pkg/admin/handlers.go` | one file per tracker and replaced id | save against save, save against scrape, a crash | a reader sees one save whole; a save takes effect | `TrackerSettings` |
| Row extraction | `scraper.go` scrapeMirror … torrentFrom, `rows.go`, `fuzzytime.go`, `filters.go`, … | the fields read of a row | fields that name one another, date headers, repeated requests, nested selectors, dates without a year | each result is the row's own, dates and counts as shown | `RowExtraction`, `JsonRows`, `FuzzyDate` |
| Downloads | `download.go`, `downloadblock.go`, `pkg/torznab/download.go`, `bencode.go` | cookies and logins used | redirects, links read off pages, a lapsed login; a file that is rewritten | requests go only to the tracker, but for the redirects of a release's page; the file served says what the tracker's says | `TorrentDownload`, `BencodeFile` |
| Torrent store | `pkg/database` | tables torrents and torrent_searches | batches interleave with scrapes; count and page are two statements | a keyed search returns only what that search produced; sweeps finish and delete only what they should | `TorrentStore` |
| Torznab search | `pkg/torznab/torznab.go`, `aggregate.go`, `interactive.go`, `indexerfilter.go` | none of its own | concurrent scrapes, semaphore, stale answers; categories mapped both ways | an error only when the client is left with nothing; what was offered can be asked for and found | `TorznabSearch`, `TorznabQuery` |
| Admin panel | `pkg/admin` | sessions, sign-in limiter | expiry, concurrent sign-ins, addresses behind a proxy | attempts spaced, ended sessions refused | `AdminPanel`, `TrackerSettings` |
| Lifecycle | `cmd/jacklet/main.go`, `service_windows.go` | how far run is, sweep, requests | order of closing with requests still running, failing at any point of a start | nothing uses what is closed; a stop ends | `ServerProcess` |
| Log rotation | `cmd/jacklet/logfile.go` | file, size, generations | every call can fail or be the last | no line and no generation lost needlessly | `LogRotation` |
| Windows service | `cmd/jacklet/servicecontrol_windows.go`, `bootstrap_windows.go` | the service, registry values, the installer's password | commands cut off anywhere, a service that restarts under a stop | what is left can be removed; the password is not lost | `WindowsService` |

`PROJECT.json` lists every part with what is modelled of it, every definition
with the lines it models, and every hazard with the line where it bites.

## 2. Modules

The modules named `…_proofs` hold theorems (section 4): six are about the module
they are named after, `Components_proofs` is about the components that
`MCComponents` composes, and `Readings_proofs` about `SearchIdentity`,
`TorznabQuery`, `RowExtraction`, `TorrentDownload`, `FormLogin` and `FuzzyDate`.
`Overlays` holds one operator, `maps.Copy` onto a map, which `SearchIdentity` and
`FormLogin` share. The `MC…` modules hold instances. `MCComponents`, `MCEndings` and
`MCReadings`, which extends the first of them, each check several components that
share no state: a variable `part` says which one a behaviour is of, and the others
stay as they began, so the states are those of the components one by one and not
of their product.

### ScrapeScheduler and CoalescedSearch

One element of `Requests` is one call of `Scrape`. `failures`, `nextAllowed`,
`recent` and `inFlight` are the fields of `scrapeState`; nothing in the code
reads another tracker's entry, so the module has one tracker. A flight is named
after the call that made it, because exactly one does. `planScrape` and
`finishScrape` hold `scrapeStateMu` from beginning to end and are one step
each. Between them a leader sleeps (`Wake`, `AbandonWait`) and scrapes
(`EndScrape`, with any outcome, since nothing the scrape does touches this
state); a follower waits (`Return`, `StopFollowing`). `Tick` moves the clock by
one and never in step with anything else, so timers fire late and many steps
share an instant. `slot`, `ended` and `backoffUntil` record history for the
properties; `slot` is also the end of a leader's sleep.

Left out: the torrents a flight carries (followers are given the same slice as
the outcome), the `hasWarned` flags, and the branch of `finishScrape` for a
tracker with no entry, which no call can reach because `planScrape` made the
entry. A definition is taken to have search paths and valid links; without them
`Scrape` returns before it touches any state.

`CoalescedSearch` says what callers may rely on, with no clock and no failure
account: a caller is refused or attached to a fetch of its own search, there is
at most one such fetch at a time, and its outcome goes to everyone who was
waiting. The refinement mapping (`Promise`) reads `fetching` from the leading
calls, `want` from the calls that have not returned, and `owed` from the flights
already published. `TorznabSearch` uses the same promise from above.

### SearchIdentity

What `ScrapeScheduler` takes for granted: that two searches with one key are one
search. A search is its texts, the season and the episode as they were written,
the categories and the page; a definition is the variables each of its paths and
inputs writes. `CacheKey`, `PagingKey` and `PagesServerSide` make the key,
`TemplateQuery`, `PathForm` and `RequestsFor` render what the tracker would be
asked. `AskFor` answers a search from the one with its key within the window, or
puts it to the tracker; `Expire` ends a window at any time.

### FlareSessions

A worker is a goroutine that runs scrapes one after another; a scrape signs in
first when the login is not fresh (`phase` "test", "login", "verify") and then
searches. Every hold of `flareSessionsMu` or `loginStateMu` is one step and so
is every command to FlareSolverr (`VerifySession`, `CreateSession`, `Send`, the
destroys), because the code holds no lock while it talks to it. `holder` is the
one-element channel `flareSession.slot`.

FlareSolverr is external. It is modelled by what Jacklet's comments rely on: it
forgets everything when it restarts; a request naming a session it does not
hold makes a fresh, signed-out one of that name; one session is one tab; it
takes no lock. `busy` are the tabs being driven, which may outlast the request
that drove them when that was canceled (`TabFinishes`).

Abstractions: a scrape asks one mirror for one path and the definition has no
`requestDelay`; every tracker here declares a login, with a test block or
without (`Tested`); `LoginLapses` stands for the end of a login's validity and
for `InvalidateLogin` from the panel; a session whose name is lost with an
unanswered create or destroy drops out of the model, and the name may be used
again once nobody holds it. `lastUsed` is kept as a rank.

### RequestPacing

The scrapes of one tracker between their slot and their end. A scrape goes
through its mirrors (`StartMirror`, `NextMirror`, `EndMirror`), on each of them
through the requests of `ensureLoggedIn` for the login method, and through its
search paths (`NextPath`). Every request takes its place in the line (`Join`),
gets the one-element channel `turn` (`TakeTurn`), sleeps for what is left of the
gap (`Wake`), asks (`Ask`) and leaves (`LeaveLine`, in which the time of the
answer is written when the line is left). A context ends anywhere (`Expire`);
a request that waits then fails as a queue wait, every other as the tracker's
failure. `TrackerError` is `trackerError`. `since` counts up to `Gap`, so no
clock is needed. `failed`, `late` and `quiet` are history.

### FormLogin

One sign-in, from the inputs a definition declares to what is posted. The page
is the inputs of its forms in order and what its selectors match; maps of the
code that are iterated in any order are looked up in any order here (`NameInput`,
`ReadOff`). A page that cannot be had, or has no form, ends the sign-in with nothing
posted (`LoadPage`). `Fill` is the form as it is submitted over what the page's form
carries. What the form sends is a recursive function over its inputs
(`AdoptedOf`), one step of it an iteration of the code's loop.

### DefinitionStore

A lookup is `List`, `Inspect` for each file, `ReadFile`, and `Finish`, all under
`s.mu`; the operator's edits fall between them and change a file's stamp. The
cache is `s.files`; a file that fails keeps its last version there (`LastGood`), and
`HandOut` leaves out of `replaces` what a loaded definition owns. `servable` is
history: what a file last read well as, until a lookup finds it gone. A file that vanishes between the listing and the inspection is a case of
`Inspect`, and `answer.kind = "panic"` is what comes of it when the file was
never cached.

### TrackerSettings

The files of a tracker's id and of the ids it replaces. `ReadPlace` reads one,
`WritePart` and `WriteRest` the temporary file, `RenameOver` puts it in place,
`RemoveOwn` and `RemoveOld` take files away, `DropLogin` is `InvalidateLogin`;
`SaveFails` is any of them failing, and the end of the process at that point. A
scrape reads, tests its login, signs in and ends. `jar` is what the cookies were
established with.

### RowExtraction, JsonRows and FuzzyDate

`RowExtraction` goes through one mirror's paths, their rows and a row's fields,
one field a step; a value is the set of the texts it is made of, so that a
property can ask where each text came from. `JsonRows` makes the rows of a JSON
answer and reads selectors, whose filters nest, as `FilterEnd` cuts them;
selectors are sequences of tokens, and the same selector as a tree is what its
author meant. The two differ where an argument holds two filters in a row
(`EndsWhereMeant`): there the code ends the argument too early, the instance has
such selectors, and `ReadAsMeant` says nothing of them. The peers of a row are read
by `PeerCount`, which `MCReadings` compares with the number written, digit by digit
of its place, over every text of up to 5 of the characters it tells apart
(`CountsAsShown`). `FuzzyDate` completes timestamps on a small calendar with months,
leap years and a zone that changes its offset twice, one reading at each hour.
Day numbers are sums of the years and months before (`Sums`, a recursive function);
`Instant` is `time.Date`, with its choice for an hour that the zone skips or has
twice.

The zone's offset is nothing or an hour, and its clock may go forward in any hour
but the last of a day (`ZoneAssumption`). Two kinds of zone are therefore not
modelled. Where the last hour of a day is skipped, such an hour is read on the
next day. West of Greenwich, where midnight is skipped, `time.Date` puts
`startOfDay` on the day before, and "today" with it. `ShownDateKept` names one more
case that the code does not keep: a date without its year whose hour is one that
this year's change of the offset skips. It is first read as this year's, an hour
off, and stays an hour off when `notInTheFuture` takes it back to a year that has
the hour.

### TorrentDownload and BencodeFile

`TorrentDownload` is one download at a time: the row (`Serve`), the sign-in, the
release's page with its redirects (`FetchPage`, `PageRedirected`, `PageAnswered`),
whenever something is first to be read off it, the request before, the selectors
in turn, the fetch of the file and its redirects; a tracker answers each as it
likes. The page is asked for by `s.httpClient`, which follows a redirect to any web
address, and the file by a client that judges each redirect
(`SameDownloadOrigin`), so the two are separate actions. `asked` says which request
`chain` is of. A page asked for through FlareSolverr is had in one step: its browser
follows redirects out of sight. `BencodeFile` receives a sequence of tokens,
scans and encodes it, and reads the result again. It uses recursive operators,
so no theorem is stated about it.

### TorrentStore

The pool has one connection, so every statement and every transaction is one
step (`Upsert`, `BeginSweep`, `SweepSearches`, `SweepTorrents`, `BeginClear`,
`ClearBatch`), and a sweep's or a clear's batches interleave with scrapes. A row
keeps its id, its release (what the generated `identity` column tells apart
within a tracker), its date, when it was last seen and `search_managed`; the
other columns are overwritten by each scrape. `LIMIT` without an order deletes
any rows of the right number (`Batches`). A failing transaction changes nothing
and is not a step; a failing batch ends its sweep or clear, whose local
variables go with it. A page names a release at most once: a repeat would
only refresh the row just written. The sweep's bound on the row ids of
`torrent_searches` is left out, since an entry made or refreshed after the
sweep began is younger than its cutoff anyway. `produced`, `given`
and `clearBegan` are history.

### TorznabSearch and TorznabQuery

`TorznabSearch` is the run of a search: the trackers it covers, the scrapes
behind the semaphore (`Started`, `Throttled`, `FetchEnds`, `Recorded`), the count
and the page as two statements, and the kind of reply. It stands on what
`CoalescedSearch` promises, and `UsesContract` says each tracker is used so.
`TorznabQuery` is what a request means: modes and capabilities, indexer filters,
categories to the tracker's own and back, the episode taken off a query, and the
rows that answer; each covered tracker answers once, or fails. What a text names is
its terms, each with a season and an episode; a written episode of zeros is read
as none (`EpisodeRead`), and a season of zero is the specials, which no tracker is
asked for (`HasSeason`).

### AdminPanel

A request of a browser is `Admit` or `TurnAway` at the guard and `Handled`, or a
sign-in: `Reserve` at the limiter, `Verify` the password, `Create` the session.
Each hold of a mutex is a step. A browser may claim what it likes in
X-Forwarded-For; the proxy appends the address it saw.

### ServerProcess

`run` as its steps, forwards (`OpenStore`, `Build`, `Bind`, `Ready`, `Serve`) and
back in the order of its defers (`StopPruning`, `WaitForPruning`, `CloseScraper`,
`CloseStore`), from wherever it fails or is asked to stop; the sweep, the
requests and the Windows service handler go on beside it. A request may come on a
connection that was accepted before: during a shutdown, and also after `Serve`
failed, which leaves the connections open and which `run` does not wait for
(`HasFailed`).

### LogRotation

Every call to the file system is a step that may fail or be the last before the
process ends. A file is the set of the records it holds.

### WindowsService

A command is its calls to the manager and the registry in order, each of which
may fail or be the last; the service is launched, stops and fails by itself, and
at its first start exchanges the installer's password for its hash.

## 3. Runs

Passing:

| Run | Instance | Shows |
|---|---|---|
| `scheduler` | 3 calls, 2 searches, interval 2, spacing 1, wait 1, backoff 1, calls until instant 2 | `Coordinated` (the inductive invariant), `SlotsSpaced`, `BackoffHonoured`, `RepeatsSuppressed`, refinement `KeepsPromise`, liveness `EveryCallReturns` |
| `flare_sessions` | 2 workers, 2 trackers (one with a login test), room for 1 session, 2 failures allowed, 1 restart | `Consistent` (entries, slots, logins and tabs agree), `Accounted` (every browser is known to somebody), `RequestsUndisturbed` |
| `flare_limit` | 2 workers, 3 trackers, room for 1 | `SessionsBounded`: the limit is overshot by at most the number of requests running, less one |
| `torrent_store` | 2 trackers, 2 releases each, 2 searches, batches of 1, pages of 2, 2 rows ever inserted | `OnlyOwnResults`, `LinksStable` (the tables agree, and an id never names another release), `DeletionsComplete` |
| `torznab_search` | 2 clients (one of the JSON endpoint), 2 trackers, 2 searches, one tracker that cannot answer one of them, 1 scrape at a time, pages of 1 | `OnlyItsOwnRows`, `FreshResultsAnswered`, `UsesContract`, liveness `EverySearchAnswered` |
| `endings` | 2 scrapes over 6 definitions of 1 or 2 mirrors and 1 to 3 paths, with every way to sign in, gap 1; a process with a sweep and 2 requests | `VerdictEarned`, `Paced`, `SweepsOpenStore`, liveness `EveryScrapeEnds` and `StopEnds` |
| `components` | 2 definition files, 2 ids, 4 edits; 2 browsers, 2 tokens, lifetime, idle time and delay 1, until instant 3; 2 savers and a scrape, 2 ids; 3 generations of 1 record, 6 records; one prompt, the service started twice; the requests, links, pages, files, texts, forms, answers and searches that `MCReadings` lists | `LastGoodServed`, `LookupsCurrent`; `AttemptsSpaced`, `SessionsEnd`; `ReadsOneSave`, `SaveTakesEffect`; `OnlyOldestLost`; `Recoverable`, `EveryInstanceAsked`; `OffersTaken`, `NarrowedAsWritten`, `StaysHome`, `RowsAsShown`, `SaysTheSame`, `ShownDateKept`, `PostsTheForm`, `ReadAsMeant`, `AnsweredAsAsked` |

Violations, each one statement of a comment in the code that the code does not
keep:

| Run | Statement | What happens |
|---|---|---|
| `stale_login` | an evicted session's login goes with it | the eviction falls between the login's answer and `markLoggedIn` |
| `clear_keeps` | rows a scrape stores while a clear runs are kept | a row refreshed in place keeps its id, and goes with the old ones |
| `vanished_definition` | one broken definition does not hide every working one | a new file that vanishes between the listing and its inspection has no cache entry, and `duplicateIDs` reads through it |
| `old_session_trusted` | a session established with the old credentials must not be trusted | a scrape that read the old settings signs in with them after the save dropped the login |
| `pages_leave` | each request of a download must name the tracker's own hosts | the release's page is asked for by a client that follows redirects unchecked, to any host and from HTTPS to HTTP |

Four more disagreements of the code with its comments are noted at their
hazards in `PROJECT.json` and hold in the models as the code has them: `failures`
outlives its backoff and turns away a search that is different from the first
one after it; the end of a leader's sleep for its own slot counts as a failure
of the tracker; a request verified before `Close` makes FlareSolverr open a
session after it; and of two files with one id, which `duplicateIDs` has both be
unusable "rather than one file winning by directory order", `Find` of an id that
they replace hands out the first. `LateRequests` is FALSE in the flare runs: with too little time
left FlareSolverr is told to stop only after the request's deadline, and its tab
may then still be driven when the next request comes.

### Bounds

Scheduler: with three calls a follower, a leader waiting for its slot and a
third call that repeats or differs exist at once; two searches are what telling
"the same" from "another" needs. Interval 2 and spacing 1 keep the code's order
(interval > spacing), MaxScrapeWait 1 lets a slot be reserved ahead and the next
one be refused, and `AskUntil` 2 leaves room for a failure, the end of its
backoff and a probe. `Tick` stops when the last slot that can be reserved has
come. The code's shift `1 << min(failures, 8)` is the table `PowersOfTwo`; at
this size the cap decides, and the proofs hold for every value.

FlareSessions: room for one session with two trackers makes every creation
evict or overshoot; two workers are enough for every pair of interleavings the
comments speak of; three session names leave one free whenever one is created;
one restart separates a session from its name. `SYMMETRY` over workers, session
names and untested trackers is sound: no definition picks one of them, and the
runs that use it have no liveness property. `MaxFailures` is the code's 2 in
`flare_sessions`, and 1 where only the number of sessions matters.

TorrentStore: two inserted rows are one that was there before a sweep or clear
and one that comes after, or a row and another release that an id could be
confused with; one instant, one date and `MaxAge` 0 make rows that are old and
rows that are not; batches of one leave a gap after every deleted row, and
make every sweep of two rows one of several batches.

TorznabSearch: one scrape at a time makes every second tracker wait for the
semaphore; two clients share a fetch or keep each other waiting; pages of one
make the count and the page differ.

RequestPacing and ServerProcess: two scrapes are one in the line and one that
waits; a gap of one tells "asked at once" from "waited"; the definitions have
each kind of path (no category in common, no address, a repeated GET) and each
order of requests that signing in makes. A process has every point to fail at
whatever the bounds.

Components: four edits give a file that is put there, broken, repaired and
removed within the lookups that see it; two savers meet each other's renames and
a scrape reads between them; three generations are the oldest, one that is
shifted into its place and the first, and six records fill them and one file
more. The commands of `WindowsService` run one at a time because
`RemainsRemovable` is about such; the service itself starts and stops beside
them.

Readings: the inputs are few and chosen at the boundaries the code decides at:
a category mapped by two mappings or to none, a season of zero, redirects at the
limit (3 for the code's 10), fields that name later ones, numbers at the cap and
past 64 bits (scaled down), nested lists and repeated keys, the hours around
both changes of the offset and the end of a leap month, in a calendar of
`LastYear` 4 that the clock spends more than a year in, inputs whose selectors
are one name, selectors with a filter in a filter and with two filters in an
argument, and pages written by a shared input, by a path or only by a path's own
inputs.

Deadlock is checked where the system never stops (`flare_*`, `torrent_store`,
`stale_login`, `clear_keeps`). The other instances end: every call was made and
answered, the process is over, the input is read, or a bound is reached.

### Fairness

* `scheduler`: weak fairness of the clock, of a leader waking once its timer is
  due, of a scrape ending (the HTTP client's timeout and the context bound every
  request) and of a call returning once its flight is done. Nothing obliges a
  client to search or to leave.
* `torznab_search`: weak fairness of the goroutines of a search and of every
  fetch ending, which the search's deadline sees to.
* `endings`: weak fairness of the clock and of each scrape's own steps; strong
  fairness of taking the turn, as a channel serves those who wait in order and a
  scrape that stays in line finds it free again and again. Of the process: weak
  fairness of `run`'s steps, of its report and of a sweep's end; strong fairness
  of the sweep's loop seeing its context's end, as `select` picks either of two
  ready cases. A handler may take for ever: the ten seconds of the shutdown end
  the drain.

Elsewhere weak fairness is enough because each step stays enabled until taken.

## 4. Proofs

Eight modules hold theorems, each for every value of the constants under the
named assumptions of the modules it is about; the bounds of section 3 (`MaxId`,
`MaxRecords`, `MaxAsks`, `MaxEdits`, …) may be any natural. Each proof is an
inductive invariant, one lemma per kind of step, and a last step that puts them
together. Most assumptions only say what kind of thing a constant is and that the
names for nobody and nothing are no other's. The others are these:

| Assumption | Why the code justifies it |
|---|---|
| `RequestersAssumption`: a template writes variables that searches have | `.Query` is a struct (`queryParams`): a template that names another field of it fails to execute, and its request is not made |
| `RequestAssumption`: a text names one season and one episode at most | `interactiveSearch` takes off one match of its patterns, all digits, and the rest stays words |
| `OwnersAssumption`: no tracker replaces its own id | `handOut` (`store.go:123-131`) leaves the ids that loaded definitions own, its own among them, out of `replaces` |
| `BrowserAssumption`: a browser's address is neither the proxy's nor garbage | the proxy appends the address it saw of its peer |
| `SiteAssumption`: a text is named by its row, and no two rows of a page are one | these are the names the model gives them, so that a property can ask where a text is from |
| `DefinitionAssumption`: finitely many files | a directory listing |
| `ZoneAssumption`: no clock goes forward in the last hour of a day | not the code's: of the zones, the few that do are left out, see `FuzzyDate` in section 2 |
| `TextsAssumption`: a printed hour is one of a day, a month one of a year | `parseTimeOfDay` and the general parser refuse any other |
| `ClockAssumption`: the clock stays within the calendar, its first year past | `LastYear` is a bound, and may be any number; a date without its year may be of the year before |
| `PagesAssumption`: a page's inputs are a sequence | a document's elements have an order and an end |
| `NameAssumption`, `SearchAssumption`: finitely many trackers, workers and releases | they are what a process holds; the numbers of them are counted |
| `RecoverableAlways` alone: at most one command | `RemainsRemovable` is about commands run one at a time; two at once may leave a source with no service |

**ScrapeScheduler_proofs.** The timing constants are naturals; there may be any
number of calls and searches.

* `CoordinatedAlways`: `Spec => []Coordinated`. `Coordinated` is inductive as it
  stands; its parts exist because each property needs more than it says.
  `SlotsSpaced` alone is not preserved by `planScrape`: that no earlier slot
  lies beyond `nextAllowed - MinScrapeSpacing` (`SlotsBehindNext`) has to be
  known, and it survives a failure only because `finishScrape` never lowers
  `nextAllowed`. `BackoffHonoured` needs `backoffUntil <= nextAllowed` and
  `failures = 0 => backoffUntil = 0` (`BackoffAccount`). `RepeatsSuppressed`
  needs that a success is remembered in `recent` until it is too old to matter,
  through pruning and through later successes (`SuccessRemembered`). The
  refinement needs that a registered flight is led and that whoever waits,
  waits for a flight of its own search (`FlightsRegistered`,
  `NobodyWaitsForNothing`).
* `SlotsSpacedAlways`, `BackoffHonouredAlways`, `RepeatsSuppressedAlways`.
* `KeepsPromiseAlways`: `Spec => Promise!Spec`, one lemma per kind of step:
  `planScrape` maps to Ask or Refuse, `finishScrape` to Settle, `Return` to
  Deliver, `StopFollowing` to Leave, the rest to stuttering.

**FlareSessions_proofs.** `ConsistentAlways`, `AccountedAlways`,
`RequestsUndisturbedAlways` and `SessionsBoundedAlways`, for any finite set of
trackers and of workers, any sessions, any limit on them and any number of
restarts.

* The invariant, `Sound`, says of each worker what it may rely on where it stands:
  it holds its tracker's slot (`AtHome`), the name it uses is its tracker's or was
  taken by Close, the name it keeps to itself is nobody else's (`Own`). Of the
  names it says that no two places hold one (`Apart`) and that none is forgotten
  (`Kept`). A step of one worker has to leave the others what they rely on
  (`Spared`), which is what the slot, the eviction of idle sessions only, and the
  comparison in `resetFlareSessionLocked` are for.
* `Consistent` also says that no request is sent to a tab that an earlier one still
  drives. That part follows a tab from the request that drives it (`Tabs`) and
  needs requests to be over at their deadline, so `ConsistentAlways` assumes
  `~LateRequests`; the other three theorems hold with late requests as well.
* `SessionsBounded` counts the trackers that have a session (`Owning`) and the
  workers about to make one (`Making`). It is inductive over `Sound`: an eviction
  takes away as many as are too many, or all it may (`EvictsEnough`), and a
  session it may not take is one whose slot another worker holds, which is not
  making one (`DrivenFew`, `EvictBounded`); storing a session moves one from the
  second count to the first (`StoreBounded`).

**RequestPacing_proofs.** `VerdictEarnedAlways` and `PacedAlways`, for any
definitions, mirrors, paths, scrapes and gap. `VerdictEarned` is not inductive:
that a scrape which ran out of mirrors has an error needs that every mirror left
behind left one (`ErrorKept`), which needs that a path that was not skipped was
answered or failed (`PathsCounted`); that a queue wait hides no failure needs to
know in which of the two errors, the mirror's or the scrape's, a failure is kept
at each stage (`FailureKept`). `Paced` rests on `Line`: the turn is held by the
request that sleeps in it or is out (`TurnHeld`), and a scrape that was given up
stands in line once more at most (`LateOnce`).

**TorrentStore_proofs.** `LinksStableAlways`, `OnlyOwnResultsAlways` and
`DeletionsCompleteAlways`, for any trackers, releases, searches and retention, and
batches and pages of any size (pages are finite).

* The first two hold together: a stored record is of a release its search returned
  (`RecordsTrue`) only because an id never names another release
  (`LinksStable`), which holds because the sequence is ahead of every row
  (`IdsSpent`). What an upsert writes is one lemma; every deletion, of a sweep, a
  clear or their cascade, is an instance of `DeletedStored`.
* The third needs `Progress`, what a sweep or a clear has reached at each of its
  stages: a statement that deletes fewer rows than a batch has left none of those
  it selects (`LastBatch`), and what a scrape stores afterwards has an id beyond
  the clear's last (`LargestSpent`) or was seen since the sweep began
  (`UpsertedSince`).

**TorznabSearch_proofs.** `OnlyItsOwnRowsAlways`, `FreshResultsAnsweredAlways` and
`UsesContractAlways`, for any clients, trackers, searches and limits. `SearchInv`
says that a client scrapes only what its request covers (`AsksItsOwn`), that what
was gained for it is its own search's and stored (`GainsItsOwn`), from which the
count is at least the number gained, and that a client told no tracker was reached
has asked them all in vain (`Unreached`), which no later step changes. The
refinement maps what a client is doing with one tracker to what the contract knows
of a caller (`Wants`, `Owes`, `Answers`), tracker by tracker; together with
`KeepsPromiseAlways` it closes the gap between the two modules: what the one takes
for granted is what the other is proved to do.

**Readings_proofs.**

* `AnsweredAsAskedAlways`, for any searches and any definitions whose templates
  write variables that searches have. The invariant (`FiledAs`) is that the window
  holds each search under its own key, so an answer always comes from a search with
  the key of the one that asked. The rest is about operators: two searches with one
  key agree on all that is rendered apart from the page (`SameUnpaged`), a
  definition whose key leaves the page out writes it nowhere (`PageUnwritten`), and
  requests rendered from what agrees are the same (`SameKeySameRequests`).
* `OffersTakenAlways` and `NarrowedAsWrittenAlways`, for any definitions, mappings,
  requests, listings and stored rows. `QueryInv` says that a page is what the
  catalog says of its request (`PageTrue`). Then an offered mode and category are
  answered with rows (`OfferAnswered`), the mapping that offered a category takes
  it back to the tracker's own (`CategoryTaken`), and a row listed under that
  matches what is read from the store (`ListedMatches`). The episode terms kept for
  the store, or those made of the parameters where none are, narrow as the text
  did (`EpisodeNarrows`), up to the two cases that `NarrowedAsWritten` names.
  Proving the second one showed that the model had read "E00" as episode 0 where
  the code trims its zeros away.
* `RowsAsShownAlways`, for any definitions, fields, pages and searches. What makes a
  torrent right (`IsRight`) is known when it is made, because the place of the row
  being read is (`AtRow`: the rows left are the page's from there on, and the date
  carried is the nearest header's above) and because what was read so far is that
  row's own (`ReadSoFar`), whichever field names which. That no release is stored
  twice needs that a page's rows are gone through once (`FoundOnce`) and that a GET
  which was made is remembered until no later path can make it (`StoredOnce`).
  Proving it showed two things the property had to say: a date that was read is only
  sure to be kept when no later field is named "date" and its filter names nothing
  unread, and a GET and a POST to one address are two requests.
* `StaysHomeAlways`, for any hosts, links, rows, blocks and number of redirects: of
  the before request and the requests for the file. Of the release's page it says
  that its chain begins at the tracker and has an end; where its redirects lead is
  `pages_leave`'s. `Home` adds that a chain is begun whenever a page or a link is
  being fetched, because a redirect of a file is judged against its last address,
  and that a download's row is the tracker's own link, which the page is asked for.
* `PostsTheFormAlways`, for any login blocks and any pages. `SignInInv` says of the
  inputs looked up so far that each, and nothing else, goes out under the name its
  selector found (`NamedFrom`), which holds for every order of looking them up
  because two that are one name are still one of theirs (`AllNamed`). What the
  page's form adds up to is `AdoptedIs`: under each name, its last input that a
  browser would send.
* `ShownDateKeptAlways`, for any calendar, length of a day and of a week, texts and
  changes of the offset. `DateInv` only says what was read and when; the rest is
  about operators. Sums of lengths grow (`SumsGrow`), so each day is in one year
  and one month (`YearFound`, `DateIs`); one day of any week is a given weekday
  (`WeekdayOnce`); an instant made for a day and an hour is on that day and, where
  the zone has it, at that hour (`InstantShows`); and a year before is the same
  month and day, where that year has it (`AYearBefore`). Proving it showed that the
  instance had tested the hour of this year's dates only, and, once it tested
  those of the year before too, the hour that is lost on the way back
  (`ShowsClock`).

The last two are inductions, over the inputs of a page and over the years and the
months. The library's theorem takes the induction's predicate as an operator, so
`EveryNatural` takes it as a set: one that holds 0 and with each natural its
successor holds them all, which follows from the order of the naturals being
well-founded. The recursive functions are opened once each with it (`AdoptedOfDef`,
`SumsDef`).

**Components_proofs.** One part for each component.

* Definitions: `LookupsCurrentAlways`, `LastGoodServedAlways` and `DefinitionsKept`,
  for any finite set of files and any edits. `DefinitionInv` says that the cache
  holds what a file read as under the stamp it remembers (`CacheTrue`), that what a
  lookup holds of the file it is at is what that stamp stood for (`ReadTrue`), that
  a file it has been to is cached as it is as long as nobody edits (`LookupTrue`),
  and that what the cache is about to hold of a file is what it may be served as
  (`VersionTrue`). What a lookup prunes is what it listed (`PrunedIs`), unless it
  panics first.
* Admin panel: `SessionsEndAlways` and `AttemptsSpacedAlways`, for any browsers,
  tokens and delays, and any claims. `PanelInv` ties the store of sessions to
  their history (`SessionsTrue`), a cookie to a token that was issued
  (`TokensIssued`), and a browser's last attempt to the slot of the address the
  proxy saw, not of one it claims (`AttemptsCounted`).
* Settings: `ReadsOneSaveAlways` and `SaveTakesEffectAlways`, for any savers,
  readers, fields and list of replaced ids. The second needs to know of a save
  that nobody disturbed, at each of its steps, which settings are in force and
  which places it has already found or left empty (`Undisturbed`).
* Log: `OnlyOldestLostAlways`, for any number of generations and any cap.
  `HoldsLatest` is preserved because a generation is only moved to a place that is
  empty (`Shifting`) and a record is only added to a file that is there
  (`OpenIsThere`), whichever call fails or is the last.
* Windows service: `PasswordKeptAlways` and `EveryInstanceAskedAlways`, for any
  number of commands at once, and `RecoverableAlways` for commands one at a time.
  The password is kept because the hash is written before the plaintext goes
  (`HashFirst`); a stop that stands was answered by the process it was sent to
  (`StopsAnswered`); what is left can be removed because the service is created
  first and deleted last (`ServiceLast`).

The types of the panel's, the settings' and the log's variables are theorems too
(`PanelTypeAlways`, `SettingsTypeAlways`, `LogTypeAlways`).

**ServerProcess_proofs.** `SweepsOpenStoreAlways`, for any requests, with and
without a retention. The invariant ties each user of the store to where `run`
stands: the store is open from its first stage until `run` is over
(`StoreWhereRun`), the sweep runs from the binding of the port until `run` has
waited for it, on the paths that a failed start takes too (`SweepWhereRun`), and
a request that is inside past the drain was given up (`InsideWhereRun`).

Only model-checked: liveness (`EveryCallReturns`, `EverySearchAnswered`,
`EveryScrapeEnds`, `StopEnds`), which is out of the prover's reach, and what
`BencodeFile` and `JsonRows` compute (`SaysTheSame`, `ReadAsMeant`), since they
are written with recursive operators, which are too: they are readers of nested
lists and nested filters, each checked against another way to read the same.

## 5. Not modelled

* Text processing with no state and no decision a property is about: the CSS and
  XML selectors, most text filters, sizes, encodings, dates by layout, the YAML
  reader, feed rendering and routes, redaction. What these compute for every
  input is a recursion over characters, where a model would be the program
  again; the tests of the repository have their cases.
* Certificate pins (a set that grows under a lock), the API document, packaging
  and test helpers: no state another step could find changed.
* Password hashing, templates and the comparison of CSRF tokens: the panel's
  sessions and limiter are where its steps interleave.
* The HTTP exchange of a search (`fetch`): it succeeds or fails as one step;
  its redirects are those of a page and carry no state to another step.
* The Service Control Manager, SQLite and FlareSolverr themselves: each is
  modelled by how the code uses it.
