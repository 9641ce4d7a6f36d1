--------------------------- MODULE TorrentDownload ---------------------------
(***************************************************************************)
(* The download of one stored result: ServeTorrent of pkg/torznab, and the *)
(* requests Scraper.Download makes for it with the tracker's session.      *)
(*                                                                         *)
(* A tracker answers a request as it likes, so every answer is a choice.   *)
(* A link is a scheme and a host; a magnet is a link whose "host" says     *)
(* whether a client could follow it.  A body is what it starts as.         *)
(***************************************************************************)
EXTENDS Integers, Sequences, SequencesExt

CONSTANTS
  OwnHosts,      \* the tracker's hosts, and those beneath them
  Links,         \* the web addresses a page or a redirect may name
  Rows,          \* the stored results: link and magnet
  Blocks,        \* the download blocks a definition may have
  MaxRedirects   \* maxDownloadRedirects, as many as net/http follows by itself

NoLink     == [scheme |-> "none", host |-> "none"]
GoodMagnet == [scheme |-> "magnet", host |-> "followable"]
BadMagnet  == [scheme |-> "magnet", host |-> "unfollowable"]
Magnets    == {GoodMagnet, BadMagnet}
NoRow      == [link |-> NoLink, magnet |-> NoLink]

\* A definition without a download block.
NoBlock == [before |-> "none", isInfoHash |-> FALSE, selectors |-> 0, isTested |-> TRUE]

ASSUME DownloadAssumption ==
  /\ MaxRedirects \in Nat \ {0}
  /\ \A row \in Rows : row.link \in Links \union Magnets \union {NoLink}
                       /\ row.magnet \in Magnets \union {NoLink}

VARIABLES
  row,        \* the result being served, or NoRow
  block,      \* its definition's download block
  stage,      \* what is done next for it
  pages,      \* the pages of the block that were read: "release", "before"
  turn,       \* the selector whose turn it is
  lastError,  \* why the last selector's link was not taken
  asked,      \* what was requested last: "nothing", "page", "before" or "file"
  chain,      \* the addresses requested for it, one redirect after the other
  isTrusted,  \* the tracker's login is taken for a good one
  served      \* what the client was answered

downloadVars == <<row, block, stage, pages, turn, lastError, asked, chain, isTrusted, served>>

Unanswered == [kind |-> "none", link |-> NoLink]

DownloadInit ==
  /\ row = NoRow /\ block = NoBlock /\ stage = "idle" /\ pages = {} /\ turn = 0
  /\ lastError = "none" /\ asked = "nothing" /\ chain = <<>> /\ isTrusted = FALSE /\ served = Unanswered

-----------------------------------------------------------------------------
(***************************************************************************)
(* Where a request may go.                                                 *)
(***************************************************************************)

IsWeb(link) == link.scheme \in {"http", "https"}

\* trackerSiteOf: the link belongs to the tracker.
IsOwn(link) == IsWeb(link) /\ link.host \in OwnHosts

\* Variant: a redirect is judged against the link the chain began at.
SameOriginAsFirst(via, next) ==
  /\ via[1].host = next.host \/ next.host \in OwnHosts
  /\ IsWeb(next)
  /\ via[1].scheme = "https" => next.scheme = "https"

\* sameDownloadOrigin, for a redirect to next from the last address of via.
SameDownloadOrigin(via, next) ==
  /\ Last(via).host = next.host \/ next.host \in OwnHosts
  /\ IsWeb(next)
  /\ Last(via).scheme = "https" => next.scheme = "https"

-----------------------------------------------------------------------------
(***************************************************************************)
(* What the client is answered.                                            *)
(***************************************************************************)

\* checkMagnet.
CanFollow(link) == link = GoodMagnet

Refused  == [kind |-> "refused",  link |-> NoLink]
NotFound == [kind |-> "notFound", link |-> NoLink]
Failed   == [kind |-> "failed",   link |-> NoLink]
Torrent  == [kind |-> "torrent",  link |-> NoLink]
RedirectTo(link) == [kind |-> "redirect", link |-> link]

\* refuse: the row's own magnet, when it can be followed, stands in.
Fallback == IF CanFollow(row.magnet) THEN RedirectTo(row.magnet) ELSE Failed

\* redirectToMagnet, for a magnet the download led to.
HandOn(magnet) == IF CanFollow(magnet) THEN RedirectTo(magnet) ELSE Fallback

\* What comes of a body: "torrent" is a dictionary that parses whole within the
\* cap, "broken" one that does not, "empty" and "short" ones end before they could
\* be either, "magnet" and "badMagnet" hold a link.
ServeBody(body) ==
  CASE body = "torrent"   -> Torrent
    [] body = "magnet"    -> HandOn(GoodMagnet)
    [] body = "badMagnet" -> HandOn(BadMagnet)
    [] OTHER              -> Fallback

\* magnetOf.
MagnetOf(r) ==
  LET link == IF r.link = NoLink THEN r.magnet ELSE r.link
  IN IF link \in Magnets THEN link ELSE NoLink

\* A row whose link is a magnet needs no tracker.
ServeMagnet(r) ==
  IF CanFollow(MagnetOf(r)) THEN RedirectTo(MagnetOf(r))
  ELSE IF CanFollow(r.magnet) THEN RedirectTo(r.magnet) ELSE NotFound

-----------------------------------------------------------------------------
(***************************************************************************)
(* The download.                                                           *)
(***************************************************************************)

Answered(reply) ==
  /\ served' = reply /\ stage' = "idle"
  /\ row' = NoRow /\ block' = NoBlock /\ pages' = {} /\ turn' = 0 /\ lastError' = "none"
  /\ asked' = "nothing" /\ chain' = <<>>

\* The download ends with an error: "foreign", "page" or "other".  A link that
\* leaves the tracker is refused whatever magnet the row has, and a web page says
\* the session lapsed.
Fails(error) ==
  /\ Answered(IF error = "foreign" THEN Refused ELSE Fallback)
  /\ isTrusted' = (isTrusted /\ error # "page")

\* The link being fetched leads to nothing: the next selector has its turn, and
\* without selectors there is none.
LinkFails(error) ==
  IF block.selectors > 0
    THEN /\ lastError' = error /\ stage' = "choose" /\ turn' = turn + 1
         /\ asked' = "nothing" /\ chain' = <<>>
         /\ UNCHANGED <<row, block, pages, isTrusted, served>>
    ELSE Fails(error)

\* ServeTorrent up to the login: Download checks the stored link first.
Serve(r, b) ==
  /\ stage = "idle"
  /\ IF MagnetOf(r) # NoLink \/ r.link = NoLink \/ ~IsOwn(r.link)
       THEN /\ served' = (IF MagnetOf(r) # NoLink THEN ServeMagnet(r)
                          ELSE IF r.link = NoLink THEN NotFound ELSE Refused)
            /\ UNCHANGED <<row, block, stage, pages, turn, lastError, asked, chain, isTrusted>>
       ELSE /\ row' = r /\ block' = b /\ stage' = "login" /\ served' = Unanswered /\ turn' = 1
            /\ UNCHANGED <<pages, lastError, asked, chain, isTrusted>>

\* ensureLoggedIn: a login still trusted is not repeated.
LogIn ==
  /\ stage = "login"
  /\ \/ /\ isTrusted' = TRUE
        /\ stage' = IF block.before = "none" THEN "choose" ELSE "before"
        /\ UNCHANGED <<row, block, pages, turn, lastError, asked, chain, served>>
     \/ ~isTrusted /\ Fails("other")

\* A request goes out, to the first address of a chain.
StartsAt(what, link) == asked' = what /\ chain' = <<link>>

\* Something is to be read off a page: the path of the before request, an info
\* hash, or what a selector names.
ReadsAPage ==
  \/ stage = "before" /\ block.before = "selector"
  \/ stage = "choose" /\ (block.isInfoHash \/ turn \in 1 .. block.selectors)

\* downloadPage, when the page is the release's and was not read before: the row's
\* link is requested.
FetchPage ==
  /\ ReadsAPage /\ "release" \notin pages
  /\ StartsAt("page", row.link) /\ stage' = "page"
  /\ UNCHANGED <<row, block, pages, turn, lastError, isTrusted, served>>

\* The release's page is elsewhere.  The client that asks for it follows a redirect
\* to any web address.
PageRedirected(next) ==
  /\ stage = "page"
  /\ IF Len(chain) >= MaxRedirects \/ ~IsWeb(next) THEN Fails("other")
     ELSE /\ chain' = Append(chain, next)
          /\ UNCHANGED <<row, block, stage, pages, turn, lastError, asked, isTrusted, served>>

\* The release's page is read, or is not to be had; what wanted it goes on.
PageAnswered ==
  /\ stage = "page"
  /\ \/ Fails("other")
     \/ /\ pages' = pages \union {"release"}
        /\ stage' = IF block.before = "selector" /\ "before" \notin pages THEN "before" ELSE "choose"
        /\ UNCHANGED <<row, block, turn, lastError, asked, chain, isTrusted, served>>

\* requestBefore, to the address its path gives: an error status is an answer, as
\* is a redirect, which is not followed; any other failure is not.
RequestBefore ==
  /\ stage = "before" /\ (block.before = "selector" => "release" \in pages)
  /\ \/ \E path \in Links :
          IF IsOwn(path)
            THEN /\ StartsAt("before", path) /\ stage' = "choose" /\ pages' = pages \union {"before"}
                 /\ UNCHANGED <<row, block, turn, lastError, isTrusted, served>>
            ELSE Fails("foreign")
     \/ Fails("other")

\* downloadInfoHash.
ReadInfoHash ==
  /\ stage = "choose" /\ block.isInfoHash /\ pages # {}
  /\ Answered(HandOn(GoodMagnet)) \/ Answered(Fallback)
  /\ UNCHANGED isTrusted

\* fetchTorrent, up to its request.
Request(link) ==
  IF IsOwn(link)
    THEN /\ stage' = "fetch" /\ StartsAt("file", link)
         /\ UNCHANGED <<row, block, turn, lastError, isTrusted, served>>
    ELSE LinkFails("foreign")

\* Without a selector the stored link itself is fetched.
FetchLink ==
  /\ stage = "choose" /\ ~block.isInfoHash /\ block.selectors = 0
  /\ Request(row.link) /\ UNCHANGED pages

\* downloadSelected, one selector, whose page was read: it matches nothing, or
\* reads a magnet, a link that does not parse, or a link.
Select ==
  /\ stage = "choose" /\ ~block.isInfoHash /\ turn \in 1 .. block.selectors /\ pages # {}
  /\ \/ /\ turn' = turn + 1 /\ lastError' \in {lastError, "other"}
        /\ UNCHANGED <<row, block, stage, pages, asked, chain, isTrusted, served>>
     \/ \E magnet \in Magnets : Answered(HandOn(magnet)) /\ UNCHANGED isTrusted
     \/ \E link \in Links :
          IF IsOwn(link)
            THEN Request(link) /\ UNCHANGED pages
            ELSE /\ lastError' = "foreign" /\ turn' = turn + 1
                 /\ UNCHANGED <<row, block, stage, pages, asked, chain, isTrusted, served>>

\* downloadSelected, after the last selector.
NoneSelected ==
  /\ stage = "choose" /\ ~block.isInfoHash /\ block.selectors > 0 /\ turn > block.selectors
  /\ Fails(IF lastError = "none" THEN "other" ELSE lastError)

\* CheckRedirect, and the answer when the redirect names a magnet.
Redirected(next) ==
  /\ stage = "fetch"
  /\ IF Len(chain) >= MaxRedirects THEN LinkFails("other")
     ELSE IF next \in Magnets THEN Answered(HandOn(next)) /\ UNCHANGED isTrusted
     ELSE IF SameDownloadOrigin(chain, next)
       THEN /\ chain' = Append(chain, next)
            /\ UNCHANGED <<row, block, stage, pages, turn, lastError, asked, isTrusted, served>>
     ELSE LinkFails("foreign")

\* keepIfTorrent: an empty body passes.
IsKept(body) ==
  block.selectors > 0 /\ block.isTested => body \in {"torrent", "broken", "empty"}

\* The last address answers with a body, a web page, or an error.
FetchAnswered ==
  /\ stage = "fetch"
  /\ \/ LinkFails("page") \/ LinkFails("other")
     \/ \E body \in {"torrent", "broken", "empty", "short", "text", "magnet", "badMagnet"} :
          IF IsKept(body) THEN Answered(ServeBody(body)) /\ UNCHANGED isTrusted
                          ELSE LinkFails("other")

DownloadNext ==
  \/ \E r \in Rows, b \in Blocks : Serve(r, b)
  \/ LogIn \/ FetchPage \/ PageAnswered \/ RequestBefore \/ ReadInfoHash \/ FetchLink
  \/ \E next \in Links \union Magnets : PageRedirected(next)
  \/ Select \/ NoneSelected
  \/ \E next \in Links \union Magnets : Redirected(next)
  \/ FetchAnswered

DownloadSpec == DownloadInit /\ [][DownloadNext]_downloadVars

-----------------------------------------------------------------------------
(***************************************************************************)
(* Properties.                                                             *)
(***************************************************************************)

\* Whatever a page, a selector or a redirect names, the before request and the
\* requests for the file go to the tracker's own addresses (trackerSiteOf,
\* sameDownloadOrigin), however many redirects lead there, and once one was made
\* over HTTPS none after it is over plain HTTP.  So does the request for the
\* release's page, but its redirects go where the tracker sends them.
StaysHome ==
  /\ Len(chain) <= MaxRedirects
  /\ chain # <<>> => IsOwn(chain[1])
  /\ asked # "page" =>
       /\ \A i \in DOMAIN chain : IsOwn(chain[i])
       /\ \A i, j \in DOMAIN chain : i < j /\ chain[i].scheme = "https" => chain[j].scheme = "https"

\* "Every request goes out with the tracker's session, so each one must name the
\* tracker's own hosts" (followDownloadBlock): the redirects of the release's page
\* (fetch, with FollowRedirect) name any host.
PagesStayHome == asked = "page" => \A i \in DOMAIN chain : IsOwn(chain[i])

=============================================================================
