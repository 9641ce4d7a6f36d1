----------------------------- MODULE TorrentStore -----------------------------
(***************************************************************************)
(* The SQLite store of pkg/database: what a scrape's upsert keeps of what  *)
(* was there, which rows a search may be answered with, and how the        *)
(* retention sweep and the operator's clear delete in batches while        *)
(* scrapes go on storing.                                                  *)
(*                                                                         *)
(* The pool has one connection, so a statement or a transaction is one     *)
(* step, and the batches of a sweep or a clear interleave with everything  *)
(* else.  A statement that fails changes nothing; a failing batch ends its *)
(* sweep or clear.                                                         *)
(*                                                                         *)
(* A release is what the generated column "identity" tells apart within a  *)
(* tracker.  Of a row's columns the module keeps the id, the release date, *)
(* when it was last seen and whether a scraper search produced it; the     *)
(* others are overwritten by every scrape and decide nothing here.         *)
(***************************************************************************)
EXTENDS Integers, FiniteSets, Functions

CONSTANTS
  Trackers, Identities,
  Keys,         \* the searches (SearchParams.ResultKey)
  Dates,        \* the release dates a scrape may parse
  MaxAge,       \* the retention period
  BatchSize,    \* deleteBatchSize
  MaxPage,      \* bound: torrents in one page of results
  MaxId,        \* bound: rows ever inserted
  MaxTime,      \* bound: the clock
  None          \* no search, no tracker

ASSUME StoreAssumption ==
  /\ Dates \subseteq Nat
  /\ MaxAge \in Nat /\ MaxId \in Nat /\ MaxTime \in Nat
  /\ BatchSize \in Nat \ {0} /\ MaxPage \in Nat
  /\ None \notin Keys /\ None \notin Trackers

VARIABLES
  now,          \* time.Now()
  torrents,     \* the table of that name, a set of rows
  searches,     \* torrent_searches
  nextId,       \* the AUTOINCREMENT sequence
  sweep,        \* where prune stands; "done" once a sweep has ended well
  cutoff,       \* of the sweep
  lastTorrent,  \* the last row id there was when the sweep began
  clearing,     \* where ClearTracker stands; "done" once it has ended well
  cleared,      \* the tracker it clears
  clearLast,    \* its last row id when the clear began
  \* What follows records history for the properties; no guard reads it.
  clearBegan,   \* when the clear began
  produced,     \* the pairs <<k, r>> such that a scrape of k returned r
  given         \* given[i]: the release row i was inserted for, or None

sweepVars == <<sweep, cutoff, lastTorrent>>
clearVars == <<clearing, cleared, clearLast, clearBegan>>
tableVars == <<torrents, searches, nextId, produced, given>>
vars == <<now, tableVars, sweepVars, clearVars>>

Undated == -1

Releases == Trackers \X Identities

\* A row of torrents, and one of torrent_searches; published is Undated for the
\* empty string.
Row == [id : 1..MaxId, release : Releases, published : Dates \union {Undated},
        lastSeen : 0..MaxTime, managed : BOOLEAN]

Entry == [id : 1..MaxId, key : Keys, lastSeen : 0..MaxTime]

Init ==
  /\ now = 0
  /\ torrents = {} /\ searches = {} /\ nextId = 1
  /\ sweep = "idle" /\ cutoff = 0 /\ lastTorrent = 0
  /\ clearing = "idle" /\ cleared = None /\ clearLast = 0 /\ clearBegan = 0
  /\ produced = {}
  /\ given = [i \in 1..MaxId |-> None]

Largest(ids) == IF ids = {} THEN 0 ELSE CHOOSE i \in ids : \A j \in ids : j <= i

-----------------------------------------------------------------------------
(***************************************************************************)
(* Storing what a scrape returned.                                         *)
(***************************************************************************)

\* What a scrape may return: some releases of one tracker, dated or not.
Pages ==
  UNION {[rs -> Dates \union {Undated}] :
           rs \in UNION {{s \in SUBSET ({t} \X Identities) :
                            s # {} /\ IsFiniteSet(s) /\ Cardinality(s) <= MaxPage} : t \in Trackers}}

\* The row a release has.
RowFor(r) == CHOOSE row \in torrents : row.release = r

\* What ON CONFLICT(tracker, identity) asks of the table.
IsStored(r) == \E row \in torrents : row.release = r

\* The ids an insert gives the new releases of a page.
Numberings(new) == Injection(new, nextId .. nextId + Cardinality(new) - 1)

\* The row after the upsert of r: a date is overwritten only by a date, and a
\* row a search produced stays one.
Upserted(r, published, isManaged, number) ==
  IF IsStored(r)
    THEN LET row == RowFor(r)
         IN [row EXCEPT !.published = IF published # Undated THEN published ELSE @,
                        !.lastSeen = now,
                        !.managed = @ \/ isManaged]
    ELSE [id |-> number[r], release |-> r, published |-> published,
          lastSeen |-> now, managed |-> isManaged]

\* Variant: the id recorded is that of the last insert.
LastInserted(r, number) == IF IsStored(r) THEN nextId - 1 ELSE number[r]

\* RETURNING id: the row's own, whether it was inserted or updated.
Returned(r, number) == IF IsStored(r) THEN RowFor(r).id ELSE number[r]

\* torrent_searches after the search k returned the rows ids.
Recorded(k, ids) ==
  {e \in searches : ~(e.key = k /\ e.id \in ids)}
    \union [id : ids, key : {k}, lastSeen : {now}]

\* Variant: the next id follows the rows that are left.
NextAfterRows(new) ==
  Largest({row.id : row \in torrents}) + 1 + Cardinality(new)

\* The sequence only grows.
NextAfter(new) == nextId + Cardinality(new)

\* upsertAll: one transaction, with k None when no search is recorded.
Upsert(page, k) ==
  LET new == {r \in DOMAIN page : ~IsStored(r)}
  IN /\ nextId + Cardinality(new) <= MaxId + 1
     /\ \E number \in Numberings(new) :
          /\ torrents' = {row \in torrents : row.release \notin DOMAIN page}
               \union {Upserted(r, page[r], k # None, number) : r \in DOMAIN page}
          /\ searches' = IF k = None THEN searches
                         ELSE Recorded(k, {Returned(r, number) : r \in DOMAIN page})
          /\ given' = [i \in 1..MaxId |->
                         IF \E r \in new : number[r] = i
                           THEN CHOOSE r \in new : number[r] = i ELSE given[i]]
     /\ nextId' = NextAfter(new)
     /\ produced' = IF k = None THEN produced ELSE produced \union ({k} \X DOMAIN page)
     /\ UNCHANGED <<now, sweepVars, clearVars>>

\* Whether row may answer the search k: a row some search produced, only
\* the searches that did.
Answers(row, k) ==
  row.managed => \E e \in searches : e.id = row.id /\ e.key = k

-----------------------------------------------------------------------------
(***************************************************************************)
(* Deleting in batches.                                                    *)
(***************************************************************************)

\* A deleted torrent's record of searches goes with it, by the cascade.
Deleted(ids) ==
  /\ torrents' = {row \in torrents : row.id \notin ids}
  /\ searches' = {e \in searches : e.id \notin ids}

\* The sets of rows one statement may delete: LIMIT names no order.
Batches(rows) ==
  {b \in SUBSET rows :
     Cardinality(b) = IF Cardinality(rows) < BatchSize THEN Cardinality(rows) ELSE BatchSize}

\* Variant: a batch that was filled is taken for the last.
IsLastOnceFull(b) == Cardinality(b) <= BatchSize

\* A statement that deletes fewer than it might is the last.
IsLast(b) == Cardinality(b) < BatchSize

\* prune takes its cutoff and the last row id there is.
BeginSweep ==
  /\ sweep \in {"idle", "done"}
  /\ sweep' = "searches"
  /\ cutoff' = now - MaxAge
  /\ lastTorrent' = Largest({row.id : row \in torrents})
  /\ UNCHANGED <<now, tableVars, clearVars>>

\* A batch of pruneSearchesBatch.  Its bound on the row id is left out: what
\* the sweep finds stored after it began is younger than the cutoff.
SweepSearches ==
  /\ sweep = "searches"
  /\ \E b \in Batches({e \in searches : e.lastSeen < cutoff}) :
       /\ searches' = searches \ b
       /\ sweep' = IF IsLast(b) THEN "dated" ELSE sweep
  /\ UNCHANGED <<now, torrents, nextId, produced, given, cutoff, lastTorrent, clearVars>>

\* A dated torrent ages from its release, an undated one from the last scrape
\* that saw it.
IsDatedOld(row)   == row.published # Undated /\ row.published < cutoff
IsUndatedOld(row) == row.published = Undated /\ row.lastSeen < cutoff

\* What pruneDatedBatch and pruneUndatedBatch select.
Old(phase) ==
  {row \in torrents :
     /\ row.id <= lastTorrent
     /\ IF phase = "dated" THEN IsDatedOld(row) ELSE IsUndatedOld(row)}

\* A batch of pruneDatedBatch or, once those are gone, of pruneUndatedBatch.
SweepTorrents ==
  /\ sweep \in {"dated", "undated"}
  /\ \E b \in Batches(Old(sweep)) :
       /\ Deleted({row.id : row \in b})
       /\ sweep' = IF ~IsLast(b) THEN sweep
                   ELSE IF sweep = "dated" THEN "undated" ELSE "done"
  /\ UNCHANGED <<now, nextId, produced, given, cutoff, lastTorrent, clearVars>>

\* A statement of the sweep fails, or the server shuts down: it ends there.
SweepFails ==
  /\ sweep \in {"searches", "dated", "undated"}
  /\ sweep' = "idle"
  /\ cutoff' = 0 /\ lastTorrent' = 0
  /\ UNCHANGED <<now, tableVars, clearVars>>

\* ClearTracker takes the tracker's last row id.
BeginClear(t) ==
  /\ clearing \in {"idle", "done"}
  /\ clearing' = "clearing"
  /\ cleared' = t
  /\ clearLast' = Largest({row.id : row \in {u \in torrents : u.release[1] = t}})
  /\ clearBegan' = now
  /\ UNCHANGED <<now, tableVars, sweepVars>>

\* A batch of clearTrackerBatch.
ClearBatch ==
  /\ clearing = "clearing"
  /\ \E b \in Batches({row \in torrents : row.release[1] = cleared /\ row.id <= clearLast}) :
       /\ Deleted({row.id : row \in b})
       /\ clearing' = IF IsLast(b) THEN "done" ELSE clearing
  /\ UNCHANGED <<now, nextId, produced, given, sweepVars, cleared, clearLast, clearBegan>>

\* A statement of the clear fails, or its request is canceled.
ClearFails ==
  /\ clearing = "clearing"
  /\ clearing' = "idle"
  /\ cleared' = None /\ clearLast' = 0 /\ clearBegan' = 0
  /\ UNCHANGED <<now, tableVars, sweepVars>>

\* Time passes.
Tick ==
  /\ now < MaxTime
  /\ now' = now + 1
  /\ UNCHANGED <<tableVars, sweepVars, clearVars>>

Next ==
  \/ \E page \in Pages, k \in Keys \union {None} : Upsert(page, k)
  \/ BeginSweep \/ SweepSearches \/ SweepTorrents \/ SweepFails
  \/ \E t \in Trackers : BeginClear(t)
  \/ ClearBatch \/ ClearFails
  \/ Tick

Spec == Init /\ [][Next]_vars

-----------------------------------------------------------------------------
(***************************************************************************)
(* Properties.                                                             *)
(***************************************************************************)

\* Every variable has its type.
TypeOK ==
  /\ now \in 0..MaxTime
  /\ torrents \subseteq Row /\ searches \subseteq Entry /\ nextId \in 1..(MaxId + 1)
  /\ sweep \in {"idle", "searches", "dated", "undated", "done"}
  /\ cutoff \in Int /\ lastTorrent \in 0..MaxId
  /\ clearing \in {"idle", "clearing", "done"} /\ cleared \in Trackers \union {None}
  /\ clearLast \in 0..MaxId /\ clearBegan \in 0..MaxTime
  /\ produced \subseteq Keys \X Releases
  /\ given \in [1..MaxId -> Releases \union {None}]

\* The tables agree with each other: one row per release and per id, and every
\* record of a search belongs to a row that is there and that a search produced.
TablesAgree ==
  /\ TypeOK
  /\ \A a, b \in torrents : a.release = b.release \/ a.id = b.id => a = b
  /\ \A e \in searches : \E row \in torrents : row.id = e.id /\ row.managed
  /\ \A a, b \in searches : a.id = b.id /\ a.key = b.key => a = b

\* A search is never answered with a row that other searches produced and it
\* did not, whatever was stored again, refreshed, swept or cleared since.
OnlyOwnResults ==
  \A row \in torrents, k \in Keys :
    row.managed /\ Answers(row, k) => <<k, row.release>> \in produced

\* A row id that a client was once given names the same release for ever, or
\* nothing, in either table: a download link never leads to another release.
LinksStable == TablesAgree /\ \A row \in torrents : given[row.id] = row.release

\* A sweep that ends well leaves nothing it was meant to remove: what is still
\* there and too old was stored again after the sweep began.  Once a clear has
\* ended well, nothing the tracker had before it is left, nor comes back under an
\* id of that time.
DeletionsComplete ==
  /\ sweep = "done" =>
       \A row \in Old("dated") \union Old("undated") : row.lastSeen >= cutoff + MaxAge
  /\ clearing = "done" =>
       \A row \in torrents : row.release[1] = cleared => row.id > clearLast

\* The documentation of ClearTracker: rows a scrape stores while it runs are
\* kept.
ClearKeepsFresh ==
  [][ClearBatch =>
       \A row \in torrents :
         row.lastSeen > clearBegan => \E kept \in torrents' : kept.id = row.id]_vars

=============================================================================
