------------------------- MODULE TorrentStore_proofs -------------------------
(***************************************************************************)
(* Proofs about TorrentStore, for any trackers, releases and searches, any *)
(* retention period, and batches and pages of any size.                    *)
(*                                                                         *)
(* LinksStable and OnlyOwnResults hold together, with what keeps an upsert *)
(* from giving a new row an id that was given before: the sequence is      *)
(* ahead of every row there is (IdsSpent).  An upsert has a lemma for the  *)
(* rows it writes and one per conjunct; every deletion is an instance of   *)
(* DeletedStored.  On that stands Progress: what a sweep or a clear has    *)
(* left behind at each of its batches, for DeletionsComplete.              *)
(***************************************************************************)
EXTENDS TorrentStore, TLAPS, FiniteSetTheorems, WellFoundedInduction

\* The sequence is ahead of every row.
IdsSpent == \A row \in torrents : row.id < nextId

\* A record of a search is of a release the search returned.
RecordsTrue ==
  \A e \in searches, row \in torrents : e.id = row.id => <<e.key, row.release>> \in produced

StoreInv == LinksStable /\ IdsSpent /\ RecordsTrue

-----------------------------------------------------------------------------
\* There is a largest of the ids in a table, or 0 of none.
LEMMA LargestType ==
  ASSUME NEW ids \in SUBSET (1..MaxId)
  PROVE  Largest(ids) \in 0..MaxId /\ (ids # {} => Largest(ids) \in ids)
<1>1. CASE ids = {}
  BY <1>1, StoreAssumption DEF Largest
<1>2. CASE ids # {}
  <2>. DEFINE Above == {n \in 0..MaxId : MaxId - n \in ids}
  <2>1. Above \subseteq Nat /\ Above # {}
    <3>1. PICK i \in ids : TRUE
      BY <1>2
    <3>2. MaxId - i \in 0..MaxId /\ MaxId - (MaxId - i) = i
      BY StoreAssumption
    <3>3. MaxId - i \in Above
      BY <3>1, <3>2
    <3>4. Above \subseteq Nat
      BY StoreAssumption
    <3>. QED  BY <3>3, <3>4
  <2>2. PICK n \in Above : \A m \in Above : ~ (<<m, n>> \in OpToRel(<, Nat))
    <3>. HIDE DEF Above
    <3>. QED  BY <2>1, NatLessThanWellFounded, WFMin
  <2>3. ASSUME NEW m \in Above PROVE n <= m
    <3>1. n \in Nat /\ m \in Nat /\ ~(m < n)
      BY <2>1, <2>2 DEF OpToRel
    <3>. QED  BY <3>1
  <2>4. \A i \in ids : i <= MaxId - n
    <3>. SUFFICES ASSUME NEW i \in ids PROVE i <= MaxId - n
      OBVIOUS
    <3>1. i \in 1..MaxId /\ MaxId - i \in 0..MaxId /\ MaxId - (MaxId - i) = i
      BY StoreAssumption
    <3>2. n <= MaxId - i
      BY <3>1, <2>3
    <3>. QED  BY <3>1, <3>2, <2>1, StoreAssumption
  <2>5. MaxId - n \in ids
    OBVIOUS
  <2>6. Largest(ids) \in ids
    BY <1>2, <2>4, <2>5 DEF Largest
  <2>7. 1..MaxId \subseteq 0..MaxId
    BY StoreAssumption
  <2>. QED  BY <2>6, <2>7
<1>. QED  BY <1>1, <1>2

-----------------------------------------------------------------------------
(***************************************************************************)
(* Upserts.                                                                *)
(***************************************************************************)

\* What a scrape may return has finitely many releases, each dated or not.
LEMMA PageType ==
  ASSUME NEW page \in Pages
  PROVE  /\ DOMAIN page \subseteq Releases /\ IsFiniteSet(DOMAIN page)
         /\ \A r \in DOMAIN page : page[r] \in Dates \union {Undated}
BY DEF Pages, Releases

\* The row a stored release has.
LEMMA RowForType ==
  ASSUME NEW r, IsStored(r)
  PROVE  RowFor(r) \in torrents /\ RowFor(r).release = r
BY DEF IsStored, RowFor

\* The row an upsert writes for r.
RowWritten(page, k, number, r) == Upserted(r, page[r], k # None, number)

\* An upsert with the ids it numbered the new releases with.
UpsertWith(page, k, new, number) ==
  /\ new = {r \in DOMAIN page : ~IsStored(r)}
  /\ DOMAIN page \subseteq Releases
  /\ \A r \in DOMAIN page : page[r] \in Dates \union {Undated}
  /\ \A r \in new : number[r] \in 1..MaxId /\ number[r] >= nextId /\ number[r] < nextId'
  /\ \A r, q \in new : number[r] = number[q] => r = q
  /\ torrents' = {row \in torrents : row.release \notin DOMAIN page}
       \union {RowWritten(page, k, number, r) : r \in DOMAIN page}
  /\ searches' = IF k = None THEN searches
                 ELSE Recorded(k, {Returned(r, number) : r \in DOMAIN page})
  /\ given' = [i \in 1..MaxId |->
                 IF \E r \in new : number[r] = i
                   THEN CHOOSE r \in new : number[r] = i ELSE given[i]]
  /\ nextId' \in 1..(MaxId + 1) /\ nextId' >= nextId
  /\ produced' = IF k = None THEN produced ELSE produced \union ({k} \X DOMAIN page)
  /\ UNCHANGED <<now, sweepVars, clearVars>>

\* The ids are new, and no two releases get one.
LEMMA UpsertNumbers ==
  ASSUME TypeOK, NEW page \in Pages, NEW k \in Keys \union {None}, Upsert(page, k)
  PROVE  \E new, number : UpsertWith(page, k, new, number)
<1>. DEFINE new == {r \in DOMAIN page : ~IsStored(r)}
            n == Cardinality(new)
<1>1. n \in Nat
  BY PageType, FS_Subset, FS_CardinalityType
<1>. HIDE DEF n
<1>2. PICK number \in Numberings(new) :
          /\ torrents' = {row \in torrents : row.release \notin DOMAIN page}
               \union {Upserted(r, page[r], k # None, number) : r \in DOMAIN page}
          /\ searches' = IF k = None THEN searches
                         ELSE Recorded(k, {Returned(r, number) : r \in DOMAIN page})
          /\ given' = [i \in 1..MaxId |->
                         IF \E r \in new : number[r] = i
                           THEN CHOOSE r \in new : number[r] = i ELSE given[i]]
  BY DEF Upsert
<1>3. /\ nextId + n <= MaxId + 1 /\ nextId' = nextId + n
      /\ produced' = IF k = None THEN produced ELSE produced \union ({k} \X DOMAIN page)
      /\ UNCHANGED <<now, sweepVars, clearVars>>
  BY DEF Upsert, NextAfter, n
<1>4. /\ number \in [new -> nextId .. nextId + n - 1]
      /\ \A r, q \in new : number[r] = number[q] => r = q
  BY DEF Numberings, Injection, IsInjective, n
<1>5. nextId \in Nat /\ nextId >= 1 /\ nextId' \in 1..(MaxId + 1) /\ nextId' >= nextId
  BY <1>1, <1>3, StoreAssumption DEF TypeOK
<1>6. \A r \in new : number[r] \in 1..MaxId /\ number[r] >= nextId /\ number[r] < nextId'
  <2>. SUFFICES ASSUME NEW r \in new
                PROVE  number[r] \in 1..MaxId /\ number[r] >= nextId /\ number[r] < nextId'
    OBVIOUS
  <2>1. number[r] \in nextId .. nextId + n - 1
    BY <1>4
  <2>. QED  BY <2>1, <1>1, <1>3, <1>5, StoreAssumption
<1>. HIDE DEF new
<1>7. UpsertWith(page, k, new, number)
  <2>1. new = {r \in DOMAIN page : ~IsStored(r)}
    BY DEF new
  <2>. QED  BY <1>2, <1>3, <1>4, <1>5, <1>6, <2>1, PageType DEF UpsertWith, RowWritten
<1>. QED  BY <1>7

\* A row written has its release; it keeps the id the release had, or has the new
\* one, which is the one returned; and one that a search produced stays one.
LEMMA UpsertedFields ==
  ASSUME TypeOK, NEW r \in Releases, NEW published \in Dates \union {Undated},
         NEW isManaged \in BOOLEAN, NEW number, ~IsStored(r) => number[r] \in 1..MaxId,
         NEW up, up = Upserted(r, published, isManaged, number)
  PROVE  /\ up \in Row /\ up.release = r /\ up.id = Returned(r, number)
         /\ isManaged => up.managed
         /\ ~IsStored(r) => up.id = number[r]
         /\ IsStored(r) => /\ RowFor(r) \in torrents /\ RowFor(r).release = r
                           /\ up.id = RowFor(r).id
                           /\ RowFor(r).managed => up.managed
<1>1. now \in 0..MaxTime
  BY DEF TypeOK
<1>2. CASE IsStored(r)
  <2>. DEFINE row == RowFor(r)
  <2>1. row \in torrents /\ row.release = r /\ row \in Row
    BY <1>2, RowForType DEF TypeOK
  <2>2. up = [row EXCEPT !.published = IF published # Undated THEN published ELSE @,
                         !.lastSeen = now,
                         !.managed = @ \/ isManaged]
    BY <1>2 DEF Upserted
  <2>3. Returned(r, number) = row.id
    BY <1>2 DEF Returned
  <2>. HIDE DEF row
  <2>4. /\ up \in Row /\ up.release = row.release /\ up.id = row.id
        /\ up.managed = (row.managed \/ isManaged)
    BY <1>1, <2>1, <2>2 DEF Row
  <2>. QED  BY <1>2, <2>1, <2>3, <2>4 DEF row
<1>3. CASE ~IsStored(r)
  <2>1. up = [id |-> number[r], release |-> r, published |-> published,
              lastSeen |-> now, managed |-> isManaged]
    BY <1>3 DEF Upserted
  <2>2. Returned(r, number) = number[r]
    BY <1>3 DEF Returned
  <2>. QED  BY <1>1, <1>3, <2>1, <2>2 DEF Row
<1>. QED  BY <1>2, <1>3

LEMMA UpsertedRow ==
  ASSUME StoreInv, NEW page, NEW k, NEW new, NEW number, UpsertWith(page, k, new, number),
         NEW r \in DOMAIN page
  PROVE  /\ RowWritten(page, k, number, r) \in Row
         /\ RowWritten(page, k, number, r).release = r
         /\ RowWritten(page, k, number, r).id = Returned(r, number)
         /\ k # None => RowWritten(page, k, number, r).managed
         /\ r \in new => RowWritten(page, k, number, r).id = number[r]
         /\ r \notin new => /\ RowFor(r) \in torrents /\ RowFor(r).release = r
                            /\ RowWritten(page, k, number, r).id = RowFor(r).id
                            /\ RowFor(r).managed => RowWritten(page, k, number, r).managed
<1>1. /\ TypeOK /\ r \in Releases /\ page[r] \in Dates \union {Undated}
      /\ ~IsStored(r) => number[r] \in 1..MaxId
      /\ r \in new <=> ~IsStored(r)
  BY DEF StoreInv, LinksStable, TablesAgree, UpsertWith
<1>. DEFINE isManaged == k # None
<1>2. isManaged \in BOOLEAN
  OBVIOUS
<1>3. RowWritten(page, k, number, r) = Upserted(r, page[r], isManaged, number)
  BY DEF RowWritten
<1>. HIDE DEF isManaged
<1>4. /\ RowWritten(page, k, number, r) \in Row
      /\ RowWritten(page, k, number, r).release = r
      /\ RowWritten(page, k, number, r).id = Returned(r, number)
      /\ isManaged => RowWritten(page, k, number, r).managed
      /\ r \in new => RowWritten(page, k, number, r).id = number[r]
      /\ r \notin new => /\ RowFor(r) \in torrents /\ RowFor(r).release = r
                         /\ RowWritten(page, k, number, r).id = RowFor(r).id
                         /\ RowFor(r).managed => RowWritten(page, k, number, r).managed
  BY <1>1, <1>2, <1>3, UpsertedFields
<1>. QED  BY <1>4 DEF isManaged

\* A row after an upsert is one before it of a release not returned, or one written.
LEMMA RowAfterUpsert ==
  ASSUME NEW page, NEW k, NEW new, NEW number, UpsertWith(page, k, new, number),
         NEW row \in torrents'
  PROVE  \/ row \in torrents /\ row.release \notin DOMAIN page
         \/ \E r \in DOMAIN page : row = RowWritten(page, k, number, r)
BY DEF UpsertWith

\* One row per release and per id still.
LEMMA UpsertUnique ==
  ASSUME StoreInv, NEW page, NEW k, NEW new, NEW number,
         UpsertWith(page, k, new, number), NEW a \in torrents', NEW b \in torrents',
         a.release = b.release \/ a.id = b.id
  PROVE  a = b
<1>. DEFINE Written(r) == RowWritten(page, k, number, r)
            Kept(row) == row \in torrents /\ row.release \notin DOMAIN page
<1>0. \A x, y \in torrents : x.release = y.release \/ x.id = y.id => x = y
  BY DEF StoreInv, LinksStable, TablesAgree
<1>1. \A row \in torrents : row.id \in Nat /\ row.id < nextId /\ nextId \in Nat
  BY StoreAssumption DEF StoreInv, IdsSpent, LinksStable, TablesAgree, TypeOK, Row
<1>2. \A r \in new : number[r] \in Nat /\ number[r] >= nextId
  BY StoreAssumption DEF UpsertWith
<1>3. ASSUME NEW x, Kept(x), NEW r \in DOMAIN page,
             x.release = Written(r).release \/ x.id = Written(r).id
      PROVE  FALSE
  <2>1. Written(r).release = r
    BY UpsertedRow
  <2>2. x.id = Written(r).id
    BY <1>3, <2>1
  <2>3. CASE r \in new
    BY <1>1, <1>2, <1>3, <2>2, <2>3, UpsertedRow
  <2>4. CASE r \notin new
    <3>1. RowFor(r) \in torrents /\ RowFor(r).release = r /\ RowFor(r).id = x.id
      BY <2>2, <2>4, UpsertedRow
    <3>. QED  BY <1>0, <1>3, <3>1
  <2>. QED  BY <2>3, <2>4
<1>4. ASSUME NEW r \in DOMAIN page, NEW q \in DOMAIN page,
             Written(r).release = Written(q).release \/ Written(r).id = Written(q).id
      PROVE  r = q
  <2>1. Written(r).release = r /\ Written(q).release = q
    BY UpsertedRow
  <2>2. CASE Written(r).id = Written(q).id
    <3>1. CASE r \in new /\ q \in new
      <4>1. number[r] = number[q]
        BY <2>2, <3>1, UpsertedRow
      <4>. QED  BY <3>1, <4>1 DEF UpsertWith
    <3>2. CASE r \notin new /\ q \notin new
      <4>1. /\ RowFor(r) \in torrents /\ RowFor(r).release = r
            /\ RowFor(q) \in torrents /\ RowFor(q).release = q
            /\ RowFor(r).id = RowFor(q).id
        BY <2>2, <3>2, UpsertedRow
      <4>. QED  BY <1>0, <4>1
    <3>3. ASSUME NEW x \in new, NEW y \in DOMAIN page \ new, x \in DOMAIN page,
                 Written(x).id = Written(y).id
          PROVE  FALSE
      <4>1. RowFor(y) \in torrents /\ number[x] = RowFor(y).id
        BY <3>3, UpsertedRow
      <4>. QED  BY <1>1, <1>2, <4>1
    <3>. HIDE DEF Written
    <3>. QED  BY <2>2, <3>1, <3>2, <3>3
  <2>. QED  BY <1>4, <2>1, <2>2
<1>5. \A row \in torrents' : Kept(row) \/ \E r \in DOMAIN page : row = Written(r)
  BY RowAfterUpsert
<1>. HIDE DEF Written
<1>6. CASE Kept(a) /\ Kept(b)
  BY <1>0, <1>6
<1>7. CASE ~Kept(a) /\ ~Kept(b)
  BY <1>4, <1>5, <1>7
<1>8. CASE Kept(a) /\ ~Kept(b)
  BY <1>3, <1>5, <1>8
<1>9. CASE ~Kept(a) /\ Kept(b)
  BY <1>3, <1>5, <1>9
<1>. QED  BY <1>6, <1>7, <1>8, <1>9

\* A row that was there is there still, under its id and with its release.
LEMMA UpsertKeeps ==
  ASSUME StoreInv, NEW page, NEW k, NEW new, NEW number,
         UpsertWith(page, k, new, number), NEW row \in torrents
  PROVE  \E kept \in torrents' : /\ kept.id = row.id /\ kept.release = row.release
                                 /\ row.managed => kept.managed
<1>1. CASE row.release \notin DOMAIN page
  BY <1>1 DEF UpsertWith
<1>2. CASE row.release \in DOMAIN page
  <2>. DEFINE r == row.release
              up == RowWritten(page, k, number, r)
  <2>1. r \notin new
    BY <1>2 DEF UpsertWith, IsStored
  <2>2. RowFor(r) = row
    <3>1. RowFor(r) \in torrents /\ RowFor(r).release = row.release
      BY <1>2, <2>1, UpsertedRow
    <3>. QED  BY <3>1 DEF StoreInv, LinksStable, TablesAgree
  <2>3. up \in torrents'
    BY <1>2 DEF UpsertWith
  <2>4. up.id = row.id /\ up.release = row.release /\ (row.managed => up.managed)
    BY <1>2, <2>1, <2>2, UpsertedRow
  <2>. QED  BY <2>3, <2>4
<1>. QED  BY <1>1, <1>2
-----------------------------------------------------------------------------
\* An upsert preserves the invariant.
LEMMA UpsertStored ==
  ASSUME StoreInv, NEW page \in Pages, NEW k \in Keys \union {None}, Upsert(page, k)
  PROVE  StoreInv'
<1>. DEFINE Written(number, r) == RowWritten(page, k, number, r)
<1>1. PICK new, number : UpsertWith(page, k, new, number)
  BY UpsertNumbers DEF StoreInv, LinksStable, TablesAgree
<1>2. /\ DOMAIN page \subseteq Releases /\ new \subseteq DOMAIN page
      /\ \A r \in DOMAIN page : Written(number, r) \in torrents'
  BY <1>1 DEF UpsertWith
<1>3. \A row \in torrents' : \/ row \in torrents /\ row.release \notin DOMAIN page
                             \/ \E r \in DOMAIN page : row = Written(number, r)
  BY <1>1, RowAfterUpsert
<1>4. \A r \in DOMAIN page :
        /\ Written(number, r) \in Row /\ Written(number, r).release = r
        /\ Written(number, r).id = Returned(r, number)
        /\ k # None => Written(number, r).managed
        /\ r \in new => Written(number, r).id = number[r]
        /\ r \notin new => RowFor(r) \in torrents /\ RowFor(r).release = r
                          /\ Written(number, r).id = RowFor(r).id
  BY <1>1, UpsertedRow
<1>5. \A a, b \in torrents' : a.release = b.release \/ a.id = b.id => a = b
  BY <1>1, UpsertUnique
<1>. HIDE DEF Written
<1>. DEFINE ids == {Returned(r, number) : r \in DOMAIN page}
<1>6. k # None => \A e \in searches' :
        \/ e \in searches /\ ~(e.key = k /\ e.id \in ids)
        \/ e \in [id : ids, key : {k}, lastSeen : {now}]
  BY <1>1 DEF UpsertWith, Recorded
<1>7. TypeOK'
  <2>1. torrents' \subseteq Row
    BY <1>3, <1>4 DEF StoreInv, LinksStable, TablesAgree, TypeOK
  <2>2. searches' \subseteq Entry
    <3>1. CASE k = None
      BY <1>1, <3>1 DEF UpsertWith, StoreInv, LinksStable, TablesAgree, TypeOK
    <3>2. CASE k # None
      <4>1. ids \subseteq 1..MaxId
        BY <1>4 DEF Row
      <4>2. k \in Keys /\ now \in 0..MaxTime /\ searches \subseteq Entry
        BY <3>2 DEF StoreInv, LinksStable, TablesAgree, TypeOK
      <4>. QED  BY <1>6, <3>2, <4>1, <4>2 DEF Entry
    <3>. QED  BY <3>1, <3>2
  <2>3. produced' \subseteq Keys \X Releases
    BY <1>1, <1>2 DEF UpsertWith, StoreInv, LinksStable, TablesAgree, TypeOK
  <2>4. given' \in [1..MaxId -> Releases \union {None}]
    <3>1. \A i \in 1..MaxId : given'[i] \in Releases \union {None}
      <4>. SUFFICES ASSUME NEW i \in 1..MaxId PROVE given'[i] \in Releases \union {None}
        OBVIOUS
      <4>1. CASE \E r \in new : number[r] = i
        BY <1>1, <1>2, <4>1 DEF UpsertWith
      <4>2. CASE ~ \E r \in new : number[r] = i
        BY <1>1, <4>2 DEF UpsertWith, StoreInv, LinksStable, TablesAgree, TypeOK
      <4>. QED  BY <4>1, <4>2
    <3>2. given' = [i \in 1..MaxId |-> given'[i]]
      BY <1>1 DEF UpsertWith
    <3>. QED  BY <3>1, <3>2
  <2>. QED  BY <1>1, <2>1, <2>2, <2>3, <2>4
            DEF UpsertWith, sweepVars, clearVars, StoreInv, LinksStable, TablesAgree, TypeOK
<1>8. (\A e \in searches : \E row \in torrents : row.id = e.id /\ row.managed)'
  <2>1. ASSUME NEW e \in searches PROVE \E row \in torrents' : row.id = e.id /\ row.managed
    <3>1. PICK row \in torrents : row.id = e.id /\ row.managed
      BY DEF StoreInv, LinksStable, TablesAgree
    <3>. QED  BY <1>1, <3>1, UpsertKeeps
  <2>2. ASSUME k # None, NEW e \in [id : ids, key : {k}, lastSeen : {now}]
        PROVE  \E row \in torrents' : row.id = e.id /\ row.managed
    <3>1. PICK r \in DOMAIN page : e.id = Returned(r, number)
      OBVIOUS
    <3>. QED  BY <1>2, <1>4, <2>2, <3>1
  <2>3. k = None => searches' = searches
    BY <1>1 DEF UpsertWith
  <2>. QED  BY <1>6, <2>1, <2>2, <2>3
<1>9. (\A a, b \in searches : a.id = b.id /\ a.key = b.key => a = b)'
  <2>1. \A a, b \in searches : a.id = b.id /\ a.key = b.key => a = b
    BY DEF StoreInv, LinksStable, TablesAgree
  <2>2. CASE k = None
    BY <1>1, <2>1, <2>2 DEF UpsertWith
  <2>3. CASE k # None
    <3>1. \A a, b \in [id : ids, key : {k}, lastSeen : {now}] : a.id = b.id => a = b
      OBVIOUS
    <3>2. \A a \in [id : ids, key : {k}, lastSeen : {now}] : a.id \in ids /\ a.key = k
      OBVIOUS
    <3>. HIDE DEF ids
    <3>. QED  BY <1>6, <2>1, <2>3, <3>1, <3>2
  <2>. QED  BY <2>2, <2>3
<1>10. (\A row \in torrents : given[row.id] = row.release)'
  <2>1. ASSUME NEW row \in torrents, row.release \notin DOMAIN page
        PROVE  given'[row.id] = row.release
    <3>1. row.id \in 1..MaxId /\ row.id < nextId /\ given[row.id] = row.release /\ nextId \in Nat
      BY DEF StoreInv, LinksStable, TablesAgree, TypeOK, Row, IdsSpent
    <3>2. ~ \E r \in new : number[r] = row.id
      BY <1>1, <3>1 DEF UpsertWith
    <3>. QED  BY <1>1, <3>1, <3>2 DEF UpsertWith
  <2>2. ASSUME NEW r \in new PROVE given'[Written(number, r).id] = r
    <3>1. number[r] \in 1..MaxId /\ Written(number, r).id = number[r]
      BY <1>1, <1>2, <1>4 DEF UpsertWith
    <3>2. (CHOOSE q \in new : number[q] = number[r]) = r
      BY <1>1 DEF UpsertWith
    <3>. QED  BY <1>1, <3>1, <3>2 DEF UpsertWith
  <2>3. ASSUME NEW r \in DOMAIN page, r \notin new PROVE given'[Written(number, r).id] = r
    <3>. DEFINE row == RowFor(r)
    <3>1. row \in torrents /\ row.release = r /\ Written(number, r).id = row.id
      BY <1>4, <2>3
    <3>. HIDE DEF row
    <3>2. row.id \in 1..MaxId /\ row.id < nextId /\ given[row.id] = r /\ nextId \in Nat
      BY <3>1 DEF StoreInv, LinksStable, TablesAgree, TypeOK, Row, IdsSpent
    <3>3. ~ \E q \in new : number[q] = row.id
      BY <1>1, <3>2 DEF UpsertWith
    <3>. QED  BY <1>1, <3>1, <3>2, <3>3 DEF UpsertWith
  <2>. QED  BY <1>3, <1>4, <2>1, <2>2, <2>3
<1>11. IdsSpent'
  <2>1. nextId \in Nat /\ nextId' \in Nat /\ nextId' >= nextId
    BY <1>1, StoreAssumption DEF UpsertWith, StoreInv, LinksStable, TablesAgree, TypeOK
  <2>2. \A row \in torrents : row.id \in Nat /\ row.id < nextId
    BY StoreAssumption DEF StoreInv, LinksStable, TablesAgree, TypeOK, Row, IdsSpent
  <2>3. \A r \in new : number[r] < nextId'
    BY <1>1 DEF UpsertWith
  <2>4. \A r \in DOMAIN page : Written(number, r).id < nextId'
    BY <1>4, <2>1, <2>2, <2>3
  <2>. QED  BY <1>3, <2>1, <2>2, <2>4 DEF IdsSpent
<1>12. RecordsTrue'
  <2>1. produced \subseteq produced' /\ (k # None => \A r \in DOMAIN page : <<k, r>> \in produced')
    BY <1>1 DEF UpsertWith
  <2>2. ASSUME NEW e \in searches, NEW row \in torrents', e.id = row.id
        PROVE  <<e.key, row.release>> \in produced'
    <3>1. PICK before \in torrents : before.id = e.id
      BY DEF StoreInv, LinksStable, TablesAgree
    <3>2. <<e.key, before.release>> \in produced'
      BY <2>1, <3>1 DEF StoreInv, RecordsTrue
    <3>3. PICK kept \in torrents' : kept.id = before.id /\ kept.release = before.release
      BY <1>1, UpsertKeeps
    <3>4. kept = row
      BY <1>5, <2>2, <3>1, <3>3
    <3>. QED  BY <3>2, <3>3, <3>4
  <2>3. ASSUME k # None, NEW e \in [id : ids, key : {k}, lastSeen : {now}],
               NEW row \in torrents', e.id = row.id
        PROVE  <<e.key, row.release>> \in produced'
    <3>1. PICK r \in DOMAIN page : e.id = Returned(r, number)
      OBVIOUS
    <3>2. row = Written(number, r)
      <4>1. Written(number, r) \in torrents' /\ Written(number, r).id = row.id
        BY <1>2, <1>4, <2>3, <3>1
      <4>. QED  BY <1>5, <4>1
    <3>3. e.key = k /\ row.release = r
      BY <1>4, <3>2
    <3>. QED  BY <2>1, <2>3, <3>3
  <2>4. k = None => searches' = searches
    BY <1>1 DEF UpsertWith
  <2>. QED  BY <1>6, <2>2, <2>3, <2>4 DEF RecordsTrue
<1>. QED
  BY <1>5, <1>7, <1>8, <1>9, <1>10, <1>11, <1>12 DEF StoreInv, LinksStable, TablesAgree

-----------------------------------------------------------------------------
(***************************************************************************)
(* Deletions, and the other steps.                                         *)
(***************************************************************************)

\* Fewer rows, and the records of those that are left, agree as before.
LEMMA FewerStored ==
  ASSUME StoreInv, TypeOK', UNCHANGED <<nextId, given, produced>>,
         torrents' \subseteq torrents, searches' \subseteq searches,
         \A e \in searches', row \in torrents : row.id = e.id => row \in torrents'
  PROVE  StoreInv'
<1>1. (\A e \in searches : \E row \in torrents : row.id = e.id /\ row.managed)'
  BY DEF StoreInv, LinksStable, TablesAgree
<1>2. /\ \A a, b \in torrents' : a.release = b.release \/ a.id = b.id => a = b
      /\ \A a, b \in searches' : a.id = b.id /\ a.key = b.key => a = b
      /\ \A row \in torrents' : given'[row.id] = row.release
      /\ IdsSpent' /\ RecordsTrue'
  BY DEF StoreInv, LinksStable, TablesAgree, IdsSpent, RecordsTrue
<1>. QED  BY <1>1, <1>2 DEF StoreInv, LinksStable, TablesAgree

\* A batch deleted goes with its records of searches.
LEMMA DeletedStored ==
  ASSUME StoreInv, TypeOK', UNCHANGED <<nextId, given, produced>>, NEW ids, Deleted(ids)
  PROVE  StoreInv'
BY FewerStored DEF Deleted

\* Every step of the store preserves the invariant.
LEMMA StoreStep == ASSUME StoreInv, [Next]_vars PROVE StoreInv'
<1>. USE DEF tableVars, sweepVars, clearVars
<1>0. TypeOK /\ torrents \subseteq Row
  BY DEF StoreInv, LinksStable, TablesAgree, TypeOK
<1>1. ASSUME NEW page \in Pages, NEW k \in Keys \union {None}, Upsert(page, k) PROVE StoreInv'
  BY <1>1, UpsertStored
<1>2. CASE BeginSweep
  <2>1. {row.id : row \in torrents} \in SUBSET (1..MaxId)
    BY <1>0 DEF Row
  <2>2. Largest({row.id : row \in torrents}) \in 0..MaxId
    BY <2>1, LargestType
  <2>3. now - MaxAge \in Int
    BY <1>0, StoreAssumption DEF TypeOK
  <2>4. TypeOK'
    BY <1>0, <1>2, <2>2, <2>3 DEF BeginSweep, TypeOK
  <2>. QED  BY <1>2, <2>4, FewerStored DEF BeginSweep
<1>3. CASE SweepSearches
  <2>1. TypeOK'
    BY <1>0, <1>3 DEF SweepSearches, TypeOK
  <2>. QED  BY <1>3, <2>1, FewerStored DEF SweepSearches
<1>4. CASE SweepTorrents
  <2>1. TypeOK'
    BY <1>0, <1>4 DEF SweepTorrents, Deleted, TypeOK
  <2>. QED  BY <1>4, <2>1, DeletedStored DEF SweepTorrents
<1>5. CASE SweepFails
  <2>1. TypeOK'
    BY <1>0, <1>5, StoreAssumption DEF SweepFails, TypeOK
  <2>. QED  BY <1>5, <2>1, FewerStored DEF SweepFails
<1>6. ASSUME NEW t \in Trackers, BeginClear(t) PROVE StoreInv'
  <2>1. {row.id : row \in {u \in torrents : u.release[1] = t}} \in SUBSET (1..MaxId)
    BY <1>0 DEF Row
  <2>2. Largest({row.id : row \in {u \in torrents : u.release[1] = t}}) \in 0..MaxId
    BY <2>1, LargestType
  <2>3. TypeOK'
    BY <1>0, <1>6, <2>2 DEF BeginClear, TypeOK
  <2>. QED  BY <1>6, <2>3, FewerStored DEF BeginClear
<1>7. CASE ClearBatch
  <2>1. TypeOK'
    BY <1>0, <1>7 DEF ClearBatch, Deleted, TypeOK
  <2>. QED  BY <1>7, <2>1, DeletedStored DEF ClearBatch
<1>8. CASE ClearFails
  <2>1. TypeOK'
    BY <1>0, <1>8, StoreAssumption DEF ClearFails, TypeOK
  <2>. QED  BY <1>8, <2>1, FewerStored DEF ClearFails
<1>9. CASE Tick
  <2>1. now' \in 0..MaxTime
    BY <1>0, <1>9, StoreAssumption DEF Tick, TypeOK
  <2>2. TypeOK'
    BY <1>0, <1>9, <2>1 DEF Tick, TypeOK
  <2>. QED  BY <1>9, <2>2, FewerStored DEF Tick
<1>10. CASE UNCHANGED vars
  <2>1. TypeOK'
    BY <1>0, <1>10 DEF vars, TypeOK
  <2>. QED  BY <1>10, <2>1, FewerStored DEF vars
<1>. QED  BY <1>1, <1>2, <1>3, <1>4, <1>5, <1>6, <1>7, <1>8, <1>9, <1>10 DEF Next

\* The empty store.
LEMMA StoreBegins == Init => StoreInv
<1>. SUFFICES ASSUME Init PROVE StoreInv
  OBVIOUS
<1>1. TypeOK
  BY StoreAssumption DEF Init, TypeOK
<1>. QED
  BY <1>1 DEF Init, StoreInv, LinksStable, TablesAgree, IdsSpent, RecordsTrue

-----------------------------------------------------------------------------
(***************************************************************************)
(* Sweeps and clears that end well.                                        *)
(***************************************************************************)

\* What a sweep or a clear has still to leave behind: a statement that deletes
\* fewer than it might has left none of what it selects; what a scrape stores
\* afterwards has a new id or was seen since the sweep began.
Progress ==
  /\ lastTorrent < nextId /\ clearLast < nextId
  /\ sweep # "idle" => cutoff + MaxAge <= now
  /\ sweep \in {"undated", "done"} => \A row \in Old("dated") : row.lastSeen >= cutoff + MaxAge
  /\ sweep = "done" => \A row \in Old("undated") : row.lastSeen >= cutoff + MaxAge
  /\ clearing = "done" => \A row \in torrents : row.release[1] = cleared => row.id > clearLast

\* There are finitely many rows, as no two have one id.
LEMMA RowsFinite == ASSUME TablesAgree PROVE IsFiniteSet(torrents)
<1>. DEFINE f == [row \in torrents |-> row.id]
<1>1. f \in Injection(torrents, 1..MaxId)
  <2>1. \A row \in torrents : row.id \in 1..MaxId
    BY DEF TablesAgree, TypeOK, Row
  <2>2. f \in [torrents -> 1..MaxId] /\ \A a, b \in torrents : f[a] = f[b] => a = b
    BY <2>1 DEF TablesAgree
  <2>. QED  BY <2>2 DEF Injection, IsInjective
<1>2. IsFiniteSet(1..MaxId)
  BY FS_Interval, StoreAssumption
<1>. HIDE DEF f
<1>. QED  BY <1>1, <1>2, FS_Injection

\* A last batch is all there is to delete.
LEMMA LastBatch ==
  ASSUME TablesAgree, NEW rows \in SUBSET torrents, NEW b \in Batches(rows), IsLast(b)
  PROVE  b = rows
<1>1. IsFiniteSet(rows)
  BY RowsFinite, FS_Subset
<1>2. b \in SUBSET rows /\ Cardinality(b) = Cardinality(rows)
  BY StoreAssumption DEF Batches, IsLast
<1>. QED  BY <1>1, <1>2, FS_Subset

\* A row of the table after an upsert was there, or was seen now and has its id
\* from before or from the sequence.
LEMMA UpsertedSince ==
  ASSUME StoreInv, NEW page \in Pages, NEW k \in Keys \union {None}, Upsert(page, k),
         NEW row \in torrents'
  PROVE  \/ row \in torrents
         \/ /\ row.lastSeen = now
            /\ \/ row.id >= nextId
               \/ \E before \in torrents : before.id = row.id /\ before.release = row.release
<1>1. PICK new, number : UpsertWith(page, k, new, number)
  BY UpsertNumbers DEF StoreInv, LinksStable, TablesAgree
<1>2. CASE row \in torrents
  BY <1>2
<1>3. ASSUME NEW r \in DOMAIN page, row = RowWritten(page, k, number, r)
      PROVE  /\ row.lastSeen = now
             /\ \/ row.id >= nextId
                \/ \E before \in torrents : before.id = row.id /\ before.release = row.release
  <2>1. row.lastSeen = now
    <3>1. CASE IsStored(r)
      <4>1. RowFor(r) \in Row
        BY <3>1, RowForType DEF StoreInv, LinksStable, TablesAgree, TypeOK
      <4>. QED  BY <1>3, <3>1, <4>1 DEF RowWritten, Upserted, Row
    <3>2. CASE ~IsStored(r)
      BY <1>3, <3>2 DEF RowWritten, Upserted
    <3>. QED  BY <3>1, <3>2
  <2>2. CASE r \in new
    <3>1. row.id = number[r]
      BY <1>1, <1>3, <2>2, UpsertedRow
    <3>2. number[r] >= nextId
      BY <1>1, <2>2 DEF UpsertWith
    <3>. QED  BY <2>1, <3>1, <3>2
  <2>3. CASE r \notin new
    <3>1. row.release = r /\ RowFor(r) \in torrents /\ RowFor(r).release = r /\ row.id = RowFor(r).id
      BY <1>1, <1>3, <2>3, UpsertedRow
    <3>. QED  BY <2>1, <3>1
  <2>. QED  BY <2>2, <2>3
<1>. QED  BY <1>1, <1>2, <1>3, RowAfterUpsert

LEMMA UpsertProgress ==
  ASSUME StoreInv, Progress, NEW page \in Pages, NEW k \in Keys \union {None}, Upsert(page, k)
  PROVE  Progress'
<1>1. /\ now \in Nat /\ cutoff \in Int /\ lastTorrent \in Nat /\ clearLast \in Nat
      /\ nextId \in Nat /\ MaxAge \in Nat
  BY StoreAssumption DEF StoreInv, LinksStable, TablesAgree, TypeOK
<1>2. nextId' \in Nat /\ nextId' >= nextId
      /\ UNCHANGED <<now, sweep, cutoff, lastTorrent, clearing, cleared, clearLast>>
  <2>1. PICK new, number : UpsertWith(page, k, new, number)
    BY UpsertNumbers DEF StoreInv, LinksStable, TablesAgree
  <2>. QED  BY <2>1, StoreAssumption DEF UpsertWith, sweepVars, clearVars
<1>3. \A row \in torrents' :
        \/ row \in torrents
        \/ /\ row.lastSeen = now
           /\ \/ row.id >= nextId
              \/ \E before \in torrents : before.id = row.id /\ before.release = row.release
  BY UpsertedSince
<1>4. ASSUME NEW part \in {"dated", "undated"}, sweep # "idle",
             \A row \in Old(part) : row.lastSeen >= cutoff + MaxAge
      PROVE  \A row \in Old(part)' : row.lastSeen >= cutoff' + MaxAge
  <2>. SUFFICES ASSUME NEW row \in Old(part)' PROVE row.lastSeen >= cutoff + MaxAge
    BY <1>2
  <2>1. row \in torrents' /\ (row \in torrents => row \in Old(part))
    BY <1>2 DEF Old, IsDatedOld, IsUndatedOld
  <2>2. CASE row \in torrents
    BY <1>4, <2>1, <2>2
  <2>3. CASE row.lastSeen = now
    BY <1>1, <1>4, <2>3 DEF Progress
  <2>. QED  BY <1>3, <2>1, <2>2, <2>3
<1>5. ASSUME clearing = "done", NEW row \in torrents', row.release[1] = cleared
      PROVE  row.id > clearLast
  <2>1. CASE row.id >= nextId
    <3>1. row.id \in Nat
      BY StoreStep, StoreAssumption DEF StoreInv, LinksStable, TablesAgree, TypeOK, Row, Next
    <3>. QED  BY <1>1, <2>1, <3>1 DEF Progress
  <2>2. CASE row \in torrents
    BY <1>5, <2>2 DEF Progress
  <2>3. CASE \E before \in torrents : before.id = row.id /\ before.release = row.release
    BY <1>5, <2>3 DEF Progress
  <2>. QED  BY <1>3, <2>1, <2>2, <2>3
<1>6. lastTorrent' < nextId' /\ clearLast' < nextId'
  BY <1>1, <1>2 DEF Progress
<1>. QED  BY <1>2, <1>4, <1>5, <1>6 DEF Progress

\* Rows only go, and a sweep or a clear is where it was.
LEMMA FewerProgress ==
  ASSUME Progress, torrents' \subseteq torrents,
         UNCHANGED <<now, nextId, cutoff, lastTorrent, clearing, cleared, clearLast>>,
         \/ sweep' = sweep
         \/ sweep' \in {"searches", "dated"} /\ sweep # "idle"
  PROVE  Progress'
<1>1. \A part \in {"dated", "undated"} : Old(part)' \subseteq Old(part)
  BY DEF Old, IsDatedOld, IsUndatedOld
<1>. QED  BY <1>1 DEF Progress

LEMMA SweepProgress == ASSUME StoreInv, Progress, SweepTorrents PROVE Progress'
<1>1. PICK b \in Batches(Old(sweep)) :
        /\ Deleted({row.id : row \in b})
        /\ sweep' = IF ~IsLast(b) THEN sweep
                    ELSE IF sweep = "dated" THEN "undated" ELSE "done"
  BY DEF SweepTorrents
<1>2. torrents' \subseteq torrents
      /\ UNCHANGED <<now, nextId, cutoff, lastTorrent, clearing, cleared, clearLast>>
  BY <1>1 DEF SweepTorrents, Deleted, clearVars
<1>3. CASE ~IsLast(b)
  BY <1>1, <1>2, <1>3, FewerProgress
<1>4. CASE IsLast(b)
  <2>1. b = Old(sweep)
    BY <1>1, <1>4, LastBatch DEF StoreInv, LinksStable, Old
  <2>2. Old(sweep) \intersect torrents' = {}
    BY <1>1, <2>1 DEF Deleted
  <2>3. \A part \in {"dated", "undated"} : Old(part)' \subseteq Old(part) \intersect torrents'
    BY <1>2 DEF Old, IsDatedOld, IsUndatedOld
  <2>4. CASE sweep = "dated"
    BY <1>1, <1>2, <1>4, <2>2, <2>3, <2>4 DEF Progress
  <2>5. CASE sweep = "undated"
    BY <1>1, <1>2, <1>4, <2>2, <2>3, <2>5 DEF Progress
  <2>. QED  BY <2>4, <2>5 DEF SweepTorrents
<1>. QED  BY <1>3, <1>4

LEMMA ClearProgress == ASSUME StoreInv, Progress, ClearBatch PROVE Progress'
<1>. DEFINE rows == {row \in torrents : row.release[1] = cleared /\ row.id <= clearLast}
<1>1. PICK b \in Batches(rows) :
        /\ Deleted({row.id : row \in b})
        /\ clearing' = IF IsLast(b) THEN "done" ELSE clearing
  BY DEF ClearBatch
<1>2. torrents' \subseteq torrents
      /\ UNCHANGED <<now, nextId, sweep, cutoff, lastTorrent, cleared, clearLast>>
  BY <1>1 DEF ClearBatch, Deleted, sweepVars
<1>3. \A part \in {"dated", "undated"} : Old(part)' \subseteq Old(part)
  BY <1>2 DEF Old, IsDatedOld, IsUndatedOld
<1>4. ASSUME clearing' = "done", NEW row \in torrents', row.release[1] = cleared
      PROVE  row.id > clearLast
  <2>1. IsLast(b)
    BY <1>1, <1>4 DEF ClearBatch
  <2>2. b = rows
    BY <1>1, <2>1, LastBatch DEF StoreInv, LinksStable
  <2>3. row \in torrents /\ row \notin rows
    BY <1>1, <1>2, <2>2 DEF Deleted
  <2>4. row.id \in Nat /\ clearLast \in Nat
    BY <2>3, StoreAssumption DEF StoreInv, LinksStable, TablesAgree, TypeOK, Row
  <2>. QED  BY <1>4, <2>3, <2>4
<1>. QED  BY <1>2, <1>3, <1>4 DEF Progress

\* The largest id of some rows is behind the sequence.
LEMMA LargestSpent ==
  ASSUME StoreInv, NEW rows \in SUBSET torrents
  PROVE  Largest({row.id : row \in rows}) \in Nat /\ Largest({row.id : row \in rows}) < nextId
<1>. DEFINE ids == {row.id : row \in rows}
<1>1. ids \in SUBSET (1..MaxId) /\ (\A i \in ids : i < nextId) /\ nextId \in Nat /\ 0 < nextId
  BY StoreAssumption DEF StoreInv, LinksStable, TablesAgree, TypeOK, Row, IdsSpent
<1>. HIDE DEF ids
<1>2. Largest(ids) \in 0..MaxId /\ (ids # {} => Largest(ids) \in ids)
  BY <1>1, LargestType
<1>3. ids = {} => Largest(ids) = 0
  BY DEF Largest
<1>4. Largest(ids) \in Nat /\ Largest(ids) < nextId
  BY <1>1, <1>2, <1>3, StoreAssumption
<1>. QED  BY <1>4 DEF ids

LEMMA ProgressStep == ASSUME StoreInv, Progress, [Next]_vars PROVE Progress'
<1>. USE DEF tableVars, sweepVars, clearVars
<1>0. /\ now \in Nat /\ cutoff \in Int /\ nextId \in Nat /\ MaxAge \in Nat /\ 0 < nextId
  BY StoreAssumption DEF StoreInv, LinksStable, TablesAgree, TypeOK
<1>1. ASSUME NEW page \in Pages, NEW k \in Keys \union {None}, Upsert(page, k) PROVE Progress'
  BY <1>1, UpsertProgress
<1>2. CASE BeginSweep
  <2>1. lastTorrent' < nextId
    BY <1>2, LargestSpent DEF BeginSweep
  <2>2. cutoff' + MaxAge <= now
    BY <1>0, <1>2 DEF BeginSweep
  <2>. QED  BY <1>2, <2>1, <2>2 DEF BeginSweep, Progress
<1>3. CASE SweepSearches
  BY <1>3, FewerProgress DEF SweepSearches
<1>4. CASE SweepTorrents
  BY <1>4, SweepProgress
<1>5. CASE SweepFails
  BY <1>0, <1>5 DEF SweepFails, Progress
<1>6. ASSUME NEW t \in Trackers, BeginClear(t) PROVE Progress'
  <2>1. clearLast' < nextId
    BY <1>6, LargestSpent DEF BeginClear
  <2>2. \A part \in {"dated", "undated"} : Old(part)' = Old(part)
    BY <1>6 DEF BeginClear, Old, IsDatedOld, IsUndatedOld
  <2>. QED  BY <1>6, <2>1, <2>2 DEF BeginClear, Progress
<1>7. CASE ClearBatch
  BY <1>7, ClearProgress
<1>8. CASE ClearFails
  <2>1. \A part \in {"dated", "undated"} : Old(part)' = Old(part)
    BY <1>8 DEF ClearFails, Old, IsDatedOld, IsUndatedOld
  <2>. QED  BY <1>0, <1>8, <2>1 DEF ClearFails, Progress
<1>9. CASE Tick
  <2>1. \A part \in {"dated", "undated"} : Old(part)' = Old(part)
    BY <1>9 DEF Tick, Old, IsDatedOld, IsUndatedOld
  <2>. QED  BY <1>0, <1>9, <2>1 DEF Tick, Progress
<1>10. CASE UNCHANGED vars
  BY <1>10, FewerProgress DEF vars
<1>. QED  BY <1>1, <1>2, <1>3, <1>4, <1>5, <1>6, <1>7, <1>8, <1>9, <1>10 DEF Next

\* A row id once given to a client names that release or nothing, and the tables
\* agree, whatever is stored, swept and cleared (upsertTorrent, AUTOINCREMENT).
THEOREM LinksStableAlways == Spec => []LinksStable
<1>1. StoreInv /\ [Next]_vars => StoreInv'
  BY StoreStep
<1>2. StoreInv => LinksStable
  BY DEF StoreInv
<1>. QED  BY <1>1, <1>2, StoreBegins, PTL DEF Spec

\* No search is answered with what only other searches found (recordSearch,
\* QueryTorrents).
THEOREM OnlyOwnResultsAlways == Spec => []OnlyOwnResults
<1>1. StoreInv /\ [Next]_vars => StoreInv'
  BY StoreStep
<1>2. StoreInv => OnlyOwnResults
  BY DEF StoreInv, RecordsTrue, OnlyOwnResults, Answers
<1>. QED  BY <1>1, <1>2, StoreBegins, PTL DEF Spec

\* What a sweep or a clear that ended well should have removed is gone, and stays
\* gone, whatever is stored between its batches and after (prune, ClearTracker).
THEOREM DeletionsCompleteAlways == Spec => []DeletionsComplete
<1>1. Init => Progress
  BY DEF Init, Progress
<1>2. StoreInv /\ [Next]_vars => StoreInv'
  BY StoreStep
<1>3. StoreInv /\ Progress /\ [Next]_vars => Progress'
  BY ProgressStep
<1>4. Progress => DeletionsComplete
  BY DEF Progress, DeletionsComplete
<1>. QED  BY <1>1, <1>2, <1>3, <1>4, StoreBegins, PTL DEF Spec

=============================================================================
