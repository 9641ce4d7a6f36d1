-------------------------- MODULE Components_proofs --------------------------
(***************************************************************************)
(* Proofs about the components that share no state: the store of the       *)
(* definitions, the administration panel, the settings of a tracker, the   *)
(* log files and the Windows service, each for every value of its          *)
(* constants. A part follows for each component: its inductive invariant,  *)
(* that every step keeps it, and what it implies.                          *)
(***************************************************************************)
EXTENDS DefinitionStore, AdminPanel, TrackerSettings, LogRotation, WindowsService,
        TLAPS, FiniteSetTheorems, WellFoundedInduction

\* A non-empty set of numbers has a smallest, which CHOOSE then picks.
LEMMA SmallestIs ==
  ASSUME NEW S \in SUBSET Nat, S # {}
  PROVE  \E n \in S : \A m \in S : n <= m
<1>1. PICK n \in S : \A m \in S : ~ (<<m, n>> \in OpToRel(<, Nat))
  BY NatLessThanWellFounded, WFMin
<1>2. \A m \in S : m \in Nat /\ n \in Nat /\ ~ (m < n)
  BY <1>1 DEF OpToRel
<1>. QED  BY <1>2

-----------------------------------------------------------------------------
(***************************************************************************)
(* The store of the definitions. The order the files are looked at in does *)
(* not matter: what is true of the cache is so file by file, and a lookup  *)
(* that meets an edit only promises less.                                  *)
(***************************************************************************)

\* What a file or the cache may hold.
Definition == [id : Ids, replaces : SUBSET Ids]
File       == [stamp : Nat, content : Definition \union {Broken}]
Cached     == [stamp : Int, tracker : Definition \union {Broken}, isBad : BOOLEAN]

StoreType ==
  /\ DefinitionTypeOK
  /\ dir \in [Files -> File] /\ cache \in [Files -> Cached]
  /\ lookup \in [phase : {"idle", "inspect", "read", "parse"}, want : Ids \union {Every},
                 names : SUBSET Files, left : SUBSET Files, stamp : Nat,
                 data : Definition \union {Broken}]
  /\ edited \in BOOLEAN

\* A file is served as it reads as long as its stamp is the one it was read under.
CacheTrue ==
  \A f \in Files :
    /\ dir[f] = Absent \/ dir[f].stamp >= 1
    /\ cache[f] = NotCached \/ cache[f].stamp >= 1
    /\ cache[f].stamp = dir[f].stamp /\ ~cache[f].isBad => cache[f].tracker = dir[f].content

\* What a lookup knows of the file it is at.
ReadTrue ==
  lookup.phase \in {"read", "parse"} =>
    /\ lookup.left # {} /\ lookup.stamp \in 1 .. edits
    /\ ~edited => lookup.stamp = dir[Current].stamp
    /\ lookup.phase = "parse" /\ lookup.stamp = dir[Current].stamp =>
         lookup.data \in {dir[Current].content, Broken}

\* What it knows of those behind it, while nobody edits.
LookupTrue ==
  lookup.phase # "idle" /\ ~edited =>
    /\ lookup.names = {f \in Files : dir[f] # Absent}
    /\ \A f \in lookup.names \ lookup.left : cache[f].stamp = dir[f].stamp

\* What the cache holds of a file once the lookup at it has parsed what it read.
Version(f) ==
  IF lookup.phase = "parse" /\ f = Current /\ lookup.data # Broken THEN lookup.data
  ELSE cache[f].tracker

\* It is what the file may be served as, and a lookup has no answer until it ends.
VersionTrue ==
  /\ servable \in [Files -> SUBSET (Definition \union {Broken})]
  /\ \A f \in Files : Version(f) \in servable[f]
  /\ lookup.phase # "idle" => answer.kind = "none"

DefinitionInv ==
  StoreType /\ CacheTrue /\ ReadTrue /\ LookupTrue /\ VersionTrue /\ LastGoodServed

LEMMA CurrentIs ==
  ASSUME StoreType, lookup.left # {}
  PROVE  Current \in lookup.left /\ Current \in Files
<1>1. lookup.left \in SUBSET Nat /\ lookup.left \subseteq Files
  BY DefinitionAssumption DEF StoreType
<1>2. \E f \in lookup.left : \A g \in lookup.left : f <= g
  BY <1>1, SmallestIs
<1>. QED  BY <1>1, <1>2 DEF Current

LEMMA CurrentStays == lookup'.left = lookup.left => Current' = Current
BY DEF Current

LEMMA DefinitionInitInv == DefinitionInit => DefinitionInv
<1>. SUFFICES ASSUME DefinitionInit PROVE DefinitionInv
  OBVIOUS
<1>. USE DEF DefinitionInit
<1>1. StoreType
  <2>1. Absent \in File /\ NotCached \in Cached
    BY DEF Absent, NotCached, File, Cached
  <2>2. DefinitionTypeOK
    BY DefinitionAssumption DEF DefinitionTypeOK, Absent, NotCached, Idle
  <2>3. /\ lookup.phase \in {"idle", "inspect", "read", "parse"} /\ lookup.want \in Ids \union {Every}
        /\ lookup.names \in SUBSET Files /\ lookup.left \in SUBSET Files /\ lookup.stamp \in Nat
        /\ lookup.data \in Definition \union {Broken}
    BY DEF Idle
  <2>. QED  BY <2>1, <2>2, <2>3 DEF StoreType, Idle
<1>2. VersionTrue /\ LastGoodServed
  BY DEF VersionTrue, Version, LastGoodServed, NoAnswer, NotCached, Idle
<1>3. CacheTrue
  BY DEF CacheTrue, Absent, NotCached
<1>4. ReadTrue /\ LookupTrue
  BY DEF ReadTrue, LookupTrue, Idle
<1>. QED  BY <1>1, <1>2, <1>3, <1>4 DEF DefinitionInv

\* An edit gives its file a stamp that no lookup has seen.
LEMMA EditStep ==
  ASSUME DefinitionInv, NEW f \in Files, NEW file, Edit(f, file),
         file = Absent \/ \E c \in Contents : file = [stamp |-> edits + 1, content |-> c]
  PROVE  DefinitionInv'
<1>. USE DEF DefinitionInv
<1>1. file \in File /\ (file = Absent \/ file.stamp = edits + 1) /\ edits \in Nat
  BY DefinitionAssumption DEF StoreType, DefinitionTypeOK, File, Definition, Absent
<1>2. Current' = Current
  BY CurrentStays DEF Edit
<1>3. StoreType'
  BY <1>1, DefinitionAssumption DEF StoreType, DefinitionTypeOK, Edit, File, Absent, Cached
<1>4. VersionTrue' /\ LastGoodServed'
  BY <1>2 DEF VersionTrue, Version, LastGoodServed, Edit
<1>5. CacheTrue'
  BY <1>1 DEF CacheTrue, StoreType, DefinitionTypeOK, Edit, File, Absent, Cached, NotCached
<1>6. ReadTrue'
  BY <1>1, <1>2, CurrentIs DEF ReadTrue, StoreType, DefinitionTypeOK, Edit, File, Absent
<1>7. LookupTrue'
  BY DEF LookupTrue, Edit
<1>. QED  BY <1>3, <1>4, <1>5, <1>6, <1>7

\* A lookup begins, over the files there are.
LEMMA ListStep ==
  ASSUME DefinitionInv, NEW want \in Ids \union {Every}, List(want) \/ ListFails(want)
  PROVE  DefinitionInv'
<1>. USE DEF DefinitionInv
<1>1. CASE List(want)
  <2>. USE <1>1 DEF List
  <2>1. StoreType'
    BY DEF StoreType, DefinitionTypeOK
  <2>2. VersionTrue' /\ LastGoodServed'
    BY DEF VersionTrue, Version, LastGoodServed, NoAnswer
  <2>3. CacheTrue' /\ ReadTrue' /\ LookupTrue'
    BY DEF CacheTrue, ReadTrue, LookupTrue
  <2>. QED  BY <2>1, <2>2, <2>3
<1>2. CASE ListFails(want)
  <2>. USE <1>2 DEF ListFails
  <2>1. StoreType' /\ CacheTrue' /\ LookupTrue'
    BY DEF StoreType, DefinitionTypeOK, CacheTrue, LookupTrue
  <2>2. VersionTrue' /\ LastGoodServed'
    BY DEF VersionTrue, Version, LastGoodServed, NoAnswer
  <2>3. ReadTrue'
    BY DEF ReadTrue, Current
  <2>. QED  BY <2>1, <2>2, <2>3
<1>. QED  BY <1>1, <1>2

LEMMA InspectStep == ASSUME DefinitionInv, Inspect PROVE DefinitionInv'
<1>. USE DEF DefinitionInv, Inspect
<1>1. Current \in lookup.left /\ Current \in Files
  BY CurrentIs
<1>2. CacheTrue' /\ LastGoodServed'
  BY DEF CacheTrue, LastGoodServed
<1>3. CASE dir[Current] = Absent \/ cache[Current].stamp = dir[Current].stamp
  <2>1. lookup' = Done(Current)
    BY <1>3
  <2>2. StoreType'
    BY <1>1, <2>1 DEF StoreType, DefinitionTypeOK, Done
  <2>3. ReadTrue'
    BY <2>1 DEF ReadTrue, Done, StoreType
  <2>4. LookupTrue'
    BY <1>1, <1>3, <2>1 DEF LookupTrue, Done, StoreType
  <2>5. VersionTrue'
    BY <2>1 DEF VersionTrue, Version, Done, StoreType
  <2>. QED  BY <1>2, <2>2, <2>3, <2>4, <2>5
<1>4. CASE ~ (dir[Current] = Absent \/ cache[Current].stamp = dir[Current].stamp)
  <2>1. lookup' = [lookup EXCEPT !.phase = "read", !.stamp = dir[Current].stamp]
    BY <1>4
  <2>2. StoreType'
    BY <1>1, <2>1 DEF StoreType, DefinitionTypeOK, File
  <2>3. Current' = Current
    BY <2>1, CurrentStays DEF StoreType
  <2>4. ReadTrue'
    BY <1>1, <1>4, <2>1, <2>3 DEF ReadTrue, StoreType, DefinitionTypeOK, CacheTrue, File
  <2>5. LookupTrue'
    BY <2>1 DEF LookupTrue, StoreType
  <2>6. VersionTrue'
    BY <2>1 DEF VersionTrue, Version, StoreType
  <2>. QED  BY <1>2, <2>2, <2>4, <2>5, <2>6
<1>. QED  BY <1>3, <1>4

LEMMA ReadFileStep == ASSUME DefinitionInv, ReadFile PROVE DefinitionInv'
<1>. USE DEF DefinitionInv, ReadFile
<1>1. PICK data \in {dir[Current].content, Broken} :
          /\ lookup' = [lookup EXCEPT !.phase = "parse", !.data = data]
          /\ servable' = [servable EXCEPT ![Current] = IF data = Broken THEN @ ELSE {data}]
  OBVIOUS
<1>2. Current \in Files
  BY CurrentIs DEF ReadTrue
<1>3. Current' = Current
  BY <1>1, CurrentStays DEF StoreType
<1>4. StoreType'
  BY <1>1, <1>2 DEF StoreType, DefinitionTypeOK, File
<1>5. CacheTrue'
  BY DEF CacheTrue
<1>6. ReadTrue'
  BY <1>1, <1>3 DEF ReadTrue, StoreType
<1>7. LookupTrue'
  BY <1>1 DEF LookupTrue, StoreType
<1>8. VersionTrue'
  <2>1. data \in Definition \union {Broken}
    BY <1>2 DEF StoreType, File
  <2>2. lookup'.phase = "parse" /\ lookup'.data = data
    BY <1>1 DEF StoreType
  <2>3. \A f \in Files : cache[f].tracker \in servable[f]
    BY DEF VersionTrue, Version
  <2>4. servable' \in [Files -> SUBSET (Definition \union {Broken})]
    BY <1>1, <1>2, <2>1 DEF VersionTrue
  <2>5. ASSUME NEW f \in Files PROVE Version(f)' \in servable'[f]
    BY <1>1, <1>2, <1>3, <2>2, <2>3 DEF VersionTrue, Version
  <2>. QED  BY <2>4, <2>5 DEF VersionTrue
<1>9. LastGoodServed'
  BY DEF VersionTrue, LastGoodServed
<1>. QED  BY <1>4, <1>5, <1>6, <1>7, <1>8, <1>9

LEMMA ParseStep == ASSUME DefinitionInv, Parse PROVE DefinitionInv'
<1>. USE DEF DefinitionInv, Parse
<1>. DEFINE kept == IF lookup.data = Broken THEN cache[Current].tracker ELSE lookup.data
            entry == [stamp |-> lookup.stamp, tracker |-> kept, isBad |-> lookup.data = Broken]
<1>1. Current \in lookup.left /\ Current \in Files
  BY CurrentIs DEF ReadTrue
<1>2. cache' = [cache EXCEPT ![Current] = entry]
  BY DEF Identity, LastGood
<1>3. entry \in Cached
  BY <1>1 DEF StoreType, Cached
<1>4. /\ entry.stamp = lookup.stamp /\ lookup.stamp \in 1 .. edits
      /\ entry.stamp = dir[Current].stamp /\ ~entry.isBad => entry.tracker = dir[Current].content
  BY DEF ReadTrue
<1>4a. entry.tracker = Version(Current)
  BY DEF Version
<1>. HIDE DEF entry
<1>5. lookup' = Done(Current) /\ UNCHANGED <<dir, edits, answer, edited, servable>>
  OBVIOUS
<1>6. StoreType'
  <2>1. cache' \in [Files -> Cached]
    BY <1>1, <1>2, <1>3 DEF StoreType
  <2>2. \A f \in Files : cache'[f].stamp <= edits
    BY <1>1, <1>2, <1>4 DEF StoreType, DefinitionTypeOK
  <2>3. /\ lookup' \in [phase : {"idle", "inspect", "read", "parse"}, want : Ids \union {Every},
                        names : SUBSET Files, left : SUBSET Files, stamp : Nat,
                        data : Definition \union {Broken}]
        /\ lookup'.left \subseteq lookup'.names /\ lookup'.names \subseteq Files
    BY <1>5 DEF StoreType, DefinitionTypeOK, Done
  <2>. QED  BY <1>5, <2>1, <2>2, <2>3 DEF StoreType, DefinitionTypeOK
<1>7. VersionTrue' /\ LastGoodServed'
  <2>1. lookup'.phase = "inspect"
    BY <1>5 DEF Done, StoreType
  <2>2. \A f \in Files : cache'[f].tracker = Version(f)
    BY <1>1, <1>2, <1>4a DEF StoreType, Version
  <2>. QED  BY <1>5, <2>1, <2>2 DEF VersionTrue, Version, LastGoodServed
<1>8. CacheTrue'
  BY <1>1, <1>2, <1>4, <1>5 DEF CacheTrue, StoreType
<1>9. ReadTrue'
  BY <1>5 DEF ReadTrue, Done, StoreType
<1>10. LookupTrue'
  <2>. SUFFICES ASSUME ~edited
                PROVE  /\ lookup'.names = {f \in Files : dir[f] # Absent}
                       /\ \A f \in lookup'.names \ lookup'.left : cache'[f].stamp = dir[f].stamp
    BY <1>5 DEF LookupTrue
  <2>1. /\ lookup.names = {f \in Files : dir[f] # Absent}
        /\ \A f \in lookup.names \ lookup.left : cache[f].stamp = dir[f].stamp
        /\ lookup.stamp = dir[Current].stamp
    BY DEF LookupTrue, ReadTrue
  <2>2. lookup'.names = lookup.names /\ lookup'.left = lookup.left \ {Current}
    BY <1>5 DEF Done, StoreType
  <2>3. cache'[Current].stamp = lookup.stamp /\ \A f \in Files \ {Current} : cache'[f] = cache[f]
    BY <1>1, <1>2, <1>4 DEF StoreType
  <2>4. \A f \in lookup'.names \ lookup'.left : f \in Files /\ (f = Current \/ f \in lookup.names \ lookup.left)
    BY <2>2 DEF StoreType
  <2>. QED  BY <2>1, <2>2, <2>3, <2>4
<1>. QED  BY <1>6, <1>7, <1>8, <1>9, <1>10

-----------------------------------------------------------------------------
\* A lookup ends.

\* Only files that loaded are handed out, less some ids they replace.
LEMMA HandedOut ==
  ASSUME StoreType, NEW want,
         NEW f \in (IF want = Every THEN Usable ELSE Found(want))
  PROVE  /\ f \in Loaded /\ cache[f].tracker \in Definition
         /\ HandOut(f).id = cache[f].tracker.id
         /\ HandOut(f).replaces \subseteq cache[f].tracker.replaces
<1>. DEFINE renamed == {g \in Loaded : want \in cache[g].tracker.replaces}
<1>1. renamed # {} => First(renamed) \in Loaded
  <2>. SUFFICES ASSUME renamed # {} PROVE First(renamed) \in renamed
    OBVIOUS
  <2>1. renamed \in SUBSET Nat
    BY DefinitionAssumption DEF Loaded, StoreType
  <2>2. \E g \in renamed : \A h \in renamed : g <= h
    BY <2>1, SmallestIs
  <2>. QED  BY <2>2 DEF First
<1>2. f \in Loaded
  BY <1>1 DEF Usable, Found, UsersOf
<1>. QED  BY <1>2 DEF StoreType, Loaded, HandOut, Cached, Definition

\* What is left in the cache is what the lookup listed.
LEMMA PrunedIs ==
  ASSUME StoreType, \A f \in lookup.names : cache[f] # NotCached
  PROVE  Pruned = [f \in Files |-> IF f \in lookup.names THEN cache[f] ELSE NotCached]
<1>. DEFINE held == {f \in Files : cache[f] # NotCached}
<1>1. CASE Cardinality(held) # Cardinality(lookup.names)
  BY <1>1 DEF Pruned
<1>2. CASE Cardinality(held) = Cardinality(lookup.names)
  <2>1. lookup.names \subseteq held /\ IsFiniteSet(held)
    BY FS_Subset, DefinitionAssumption DEF StoreType
  <2>2. lookup.names = held
    BY <1>2, <2>1, FS_Subset
  <2>3. Pruned = cache
    BY <1>2 DEF Pruned
  <2>. QED  BY <2>2, <2>3 DEF StoreType
<1>. QED  BY <1>1, <1>2

\* Every file it listed, and no other, is in the cache when nobody edited.
LEMMA FinishCurrent ==
  ASSUME DefinitionInv, Finish, ~edited
  PROVE  \A f \in Files :
           IF dir[f] = Absent THEN cache'[f] = NotCached
           ELSE ~cache'[f].isBad => cache'[f].tracker = dir[f].content
<1>. USE DEF DefinitionInv
<1>1. /\ lookup.phase = "inspect" /\ lookup.left = {} /\ cache' = Pruned
  BY DEF Finish
<1>2. /\ lookup.names = {f \in Files : dir[f] # Absent}
      /\ \A f \in lookup.names : cache[f].stamp = dir[f].stamp
  BY <1>1 DEF LookupTrue
<1>3. \A f \in lookup.names : cache[f].stamp >= 1
  BY <1>2 DEF CacheTrue
<1>4. \A f \in lookup.names : cache[f] # NotCached
  BY <1>3 DEF NotCached
<1>5. cache' = [f \in Files |-> IF f \in lookup.names THEN cache[f] ELSE NotCached]
  BY <1>1, <1>4, PrunedIs
<1>. QED  BY <1>2, <1>5 DEF CacheTrue

LEMMA FinishStep == ASSUME DefinitionInv, Finish PROVE DefinitionInv'
<1>. USE DEF DefinitionInv
<1>1. lookup' = Idle /\ cache' = Pruned /\ UNCHANGED <<dir, edits, edited>>
  BY DEF Finish
<1>2. NotCached \in Cached
  BY DEF NotCached, Cached
<1>3. cache' \in [Files -> Cached] /\ \A f \in Files : cache'[f] \in {cache[f], NotCached}
  BY <1>1, <1>2 DEF Pruned, StoreType
<1>4. StoreType'
  <2>1. /\ lookup'.phase = "idle" /\ lookup'.names = {} /\ lookup'.left = {}
        /\ lookup' \in [phase : {"idle", "inspect", "read", "parse"}, want : Ids \union {Every},
                 names : SUBSET Files, left : SUBSET Files, stamp : Nat,
                 data : Definition \union {Broken}]
    BY <1>1 DEF Idle
  <2>2. \A f \in Files : cache'[f].stamp <= edits
    BY <1>3 DEF StoreType, DefinitionTypeOK, NotCached
  <2>. QED  BY <1>1, <1>3, <2>1, <2>2 DEF StoreType, DefinitionTypeOK
<1>5. VersionTrue'
  <2>1. \A f \in Files : cache[f].tracker \in servable[f]
    BY DEF Finish, VersionTrue, Version
  <2>2. servable' = [f \in Files |->
          CASE f \in lookup.names -> servable[f]
            [] f \notin lookup.names /\ Missing = {} -> {Broken}
            [] OTHER -> servable[f] \union {Broken}]
    BY DEF Finish
  <2>3. servable' \in [Files -> SUBSET (Definition \union {Broken})]
    BY <2>2 DEF VersionTrue
  <2>4. ASSUME NEW f \in Files PROVE cache'[f].tracker \in servable'[f]
    <3>1. CASE f \in lookup.names
      <4>1. cache'[f] = cache[f] /\ servable'[f] = servable[f]
        BY <1>1, <2>2, <3>1 DEF Pruned
      <4>. QED  BY <2>1, <4>1
    <3>2. CASE f \notin lookup.names /\ Missing = {}
      <4>1. cache'[f] = NotCached
        BY <1>1, <3>2, PrunedIs DEF Missing
      <4>2. servable'[f] = {Broken}
        BY <2>2, <3>2
      <4>. QED  BY <4>1, <4>2 DEF NotCached
    <3>3. CASE f \notin lookup.names /\ Missing # {}
      <4>1. servable'[f] = servable[f] \union {Broken}
        BY <2>2, <3>3
      <4>. QED  BY <1>3, <2>1, <4>1 DEF NotCached
    <3>. QED  BY <3>1, <3>2, <3>3
  <2>. QED  BY <1>1, <2>3, <2>4 DEF VersionTrue, Version, Idle
<1>5a. LastGoodServed'
  <2>1. CASE Missing # {}
    BY <2>1 DEF Finish, NoAnswer, LastGoodServed
  <2>2. CASE Missing = {}
    <3>. DEFINE from == IF lookup.want = Every THEN Usable ELSE Found(lookup.want)
    <3>1. answer'.loaded = [f \in Loaded |-> cache[f].tracker] /\ answer'.from = [f \in from |-> HandOut(f)]
      BY <2>2 DEF Finish
    <3>2. \A f \in Files : servable'[f] = IF f \in lookup.names THEN servable[f] ELSE {Broken}
      BY <2>2 DEF Finish
    <3>3. \A f \in Files : cache[f].tracker \in servable[f]
      BY DEF Finish, VersionTrue, Version
    <3>4. ASSUME NEW f \in Files
          PROVE  (IF f \in DOMAIN answer'.loaded THEN answer'.loaded[f] ELSE Broken) \in servable'[f]
      BY <3>1, <3>2, <3>3 DEF Loaded
    <3>5. ASSUME NEW f \in from
          PROVE  \E good \in servable'[f] \ {Broken} :
                   /\ answer'.from[f].id = good.id
                   /\ answer'.from[f].replaces \subseteq good.replaces
      <4>1. /\ f \in Loaded /\ HandOut(f).id = cache[f].tracker.id
            /\ HandOut(f).replaces \subseteq cache[f].tracker.replaces
        BY HandedOut
      <4>2. f \in Files /\ f \in lookup.names /\ cache[f].tracker # Broken
        BY <4>1 DEF Loaded, StoreType
      <4>3. cache[f].tracker \in servable'[f] \ {Broken}
        BY <3>2, <3>3, <4>2
      <4>. QED  BY <3>1, <4>1, <4>3
    <3>6. DOMAIN answer'.from = from
      BY <3>1
    <3>. HIDE DEF from
    <3>. QED  BY <3>4, <3>5, <3>6 DEF LastGoodServed
  <2>. QED  BY <2>1, <2>2
<1>6. CacheTrue'
  BY <1>1, <1>3 DEF CacheTrue, NotCached, Absent
<1>7. ReadTrue' /\ LookupTrue'
  BY <1>1 DEF ReadTrue, LookupTrue, Idle
<1>. QED  BY <1>4, <1>5, <1>5a, <1>6, <1>7

LEMMA DefinitionStep == ASSUME DefinitionInv, [DefinitionNext]_definitionVars PROVE DefinitionInv'
<1>1. CASE UNCHANGED definitionVars
  BY <1>1 DEF definitionVars, DefinitionInv, StoreType, DefinitionTypeOK, CacheTrue, ReadTrue,
              LookupTrue, VersionTrue, Version, LastGoodServed, Current
<1>2. ASSUME NEW f \in Files, NEW c \in Contents, Edit(f, [stamp |-> edits + 1, content |-> c])
      PROVE  DefinitionInv'
  BY <1>2, EditStep
<1>3. ASSUME NEW f \in Files, Edit(f, Absent) PROVE DefinitionInv'
  BY <1>3, EditStep
<1>. QED  BY <1>1, <1>2, <1>3, ListStep, InspectStep, ReadFileStep, ParseStep, FinishStep DEF DefinitionNext

\* Only Finish ends a lookup.
LEMMA LookupsEnd ==
  ASSUME DefinitionInv, [DefinitionNext]_definitionVars, lookup.phase # "idle", lookup'.phase = "idle", ~edited
  PROVE  \A f \in Files :
           IF dir[f] = Absent THEN cache'[f] = NotCached
           ELSE ~cache'[f].isBad => cache'[f].tracker = dir[f].content
<1>1. CASE Finish
  BY <1>1, FinishCurrent
<1>2. CASE UNCHANGED definitionVars \/ \E f \in Files :
       \/ \E c \in Contents : Edit(f, [stamp |-> edits + 1, content |-> c])
       \/ Edit(f, Absent)
  BY <1>2 DEF definitionVars, Edit
<1>3. CASE \E want \in Ids \union {Every} : List(want) \/ ListFails(want)
  BY <1>3 DEF List, ListFails
<1>4. CASE Inspect \/ ReadFile \/ Parse
  BY <1>4 DEF Inspect, ReadFile, Parse, Done, DefinitionInv, StoreType
<1>. QED  BY <1>1, <1>2, <1>3, <1>4 DEF DefinitionNext

\* Whatever files are edited, and whenever within a lookup, the cache holds of each
\* file what it read as under the stamp it remembers, or what it last read well as
\* (DefinitionStore.refresh, definition, lastGood).
THEOREM DefinitionsKept == DefinitionSpec => []DefinitionInv
BY DefinitionInitInv, DefinitionStep, PTL DEF DefinitionSpec

\* A lookup while nobody edits answers from what the directory holds, though it
\* reads only the files whose stamp has changed (DefinitionStore.refresh).
THEOREM LookupsCurrentAlways == DefinitionSpec => LookupsCurrent
<1>1. DefinitionInv /\ [DefinitionNext]_definitionVars =>
        [lookup.phase # "idle" /\ lookup'.phase = "idle" /\ ~edited =>
           \A f \in Files :
             IF dir[f] = Absent THEN cache'[f] = NotCached
             ELSE ~cache'[f].isBad => cache'[f].tracker = dir[f].content]_definitionVars
  BY LookupsEnd
<1>. QED  BY <1>1, DefinitionsKept, PTL DEF DefinitionSpec, LookupsCurrent

\* Whichever lookups an edit broke or a reading failed in, a file that is there and
\* read well before is served as it last read, and one found gone no more
\* (DefinitionStore.definition, lastGood, refresh).
THEOREM LastGoodServedAlways == DefinitionSpec => []LastGoodServed
<1>1. DefinitionInv => LastGoodServed
  BY DEF DefinitionInv
<1>. QED  BY <1>1, DefinitionsKept, PTL

-----------------------------------------------------------------------------
(***************************************************************************)
(* The administration panel. What the limiter and the sessions hold of a   *)
(* token and of an address is tied to their histories.                     *)
(***************************************************************************)

Visits == [step : {"none", "verify", "replace", "create", "inside"},
           token : Tokens \union {NoToken}, client : Addresses]

\* PanelTypeOK, and what the functions and records hold.
PanelType ==
  /\ PanelTypeOK
  /\ sessions \in [Tokens -> [expiresAt : Nat, lastSeen : Nat]]
  /\ notBefore \in [Addresses -> Nat] /\ nextPrune \in Nat
  /\ cookie \in [Browsers -> Tokens \union {NoToken}]
  /\ visit \in [Browsers -> Visits]
  /\ issuedAt \in [Tokens -> Nat \union {Never}] /\ usedAt \in [Tokens -> Nat \union {Never}]
  /\ endedBy \in [Tokens -> {"none", "sign-in", "sign-out"}]
  /\ lastAttempt \in [Browsers -> Nat \union {Never}]

\* What the store holds of a token agrees with its history.
SessionsTrue ==
  \A t \in Tokens :
    /\ sessions[t] # NoSession =>
         /\ endedBy[t] = "none" /\ issuedAt[t] \in Nat /\ issuedAt[t] <= clock
         /\ sessions[t].expiresAt = issuedAt[t] + Lifetime /\ sessions[t].lastSeen = usedAt[t]
    /\ issuedAt[t] = Never => endedBy[t] = "none" /\ usedAt[t] = Never

\* A browser has no token that was not issued.
TokensIssued ==
  \A b \in Browsers, t \in Tokens : cookie[b] = t \/ visit[b].token = t => issuedAt[t] # Never \/ t = NoToken

\* A browser's attempts are counted under its own address.
AttemptsCounted ==
  \A b \in Browsers :
    /\ visit[b].step = "verify" => visit[b].client = b
    /\ lastAttempt[b] # Never =>
         notBefore[b] >= lastAttempt[b] + LoginDelay \/ clock >= lastAttempt[b] + LoginDelay

PanelInv == PanelType /\ SessionsTrue /\ TokensIssued /\ AttemptsCounted

LEMMA AddressIs == Browsers \subseteq Addresses /\ Proxy \in Addresses
BY DEF Addresses

\* Whatever a browser claims, the proxy writes its address last.
LEMMA ClientIs ==
  ASSUME NEW b \in Browsers, NEW claimed \in Claims
  PROVE  ForwardedClient(Append(claimed, b)) = b
<1>. DEFINE entries == Append(claimed, b)
            foreign == {i \in DOMAIN entries : entries[i] # Proxy}
            last == CHOOSE i \in foreign : \A j \in foreign : j <= i
<1>1. claimed \in Seq(STRING \union {b}) /\ Len(claimed) \in Nat
  BY PanelAssumption
<1>2. DOMAIN entries = 1 .. Len(claimed) + 1 /\ entries[Len(claimed) + 1] = b
  BY <1>1
<1>. HIDE DEF entries
<1>3. Len(claimed) + 1 \in foreign /\ \A j \in foreign : j \in Int /\ j <= Len(claimed) + 1
  BY <1>1, <1>2, BrowserAssumption
<1>4. last \in foreign /\ Len(claimed) + 1 <= last
  BY <1>3
<1>5. last = Len(claimed) + 1
  BY <1>1, <1>3, <1>4
<1>. QED  BY <1>2, <1>3, <1>5, BrowserAssumption DEF ForwardedClient, entries

LEMMA PanelInitInv == PanelInit => PanelInv
<1>. SUFFICES ASSUME PanelInit PROVE PanelInv
  OBVIOUS
<1>. USE DEF PanelInit
<1>1. PanelType
  BY PanelAssumption, AddressIs DEF PanelType, Visits, PanelTypeOK, NoSession, Never, NoVisit
<1>2. SessionsTrue /\ TokensIssued /\ AttemptsCounted
  BY DEF SessionsTrue, TokensIssued, AttemptsCounted, NoVisit, NoToken
<1>. QED  BY <1>1, <1>2 DEF PanelInv

LEMMA AttemptStep ==
  ASSUME PanelInv, NEW b \in Browsers, NEW claimed \in Claims, Attempt(b, claimed)
  PROVE  PanelInv'
<1>. USE DEF PanelInv
<1>1. /\ b \in Addresses /\ visit[b] = NoVisit /\ Reserve(b)
      /\ visit' = [visit EXCEPT ![b] = [step |-> "verify", token |-> cookie[b], client |-> b]]
      /\ lastAttempt' = [lastAttempt EXCEPT ![b] = clock]
      /\ UNCHANGED <<clock, sessionVars, cookie>>
  BY AddressIs, ClientIs DEF Attempt
<1>2. clock \in Nat /\ LoginDelay \in Nat /\ clock + LoginDelay \in Nat
  BY PanelAssumption DEF PanelType, Visits, PanelTypeOK
<1>. DEFINE slots == IF clock >= nextPrune THEN Swept(notBefore) ELSE notBefore
<1>3. slots \in [Addresses -> Nat] /\ \A a \in Addresses : slots[a] = notBefore[a] \/ clock >= notBefore[a]
  BY <1>2 DEF PanelType, Swept
<1>4. notBefore' = [slots EXCEPT ![b] = clock + LoginDelay] /\ nextPrune' \in Nat
  BY <1>1, <1>2 DEF Reserve, PanelType
<1>. HIDE DEF slots
<1>5. PanelType'
  BY <1>1, <1>2, <1>3, <1>4 DEF PanelType, Visits, PanelTypeOK, sessionVars
<1>6. SessionsTrue' /\ TokensIssued'
  BY <1>1 DEF SessionsTrue, TokensIssued, sessionVars, PanelType
<1>7. AttemptsCounted'
  <2>. SUFFICES ASSUME NEW o \in Browsers
                PROVE  /\ visit'[o].step = "verify" => visit'[o].client = o
                       /\ lastAttempt'[o] # Never =>
                            notBefore'[o] >= lastAttempt'[o] + LoginDelay \/ clock' >= lastAttempt'[o] + LoginDelay
    BY DEF AttemptsCounted
  <2>1. CASE o = b
    BY <1>1, <1>2, <1>3, <1>4, <2>1 DEF PanelType
  <2>2. CASE o # b
    <3>1. notBefore'[o] = slots[o] /\ lastAttempt'[o] = lastAttempt[o] /\ visit'[o] = visit[o] /\ clock' = clock
      BY <1>1, <1>3, <1>4, <2>2, AddressIs DEF PanelType
    <3>2. slots[o] = notBefore[o] \/ clock >= notBefore[o]
      BY <1>3, AddressIs
    <3>3. notBefore[o] \in Nat /\ (lastAttempt[o] # Never => lastAttempt[o] \in Nat)
      BY AddressIs DEF PanelType
    <3>. QED  BY <1>2, <3>1, <3>2, <3>3 DEF AttemptsCounted
  <2>. QED  BY <2>1, <2>2
<1>. QED  BY <1>5, <1>6, <1>7

\* A visit that takes its next step keeps its token and its client.
LEMMA VisitGoesOn ==
  ASSUME PanelType, NEW b \in Browsers, NEW step \in {"replace", "create"},
         visit' = [visit EXCEPT ![b].step = step]
  PROVE  /\ visit' \in [Browsers -> Visits]
         /\ \A o \in Browsers :
              /\ visit'[o].step \in {"none", "verify", "replace", "create", "inside"}
              /\ visit'[o].client \in Addresses
              /\ visit'[o].token = visit[o].token
              /\ visit'[o].client = visit[o].client
              /\ visit'[o].step = IF o = b THEN step ELSE visit[o].step
BY DEF PanelType, Visits

LEMMA VerifyStep == ASSUME PanelInv, NEW b \in Browsers, Verify(b) PROVE PanelInv'
<1>. USE DEF PanelInv
<1>1. /\ visit[b].step = "verify" /\ visit[b].client = b /\ b \in Addresses
      /\ UNCHANGED <<clock, sessions, issuedAt, usedAt, endedBy, nextPrune, cookie>>
  BY AddressIs DEF Verify, AttemptsCounted, sessionVars
<1>2. SessionsTrue'
  BY <1>1 DEF SessionsTrue
<1>3. CASE /\ visit' = [visit EXCEPT ![b] = NoVisit] /\ UNCHANGED <<notBefore, lastAttempt>>
  <2>1. NoVisit \in Visits
    BY AddressIs DEF NoVisit, Visits
  <2>2. NoVisit.step = "none" /\ NoVisit.token = NoToken
    BY DEF NoVisit
  <2>3. PanelType'
    BY <1>1, <1>3, <2>1 DEF PanelType, Visits, PanelTypeOK
  <2>4. TokensIssued' /\ AttemptsCounted'
    BY <1>1, <1>3, <2>2 DEF TokensIssued, AttemptsCounted, PanelType
  <2>. QED  BY <1>2, <2>3, <2>4
<1>4. CASE /\ visit' = [visit EXCEPT ![b].step = "replace"]
           /\ notBefore' = [notBefore EXCEPT ![b] = 0] /\ lastAttempt' = [lastAttempt EXCEPT ![b] = Never]
  <2>0. /\ visit' \in [Browsers -> Visits]
        /\ \A o \in Browsers :
             /\ visit'[o].step \in {"none", "verify", "replace", "create", "inside"}
             /\ visit'[o].client \in Addresses
             /\ visit'[o].token = visit[o].token /\ visit'[o].client = visit[o].client
             /\ visit'[o].step = IF o = b THEN "replace" ELSE visit[o].step
    BY <1>4, VisitGoesOn
  <2>1. PanelType'
    BY <1>1, <1>4, <2>0 DEF PanelType, PanelTypeOK
  <2>2. TokensIssued'
    BY <1>1, <2>0 DEF TokensIssued
  <2>3. AttemptsCounted'
    BY <1>1, <1>4, <2>0, AddressIs DEF AttemptsCounted, PanelType
  <2>. QED  BY <1>2, <2>1, <2>2, <2>3
<1>. QED  BY <1>1, <1>3, <1>4 DEF Verify, Visit

\* A session that is ended was issued, and is over for good.
LEMMA DestroyKeeps ==
  ASSUME PanelInv, NEW b \in Browsers, NEW reason \in {"sign-in", "sign-out"}, Destroy(b, reason), clock' = clock
  PROVE  /\ sessions' \in [Tokens -> [expiresAt : Nat, lastSeen : Nat]]
         /\ endedBy' \in [Tokens -> {"none", "sign-in", "sign-out"}]
         /\ issuedAt' = issuedAt /\ usedAt' = usedAt
         /\ \A t \in Tokens : issuedAt[t] = Never => sessions'[t] = NoSession
         /\ SessionsTrue'
<1>. USE DEF PanelInv, Destroy, sessionVars
<1>1. CASE visit[b].token = NoToken
  BY <1>1 DEF PanelType, Visits, PanelTypeOK, SessionsTrue
<1>2. CASE visit[b].token # NoToken
  <2>. DEFINE t == visit[b].token
  <2>1. t \in Tokens /\ issuedAt[t] # Never
    BY <1>2 DEF PanelType, Visits, TokensIssued
  <2>2. /\ sessions' = [sessions EXCEPT ![t] = NoSession] /\ endedBy' = [endedBy EXCEPT ![t] = reason]
        /\ UNCHANGED <<issuedAt, usedAt>>
    BY <1>2
  <2>. HIDE DEF t
  <2>3. NoSession \in [expiresAt : Nat, lastSeen : Nat]
    BY DEF NoSession
  <2>. QED  BY <2>1, <2>2, <2>3 DEF PanelType, Visits, PanelTypeOK, SessionsTrue
<1>. QED  BY <1>1, <1>2

LEMMA ReplaceStep == ASSUME PanelInv, NEW b \in Browsers, Replace(b) PROVE PanelInv'
<1>. USE DEF PanelInv
<1>1. /\ Destroy(b, "sign-in") /\ visit' = [visit EXCEPT ![b].step = "create"]
      /\ UNCHANGED <<clock, notBefore, nextPrune, lastAttempt, cookie>>
  BY DEF Replace, Visit, limiterVars
<1>2. /\ sessions' \in [Tokens -> [expiresAt : Nat, lastSeen : Nat]]
      /\ endedBy' \in [Tokens -> {"none", "sign-in", "sign-out"}]
      /\ issuedAt' = issuedAt /\ usedAt' = usedAt
      /\ \A t \in Tokens : issuedAt[t] = Never => sessions'[t] = NoSession
      /\ SessionsTrue'
  BY <1>1, DestroyKeeps
<1>3. /\ visit' \in [Browsers -> Visits]
      /\ \A o \in Browsers :
           /\ visit'[o].step \in {"none", "verify", "replace", "create", "inside"}
           /\ visit'[o].client \in Addresses
           /\ visit'[o].token = visit[o].token /\ visit'[o].client = visit[o].client
           /\ visit'[o].step = IF o = b THEN "create" ELSE visit[o].step
  BY <1>1, VisitGoesOn
<1>4. PanelType'
  BY <1>1, <1>2, <1>3 DEF PanelType, PanelTypeOK
<1>5. TokensIssued' /\ AttemptsCounted'
  BY <1>1, <1>2, <1>3 DEF TokensIssued, AttemptsCounted
<1>. QED  BY <1>2, <1>4, <1>5

LEMMA LogoutStep == ASSUME PanelInv, NEW b \in Browsers, Logout(b) PROVE PanelInv'
<1>. USE DEF PanelInv
<1>1. /\ Destroy(b, "sign-out") /\ visit' = [visit EXCEPT ![b] = NoVisit]
      /\ cookie' = [cookie EXCEPT ![b] = NoToken]
      /\ UNCHANGED <<clock, notBefore, nextPrune, lastAttempt>>
  BY DEF Logout, limiterVars
<1>2. /\ sessions' \in [Tokens -> [expiresAt : Nat, lastSeen : Nat]]
      /\ endedBy' \in [Tokens -> {"none", "sign-in", "sign-out"}]
      /\ issuedAt' = issuedAt /\ usedAt' = usedAt
      /\ \A t \in Tokens : issuedAt[t] = Never => sessions'[t] = NoSession
      /\ SessionsTrue'
  BY <1>1, DestroyKeeps
<1>3. PanelType'
  BY <1>1, <1>2, AddressIs DEF PanelType, Visits, PanelTypeOK, NoVisit
<1>4. TokensIssued' /\ AttemptsCounted'
  BY <1>1, <1>2 DEF TokensIssued, AttemptsCounted, PanelType, NoVisit, NoToken
<1>. QED  BY <1>2, <1>3, <1>4

LEMMA CreateStep == ASSUME PanelInv, NEW b \in Browsers, Create(b) PROVE PanelInv'
<1>. USE DEF PanelInv
<1>1. PICK t \in Tokens : Create(b)!(t)
  BY DEF Create
<1>2. clock \in Nat /\ Lifetime \in Nat /\ clock # Never /\ clock + Lifetime \in Nat
  BY PanelAssumption DEF PanelType, Visits, PanelTypeOK, Never
<1>3. NoSession \in [expiresAt : Nat, lastSeen : Nat]
  BY DEF NoSession
<1>4. /\ sessions' \in [Tokens -> [expiresAt : Nat, lastSeen : Nat]]
      /\ sessions'[t] = [expiresAt |-> clock + Lifetime, lastSeen |-> clock]
      /\ \A u \in Tokens \ {t} : sessions'[u] \in {sessions[u], NoSession}
  BY <1>1, <1>2, <1>3 DEF PanelType
<1>5. /\ issuedAt' = [issuedAt EXCEPT ![t] = clock] /\ usedAt' = [usedAt EXCEPT ![t] = clock]
      /\ cookie' = [cookie EXCEPT ![b] = t] /\ visit' = [visit EXCEPT ![b] = NoVisit]
      /\ UNCHANGED <<clock, notBefore, nextPrune, lastAttempt, endedBy>> /\ issuedAt[t] = Never
  BY <1>1 DEF limiterVars
<1>6. PanelType'
  BY <1>2, <1>4, <1>5, AddressIs DEF PanelType, Visits, PanelTypeOK, NoVisit
<1>7. SessionsTrue'
  BY <1>2, <1>4, <1>5 DEF SessionsTrue, PanelType
<1>8. TokensIssued' /\ AttemptsCounted'
  BY <1>2, <1>5 DEF TokensIssued, AttemptsCounted, PanelType, NoVisit, NoToken
<1>. QED  BY <1>6, <1>7, <1>8

LEMMA AdmitStep == ASSUME PanelInv, NEW b \in Browsers, Admit(b) PROVE PanelInv'
<1>. USE DEF PanelInv
<1>. DEFINE t == cookie[b]
<1>1. t \in Tokens /\ sessions[t] # NoSession
  BY DEF Admit, PanelType
<1>2. /\ sessions' = [sessions EXCEPT ![t].lastSeen = clock] /\ usedAt' = [usedAt EXCEPT ![t] = clock]
      /\ visit' = [visit EXCEPT ![b] = [step |-> "inside", token |-> t, client |-> Proxy]]
      /\ UNCHANGED <<clock, notBefore, nextPrune, lastAttempt, cookie, issuedAt, endedBy>>
  BY DEF Admit, limiterVars
<1>3. clock \in Nat
  BY PanelAssumption DEF PanelType, Visits, PanelTypeOK
<1>4. issuedAt[t] # Never
  BY <1>1 DEF PanelType, Visits, PanelTypeOK
<1>5. /\ sessions' \in [Tokens -> [expiresAt : Nat, lastSeen : Nat]]
      /\ sessions'[t] = [expiresAt |-> sessions[t].expiresAt, lastSeen |-> clock]
      /\ \A u \in Tokens \ {t} : sessions'[u] = sessions[u]
  BY <1>1, <1>2, <1>3 DEF PanelType
<1>6. TokensIssued'
  BY <1>1, <1>2, <1>4 DEF TokensIssued, PanelType
<1>. HIDE DEF t
<1>7. PanelType'
  BY <1>1, <1>2, <1>3, <1>4, <1>5, AddressIs DEF PanelType, Visits, PanelTypeOK
<1>8. SessionsTrue'
  BY <1>1, <1>2, <1>3, <1>4, <1>5 DEF SessionsTrue, PanelType
<1>9. AttemptsCounted'
  BY <1>2 DEF AttemptsCounted, PanelType
<1>. QED  BY <1>6, <1>7, <1>8, <1>9

LEMMA TurnAwayStep == ASSUME PanelInv, NEW b \in Browsers, TurnAway(b) PROVE PanelInv'
<1>. USE DEF PanelInv
<1>. DEFINE t == cookie[b]
<1>1. /\ t \in Tokens /\ sessions' = [sessions EXCEPT ![t] = NoSession]
      /\ cookie' = [cookie EXCEPT ![b] = NoToken]
      /\ UNCHANGED <<clock, notBefore, nextPrune, lastAttempt, visit, issuedAt, usedAt, endedBy>>
  BY DEF TurnAway, limiterVars, PanelType
<1>2. NoSession \in [expiresAt : Nat, lastSeen : Nat]
  BY DEF NoSession
<1>. HIDE DEF t
<1>3. PanelType' /\ SessionsTrue'
  BY <1>1, <1>2 DEF PanelType, Visits, PanelTypeOK, SessionsTrue
<1>4. TokensIssued' /\ AttemptsCounted'
  BY <1>1 DEF TokensIssued, AttemptsCounted, PanelType, NoToken
<1>. QED  BY <1>3, <1>4

\* A visit ends, a cookie is carried over, or time passes.
LEMMA PanelGoesOn ==
  ASSUME PanelInv,
         \/ \E b \in Browsers : CreateFails(b) \/ Handled(b) \/ \E other \in Browsers : CopyCookie(b, other)
         \/ PanelTick
  PROVE  PanelInv'
<1>. USE DEF PanelInv, sessionVars, limiterVars
<1>1. CASE \E b \in Browsers : CreateFails(b) \/ Handled(b)
  <2>1. PICK b \in Browsers : visit' = [visit EXCEPT ![b] = NoVisit]
    BY <1>1 DEF CreateFails, Handled
  <2>2. UNCHANGED <<clock, sessionVars, limiterVars, cookie>>
    BY <1>1 DEF CreateFails, Handled
  <2>3. PanelType'
    BY <2>1, <2>2, AddressIs DEF PanelType, Visits, PanelTypeOK, NoVisit
  <2>4. SessionsTrue' /\ TokensIssued' /\ AttemptsCounted'
    BY <2>1, <2>2 DEF SessionsTrue, TokensIssued, AttemptsCounted, PanelType, NoVisit, NoToken
  <2>. QED  BY <2>3, <2>4
<1>2. CASE \E b, other \in Browsers : CopyCookie(b, other)
  <2>1. PICK b \in Browsers, other \in Browsers : cookie' = [cookie EXCEPT ![b] = cookie[other]]
    BY <1>2 DEF CopyCookie
  <2>2. UNCHANGED <<clock, sessionVars, limiterVars, visit>>
    BY <1>2 DEF CopyCookie
  <2>3. PanelType'
    BY <2>1, <2>2 DEF PanelType, Visits, PanelTypeOK
  <2>4. SessionsTrue' /\ TokensIssued' /\ AttemptsCounted'
    BY <2>1, <2>2 DEF SessionsTrue, TokensIssued, AttemptsCounted, PanelType
  <2>. QED  BY <2>3, <2>4
<1>3. CASE PanelTick
  <2>1. clock \in Nat /\ clock' = clock + 1 /\ clock' \in 1 .. PanelEnd
    BY <1>3, PanelAssumption DEF PanelTick, PanelType, PanelTypeOK
  <2>2. UNCHANGED <<sessionVars, limiterVars, cookie, visit>>
    BY <1>3 DEF PanelTick
  <2>3. PanelType' /\ TokensIssued'
    BY <2>1, <2>2 DEF PanelType, Visits, PanelTypeOK, TokensIssued
  <2>4. SessionsTrue'
    BY <2>1, <2>2 DEF SessionsTrue
  <2>5. AttemptsCounted'
    BY <2>1, <2>2, PanelAssumption, AddressIs DEF AttemptsCounted, PanelType
  <2>. QED  BY <2>3, <2>4, <2>5
<1>. QED  BY <1>1, <1>2, <1>3

LEMMA PanelStep == ASSUME PanelInv, [PanelNext]_panelVars PROVE PanelInv'
<1>1. CASE UNCHANGED panelVars
  BY <1>1 DEF panelVars, sessionVars, limiterVars, PanelInv, PanelType, PanelTypeOK, SessionsTrue,
              TokensIssued, AttemptsCounted
<1>. QED  BY <1>1, AttemptStep, VerifyStep, ReplaceStep, CreateStep, AdmitStep, TurnAwayStep, LogoutStep,
             PanelGoesOn DEF PanelNext

\* Only guard prolongs a session, and only one that is alive.
LEMMA SessionsProlonged ==
  ASSUME PanelInv, [PanelNext]_panelVars, NEW t \in Tokens,
         sessions'[t].lastSeen # sessions[t].lastSeen, sessions'[t] # NoSession
  PROVE  /\ endedBy[t] = "none"
         /\ issuedAt'[t] <= clock /\ clock <= issuedAt'[t] + Lifetime
         /\ usedAt[t] = Never \/ clock <= usedAt[t] + IdleTimeout
<1>. USE DEF PanelInv
<1>0. clock \in Nat /\ Lifetime \in Nat /\ IdleTimeout \in Nat
  BY PanelAssumption DEF PanelType, Visits, PanelTypeOK
<1>1. ASSUME NEW b \in Browsers, Create(b)
      PROVE  issuedAt[t] = Never /\ issuedAt'[t] = clock
  BY <1>1 DEF Create, PanelType
<1>2. ASSUME NEW b \in Browsers, Admit(b)
      PROVE  sessions[t] # NoSession /\ ~IsExpired(sessions[t]) /\ issuedAt' = issuedAt
  BY <1>2 DEF Admit, PanelType
<1>3. ASSUME NEW b \in Browsers, Replace(b) \/ Logout(b) PROVE FALSE
  BY <1>3 DEF Replace, Logout, Destroy, sessionVars, PanelType
<1>4. ASSUME NEW b \in Browsers, TurnAway(b) PROVE FALSE
  BY <1>4 DEF TurnAway, PanelType
<1>5. ASSUME NEW b \in Browsers,
             \/ \E claimed \in Claims : Attempt(b, claimed)
             \/ Verify(b) \/ CreateFails(b) \/ Handled(b)
             \/ \E other \in Browsers : CopyCookie(b, other)
      PROVE  FALSE
  BY <1>5 DEF Attempt, Verify, CreateFails, Handled, CopyCookie, sessionVars
<1>6. CASE PanelTick \/ UNCHANGED panelVars
  BY <1>6 DEF PanelTick, panelVars, sessionVars
<1>7. CASE issuedAt[t] = Never /\ issuedAt'[t] = clock
  BY <1>0, <1>7 DEF SessionsTrue
<1>8. CASE sessions[t] # NoSession /\ ~IsExpired(sessions[t]) /\ issuedAt' = issuedAt
  BY <1>0, <1>8 DEF SessionsTrue, IsExpired, PanelType
<1>. QED  BY <1>1, <1>2, <1>3, <1>4, <1>5, <1>6, <1>7, <1>8 DEF PanelNext

\* An attempt is let through only in a slot of the browser's own that is free.
LEMMA AttemptsWait ==
  ASSUME PanelInv, [PanelNext]_panelVars, NEW b \in Browsers,
         visit[b].step = "none", visit'[b].step = "verify"
  PROVE  lastAttempt[b] = Never \/ clock >= lastAttempt[b] + LoginDelay
<1>. USE DEF PanelInv
<1>1. ASSUME NEW o \in Browsers, NEW claimed \in Claims, Attempt(o, claimed) PROVE clock >= notBefore[b]
  <2>1. o = b
    BY <1>1 DEF Attempt, PanelType
  <2>. QED  BY <1>1, <2>1, ClientIs DEF Attempt, Reserve
<1>2. ASSUME NEW o \in Browsers,
             \/ Verify(o) \/ Replace(o) \/ CreateFails(o) \/ Admit(o) \/ TurnAway(o)
             \/ Handled(o) \/ Logout(o) \/ \E other \in Browsers : CopyCookie(o, other)
      PROVE  FALSE
  BY <1>2 DEF Verify, Replace, CreateFails, Admit, TurnAway, Handled, Logout, CopyCookie, Visit, NoVisit, PanelType
<1>3. ASSUME NEW o \in Browsers, Create(o) PROVE FALSE
  BY <1>3 DEF Create, NoVisit, PanelType
<1>4. CASE PanelTick \/ UNCHANGED panelVars
  BY <1>4 DEF PanelTick, panelVars
<1>5. CASE clock >= notBefore[b]
  <2>1. notBefore[b] \in Nat /\ clock \in Nat /\ LoginDelay \in Nat /\ (lastAttempt[b] # Never => lastAttempt[b] \in Nat)
    BY AddressIs, PanelAssumption DEF PanelType, Visits, PanelTypeOK
  <2>. QED  BY <1>5, <2>1 DEF AttemptsCounted
<1>. QED  BY <1>1, <1>2, <1>3, <1>4, <1>5 DEF PanelNext

LEMMA PanelAlways == PanelSpec => []PanelInv
BY PanelInitInv, PanelStep, PTL DEF PanelSpec

\* Every variable of the panel has its type, and a token that was never issued has
\* no session (sessionStore, loginLimiter).
THEOREM PanelTypeAlways == PanelSpec => []PanelTypeOK
<1>1. PanelInv => PanelTypeOK
  BY DEF PanelInv, PanelType
<1>. QED  BY <1>1, PanelAlways, PTL

\* No request prolongs a session that was signed out of, replaced, left unused for
\* too long or issued too long ago (sessionStore.find, create, destroy).
THEOREM SessionsEndAlways == PanelSpec => SessionsEnd
<1>1. PanelInv /\ [PanelNext]_panelVars =>
        [\A t \in Tokens :
           sessions'[t].lastSeen # sessions[t].lastSeen /\ sessions'[t] # NoSession =>
             /\ endedBy[t] = "none"
             /\ issuedAt'[t] <= clock /\ clock <= issuedAt'[t] + Lifetime
             /\ usedAt[t] = Never \/ clock <= usedAt[t] + IdleTimeout]_panelVars
  BY SessionsProlonged
<1>. QED  BY <1>1, PanelAlways, PTL DEF PanelSpec, SessionsEnd

\* A browser's attempts to sign in are LoginDelay apart until one succeeds, whatever
\* it writes in X-Forwarded-For (loginLimiter.reserve, forwardedClient).
THEOREM AttemptsSpacedAlways == PanelSpec => AttemptsSpaced
<1>1. PanelInv /\ [PanelNext]_panelVars =>
        [\A b \in Browsers :
           visit[b].step = "none" /\ visit'[b].step = "verify" =>
             lastAttempt[b] = Never \/ clock >= lastAttempt[b] + LoginDelay]_panelVars
  BY AttemptsWait
<1>. QED  BY <1>1, PanelAlways, PTL DEF PanelSpec, AttemptsSpaced

-----------------------------------------------------------------------------
(***************************************************************************)
(* The settings of one tracker. Undisturbed says what a save knows at each *)
(* step while nobody else changes a file.                                  *)
(***************************************************************************)

Steps    == {"idle", "read", "resolved", "written", "complete", "saved"}
Held     == Values \union {Unset, "off", "on"}
Whole    == [DOMAIN Kinds -> Held]

SettingsType ==
  /\ files \in [FileIds -> Whole]
  /\ at \in [Users -> Steps] /\ place \in [Users -> 0 .. Len(OldIds) + 1]
  /\ found \in [Users -> Whole] /\ unread \in [Users -> BOOLEAN]
  /\ submitted \in [Savers -> Forms] /\ before \in [Savers -> Whole] /\ alone \in [Savers -> BOOLEAN]

\* The places that are looked in, and those that are cleared.
PlacesKnown ==
  \A p \in Users :
    /\ at[p] = "read" => place[p] <= Len(OldIds)
    /\ at[p] = "saved" => place[p] > 0
    /\ at[p] = "idle" => ~unread[p]
    /\ at[p] \in {"written", "complete", "saved"} => p \in Savers

\* What a save nobody disturbed knows: the settings in force when it began are
\* in force until it has put its own in their place, and the places it has been
\* to are empty.
Undisturbed(p) ==
  /\ ~unread[p]
  /\ at[p] = "read" => before[p] = InForce /\ \A i \in 0 .. Len(OldIds) : i < place[p] => files[IdAt(i)] = NoValues
  /\ at[p] \in {"resolved", "written", "complete"} => found[p] = InForce /\ before[p] = InForce
  /\ at[p] = "saved" =>
       /\ found[p] = before[p] /\ files[OwnId] = Wanted(p)
       /\ \A i \in 1 .. Len(OldIds) : i < place[p] => files[IdAt(i)] = NoValues

SettingsInv == SettingsType /\ PlacesKnown /\ \A p \in Savers : alone[p] => Undisturbed(p)

LEMMA Places ==
  /\ Len(OldIds) \in Nat /\ IdAt(0) = OwnId
  /\ \A i \in 0 .. Len(OldIds) : IdAt(i) \in FileIds
  /\ \A i \in 1 .. Len(OldIds) : IdAt(i) # OwnId
BY SettingsAssumption, OwnersAssumption DEF IdAt, FileIds, OwnId

\* What is in force is in the first file that holds something.
LEMMA FirstHeld ==
  ASSUME SettingsType, NEW i \in 0 .. Len(OldIds),
         \A j \in 0 .. Len(OldIds) : j < i => files[IdAt(j)] = NoValues,
         files[IdAt(i)] # NoValues
  PROVE  InForce = files[IdAt(i)]
<1>. DEFINE held == {k \in 0 .. Len(OldIds) : files[IdAt(k)] # NoValues}
            first == CHOOSE k \in held : \A j \in held : k <= j
<1>1. i \in held /\ \A j \in held : i <= j
  BY Places
<1>2. first \in held /\ \A j \in held : first <= j
  BY <1>1
<1>3. first = i
  BY <1>1, <1>2, Places
<1>. QED  BY <1>1, <1>3 DEF InForce

LEMMA NoneHeld ==
  ASSUME \A j \in 0 .. Len(OldIds) : files[IdAt(j)] = NoValues
  PROVE  InForce = NoValues
BY DEF InForce

LEMMA NoValuesWhole == NoValues \in Whole /\ NoValues \in Forms
BY DEF NoValues, Whole, Held, Forms, Unset, Mask

LEMMA InForceWhole == ASSUME SettingsType PROVE InForce \in Whole
<1>. DEFINE held == {k \in 0 .. Len(OldIds) : files[IdAt(k)] # NoValues}
            first == CHOOSE k \in held : \A j \in held : k <= j
<1>1. CASE held = {}
  BY <1>1, NoValuesWhole DEF InForce
<1>2. CASE held # {}
  <2>1. held \in SUBSET Nat
    BY Places
  <2>2. \E k \in held : \A j \in held : k <= j
    BY <1>2, <2>1, SmallestIs
  <2>3. first \in held
    BY <2>2
  <2>. QED  BY <1>2, <2>3, Places DEF InForce, SettingsType
<1>. QED  BY <1>1, <1>2

\* What a form makes of settings is whole.
LEMMA OverriddenWhole ==
  ASSUME NEW form \in Forms, NEW existing \in Whole
  PROVE  Overridden(form, existing) \in Whole
<1>. SUFFICES ASSUME NEW n \in DOMAIN Kinds
              PROVE  Overridden(form, existing)[n] \in Held
  BY DEF Overridden, Whole
<1>1. /\ form[n] \in Values \union {Unset, Mask} /\ (form[n] = Mask => Kinds[n] = "secret")
      /\ existing[n] \in Held /\ Kinds[n] \in {"secret", "checkbox", "text", "flaresolverr"}
  BY SettingsAssumption DEF Forms, Whole
<1>. QED  BY <1>1 DEF Overridden, Held

LEMMA WantedWhole == ASSUME SettingsType, NEW p \in Savers PROVE Wanted(p) \in Whole
BY OverriddenWhole DEF SettingsType, Wanted, Users

LEMMA SettingsInitInv == SettingsInit => SettingsInv
<1>. SUFFICES ASSUME SettingsInit PROVE SettingsInv
  OBVIOUS
<1>. USE DEF SettingsInit
<1>1. SettingsType
  BY NoValuesWhole, Places DEF SettingsType, Settings, Whole, Held, Steps
<1>2. PlacesKnown /\ \A p \in Savers : Undisturbed(p)
  BY DEF PlacesKnown, Undisturbed, Users
<1>. QED  BY <1>1, <1>2 DEF SettingsInv

-----------------------------------------------------------------------------
\* A saver another step leaves alone knows what it knew.
LEMMA LeftAlone ==
  ASSUME SettingsInv, NEW p \in Savers, alone'[p],
         files' = files /\ alone[p],
         at'[p] = at[p], place'[p] = place[p], found'[p] = found[p], unread'[p] = unread[p],
         submitted'[p] = submitted[p], before'[p] = before[p]
  PROVE  Undisturbed(p)'
BY DEF SettingsInv, Undisturbed, InForce, Wanted

\* A request that begins, or has nothing under way, knows nothing wrong.
LEMMA BeginStep ==
  ASSUME SettingsInv,
         \/ \E p \in Savers, form \in Forms : BeginSave(p, form)
         \/ \E p \in Readers : BeginScrape(p)
  PROVE  SettingsInv'
<1>. USE DEF SettingsInv, Goes
<1>1. ASSUME NEW p \in Savers, NEW form \in Forms, BeginSave(p, form) PROVE SettingsInv'
  <2>1. /\ at' = [at EXCEPT ![p] = "read"] /\ place' = [place EXCEPT ![p] = 0]
        /\ submitted' = [submitted EXCEPT ![p] = form] /\ before' = [before EXCEPT ![p] = InForce]
        /\ alone' = [alone EXCEPT ![p] = TRUE] /\ UNCHANGED <<files, found, unread, jar, loginFresh>>
        /\ at[p] = "idle" /\ p \in Users
    BY <1>1 DEF BeginSave, Users
  <2>2. SettingsType'
    BY <2>1, InForceWhole, Places DEF SettingsType, Steps
  <2>3. PlacesKnown'
    BY <2>1, Places DEF SettingsType, PlacesKnown
  <2>4. ASSUME NEW q \in Savers, q # p, alone'[q] PROVE Undisturbed(q)'
    BY <2>1, <2>4, LeftAlone DEF SettingsType, Users
  <2>5. Undisturbed(p)'
    BY <2>1 DEF Undisturbed, InForce, SettingsType, PlacesKnown
  <2>. QED  BY <2>2, <2>3, <2>4, <2>5
<1>2. ASSUME NEW p \in Readers, BeginScrape(p) PROVE SettingsInv'
  <2>1. /\ at' = [at EXCEPT ![p] = "read"] /\ place' = [place EXCEPT ![p] = 0]
        /\ UNCHANGED <<files, found, unread, submitted, before, alone>> /\ p \in Users /\ p \notin Savers
    BY <1>2, OwnersAssumption DEF BeginScrape, settingsHistory, Users
  <2>2. SettingsType' /\ PlacesKnown'
    BY <2>1, Places DEF SettingsType, PlacesKnown, Steps
  <2>3. ASSUME NEW q \in Savers, alone'[q] PROVE Undisturbed(q)'
    BY <2>1, <2>3, LeftAlone DEF SettingsType, Users
  <2>. QED  BY <2>2, <2>3
<1>. QED  BY <1>1, <1>2

LEMMA ReadStep == ASSUME SettingsInv, NEW p \in Users, ReadPlace(p) PROVE SettingsInv'
<1>. USE DEF SettingsInv, Goes
<1>. DEFINE held == files[IdAt(place[p])]
            on   == held = NoValues /\ place[p] < Len(OldIds)
<1>1. /\ at[p] = "read" /\ found' = [found EXCEPT ![p] = held]
      /\ at' = [at EXCEPT ![p] = IF on THEN "read" ELSE "resolved"]
      /\ place' = [place EXCEPT ![p] = IF on THEN place[p] + 1 ELSE 0]
      /\ UNCHANGED <<files, unread, submitted, before, alone>>
  BY DEF ReadPlace, LastPlace, settingsHistory
<1>2. place[p] \in 0 .. Len(OldIds) /\ held \in Whole
  BY <1>1, Places DEF SettingsType, PlacesKnown
<1>. HIDE DEF held
<1>3. SettingsType'
  BY <1>1, <1>2, Places DEF SettingsType, Steps
<1>4. PlacesKnown'
  BY <1>1, <1>2, Places DEF SettingsType, PlacesKnown
<1>5. ASSUME NEW q \in Savers, q # p, alone'[q] PROVE Undisturbed(q)'
  BY <1>1, <1>5, LeftAlone DEF SettingsType, Users
<1>6. ASSUME p \in Savers, alone'[p] PROVE Undisturbed(p)'
  <2>1. /\ ~unread[p] /\ before[p] = InForce
        /\ \A i \in 0 .. Len(OldIds) : i < place[p] => files[IdAt(i)] = NoValues
    BY <1>1, <1>6 DEF Undisturbed
  <2>2. InForce' = InForce
    BY <1>1 DEF InForce
  <2>3. CASE on
    <3>1. \A i \in 0 .. Len(OldIds) : i < place'[p] => files[IdAt(i)] = NoValues
      BY <1>1, <1>2, <2>1, <2>3, Places DEF SettingsType, held
    <3>. QED  BY <1>1, <2>1, <2>2, <2>3, <3>1 DEF Undisturbed, SettingsType
  <2>4. CASE ~on
    <3>1. CASE held = NoValues
      <4>1. \A i \in 0 .. Len(OldIds) : files[IdAt(i)] = NoValues
        BY <1>2, <2>1, <2>4, <3>1, Places DEF held
      <4>. QED  BY <3>1, <4>1, <2>4, <1>1, <2>1, <2>2, NoneHeld DEF Undisturbed, SettingsType
    <3>2. CASE held # NoValues
      <4>1. InForce = held
        BY <1>2, <2>1, <3>2, FirstHeld DEF held
      <4>. QED  BY <4>1, <2>4, <1>1, <2>1, <2>2 DEF Undisturbed, SettingsType
    <3>. QED  BY <3>1, <3>2
  <2>. QED  BY <2>3, <2>4
<1>. QED  BY <1>3, <1>4, <1>5, <1>6

LEMMA ReadingFailsStep == ASSUME SettingsInv, NEW p \in Users, ReadingFails(p) PROVE SettingsInv'
<1>. USE DEF SettingsInv
<1>1. /\ at[p] = "read" /\ found' = [found EXCEPT ![p] = NoValues]
      /\ unread' = [unread EXCEPT ![p] = TRUE]
      /\ at' = [at EXCEPT ![p] = "resolved"] /\ place' = [place EXCEPT ![p] = 0]
      /\ alone' = [q \in Savers |-> alone[q] /\ q # p]
      /\ UNCHANGED <<files, submitted, before>>
  BY DEF ReadingFails, Goes
<1>2. SettingsType'
  <2>1. alone' \in [Savers -> BOOLEAN]
    BY <1>1, Zenon
  <2>. QED  BY <1>1, <2>1, NoValuesWhole, Places DEF SettingsType, Steps
<1>3. PlacesKnown'
  BY <1>1 DEF SettingsType, PlacesKnown
<1>4. ASSUME NEW q \in Savers, alone'[q] PROVE Undisturbed(q)'
  <2>1. q # p /\ alone[q]
    BY <1>1, <1>4, Zenon
  <2>. QED  BY <1>1, <1>4, <2>1, LeftAlone DEF SettingsType, Users
<1>. QED  BY <1>2, <1>3, <1>4

-----------------------------------------------------------------------------
\* The end of a save, of a scrape, or of the process.
LEMMA EndStep ==
  ASSUME SettingsInv,
         \/ \E p \in Savers : SaveFails(p) \/ DropLogin(p)
         \/ \E p \in Readers : SignIn(p) \/ SignInNot(p)
         \/ Stop
  PROVE  SettingsInv'
<1>. USE DEF SettingsInv, Goes
<1>1. ASSUME NEW p \in Savers, SaveFails(p) \/ DropLogin(p) PROVE SettingsInv'
  <2>1. /\ at' = [at EXCEPT ![p] = "idle"] /\ place' = [place EXCEPT ![p] = 0]
        /\ found' = [found EXCEPT ![p] = NoValues] /\ unread' = [unread EXCEPT ![p] = FALSE]
        /\ submitted' = [submitted EXCEPT ![p] = NoValues] /\ before' = [before EXCEPT ![p] = NoValues]
        /\ alone' = [alone EXCEPT ![p] = TRUE] /\ UNCHANGED files /\ p \in Users
    BY <1>1 DEF SaveFails, DropLogin, EndSave, Users
  <2>2. SettingsType'
    BY <2>1, NoValuesWhole, Places DEF SettingsType, Steps
  <2>3. PlacesKnown'
    BY <2>1 DEF SettingsType, PlacesKnown
  <2>4. ASSUME NEW q \in Savers, q # p, alone'[q] PROVE Undisturbed(q)'
    BY <2>1, <2>4, LeftAlone DEF SettingsType, Users
  <2>5. Undisturbed(p)'
    BY <2>1 DEF Undisturbed, SettingsType
  <2>. QED  BY <2>2, <2>3, <2>4, <2>5
<1>2. ASSUME NEW p \in Readers, EndScrape(p) PROVE SettingsInv'
  <2>1. /\ at' = [at EXCEPT ![p] = "idle"] /\ place' = [place EXCEPT ![p] = 0]
        /\ found' = [found EXCEPT ![p] = NoValues] /\ unread' = [unread EXCEPT ![p] = FALSE]
        /\ UNCHANGED <<files, submitted, before, alone>> /\ p \in Users /\ p \notin Savers
    BY <1>2, OwnersAssumption DEF EndScrape, settingsHistory, Users
  <2>2. SettingsType'
    BY <2>1, NoValuesWhole, Places DEF SettingsType, Steps
  <2>3. PlacesKnown'
    BY <2>1 DEF SettingsType, PlacesKnown
  <2>4. ASSUME NEW q \in Savers, alone'[q] PROVE Undisturbed(q)'
    BY <2>1, <2>4, LeftAlone DEF SettingsType, Users
  <2>. QED  BY <2>2, <2>3, <2>4
<1>3. CASE Stop
  <2>1. SettingsType'
    BY <1>3, NoValuesWhole, Places DEF Stop, SettingsType, Steps
  <2>2. PlacesKnown' /\ \A q \in Savers : Undisturbed(q)'
    BY <1>3 DEF Stop, PlacesKnown, Undisturbed, Users
  <2>. QED  BY <2>1, <2>2
<1>. QED  BY <1>1, <1>2, <1>3 DEF SignIn, SignInNot, TestPasses, PerformSignIn

\* What is written is written where nobody reads.
LEMMA WriteStep ==
  ASSUME SettingsInv, NEW p \in Savers, WritePart(p) \/ WriteRest(p)
  PROVE  SettingsInv'
<1>. USE DEF SettingsInv, Goes
<1>1. PICK what \in {"written", "complete"} :
        /\ at' = [at EXCEPT ![p] = what] /\ place' = [place EXCEPT ![p] = 0]
        /\ UNCHANGED <<files, found, unread, submitted, before, alone>>
  BY DEF WritePart, WriteRest, WrittenAside, settingsHistory
<1>2. p \in Users /\ at[p] \in {"resolved", "written"}
  BY DEF WritePart, WriteRest, Users
<1>3. SettingsType' /\ PlacesKnown'
  BY <1>1, <1>2, Places DEF SettingsType, PlacesKnown, Steps
<1>4. ASSUME NEW q \in Savers, q # p, alone'[q] PROVE Undisturbed(q)'
  BY <1>1, <1>2, <1>4, LeftAlone DEF SettingsType, Users
<1>5. ASSUME alone'[p] PROVE Undisturbed(p)'
  <2>1. ~unread[p] /\ found[p] = InForce /\ before[p] = InForce
    BY <1>1, <1>2, <1>5 DEF Undisturbed
  <2>. QED  BY <1>1, <1>2, <2>1 DEF Undisturbed, SettingsType, InForce
<1>. QED  BY <1>3, <1>4, <1>5

\* A save puts its settings in the tracker's own place, be they none.
LEMMA OwnStep ==
  ASSUME SettingsInv, NEW p \in Savers, RemoveOwn(p) \/ RenameOver(p)
  PROVE  SettingsInv'
<1>. USE DEF SettingsInv
<1>1. /\ files' = [files EXCEPT ![OwnId] = Wanted(p)]
      /\ at' = [at EXCEPT ![p] = "saved"] /\ place' = [place EXCEPT ![p] = 1]
      /\ alone' = [q \in Savers |-> alone[q] /\ q = p]
      /\ UNCHANGED <<found, unread, submitted, before>>
      /\ at[p] \in {"resolved", "complete"} /\ p \in Users
  BY DEF RemoveOwn, RenameOver, Disturbed, Goes, Users
<1>2. SettingsType'
  <2>1. alone' \in [Savers -> BOOLEAN]
    BY <1>1, Zenon
  <2>. QED  BY <1>1, <2>1, WantedWhole, Places DEF SettingsType, Steps
<1>3. PlacesKnown'
  BY <1>1 DEF SettingsType, PlacesKnown
<1>4. ASSUME NEW q \in Savers, alone'[q] PROVE Undisturbed(q)'
  <2>1. q = p /\ alone[p]
    BY <1>1, <1>4, Zenon
  <2>2. ~unread[p] /\ found[p] = InForce /\ before[p] = InForce
    BY <1>1, <2>1 DEF Undisturbed
  <2>3. Wanted(p)' = Wanted(p)
    BY <1>1 DEF Wanted
  <2>4. files'[OwnId] = Wanted(p)
    BY <1>1 DEF SettingsType, FileIds
  <2>. QED  BY <1>1, <2>1, <2>2, <2>3, <2>4 DEF Undisturbed, SettingsType
<1>. QED  BY <1>2, <1>3, <1>4

\* A replaced id's file is removed, and not the tracker's own.
LEMMA RemoveOldStep == ASSUME SettingsInv, NEW p \in Savers, RemoveOld(p) PROVE SettingsInv'
<1>. USE DEF SettingsInv
<1>0. /\ at[p] = "saved" /\ place[p] \in 1 .. Len(OldIds) /\ p \in Users
      /\ IdAt(place[p]) \in FileIds /\ IdAt(place[p]) # OwnId
  BY Places DEF RemoveOld, PlacesKnown, SettingsType, Users
<1>1. /\ place' = [place EXCEPT ![p] = place[p] + 1] /\ at' = at
      /\ UNCHANGED <<found, unread, submitted, before>>
  BY <1>0 DEF RemoveOld, Goes, SettingsType
<1>2. \/ /\ files' = [files EXCEPT ![IdAt(place[p])] = NoValues]
         /\ alone' = [q \in Savers |-> alone[q] /\ q = p]
      \/ alone' = [q \in Savers |-> alone[q] /\ q # p] /\ files' = files
  BY DEF RemoveOld, Disturbed
<1>3. SettingsType'
  <2>1. alone' \in [Savers -> BOOLEAN]
    BY <1>2, Zenon
  <2>2. files' \in [FileIds -> Whole]
    BY <1>2, NoValuesWhole DEF SettingsType
  <2>3. place' \in [Users -> 0 .. Len(OldIds) + 1]
    BY <1>0, <1>1, Places DEF SettingsType
  <2>. QED  BY <1>1, <2>1, <2>2, <2>3 DEF SettingsType
<1>4. PlacesKnown'
  BY <1>0, <1>1, Places DEF SettingsType, PlacesKnown
<1>5. ASSUME NEW q \in Savers, alone'[q] PROVE Undisturbed(q)'
  <2>1. alone[q] /\ (q = p \/ files' = files)
    BY <1>2, <1>5, Zenon
  <2>2. CASE q # p
    BY <1>1, <1>5, <2>1, <2>2, LeftAlone DEF SettingsType, Users
  <2>3. CASE q = p
    <3>1. files' = [files EXCEPT ![IdAt(place[p])] = NoValues]
      BY <1>2, <1>5, <2>3, Zenon
    <3>2. /\ ~unread[p] /\ found[p] = before[p] /\ files[OwnId] = Wanted(p)
          /\ \A i \in 1 .. Len(OldIds) : i < place[p] => files[IdAt(i)] = NoValues
      BY <1>0, <2>1, <2>3 DEF Undisturbed
    <3>3. files'[OwnId] = Wanted(p) /\ Wanted(p)' = Wanted(p)
      BY <1>0, <1>1, <3>1, <3>2 DEF Wanted, SettingsType, FileIds
    <3>4. \A i \in 1 .. Len(OldIds) : i < place[p] + 1 => files'[IdAt(i)] = NoValues
      <4>. SUFFICES ASSUME NEW i \in 1 .. Len(OldIds), i < place[p] + 1 PROVE files'[IdAt(i)] = NoValues
        OBVIOUS
      <4>1. IdAt(i) \in FileIds /\ (i < place[p] \/ i = place[p])
        BY <1>0, Places
      <4>. QED  BY <3>1, <3>2, <4>1 DEF SettingsType
    <3>. QED  BY <1>0, <1>1, <2>3, <3>2, <3>3, <3>4 DEF Undisturbed, SettingsType
  <2>. QED  BY <2>2, <2>3
<1>. QED  BY <1>3, <1>4, <1>5

LEMMA SettingsStep == ASSUME SettingsInv, [SettingsNext]_settingsVars PROVE SettingsInv'
<1>1. CASE UNCHANGED settingsVars
  <2>1. UNCHANGED <<files, at, place, found, unread, submitted, before, alone>>
    BY <1>1 DEF settingsVars, settingsHistory
  <2>2. SettingsType' /\ PlacesKnown'
    BY <2>1 DEF SettingsInv, SettingsType, PlacesKnown
  <2>3. ASSUME NEW p \in Savers, alone'[p] PROVE Undisturbed(p)'
    BY <2>1, <2>3, LeftAlone
  <2>. QED  BY <2>2, <2>3 DEF SettingsInv
<1>. QED  BY <1>1, BeginStep, ReadStep, ReadingFailsStep, EndStep, WriteStep, OwnStep, RemoveOldStep
          DEF SettingsNext

LEMMA SettingsAlways == SettingsSpec => []SettingsInv
BY SettingsInitInv, SettingsStep, PTL DEF SettingsSpec

\* Every variable of the settings has its type (ConfigStore).
THEOREM SettingsTypeAlways == SettingsSpec => []SettingsTypeOK
<1>1. SettingsInv => SettingsTypeOK
  BY DEF SettingsInv, SettingsType, SettingsTypeOK, Steps
<1>. QED  BY <1>1, SettingsAlways, PTL

\* Nothing half written is ever read, whoever saves meanwhile and wherever a save
\* ends (ConfigStore.Save writes aside and renames).
THEOREM ReadsOneSaveAlways == SettingsSpec => []ReadsOneSave
<1>1. ASSUME SettingsInv, NEW p \in Users PROVE found[p] # Torn
  <2>1. PICK n \in DOMAIN Kinds : TRUE
    BY ValuesAssumption
  <2>2. found[p][n] \in Held
    BY <1>1 DEF SettingsInv, SettingsType, Whole
  <2>3. Torn[n] = "torn" /\ "torn" \notin Held
    BY ValuesAssumption DEF Torn, Held, Unset
  <2>. QED  BY <2>2, <2>3
<1>2. SettingsInv => ReadsOneSave
  BY <1>1 DEF ReadsOneSave
<1>. QED  BY <1>2, SettingsAlways, PTL

\* Once its login is dropped, a save nobody disturbed has put its settings first
\* and left none behind it.
LEMMA SavedInForce ==
  ASSUME SettingsInv, NEW p \in Savers, DropLogin(p), alone[p]
  PROVE  InForce = Overridden(submitted[p], before[p])
<1>1. /\ found[p] = before[p] /\ files[OwnId] = Wanted(p)
      /\ \A i \in 1 .. Len(OldIds) : files[IdAt(i)] = NoValues
  BY Places DEF DropLogin, SettingsInv, Undisturbed, HasMoved, SettingsType, Users
<1>2. CASE files[OwnId] = NoValues
  <2>1. \A i \in 0 .. Len(OldIds) : files[IdAt(i)] = NoValues
    BY <1>1, <1>2, Places
  <2>. QED  BY <1>1, <1>2, <2>1, NoneHeld DEF Wanted
<1>3. CASE files[OwnId] # NoValues
  <2>1. InForce = files[IdAt(0)]
    BY <1>3, FirstHeld, Places DEF SettingsInv
  <2>. QED  BY <1>1, <2>1, Places DEF Wanted
<1>. QED  BY <1>2, <1>3

\* An undisturbed save leaves in force what its form makes of the settings that
\* were in force, though they were a replaced id's (handleSaveSettings).
THEOREM SaveTakesEffectAlways == SettingsSpec => SaveTakesEffect
<1>1. SettingsInv =>
        [\A p \in Savers :
           DropLogin(p) /\ alone[p] => InForce = Overridden(submitted[p], before[p])]_settingsVars
  BY SavedInForce
<1>. QED  BY <1>1, SettingsAlways, PTL DEF SettingsSpec, SaveTakesEffect

-----------------------------------------------------------------------------
(***************************************************************************)
(* The log files. HoldsLatest is preserved because a generation is only    *)
(* ever moved to a place that is empty (Shifting), and a record is only    *)
(* ever added to a file that is there (OpenIsThere).                       *)
(***************************************************************************)

\* The files hold records that were accepted.
FilesType ==
  /\ logs \in [0 .. Retained -> SUBSET Nat] /\ accepted \in Nat
  /\ \A n \in 0 .. Retained : logs[n] = NoFile \/ logs[n] \subseteq 1 .. accepted

\* A handle is open on a file that is there.
OpenIsThere == isOpen => logs[0] # NoFile

\* While the generations are moved the file is closed, and the place the next one
\* is moved to is empty.
Shifting ==
  /\ writer \in {"removing", "shifting", "reopening"} => ~isOpen
  /\ shifting \in 0 .. Retained - 1
  /\ writer = "shifting" => logs[shifting + 1] = NoFile

\* HoldsLatest, record by record.
NoGap == \A r \in Kept, q \in Nat : r <= q /\ q <= accepted => q \in Kept
InOrder ==
  \A newer, older \in 0 .. Retained : newer < older =>
    \A r \in logs[newer] \ NoFile, q \in logs[older] \ NoFile : q < r

LogInv == FilesType /\ OpenIsThere /\ Shifting /\ NoGap /\ InOrder

LEMMA KeptRecords ==
  ASSUME FilesType
  PROVE  /\ \A r : r \in Kept <=> \E n \in 0 .. Retained : r \in logs[n] \ NoFile
         /\ \A n \in 0 .. Retained : \A r \in logs[n] \ NoFile : r \in 1 .. accepted
BY DEF Kept, FilesType, NoFile

LEMMA KeptRecordsNext ==
  ASSUME FilesType'
  PROVE  \A r : r \in Kept' <=> \E n \in 0 .. Retained : r \in logs'[n] \ NoFile
BY DEF Kept, FilesType, NoFile

LEMMA LatestHeld == ASSUME LogInv PROVE HoldsLatest
<1>1. ASSUME NEW r \in Kept, NEW q \in r .. accepted PROVE q \in Kept
  <2>1. r \in Nat /\ accepted \in Nat /\ r \in Int
    BY KeptRecords DEF LogInv, FilesType
  <2>2. q \in Nat /\ r <= q /\ q <= accepted
    BY <2>1
  <2>. QED  BY <2>2 DEF LogInv, NoGap
<1>. QED  BY <1>1 DEF HoldsLatest, LogInv, InOrder

\* Opening the file, which creates it where there is none.
LEMMA ReopensKeeps ==
  ASSUME LogInv, Reopens, UNCHANGED accepted
  PROVE  FilesType' /\ OpenIsThere' /\ NoGap' /\ InOrder' /\ Kept' = Kept
<1>. USE LogAssumption DEF LogInv, FilesType, Reopens, NoFile
<1>1. \A n \in 0 .. Retained : logs'[n] \ NoFile = logs[n] \ NoFile
  OBVIOUS
<1>2. FilesType'
  OBVIOUS
<1>3. OpenIsThere'
  BY DEF OpenIsThere
<1>4. Kept' = Kept
  BY <1>1, <1>2, KeptRecords DEF Kept
<1>5. InOrder'
  BY <1>1 DEF InOrder
<1>6. NoGap'
  BY <1>4 DEF NoGap
<1>. QED  BY <1>2, <1>3, <1>4, <1>5, <1>6

\* The files as they are.
LEMMA FilesLeft ==
  ASSUME LogInv, UNCHANGED <<logs, accepted>>
  PROVE  FilesType' /\ NoGap' /\ InOrder' /\ Kept' = Kept
BY DEF LogInv, FilesType, NoGap, InOrder, Kept

\* Only the oldest place is emptied, and what was in it is older than all the rest.
LEMMA RemoveOldestStep ==
  ASSUME LogInv, RemoveOldest
  PROVE  LogInv' /\ Kept \ Kept' \subseteq logs[Retained]
<1>. USE LogAssumption DEF RemoveOldest
<1>1. /\ logs' = [logs EXCEPT ![Retained] = NoFile] /\ accepted' = accepted /\ isOpen' = isOpen
      /\ Retained \in 0 .. Retained /\ 0 # Retained
  OBVIOUS
<1>2. FilesType'
  BY <1>1 DEF LogInv, FilesType, NoFile
<1>3. \A n \in 0 .. Retained :
        logs'[n] \ NoFile = IF n = Retained THEN {} ELSE logs[n] \ NoFile
  BY <1>1 DEF LogInv, FilesType, NoFile
<1>4. Kept \ Kept' \subseteq logs[Retained]
  BY <1>2, <1>3, KeptRecords, KeptRecordsNext DEF LogInv
<1>5. InOrder'
  BY <1>3 DEF LogInv, InOrder
<1>6. NoGap'
  <2>. SUFFICES ASSUME NEW r \in Kept', NEW q \in Nat, r <= q, q <= accepted
                PROVE  q \in Kept'
    BY <1>1 DEF NoGap
  <2>1. PICK n \in 0 .. Retained : r \in logs'[n] \ NoFile
    BY <1>2, KeptRecordsNext
  <2>2. n # Retained /\ r \in logs[n] \ NoFile /\ n < Retained /\ r \in 1 .. accepted
    BY <1>3, <2>1, KeptRecords DEF LogInv
  <2>3. r \in Kept
    BY <2>2, KeptRecords DEF LogInv
  <2>4. q \in Kept
    BY <2>3 DEF LogInv, NoGap
  <2>5. PICK m \in 0 .. Retained : q \in logs[m] \ NoFile
    BY <2>4, KeptRecords DEF LogInv
  <2>6. m # Retained
    <3>. SUFFICES ASSUME m = Retained PROVE FALSE
      OBVIOUS
    <3>1. q < r
      BY <2>2, <2>5 DEF LogInv, InOrder
    <3>. QED  BY <2>2, <3>1 DEF LogInv, FilesType
  <2>. QED  BY <1>2, <1>3, <2>5, <2>6, KeptRecordsNext
<1>7. OpenIsThere' /\ Shifting'
  BY <1>1 DEF LogInv, OpenIsThere, Shifting, FirstShifted, FilesType
<1>. QED  BY <1>2, <1>4, <1>5, <1>6, <1>7 DEF LogInv

\* A generation moved to an empty place keeps its records, in the same order.
LEMMA ShiftOneStep == ASSUME LogInv, ShiftOne PROVE LogInv' /\ Kept' = Kept
<1>. DEFINE s == shifting
<1>0. /\ s \in 0 .. Retained /\ s + 1 \in 0 .. Retained /\ s \in 0 .. Retained - 1
      /\ s \in Nat /\ Retained \in Nat /\ ~isOpen /\ logs[s + 1] = NoFile
  BY LogAssumption DEF LogInv, Shifting, ShiftOne
<1>1. /\ accepted' = accepted /\ isOpen' = isOpen
      /\ shifting' \in 0 .. Retained - 1
      /\ writer' \in {"shifting", "reopening"} /\ (writer' = "shifting" => shifting' + 1 = s)
      /\ logs' = IF logs[s] = NoFile THEN logs
                 ELSE [logs EXCEPT ![s + 1] = logs[s], ![s] = NoFile]
  BY <1>0 DEF ShiftOne
<1>. HIDE DEF s
<1>2. FilesType' /\ logs'[s] = NoFile /\ logs'[s + 1] = logs[s]
      /\ \A n \in 0 .. Retained \ {s, s + 1} : logs'[n] = logs[n]
  BY <1>0, <1>1 DEF LogInv, FilesType, NoFile
<1>3. Kept' = Kept
  <2>1. \A r : (\E n \in 0 .. Retained : r \in logs'[n] \ NoFile)
               <=> \E n \in 0 .. Retained : r \in logs[n] \ NoFile
    BY <1>0, <1>2
  <2>. QED  BY <1>2, <2>1, KeptRecords, KeptRecordsNext DEF LogInv
<1>4. NoGap'
  BY <1>1, <1>3 DEF LogInv, NoGap
<1>5. InOrder'
  <2>. SUFFICES ASSUME NEW newer \in 0 .. Retained, NEW older \in 0 .. Retained, newer < older,
                       NEW r \in logs'[newer] \ NoFile, NEW q \in logs'[older] \ NoFile
                PROVE  q < r
    BY DEF InOrder
  <2>. DEFINE Was(n) == IF n = s + 1 THEN s ELSE n
  <2>1. newer # s /\ older # s
    BY <1>2
  <2>2. Was(newer) \in 0 .. Retained /\ Was(older) \in 0 .. Retained /\ Was(newer) < Was(older)
    BY <1>0, <2>1
  <2>3. r \in logs[Was(newer)] \ NoFile /\ q \in logs[Was(older)] \ NoFile
    BY <1>2, <2>1
  <2>. QED  BY <2>2, <2>3 DEF LogInv, InOrder
<1>6. OpenIsThere' /\ Shifting'
  BY <1>0, <1>1, <1>2 DEF OpenIsThere, Shifting
<1>. QED  BY <1>2, <1>3, <1>4, <1>5, <1>6 DEF LogInv

\* The next record follows all there are, in the newest file.
LEMMA AppendStep == ASSUME LogInv, Append1 PROVE LogInv' /\ Kept \subseteq Kept'
<1>1. CASE isOpen
  <2>1. /\ accepted' = accepted + 1 /\ logs' = [logs EXCEPT ![0] = @ \union {accepted + 1}]
        /\ isOpen' = isOpen /\ shifting' = shifting /\ writer' = "idle"
    BY <1>1 DEF Append1
  <2>2. accepted \in Nat /\ logs[0] \subseteq 1 .. accepted /\ 0 \in 0 .. Retained
    BY <1>1, LogAssumption DEF LogInv, FilesType, OpenIsThere
  <2>3. /\ logs'[0] = logs[0] \union {accepted + 1}
        /\ \A n \in 0 .. Retained : n # 0 => logs'[n] = logs[n]
        /\ logs' \in [0 .. Retained -> SUBSET Nat] /\ accepted' \in Nat
    BY <2>1, <2>2 DEF LogInv, FilesType
  <2>4. FilesType'
    BY <2>1, <2>2, <2>3 DEF LogInv, FilesType
  <2>5. \A r : r \in Kept' <=> r \in Kept \/ r = accepted + 1
    BY <2>2, <2>3, <2>4, KeptRecords, KeptRecordsNext DEF LogInv, NoFile
  <2>6. NoGap'
    BY <2>1, <2>2, <2>5, KeptRecords DEF LogInv, NoGap
  <2>7. InOrder'
    <3>1. \A n \in 0 .. Retained : \A q \in logs[n] \ NoFile : q < accepted + 1
      BY <2>2, KeptRecords DEF LogInv
    <3>. QED  BY <2>3, <3>1 DEF LogInv, InOrder
  <2>8. OpenIsThere' /\ Shifting'
    BY <2>1, <2>2, <2>3 DEF LogInv, OpenIsThere, Shifting, NoFile
  <2>. QED  BY <2>4, <2>5, <2>6, <2>7, <2>8 DEF LogInv
<1>2. CASE ~isOpen
  <2>1. UNCHANGED <<logs, accepted, isOpen, shifting>> /\ writer' = "idle"
    BY <1>2 DEF Append1
  <2>. QED  BY <2>1, FilesLeft DEF LogInv, OpenIsThere, Shifting
<1>. QED  BY <1>1, <1>2

\* Every step keeps the invariant, and loses nothing but from the oldest place.
LEMMA LogStep ==
  ASSUME LogInv, [LogNext]_logVars
  PROVE  LogInv' /\ Kept \ Kept' \subseteq logs[Retained]
<1>1. CASE BeginWrite
  <2>1. CASE Reopens
    BY <1>1, <2>1, ReopensKeeps DEF BeginWrite, LogInv, Shifting
  <2>2. CASE ~Reopens
    BY <1>1, <2>2, FilesLeft DEF BeginWrite, LogInv, Shifting, OpenIsThere
  <2>. QED  BY <2>1, <2>2
<1>2. CASE Decide
  BY <1>2, FilesLeft DEF Decide, LogInv, Shifting, OpenIsThere
<1>3. CASE CallFails
  BY <1>3, FilesLeft, LogAssumption DEF CallFails, LogInv, Shifting, OpenIsThere
<1>4. CASE RemoveOldest
  BY <1>4, RemoveOldestStep
<1>5. CASE ShiftOne
  BY <1>5, ShiftOneStep
<1>6. CASE EndRotation
  <2>1. CASE Reopens
    BY <1>6, <2>1, ReopensKeeps DEF EndRotation, LogInv, Shifting
  <2>2. CASE ~Reopens
    BY <1>6, <2>2, FilesLeft DEF EndRotation, LogInv, Shifting, OpenIsThere
  <2>. QED  BY <2>1, <2>2
<1>7. CASE Recover
  <2>1. CASE Reopens
    BY <1>7, <2>1, ReopensKeeps DEF Recover, LogInv, Shifting
  <2>2. CASE ~Reopens
    BY <1>7, <2>2, FilesLeft DEF Recover, LogInv, Shifting, OpenIsThere
  <2>. QED  BY <2>1, <2>2
<1>8. CASE Append1
  BY <1>8, AppendStep
<1>9. CASE RetryDue
  BY <1>9, FilesLeft DEF RetryDue, LogInv, Shifting, OpenIsThere
<1>10. CASE RestartLog
  BY <1>10, ReopensKeeps, LogAssumption DEF RestartLog, LogInv, Shifting
<1>11. CASE UNCHANGED logVars
  BY <1>11, FilesLeft DEF logVars, LogInv, Shifting, OpenIsThere
<1>. QED
  BY <1>1, <1>2, <1>3, <1>4, <1>5, <1>6, <1>7, <1>8, <1>9, <1>10, <1>11 DEF LogNext

LEMMA LogInitInv == LogInit => LogInv
<1>. SUFFICES ASSUME LogInit PROVE LogInv
  OBVIOUS
<1>1. /\ logs = [n \in 0 .. Retained |-> IF n = 0 THEN {} ELSE NoFile] /\ accepted = 0
      /\ shifting = 0 /\ writer = "idle"
  BY DEF LogInit
<1>2. FilesType /\ \A n \in 0 .. Retained : logs[n] \ NoFile = {}
  BY <1>1 DEF FilesType, NoFile
<1>3. Kept = {}
  BY <1>2, KeptRecords
<1>. QED  BY <1>1, <1>2, <1>3, LogAssumption
          DEF LogInv, OpenIsThere, Shifting, NoGap, InOrder, NoFile

LEMMA LogAlways == LogSpec => []LogInv
<1>1. LogInv /\ [LogNext]_logVars => LogInv'
  BY LogStep
<1>. QED  BY <1>1, LogInitInv, PTL DEF LogSpec

\* Between any two calls to the file system, whichever of them fail, the files hold
\* the latest records without a gap, and only the oldest generation is ever lost
\* (rotatingFile.rotate).
THEOREM OnlyOldestLostAlways == LogSpec => OnlyOldestLost
<1>2. LogInv /\ [LogNext]_logVars =>
        LogInv' /\ [HoldsLatest' /\ Kept \ Kept' \subseteq logs[Retained]]_logVars
  <2>1. LogInv' => HoldsLatest'
    BY LatestHeld, PTL
  <2>. QED  BY <2>1, LogStep
<1>. QED  BY LogInitInv, <1>2, PTL DEF LogSpec, OnlyOldestLost

\* A record is written for each write that began, so there are never too many.
LogTyped ==
  /\ accepted \in 0 .. MaxRecords /\ size \in 0 .. accepted
  /\ writer \in {"idle", "deciding", "removing", "shifting", "reopening", "writing"}
  /\ writer # "idle" => accepted < MaxRecords

LEMMA SizeIs == ASSUME FilesType PROVE SizeOnDisk \in 0 .. accepted
<1>1. CASE logs[0] = NoFile
  BY <1>1 DEF SizeOnDisk, FilesType
<1>2. CASE logs[0] # NoFile
  <2>1. logs[0] \subseteq 1 .. accepted /\ accepted \in Nat
    BY <1>2, LogAssumption DEF FilesType
  <2>2. IsFiniteSet(1 .. accepted) /\ Cardinality(1 .. accepted) = accepted
    BY <2>1, FS_Interval
  <2>3. Cardinality(logs[0]) \in Nat /\ Cardinality(logs[0]) <= accepted
    BY <2>1, <2>2, FS_Subset, FS_CardinalityType
  <2>. QED  BY <1>2, <2>1, <2>3 DEF SizeOnDisk
<1>. QED  BY <1>1, <1>2

LEMMA LogTypedStep == ASSUME LogInv, LogTyped, [LogNext]_logVars PROVE LogTyped'
<1>. USE LogAssumption DEF LogTyped
<1>1. ASSUME Reopens, accepted' = accepted PROVE size' \in 0 .. accepted'
  BY <1>1, SizeIs DEF LogInv, Reopens
<1>2. CASE BeginWrite
  BY <1>1, <1>2 DEF BeginWrite
<1>3. CASE Decide \/ CallFails \/ RemoveOldest \/ ShiftOne \/ RetryDue
  BY <1>3 DEF Decide, CallFails, RemoveOldest, ShiftOne, RetryDue
<1>4. CASE EndRotation \/ Recover \/ RestartLog
  BY <1>1, <1>4 DEF EndRotation, Recover, RestartLog
<1>5. CASE Append1
  BY <1>5 DEF Append1
<1>6. CASE UNCHANGED logVars
  BY <1>6 DEF logVars
<1>. QED  BY <1>2, <1>3, <1>4, <1>5, <1>6 DEF LogNext

\* Every variable of the log files has its type (rotatingFile).
THEOREM LogTypeAlways == LogSpec => []LogTypeOK
<1>1. LogInv /\ LogTyped => LogTypeOK
  BY LogAssumption DEF LogInv, FilesType, Shifting, LogTyped, LogTypeOK
<1>2. LogInit => LogTyped
  BY LogAssumption DEF LogInit, LogTyped
<1>. QED  BY <1>1, <1>2, LogAlways, LogTypedStep, PTL DEF LogSpec

-----------------------------------------------------------------------------
(***************************************************************************)
(* The Windows service. The order of an uninstall is what the invariant    *)
(* rests on: the plaintext goes before the settings and the service last   *)
(* (ServiceLast).                                                          *)
(***************************************************************************)

Doings == {"none", "create", "start", "query", "read", "source", "seed", "end", "await", "control",
           "sleep", "removeSource", "removePlain", "removeSettings", "delete", "write"}

Sightings == [state : States, instance : 0 .. MaxInstances]

ServiceType ==
  /\ state \in States /\ instance \in 0 .. MaxInstances /\ settings \subseteq Names
  /\ registered \in BOOLEAN /\ hasSource \in BOOLEAN /\ hasPlain \in BOOLEAN
  /\ hadPassword \in BOOLEAN /\ raced \in BOOLEAN
  /\ exchange \in {"none", "reading", "hash", "plain", "done"}

PromptType ==
  /\ verb \in [Prompts -> Verbs \union {"none"}] /\ doing \in [Prompts -> Doings]
  /\ seen \in [Prompts -> Sightings] /\ stopping \in [Prompts -> 0 .. MaxInstances]
  /\ read \in [Prompts -> SUBSET Names] /\ told \in [Prompts -> SUBSET (0 .. MaxInstances)]

\* The hash is written before the plaintext is removed, and an uninstall removes
\* the plaintext before the settings.
HashFirst ==
  /\ exchange = "plain" /\ hadPassword /\ ~raced => HashSetting \in settings
  /\ \A p \in Prompts : doing[p] = "removeSettings" => ~hadPassword

\* A stop that stands was answered, and so was the one to the process last seen
\* running.
StopsAnswered ==
  \A p \in Prompts :
    /\ stopping[p] # 0 => stopping[p] \in told[p]
    /\ doing[p] = "sleep" /\ seen[p].state = "running" => seen[p].instance \in told[p]

\* The service is there from its creation to its removal, which is the last.
ServiceLast ==
  \A p \in Prompts :
    /\ doing[p] \in {"source", "seed"} => registered
    /\ doing[p] \in {"removePlain", "removeSettings", "delete"} => ~hasSource
    /\ doing[p] \in {"removeSettings", "delete"} => ~hasPlain

CommandInv == ServiceType /\ PromptType /\ HashFirst /\ PasswordKept /\ StopsAnswered

\* What a command does once it has removed something.
LEMMA RemovalOrder ==
  /\ Head(Removals) = "removeSource"
  /\ AfterRemoving("removeSource") = "removePlain"
  /\ AfterRemoving("removePlain") = "removeSettings"
  /\ AfterRemoving("removeSettings") = "delete"
  /\ AfterRemoving("delete") = "end"
<1>1. Len(Removals) = 4 /\ DOMAIN Removals = {1, 2, 3, 4}
  BY DEF Removals
<1>2. /\ Removals[1] = "removeSource" /\ Removals[2] = "removePlain"
      /\ Removals[3] = "removeSettings" /\ Removals[4] = "delete"
  BY DEF Removals
<1>3. /\ (CHOOSE j \in {1, 2, 3, 4} : Removals[j] = "removeSource") = 1
      /\ (CHOOSE j \in {1, 2, 3, 4} : Removals[j] = "removePlain") = 2
      /\ (CHOOSE j \in {1, 2, 3, 4} : Removals[j] = "removeSettings") = 3
      /\ (CHOOSE j \in {1, 2, 3, 4} : Removals[j] = "delete") = 4
  BY <1>2
<1>4. Head(Removals) = "removeSource"
  BY DEF Removals
<1>. QED  BY <1>1, <1>2, <1>3, <1>4 DEF AfterRemoving

LEMMA CommandInit == WindowsInit => CommandInv /\ ServiceLast /\ RemainsRemovable
<1>. SUFFICES ASSUME WindowsInit PROVE CommandInv /\ ServiceLast /\ RemainsRemovable
  OBVIOUS
<1>. USE DEF WindowsInit
<1>1. ServiceType
  <2>1. state \in States /\ instance \in 0 .. MaxInstances /\ exchange = "none"
    BY WindowsAssumption DEF States
  <2>2. settings \subseteq Names
    BY DEF Names, Seeds
  <2>3. /\ registered \in BOOLEAN /\ hasSource \in BOOLEAN /\ hasPlain \in BOOLEAN
        /\ hadPassword \in BOOLEAN /\ raced \in BOOLEAN
    BY Zenon
  <2>. QED  BY <2>1, <2>2, <2>3 DEF ServiceType
<1>2. PromptType
  BY WindowsAssumption DEF PromptType, Sightings, States, NotAsked, Doings
<1>3. HashFirst /\ PasswordKept /\ ServiceLast /\ RemainsRemovable
  BY DEF HashFirst, PasswordKept, ServiceLast, RemainsRemovable
<1>4. StopsAnswered
  BY DEF StopsAnswered
<1>. QED  BY <1>1, <1>2, <1>3, <1>4 DEF CommandInv

-----------------------------------------------------------------------------
\* The steps of the service itself.
LEMMA ServiceStep ==
  ASSUME CommandInv, ExchangeBegins \/ WriteHash \/ RemovePlaintext \/ Advance \/ Collapse
  PROVE  CommandInv'
<1>. USE DEF CommandInv, promptVars
<1>1. CASE ExchangeBegins
  BY <1>1 DEF ExchangeBegins, registryVars, ServiceType, PromptType, HashFirst, PasswordKept, StopsAnswered
<1>2. CASE WriteHash
  BY <1>2 DEF WriteHash, ServiceType, PromptType, HashFirst, PasswordKept, StopsAnswered, Names
<1>3. CASE RemovePlaintext
  BY <1>3 DEF RemovePlaintext, ServiceType, PromptType, HashFirst, PasswordKept, StopsAnswered
<1>4. CASE Advance
  BY <1>4 DEF Advance, registryVars, ServiceType, PromptType, HashFirst, PasswordKept, StopsAnswered, States
<1>5. CASE Collapse
  <2>1. UNCHANGED <<registryVars, promptVars, hadPassword, raced>> /\ exchange' \in {"reading", "none"}
    BY <1>5 DEF Collapse, Launch
  <2>2. state' \in States /\ instance' \in 0 .. MaxInstances
    BY <1>5, WindowsAssumption DEF Collapse, Launch, ServiceType, States
  <2>. QED  BY <2>1, <2>2 DEF registryVars, ServiceType, PromptType, HashFirst, PasswordKept, StopsAnswered
<1>. QED  BY <1>1, <1>2, <1>3, <1>4, <1>5

\* A step of a command that changes only what the command does next.
LEMMA GoesOn ==
  ASSUME CommandInv, NEW p \in Prompts, NEW what \in Doings \ {"removeSettings", "sleep"}, To(p, what),
         UNCHANGED <<seen, stopping, told>>
  PROVE  /\ doing' \in [Prompts -> Doings]
         /\ (\A q \in Prompts : doing'[q] = "removeSettings" => doing[q] = "removeSettings")
         /\ StopsAnswered'
BY DEF CommandInv, To, PromptType, StopsAnswered

\* The commands that install and start the service, and the settings.
LEMMA InstallStep ==
  ASSUME CommandInv, NEW p \in Prompts,
         \/ \E v \in Verbs : Run(p, v)
         \/ CreateService(p) \/ RegisterSource(p) \/ Seed(p) \/ StartService(p) \/ ReadConfig(p)
         \/ Sleep(p)
  PROVE  CommandInv'
<1>. USE DEF CommandInv
<1>1. ASSUME NEW v \in Verbs, Run(p, v) PROVE CommandInv'
  <2>. DEFINE what == CASE v = "install" -> "create" [] v = "start" -> "start"
                        [] v \in {"stop", "uninstall"} -> "query" [] OTHER -> "read"
  <2>1. To(p, what) /\ verb' = [verb EXCEPT ![p] = v]
        /\ UNCHANGED <<registryVars, runtimeVars, seen, stopping, read, told, hadPassword, raced>>
    BY <1>1 DEF Run
  <2>2. what \in Doings \ {"removeSettings", "sleep"}
    BY DEF Doings
  <2>. HIDE DEF what
  <2>3. /\ doing' \in [Prompts -> Doings] /\ StopsAnswered'
        /\ \A q \in Prompts : doing'[q] = "removeSettings" => doing[q] = "removeSettings"
    BY <2>1, <2>2, GoesOn
  <2>. QED
    BY <2>1, <2>3 DEF registryVars, runtimeVars, ServiceType, PromptType, HashFirst, PasswordKept
<1>2. CASE CreateService(p) \/ RegisterSource(p) \/ Seed(p) \/ ReadConfig(p) \/ Sleep(p)
  <2>1. PICK what \in {"source", "seed", "end", "write", "query"} : To(p, what)
    BY <1>2 DEF CreateService, RegisterSource, Seed, ReadConfig, Sleep
  <2>2. /\ UNCHANGED <<hasPlain, runtimeVars, verb, seen, stopping, told, hadPassword, raced>>
        /\ settings' \in {settings, settings \union Seeds} /\ registered' \in BOOLEAN /\ hasSource' \in BOOLEAN
        /\ read' \in {read, [read EXCEPT ![p] = settings]}
    BY <1>2 DEF CreateService, RegisterSource, Seed, ReadConfig, Sleep, registryVars, ServiceType
  <2>3. /\ doing' \in [Prompts -> Doings] /\ StopsAnswered'
        /\ \A q \in Prompts : doing'[q] = "removeSettings" => doing[q] = "removeSettings"
    BY <2>1, <2>2, GoesOn DEF Doings
  <2>4. read' \in [Prompts -> SUBSET Names] /\ settings' \subseteq Names /\ settings \subseteq settings'
    BY <2>2 DEF ServiceType, PromptType, Names, Seeds
  <2>. QED  BY <2>2, <2>3, <2>4 DEF runtimeVars, ServiceType, PromptType, HashFirst, PasswordKept
<1>3. CASE StartService(p)
  <2>1. /\ Launch /\ To(p, "await")
        /\ UNCHANGED <<registryVars, verb, seen, stopping, read, told, hadPassword, raced>>
    BY <1>3 DEF StartService
  <2>2. /\ doing' \in [Prompts -> Doings] /\ StopsAnswered'
        /\ \A q \in Prompts : doing'[q] = "removeSettings" => doing[q] = "removeSettings"
    BY <2>1, GoesOn DEF Doings
  <2>3. state' \in States /\ instance' \in 0 .. MaxInstances /\ exchange' = "reading"
    BY <2>1, WindowsAssumption DEF Launch, ServiceType, States
  <2>. QED  BY <2>1, <2>2, <2>3 DEF registryVars, ServiceType, PromptType, HashFirst, PasswordKept
<1>. QED  BY <1>1, <1>2, <1>3

\* What a command has seen of the service, and what it is told.
LEMMA StoppingStep ==
  ASSUME CommandInv, NEW p \in Prompts, Await(p) \/ QueryService(p) \/ ControlStop(p) \/ EndCommand(p)
  PROVE  CommandInv'
<1>. USE DEF CommandInv
<1>0. [state |-> state, instance |-> instance] \in Sightings /\ NotAsked \in Sightings
  BY WindowsAssumption DEF ServiceType, Sightings, NotAsked, States
<1>1. CASE Await(p)
  BY <1>0, <1>1 DEF Await, To, registryVars, runtimeVars, ServiceType, PromptType, HashFirst, PasswordKept,
                    StopsAnswered, Doings
<1>2. CASE EndCommand(p)
  <2>1. /\ doing' = [doing EXCEPT ![p] = "none"] /\ verb' = [verb EXCEPT ![p] = "none"]
        /\ seen' = [seen EXCEPT ![p] = NotAsked] /\ stopping' = [stopping EXCEPT ![p] = 0]
        /\ read' = [read EXCEPT ![p] = {}] /\ told' = [told EXCEPT ![p] = {}]
        /\ UNCHANGED <<registryVars, runtimeVars, hadPassword, raced>>
    BY <1>2 DEF EndCommand
  <2>2. PromptType'
    BY <1>0, <2>1, WindowsAssumption DEF PromptType, Doings
  <2>3. StopsAnswered'
    BY <2>1 DEF PromptType, StopsAnswered
  <2>. QED
    BY <2>1, <2>2, <2>3 DEF registryVars, runtimeVars, ServiceType, HashFirst, PasswordKept, PromptType
<1>3. CASE QueryService(p)
  <2>. DEFINE stands == IF IsTheSame(p) THEN stopping[p] ELSE 0
              next == IF state = "stopped" THEN IF verb[p] = "stop" THEN "end" ELSE "removeSource"
                      ELSE IF stands = 0 /\ state = "running" THEN "control" ELSE "sleep"
  <2>1. /\ seen' = [seen EXCEPT ![p] = [state |-> state, instance |-> instance]]
        /\ stopping' = [stopping EXCEPT ![p] = stands] /\ doing' = [doing EXCEPT ![p] = next]
        /\ UNCHANGED <<registryVars, runtimeVars, verb, read, told, hadPassword, raced>>
    BY <1>3, RemovalOrder DEF QueryService, To
  <2>2. stands \in {0, stopping[p]} /\ stands \in {0, instance} /\ stands \in 0 .. MaxInstances
    BY WindowsAssumption DEF IsTheSame, PromptType
  <2>3. next \in Doings \ {"removeSettings"} /\ (next = "sleep" /\ state = "running" => stands = instance)
    BY <2>2 DEF Doings
  <2>. HIDE DEF stands, next
  <2>4. PromptType'
    BY <1>0, <2>1, <2>2, <2>3 DEF PromptType
  <2>5. StopsAnswered'
    <3>1. next = "sleep" /\ state = "running" => instance \in told[p]
      <4>. SUFFICES ASSUME next = "sleep", state = "running" PROVE instance \in told[p]
        OBVIOUS
      <4>1. stands = instance /\ doing[p] = "query" /\ (state = "running" => stands # 0)
        BY <1>3, <2>3 DEF QueryService, stands, next
      <4>. QED  BY <2>2, <4>1 DEF StopsAnswered
    <3>. QED  BY <2>1, <2>2, <3>1 DEF PromptType, StopsAnswered
  <2>. QED
    BY <2>1, <2>3, <2>4, <2>5 DEF registryVars, runtimeVars, ServiceType, HashFirst, PasswordKept, PromptType
<1>4. CASE ControlStop(p)
  <2>1. /\ told' = [told EXCEPT ![p] = @ \union {seen[p].instance, instance}]
        /\ doing' = [doing EXCEPT ![p] = "sleep"]
        /\ stopping' \in {stopping, [stopping EXCEPT ![p] = seen[p].instance]}
        /\ UNCHANGED <<registryVars, state, instance, exchange, verb, seen, read, hadPassword, raced>>
    BY <1>4 DEF ControlStop, To
  <2>2. seen[p].instance \in 0 .. MaxInstances
    BY DEF PromptType, Sightings
  <2>3. PromptType'
    BY <2>1, <2>2 DEF PromptType, ServiceType, Doings
  <2>4. StopsAnswered'
    BY <2>1 DEF StopsAnswered, PromptType
  <2>. QED  BY <2>1, <2>3, <2>4 DEF registryVars, ServiceType, HashFirst, PasswordKept, PromptType
<1>. QED  BY <1>1, <1>2, <1>3, <1>4

\* What an uninstall removes, and what a config command writes.
LEMMA RemovalStep ==
  ASSUME CommandInv, NEW p \in Prompts,
         \/ RemoveSource(p) \/ RemovePlain(p) \/ RemoveSettings(p) \/ DeleteService(p)
         \/ \E name \in Names : WriteConfig(p, name)
  PROVE  CommandInv'
<1>. USE RemovalOrder DEF CommandInv, To
<1>1. CASE RemoveSource(p)
  BY <1>1 DEF RemoveSource, runtimeVars, ServiceType, PromptType, HashFirst, PasswordKept, StopsAnswered, Doings
<1>2. CASE RemovePlain(p)
  BY <1>2 DEF RemovePlain, runtimeVars, ServiceType, PromptType, HashFirst, PasswordKept, StopsAnswered, Doings
<1>3. CASE RemoveSettings(p)
  BY <1>3 DEF RemoveSettings, runtimeVars, ServiceType, PromptType, HashFirst, PasswordKept, StopsAnswered, Doings
<1>4. CASE DeleteService(p)
  BY <1>4 DEF DeleteService, runtimeVars, ServiceType, PromptType, HashFirst, PasswordKept, StopsAnswered, Doings
<1>5. ASSUME NEW name \in Names, WriteConfig(p, name) PROVE CommandInv'
  <2>1. /\ settings' = IF verb[p] = "set" THEN read[p] \union {name} ELSE read[p] \ {name}
        /\ raced' = (raced \/ ~(settings \subseteq read[p]) \/ name = HashSetting)
        /\ doing' = [doing EXCEPT ![p] = "end"]
        /\ UNCHANGED <<registered, hasSource, hasPlain, runtimeVars, verb, seen, stopping, read, told,
                       hadPassword>>
    BY <1>5 DEF WriteConfig
  <2>2. settings' \subseteq Names /\ raced' \in BOOLEAN
    BY <2>1 DEF PromptType, ServiceType
  <2>3. ~raced' => ~raced /\ (HashSetting \in settings => HashSetting \in settings')
    BY <2>1
  <2>. QED  BY <2>1, <2>2, <2>3
            DEF runtimeVars, ServiceType, PromptType, HashFirst, PasswordKept, StopsAnswered, Doings
<1>. QED  BY <1>1, <1>2, <1>3, <1>4, <1>5

LEMMA CommandStep == ASSUME CommandInv, [WindowsNext]_windowsVars PROVE CommandInv'
<1>1. CASE UNCHANGED windowsVars
  BY <1>1 DEF windowsVars, registryVars, runtimeVars, promptVars, CommandInv, ServiceType, PromptType,
              HashFirst, PasswordKept, StopsAnswered
<1>. QED  BY <1>1, ServiceStep, InstallStep, StoppingStep, RemovalStep DEF WindowsNext

\* Of commands run one at a time, what the next one needs is never gone.
LEMMA RemovableStep ==
  ASSUME \A p, q \in Prompts : p = q, CommandInv, ServiceLast, RemainsRemovable, [WindowsNext]_windowsVars
  PROVE  ServiceLast' /\ RemainsRemovable'
<1>. USE RemovalOrder DEF CommandInv, ServiceLast, RemainsRemovable, PromptType
<1>1. CASE UNCHANGED windowsVars
  BY <1>1 DEF windowsVars, registryVars, promptVars
<1>2. CASE ExchangeBegins \/ WriteHash \/ RemovePlaintext \/ Advance \/ Collapse
  BY <1>2 DEF ExchangeBegins, WriteHash, RemovePlaintext, Advance, Collapse, registryVars, promptVars
<1>3. ASSUME NEW p \in Prompts, \E v \in Verbs : Run(p, v) PROVE ServiceLast' /\ RemainsRemovable'
  BY <1>3 DEF Run, To, registryVars
<1>4. ASSUME NEW p \in Prompts,
             EndCommand(p) \/ StartService(p) \/ Await(p) \/ ControlStop(p) \/ Sleep(p) \/ ReadConfig(p)
      PROVE  ServiceLast' /\ RemainsRemovable'
  BY <1>4 DEF EndCommand, StartService, Await, ControlStop, Sleep, ReadConfig, To, registryVars
<1>5. ASSUME NEW p \in Prompts, QueryService(p) PROVE ServiceLast' /\ RemainsRemovable'
  BY <1>5 DEF QueryService, To, registryVars
<1>6. ASSUME NEW p \in Prompts, CreateService(p) \/ RegisterSource(p) \/ Seed(p)
      PROVE  ServiceLast' /\ RemainsRemovable'
  BY <1>6 DEF CreateService, RegisterSource, Seed, To
<1>7. ASSUME NEW p \in Prompts, RemoveSource(p) \/ RemovePlain(p) \/ RemoveSettings(p) \/ DeleteService(p)
      PROVE  ServiceLast' /\ RemainsRemovable'
  BY <1>7 DEF RemoveSource, RemovePlain, RemoveSettings, DeleteService, To
<1>8. ASSUME NEW p \in Prompts, NEW name \in Names, WriteConfig(p, name)
      PROVE  ServiceLast' /\ RemainsRemovable'
  BY <1>8 DEF WriteConfig, To
<1>. QED  BY <1>1, <1>2, <1>3, <1>4, <1>5, <1>6, <1>7, <1>8 DEF WindowsNext

LEMMA CommandAlways == WindowsSpec => []CommandInv
BY CommandInit, CommandStep, PTL DEF WindowsSpec

\* However many commands run at once, the password the installer left is lost to
\* none of them, nor to a first start that is interrupted
\* (consumeBootstrapPassword, removeProductRegistry).
THEOREM PasswordKeptAlways == WindowsSpec => []PasswordKept
BY CommandAlways, PTL DEF CommandInv

\* Of commands run one at a time, whichever of them fail or are interrupted, what
\* they leave behind can be uninstalled (installService, uninstallService).
THEOREM RecoverableAlways ==
  ASSUME \A p, q \in Prompts : p = q
  PROVE  WindowsSpec => []Recoverable
<1>. DEFINE Inv == CommandInv /\ ServiceLast /\ RemainsRemovable
<1>1. WindowsInit => Inv
  BY CommandInit
<1>2. Inv /\ [WindowsNext]_windowsVars => Inv'
  BY CommandStep, RemovableStep
<1>3. Inv => Recoverable
  BY DEF Recoverable, WindowsTypeOK, CommandInv, ServiceType, PromptType
<1>. HIDE DEF Inv
<1>. QED  BY <1>1, <1>2, <1>3, PTL DEF WindowsSpec

\* However many commands run at once, a stop gives up only on a process that has
\* answered it (ensureStopped).
THEOREM EveryInstanceAskedAlways == WindowsSpec => EveryInstanceAsked
<1>1. CommandInv => [\A p \in Prompts :
        GiveUpStop(p) /\ seen[p].state = "running" => seen[p].instance \in told[p]]_windowsVars
  BY DEF CommandInv, StopsAnswered, GiveUpStop
<1>. QED  BY <1>1, CommandAlways, PTL DEF EveryInstanceAsked, WindowsSpec

=============================================================================
