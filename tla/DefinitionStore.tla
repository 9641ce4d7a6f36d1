--------------------------- MODULE DefinitionStore ---------------------------
(***************************************************************************)
(* The directory of tracker definitions, which the operator edits while it *)
(* is served, and DefinitionStore's cache of what each file held.  Every   *)
(* lookup (Trackers or Find) lists the directory, inspects each file, and  *)
(* reads again those whose size or modification time is another than the   *)
(* cached one.  Lookups hold s.mu from beginning to end, so there is one   *)
(* at a time; the operator's edits fall anywhere between its steps.        *)
(*                                                                         *)
(* A file's size and modification time are its stamp: every edit gives it  *)
(* one it never had.  A definition is its id and the ids it replaces.      *)
(***************************************************************************)
EXTENDS Integers, FiniteSets

CONSTANTS
  Files,        \* file names, numbered in the directory's order
  Ids,
  Contents,     \* what a file may hold: definitions, or Broken
  MaxEdits,     \* bound: edits of the directory
  Broken        \* a file that cannot be parsed

ASSUME DefinitionAssumption ==
  /\ Files \subseteq Nat /\ IsFiniteSet(Files) /\ MaxEdits \in Nat
  /\ Contents \subseteq [id : Ids, replaces : SUBSET Ids] \union {Broken}

VARIABLES
  dir,          \* dir[f]: the file, or Absent
  edits,        \* how many edits there have been, which also stamps them
  cache,        \* cache[f]: s.files[f], or NotCached
  lookup,       \* the lookup in progress
  answer,       \* what the last lookup answered
  edited,       \* history: the directory was edited since the lookup listed it
  servable      \* history: servable[f], what f may be served as: what it last read
                \* well as, or Broken, nothing, if it never did or had gone since

definitionVars == <<dir, edits, cache, lookup, answer, edited, servable>>

Absent    == [stamp |-> 0, content |-> Broken]
NotCached == [stamp |-> -1, tracker |-> Broken, isBad |-> FALSE]
Every     == "every"     \* Trackers; anything else is the id of a Find
Idle      == [phase |-> "idle", want |-> Every, names |-> {}, left |-> {}, stamp |-> 0,
              data |-> Broken]
NoAnswer  == [kind |-> "none", from |-> <<>>, loaded |-> <<>>]

DefinitionInit ==
  /\ dir = [f \in Files |-> Absent]
  /\ edits = 0
  /\ cache = [f \in Files |-> NotCached]
  /\ lookup = Idle /\ answer = NoAnswer
  /\ edited = FALSE /\ servable = [f \in Files |-> {Broken}]

-----------------------------------------------------------------------------
\* The operator writes or removes a file.
Edit(f, file) ==
  /\ edits < MaxEdits /\ file # dir[f]
  /\ edits' = edits + 1
  /\ dir' = [dir EXCEPT ![f] = file]
  /\ edited' = TRUE
  /\ UNCHANGED <<cache, lookup, answer, servable>>

\* refresh lists the directory; one that does not exist has no files.
List(want) ==
  LET names == {f \in Files : dir[f] # Absent}
  IN /\ lookup.phase = "idle"
     /\ lookup' = [phase |-> "inspect", want |-> want, names |-> names, left |-> names,
                   stamp |-> 0, data |-> Broken]
     /\ edited' = FALSE
     /\ answer' = NoAnswer
     /\ UNCHANGED <<dir, edits, cache, servable>>

\* The directory cannot be read.
ListFails(want) ==
  /\ lookup.phase = "idle"
  /\ answer' = [NoAnswer EXCEPT !.kind = "error"]
  /\ UNCHANGED <<dir, edits, cache, lookup, edited, servable>>

\* The file whose turn it is.
Current == CHOOSE f \in lookup.left : \A g \in lookup.left : f <= g

Done(f) == [lookup EXCEPT !.phase = "inspect", !.left = @ \ {f}, !.data = Broken]

\* definition, up to the comparison with the cached identity.  A file that has
\* gone is reported and leaves the cache as it is.
Inspect ==
  LET f == Current
  IN /\ lookup.phase = "inspect" /\ lookup.left # {}
     /\ lookup' = IF dir[f] = Absent \/ cache[f].stamp = dir[f].stamp THEN Done(f)
                  ELSE [lookup EXCEPT !.phase = "read", !.stamp = dir[f].stamp]
     /\ UNCHANGED <<dir, edits, cache, answer, edited, servable>>

\* The file is read, whatever it holds by now.
ReadFile ==
  /\ lookup.phase = "read"
  /\ \E data \in {dir[Current].content, Broken} :
       /\ lookup' = [lookup EXCEPT !.phase = "parse", !.data = data]
       /\ servable' = [servable EXCEPT ![Current] = IF data = Broken THEN @ ELSE {data}]
  /\ UNCHANGED <<dir, edits, cache, answer, edited>>

\* Variant: the file's identity is taken again once it has been read.
IdentityAfterReading == dir[Current].stamp

\* The identity a file is cached under is the one it was inspected with, so what
\* is written while it is being read is noticed by the next lookup.
Identity == lookup.stamp

\* Variant: a file that fails has no version left.
LastGoodNone(f) == Broken

\* lastGood.
LastGood(f) == cache[f].tracker

\* What was read is parsed; a file that fails keeps its last good version.
Parse ==
  LET f == Current
  IN /\ lookup.phase = "parse"
     /\ cache' = [cache EXCEPT ![f] =
                    [stamp   |-> Identity,
                     tracker |-> IF lookup.data = Broken THEN LastGood(f) ELSE lookup.data,
                     isBad   |-> lookup.data = Broken]]
     /\ lookup' = Done(f)
     /\ UNCHANGED <<dir, edits, answer, edited, servable>>

-----------------------------------------------------------------------------
\* What the cache keeps once the lookup has seen every file.
Pruned ==
  IF Cardinality({f \in Files : cache[f] # NotCached}) = Cardinality(lookup.names) THEN cache
  ELSE [f \in Files |-> IF f \in lookup.names THEN cache[f] ELSE NotCached]

\* The files whose definition loaded.
Loaded == {f \in lookup.names : cache[f].tracker # Broken}

\* duplicateIDs.
UsersOf(id) == {f \in Loaded : cache[f].tracker.id = id}

\* Variant: only ids of more than one file are withheld.
HandOutAll(f) ==
  [cache[f].tracker EXCEPT !.replaces = {id \in @ : Cardinality(UsersOf(id)) < 2}]

\* handOut: a copy, without the replaced ids a loaded definition has itself.
HandOut(f) == [cache[f].tracker EXCEPT !.replaces = {id \in @ : UsersOf(id) = {}}]

First(fs) == CHOOSE f \in fs : \A g \in fs : f <= g

\* Find, after its refresh.
Found(id) ==
  LET renamed == {f \in Loaded : id \in cache[f].tracker.replaces}
  IN IF Cardinality(UsersOf(id)) > 1 THEN {}
     ELSE IF UsersOf(id) # {} THEN UsersOf(id)
     ELSE IF renamed # {} THEN {First(renamed)} ELSE {}

\* Trackers, after its refresh: every id two files have is left out.
Usable == {f \in Loaded : Cardinality(UsersOf(cache[f].tracker.id)) = 1}

\* A listed file that is not in the cache is a nil entry, and reading it panics.
Missing == {f \in lookup.names : cache[f] = NotCached}

Finish ==
  LET from == IF lookup.want = Every THEN Usable ELSE Found(lookup.want)
  IN /\ lookup.phase = "inspect" /\ lookup.left = {}
     /\ cache' = Pruned
     /\ lookup' = Idle
     /\ answer' = IF Missing # {} THEN [NoAnswer EXCEPT !.kind = "panic"]
                  ELSE [kind |-> IF lookup.want = Every \/ from # {} THEN "found" ELSE "notFound",
                        from |-> [f \in from |-> HandOut(f)],
                        loaded |-> [f \in Loaded |-> cache[f].tracker]]
     /\ servable' = [f \in Files |->
                       CASE f \in lookup.names -> servable[f]
                         [] f \notin lookup.names /\ Missing = {} -> {Broken}
                         [] OTHER -> servable[f] \union {Broken}]
     /\ UNCHANGED <<dir, edits, edited>>

DefinitionNext ==
  \/ \E f \in Files :
       \/ \E c \in Contents : Edit(f, [stamp |-> edits + 1, content |-> c])
       \/ Edit(f, Absent)
  \/ \E want \in Ids \union {Every} : List(want) \/ ListFails(want)
  \/ Inspect \/ ReadFile \/ Parse \/ Finish

DefinitionSpec == DefinitionInit /\ [][DefinitionNext]_definitionVars

-----------------------------------------------------------------------------
(***************************************************************************)
(* Properties.                                                             *)
(***************************************************************************)

\* A lookup no edit fell into answers from the files as they are, whatever fell
\* into the lookups before it: a file that reads well is served as it reads,
\* and one that does not keeps what it was last served with.
LookupsCurrent ==
  [][lookup.phase # "idle" /\ lookup'.phase = "idle" /\ ~edited =>
       \A f \in Files :
         IF dir[f] = Absent THEN cache'[f] = NotCached
         ELSE ~cache'[f].isBad => cache'[f].tracker = dir[f].content]_definitionVars

\* A file that read well once stays loaded in its last good version for as long as
\* it is there, through edits that break it and readings that fail, and in no older
\* one; one that a lookup found gone is loaded no more, nor when it comes back
\* broken.  Of a file that went before a lookup that panicked, either may be true.
\* What is handed out is such a version, at most without ids it claims to replace.
LastGoodServed ==
  answer.kind \in {"found", "notFound"} =>
    \A f \in Files :
      /\ (IF f \in DOMAIN answer.loaded THEN answer.loaded[f] ELSE Broken) \in servable[f]
      /\ f \in DOMAIN answer.from =>
           \E good \in servable[f] \ {Broken} :
             /\ answer.from[f].id = good.id
             /\ answer.from[f].replaces \subseteq good.replaces

\* The comment of Trackers: one broken definition does not hide every working
\* one; a lookup always answers.
BrokenHidesNone == answer.kind # "panic"

\* Every variable has its type.
DefinitionTypeOK ==
  /\ edits \in 0 .. MaxEdits
  /\ \A f \in Files : dir[f].stamp <= edits /\ cache[f].stamp <= edits
  /\ lookup.left \subseteq lookup.names /\ lookup.names \subseteq Files

=============================================================================
