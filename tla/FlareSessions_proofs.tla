------------------------ MODULE FlareSessions_proofs ------------------------
(***************************************************************************)
(* Proofs about FlareSessions, for any trackers, workers and sessions, any *)
(* limit on them and any number of restarts.                               *)
(*                                                                         *)
(* Sound says of each worker what it may rely on where it stands (Own), and*)
(* of the names of sessions that no two places hold one (Apart) and that   *)
(* none is forgotten (Kept).  A step of one worker leaves the others what  *)
(* they rely on (Spared): it is for this that a worker has its tracker's   *)
(* slot, that eviction looks for idle sessions only, and that a name is    *)
(* new when FlareSolverr gives it.  Tabs follows a tab from the request    *)
(* that drives it, and needs requests to be over at their deadline.        *)
(***************************************************************************)
EXTENDS FlareSessions, TLAPS, FiniteSetTheorems

\* Where a worker's name is its tracker's session, and where it is its own.
Using   == {"verifying", "asking", "driving", "spent"}
Keeping == {"storing", "discarding", "retiring", "disowning"}

\* Where its tracker has no session.
Without == {"forgetting", "evicting", "destroying", "creating", "storing", "discarding"}

\* Where a worker stands that has no slot.
Away == {"idle", "entering", "queued", "marking", "distrusting"}

NameType ==
  /\ closed \in BOOLEAN /\ closing \subseteq Sessions
  /\ id \in [Trackers -> Sessions \union {None}]
  /\ holder \in [Trackers -> Workers \union {None}]
  /\ live \subseteq Sessions
  /\ pc \in [Workers -> Holding \union Away]
  /\ tracker \in [Workers -> Trackers \union {None}]
  /\ phase \in [Workers -> Phases]
  /\ mine \in [Workers -> Sessions \union {None}]
  /\ victims \in [Workers -> SUBSET (Trackers \X (Sessions \union {None}))]

CountType ==
  /\ failures \in [Trackers -> 0..MaxFailures]
  /\ lastUsed \in [Trackers -> 0..Cardinality(Trackers)]
  /\ fresh \in [Trackers -> BOOLEAN]
  /\ signedIn \subseteq live /\ busy \subseteq live
  /\ restarts \in 0..MaxRestarts

\* A worker and the slot of its tracker.
AtHome(w) ==
  /\ pc[w] = "idle" <=> tracker[w] = None
  /\ pc[w] \in Holding => holder[tracker[w]] = w
  /\ \A t \in Trackers : holder[t] = w => pc[w] \in Holding /\ t = tracker[w]

\* What a worker relies on.
Own(w) ==
  /\ mine[w] # None <=> pc[w] \in Using \union Keeping
  /\ pc[w] \in Using => id[tracker[w]] = mine[w] \/ closed
  /\ pc[w] \in Without => id[tracker[w]] = None
  /\ pc[w] \in Keeping => mine[w] \notin Held
  /\ pc[w] = "storing" => mine[w] \notin Doomed
  /\ pc[w] = "disowning" => mine[w] \notin live
  /\ pc[w] # "destroying" => victims[w] = {}

\* No name is in two places, and Close leaves none with a tracker.
Apart ==
  /\ \A t, u \in Trackers : id[t] = id[u] /\ id[t] # None => t = u
  /\ \A w, o \in Workers : mine[w] = mine[o] /\ mine[w] # None => w = o
  /\ \A s \in Doomed : s \notin Held
  /\ closed => Held = {}
  /\ ~closed => closing = {}

Kept == ~closed => \A s \in live : s \in Held \/ s \in Doomed \/ \E w \in Workers : mine[w] = s

Sound == NameType /\ (\A w \in Workers : AtHome(w) /\ Own(w)) /\ Apart /\ Kept

-----------------------------------------------------------------------------
(***************************************************************************)
(* Frames: what a step of one worker leaves to the others.                 *)
(***************************************************************************)

LEMMA HeldIs == \A s : s \in Held <=> s # None /\ \E t \in Trackers : id[t] = s
BY DEF Held

LEMMA HeldIsNext == \A s : s \in Held' <=> s # None /\ \E t \in Trackers : id'[t] = s
BY DEF Held

LEMMA DoomedIs == \A s : s \in Doomed <=> \E w \in Workers : \E v \in victims[w] : v[2] = s
BY DEF Doomed

LEMMA DoomedIsNext == \A s : s \in Doomed' <=> \E w \in Workers : \E v \in victims'[w] : v[2] = s
BY DEF Doomed

LEMMA Disjoint ==
  /\ Holding \intersect Away = {} /\ Using \subseteq Holding /\ Keeping \subseteq Holding
  /\ Without \subseteq Holding /\ Using \intersect Keeping = {} /\ Using \intersect Without = {}
BY DEF Holding, Away, Using, Keeping, Without

\* o stands where it stood.
Still(o) ==
  /\ pc'[o] = pc[o] /\ tracker'[o] = tracker[o] /\ mine'[o] = mine[o] /\ victims'[o] = victims[o]
  /\ \A t \in Trackers : holder'[t] = o <=> holder[t] = o

\* What o relies on is left to it.
Spared(o) ==
  /\ closed => closed'
  /\ pc[o] \in Holding =>
       id'[tracker[o]] = id[tracker[o]] \/ (closed' /\ id'[tracker[o]] = None)
  /\ mine[o] \in Held' => mine[o] \in Held
  /\ pc[o] = "storing" /\ mine[o] \in Doomed' => mine[o] \in Doomed
  /\ pc[o] = "disowning" /\ mine[o] \in live' => mine[o] \in live

LEMMA Occupied ==
  ASSUME Sound, NEW w \in Workers, pc[w] # "idle"
  PROVE  tracker[w] \in Trackers /\ w # None /\ phase[w] \in Phases
BY NameAssumption DEF Sound, NameType, AtHome

LEMMA StillSound ==
  ASSUME Sound, NEW o \in Workers, Still(o), Spared(o)
  PROVE  AtHome(o)' /\ Own(o)'
<1>1. AtHome(o)'
  <2>1. pc[o] \in Holding => tracker[o] \in Trackers
    BY Occupied DEF Holding
  <2>. QED  BY <2>1 DEF Sound, Still, AtHome
<1>2. Own(o)'
  BY Disjoint DEF Sound, Still, Spared, Own
<1>. QED  BY <1>1, <1>2

LEMMA WorkerStep ==
  ASSUME Sound, NameType', NEW w \in Workers, AtHome(w)', Own(w)', Apart', Kept',
         \A o \in Workers \ {w} : Still(o) /\ Spared(o)
  PROVE  Sound'
<1>1. \A o \in Workers \ {w} : AtHome(o)' /\ Own(o)'
  BY StillSound
<1>. QED  BY <1>1 DEF Sound

\* w goes on, and the name it had, if it lets it go, is its tracker's or nobody's.
LEMMA Walks ==
  ASSUME Sound, NameType', NEW w \in Workers, AtHome(w)', Own(w)',
         UNCHANGED <<closed, closing, id, victims>>,
         \A o \in Workers \ {w} : Still(o),
         \/ mine'[w] = mine[w] /\ live' \subseteq live \union {mine[w]}
         \/ /\ mine'[w] = None /\ live' \subseteq live
            /\ mine[w] = None \/ mine[w] \in Held \/ mine[w] \notin live' \/ closed
  PROVE  Sound'
<1>1. Held' = Held /\ Doomed' = Doomed
  BY DEF Held, Doomed
<1>2. None \notin live'
  BY NameAssumption DEF NameType
<1>3. \A o \in Workers \ {w} : mine[o] \in live' => mine[o] \in live
  BY <1>2 DEF Sound, Apart
<1>4. \A o \in Workers \ {w} : Spared(o)
  BY <1>1, <1>3 DEF Spared
<1>5. Apart'
  BY <1>1 DEF Apart, Sound, Still
<1>6. Kept'
  <2>1. SUFFICES ASSUME ~closed, NEW s \in live', s \notin Held, s \notin Doomed
                 PROVE  \E o \in Workers : mine'[o] = s
    BY <1>1 DEF Kept
  <2>2. s # None
    BY <1>2
  <2>3. CASE s \in live
    <3>1. PICK o \in Workers : mine[o] = s
      BY <2>1, <2>3 DEF Sound, Kept
    <3>. QED  BY <2>1, <2>2, <3>1 DEF Still
  <2>4. CASE s \notin live
    BY <2>4
  <2>. QED  BY <2>3, <2>4
<1>. QED  BY <1>4, <1>5, <1>6, WorkerStep

\* w goes on without leaving its slot or entering one.
LEMMA StepsOn ==
  ASSUME Sound, NEW w \in Workers, NEW p, pc' = [pc EXCEPT ![w] = p],
         UNCHANGED <<closed, closing, id, victims, tracker, phase, mine, holder>>,
         live' \subseteq live \union ({mine[w]} \ {None}), pc[w] # "idle", p # "idle",
         \/ pc[w] \in Away /\ p \in Away
         \/ pc[w] \in Holding /\ p \in Holding /\ Own(w)'
  PROVE  Sound'
<1>1. pc'[w] = p /\ \A o \in Workers \ {w} : Still(o)
  BY DEF Sound, NameType, Still
<1>2. NameType'
  BY DEF Sound, NameType
<1>3. AtHome(w)'
  BY <1>1, Disjoint DEF Sound, AtHome
<1>4. Own(w)'
  <2>1. CASE pc[w] \in Away /\ p \in Away
    BY <1>1, <2>1, Disjoint DEF Sound, Own, Away, Held, Doomed
  <2>. QED  BY <2>1
<1>5. live' \subseteq live \union {mine[w]}
  OBVIOUS
<1>. QED  BY <1>1, <1>2, <1>3, <1>4, <1>5, Walks

\* What Proceed makes of w.
LEMMA ProceedsTo ==
  ASSUME Sound, NEW w \in Workers, pc[w] # "idle", NEW how, Proceed(w, how)
  PROVE  /\ pc' = [pc EXCEPT ![w] = pc'[w]] /\ pc'[w] \in Away \ {"queued"}
         /\ tracker' = [tracker EXCEPT ![w] = tracker'[w]]
         /\ tracker'[w] \in {tracker[w], None} /\ (pc'[w] = "idle" <=> tracker'[w] = None)
         /\ mine' = [mine EXCEPT ![w] = None]
         /\ phase' \in [Workers -> Phases]
<1>. DEFINE next == pc'[w]
<1>1. phase[w] \in Phases /\ tracker[w] # None
  BY DEF Sound, NameType, AtHome
<1>2. pc' = [pc EXCEPT ![w] = pc'[w]] /\ pc'[w] \in Away \ {"queued"}
  BY <1>1 DEF Proceed, Phases, Away, Sound, NameType
<1>3. tracker' = [tracker EXCEPT ![w] = IF pc'[w] = "idle" THEN None ELSE @]
  BY <1>1 DEF Proceed, Phases, Sound, NameType
<1>4. phase' = [phase EXCEPT ![w] = IF pc'[w] # "entering" THEN "search"
                                    ELSE IF @ = "test" THEN "login" ELSE "verify"]
  BY <1>1 DEF Proceed, Phases, Sound, NameType
<1>5. mine' = [mine EXCEPT ![w] = None]
  BY DEF Proceed
<1>. QED  BY <1>1, <1>2, <1>3, <1>4, <1>5 DEF Sound, NameType, Phases

\* w's request is over: it lets its slot go, if it has it, and its name.
LEMMA Goes ==
  ASSUME Sound, NEW w \in Workers, pc[w] # "idle", NEW how, Proceed(w, how),
         UNCHANGED <<closed, closing, id, victims>>, live' \subseteq live,
         pc[w] # "destroying",
         \/ pc[w] \in Away /\ UNCHANGED holder
         \/ pc[w] \in Holding /\ holder' = [holder EXCEPT ![tracker[w]] = None],
         mine[w] = None \/ mine[w] \in Held \/ mine[w] \notin live' \/ closed
  PROVE  Sound'
<1>1. /\ pc' = [pc EXCEPT ![w] = pc'[w]] /\ pc'[w] \in Away \ {"queued"}
      /\ tracker' = [tracker EXCEPT ![w] = tracker'[w]]
      /\ tracker'[w] \in {tracker[w], None} /\ (pc'[w] = "idle" <=> tracker'[w] = None)
      /\ mine' = [mine EXCEPT ![w] = None]
      /\ phase' \in [Workers -> Phases]
  BY ProceedsTo
<1>2. w # None
  BY NameAssumption
<1>3. \A t \in Trackers :
        /\ holder'[t] = (IF pc[w] \in Holding /\ t = tracker[w] THEN None ELSE holder[t])
        /\ holder'[t] # w
  BY <1>2, Disjoint DEF Sound, NameType, AtHome
<1>4. \A o \in Workers \ {w} : Still(o)
  <2>. SUFFICES ASSUME NEW o \in Workers \ {w} PROVE Still(o)
    OBVIOUS
  <2>1. \A t \in Trackers : holder'[t] = o <=> holder[t] = o
    <3>1. o # None
      BY NameAssumption
    <3>2. pc[w] \in Holding => holder[tracker[w]] = w
      BY DEF Sound, AtHome
    <3>. QED  BY <1>3, <3>1, <3>2
  <2>. QED  BY <1>1, <2>1 DEF Sound, NameType, Still
<1>5. NameType'
  <2>1. holder' \in [Trackers -> Workers \union {None}]
    BY DEF Sound, NameType
  <2>2. pc' \in [Workers -> Holding \union Away]
    BY <1>1 DEF Sound, NameType
  <2>. QED  BY <1>1, <2>1, <2>2 DEF Sound, NameType
<1>6. pc'[w] \in Away /\ mine'[w] = None
  BY <1>1 DEF Sound, NameType
<1>7. AtHome(w)'
  BY <1>1, <1>3, <1>6, Disjoint DEF AtHome
<1>8. Own(w)'
  <2>1. victims[w] = {}
    BY DEF Sound, Own
  <2>2. pc'[w] \notin Using \union Keeping \union Without /\ pc'[w] \notin {"storing", "disowning"}
    BY <1>6, Disjoint DEF Away, Using, Keeping, Without
  <2>. QED  BY <1>6, <2>1, <2>2 DEF Own
<1>. QED  BY <1>4, <1>5, <1>6, <1>7, <1>8, Walks

-----------------------------------------------------------------------------
(***************************************************************************)
(* Steps that move no name.                                                *)
(***************************************************************************)

LEMMA StartSound == ASSUME Sound, NEW w \in Workers, NEW t \in Trackers, Start(w, t) PROVE Sound'
<1>1. /\ pc[w] = "idle" /\ pc' = [pc EXCEPT ![w] = "entering"]
      /\ tracker' = [tracker EXCEPT ![w] = t]
      /\ phase' = [phase EXCEPT ![w] = IF fresh[t] THEN "search" ELSE Signing(t)]
      /\ UNCHANGED <<closed, closing, id, live, victims, mine, holder>>
  BY DEF Start, jackletVars, remoteVars
<1>2. NameType'
  BY <1>1 DEF Sound, NameType, Away, Phases, Signing
<1>3. \A o \in Workers \ {w} : Still(o)
  BY <1>1 DEF Still, Sound, NameType
<1>4. pc'[w] = "entering" /\ tracker'[w] # None
  BY <1>1, NameAssumption DEF Sound, NameType
<1>5. "entering" \notin Holding \union Using \union Keeping \union Without
      /\ "idle" \notin Holding \union Using \union Keeping \union Without
  BY DEF Holding, Using, Keeping, Without
<1>6. AtHome(w)'
  BY <1>1, <1>4, <1>5 DEF Sound, AtHome
<1>7. Own(w)'
  BY <1>1, <1>4, <1>5 DEF Sound, Own
<1>. QED  BY <1>1, <1>2, <1>3, <1>6, <1>7, Walks

LEMMA LoginSound ==
  ASSUME Sound, NEW w \in Workers, MarkLoggedIn(w) \/ Distrust(w) \/ Enter(w) \/ GiveUp(w)
  PROVE  Sound'
<1>. USE DEF jackletVars, remoteVars, workerVars
<1>1. "queued" \in Away /\ "entering" \in Away /\ "marking" \in Away /\ "distrusting" \in Away
      /\ "idle" \in Away
  BY DEF Away
<1>2. pc[w] \in Away => mine[w] = None
  BY Disjoint DEF Sound, Own
<1>3. CASE MarkLoggedIn(w)
  BY <1>1, <1>3, StepsOn DEF MarkLoggedIn
<1>4. CASE Distrust(w)
  <2>1. /\ pc[w] = "distrusting" /\ pc' = [pc EXCEPT ![w] = "idle"]
        /\ tracker' = [tracker EXCEPT ![w] = None]
        /\ UNCHANGED <<closed, closing, id, live, victims, mine, holder, phase>>
    BY <1>4 DEF Distrust
  <2>2. NameType'
    BY <1>1, <2>1 DEF Sound, NameType
  <2>3. \A o \in Workers \ {w} : Still(o)
    BY <2>1 DEF Still, Sound, NameType
  <2>4. pc'[w] = "idle" /\ tracker'[w] = None
    BY <2>1 DEF Sound, NameType
  <2>5. AtHome(w)'
    BY <1>1, <2>1, <2>4, Disjoint DEF Sound, AtHome
  <2>6. "idle" \notin Using \union Keeping \union Without
        /\ "distrusting" \notin Using \union Keeping \union Without
    BY DEF Using, Keeping, Without
  <2>7. Own(w)'
    BY <2>1, <2>4, <2>6 DEF Sound, Own
  <2>. QED  BY <2>1, <2>2, <2>3, <2>5, <2>7, Walks
<1>5. CASE Enter(w)
  <2>1. CASE closed
    BY <1>1, <1>2, <1>5, <2>1, Goes DEF Enter
  <2>2. CASE ~closed
    BY <1>1, <1>5, <2>2, StepsOn DEF Enter
  <2>. QED  BY <2>1, <2>2
<1>6. CASE GiveUp(w)
  BY <1>1, <1>2, <1>6, Goes DEF GiveUp
<1>. QED  BY <1>3, <1>4, <1>5, <1>6

LEMMA TakeSlotSound == ASSUME Sound, NEW w \in Workers, TakeSlot(w) PROVE Sound'
<1>1. /\ pc[w] = "queued" /\ pc' = [pc EXCEPT ![w] = "reading"]
      /\ holder[tracker[w]] = None /\ holder' = [holder EXCEPT ![tracker[w]] = w]
      /\ UNCHANGED <<closed, closing, id, live, victims, mine, tracker, phase>>
  BY DEF TakeSlot, jackletVars, remoteVars, workerVars
<1>2. tracker[w] \in Trackers /\ \A o \in Workers : o # None
  BY <1>1, Occupied, NameAssumption
<1>3. "reading" \in Holding
  BY DEF Holding
<1>4. NameType'
  BY <1>1, <1>2, <1>3 DEF Sound, NameType
<1>5. \A o \in Workers \ {w} : Still(o)
  BY <1>1, <1>2 DEF Still, Sound, NameType
<1>6. pc'[w] = "reading"
  BY <1>1 DEF Sound, NameType
<1>7. AtHome(w)'
  <2>1. \A t \in Trackers : holder[t] # w
    BY <1>1 DEF Sound, AtHome, Holding
  <2>2. holder'[tracker[w]] = w /\ \A t \in Trackers : holder'[t] = w => t = tracker[w]
    BY <1>1, <1>2, <2>1 DEF Sound, NameType
  <2>3. tracker[w] # None
    BY <1>2, NameAssumption
  <2>. QED  BY <1>1, <1>3, <1>6, <2>2, <2>3 DEF AtHome
<1>8. Own(w)'
  BY <1>1, <1>6 DEF Sound, Own, Using, Keeping, Without
<1>. QED  BY <1>1, <1>4, <1>5, <1>7, <1>8, Walks

LEMMA ReadSessionSound == ASSUME Sound, NEW w \in Workers, ReadSession(w) PROVE Sound'
<1>. USE DEF remoteVars
<1>1. pc[w] = "reading" /\ UNCHANGED <<closed, closing, id, live, victims>>
  BY DEF ReadSession
<1>2. tracker[w] \in Trackers /\ holder[tracker[w]] = w /\ mine[w] = None /\ victims[w] = {}
  BY <1>1, Occupied DEF Sound, AtHome, Own, Holding, Using, Keeping
<1>3. CASE pc' = [pc EXCEPT ![w] = "verifying"] /\ mine' = [mine EXCEPT ![w] = id[tracker[w]]]
           /\ id[tracker[w]] # None /\ UNCHANGED <<phase, tracker, holder>>
  <2>1. NameType'
    BY <1>1, <1>2, <1>3 DEF Sound, NameType, Holding
  <2>2. pc'[w] = "verifying" /\ mine'[w] = id[tracker[w]]
    BY <1>3 DEF Sound, NameType
  <2>3. Held' = Held /\ Doomed' = Doomed
    BY <1>1 DEF Held, Doomed
  <2>4. \A o \in Workers \ {w} : Still(o) /\ Spared(o)
    BY <1>1, <1>3, <2>3 DEF Still, Spared, Sound, NameType
  <2>5. AtHome(w)'
    BY <1>1, <1>3, <2>2 DEF Sound, AtHome, Holding
  <2>6. Own(w)'
    BY <1>1, <1>2, <1>3, <2>2 DEF Own, Using, Keeping, Without
  <2>7. \A o \in Workers \ {w} : mine[o] # id[tracker[w]]
    <3>. SUFFICES ASSUME NEW o \in Workers \ {w}, mine[o] = id[tracker[w]] PROVE FALSE
      OBVIOUS
    <3>1. id[tracker[w]] \in Held /\ mine[o] \in Held /\ ~closed
      BY <1>2, <1>3, HeldIs DEF Sound, Apart
    <3>2. pc[o] \in Using /\ id[tracker[o]] = mine[o]
      BY <1>3, <3>1 DEF Sound, Own
    <3>3. pc[o] \in Holding /\ tracker[o] \in Trackers
      BY <3>2, Disjoint, Occupied DEF Holding, Using
    <3>4. tracker[o] = tracker[w]
      BY <1>2, <1>3, <3>2, <3>3 DEF Sound, Apart
    <3>. QED  BY <1>2, <3>3, <3>4 DEF Sound, AtHome
  <2>8. Apart'
    BY <1>1, <2>2, <2>3, <2>4, <2>7 DEF Apart, Sound, Still
  <2>9. Kept'
    <3>. SUFFICES ASSUME ~closed, NEW s \in live, s \notin Held, s \notin Doomed
                  PROVE  \E o \in Workers : mine'[o] = s
      BY <1>1, <2>3 DEF Kept
    <3>1. PICK o \in Workers : mine[o] = s
      BY DEF Sound, Kept
    <3>2. s # None
      BY NameAssumption DEF Sound, NameType
    <3>. QED  BY <1>2, <3>1, <3>2, <2>4 DEF Still
  <2>. QED  BY <2>1, <2>4, <2>5, <2>6, <2>8, <2>9, WorkerStep
<1>4. CASE pc' = [pc EXCEPT ![w] = "evicting"] /\ id[tracker[w]] = None
           /\ UNCHANGED <<phase, tracker, mine, holder>>
  <2>1. pc'[w] = "evicting"
    BY <1>4 DEF Sound, NameType
  <2>2. Own(w)'
    BY <1>1, <1>2, <1>4, <2>1 DEF Own, Using, Keeping, Without
  <2>. QED  BY <1>1, <1>4, <2>2, StepsOn DEF Holding
<1>5. CASE Leave(w, "failed")
  BY <1>1, <1>2, <1>5, Goes DEF Leave, Holding
<1>. QED  BY <1>3, <1>4, <1>5 DEF ReadSession

\* A session that is its holder's is taken from its entry.
LEMMA ResetApart ==
  ASSUME Sound, NEW t \in Trackers, id[t] # None, id' = [id EXCEPT ![t] = None]
  PROVE  /\ \A s : s \in Held' <=> s \in Held /\ s # id[t]
         /\ id' \in [Trackers -> Sessions \union {None}]
         /\ \A u, v \in Trackers : id'[u] = id'[v] /\ id'[u] # None => u = v
<1>1. \A u \in Trackers : id'[u] = IF u = t THEN None ELSE id[u]
  BY DEF Sound, NameType
<1>. QED  BY <1>1, HeldIs, HeldIsNext DEF Sound, NameType, Apart

\* w takes its tracker's session from its entry: FlareSolverr has lost it, or w is
\* to destroy it.
LEMMA EntryTaken ==
  ASSUME Sound, NEW w \in Workers, pc[w] \in Using, id[tracker[w]] = mine[w],
         id' = [id EXCEPT ![tracker[w]] = None],
         NEW p, pc' = [pc EXCEPT ![w] = p],
         \/ p = "forgetting" /\ mine' = [mine EXCEPT ![w] = None] /\ mine[w] \notin live
         \/ p = "retiring" /\ UNCHANGED mine,
         UNCHANGED <<closed, closing, live, tracker, phase, victims, holder>>
  PROVE  Sound'
<1>1. tracker[w] \in Trackers /\ holder[tracker[w]] = w /\ id[tracker[w]] # None
      /\ victims[w] = {} /\ pc[w] \in Holding
  BY Occupied DEF Sound, AtHome, Own, Holding, Using
<1>2. /\ \A s : s \in Held' <=> s \in Held /\ s # id[tracker[w]]
      /\ id' \in [Trackers -> Sessions \union {None}]
      /\ \A u, v \in Trackers : id'[u] = id'[v] /\ id'[u] # None => u = v
  BY <1>1, ResetApart
<1>3. Doomed' = Doomed
  BY DEF Doomed
<1>4. pc'[w] = p /\ mine'[w] \in {mine[w], None} /\ \A o \in Workers \ {w} : Still(o)
  BY DEF Sound, NameType, Still
<1>5. \A o \in Workers \ {w} : Spared(o)
  <2>. SUFFICES ASSUME NEW o \in Workers \ {w} PROVE Spared(o)
    OBVIOUS
  <2>1. pc[o] \in Holding => tracker[o] # tracker[w] /\ tracker[o] \in Trackers
    BY <1>1, Occupied DEF Sound, AtHome, Holding
  <2>. QED  BY <1>2, <1>3, <2>1 DEF Spared, Sound, NameType
<1>6. AtHome(w)'
  BY <1>1, <1>4 DEF Sound, AtHome, Holding
<1>7. Own(w)'
  <2>1. id'[tracker[w]] = None
    BY <1>1 DEF Sound, NameType
  <2>2. CASE p = "forgetting"
    BY <1>1, <1>4, <2>1, <2>2 DEF Own, Using, Keeping, Without, Sound, NameType
  <2>3. CASE p = "retiring"
    <3>1. mine'[w] # None /\ mine'[w] \notin Held'
      BY <1>1, <1>2, <2>3
    <3>. QED  BY <1>1, <1>4, <2>3, <3>1 DEF Own, Using, Keeping, Without
  <2>. QED  BY <2>2, <2>3
<1>8. NameType'
  BY <1>2 DEF Sound, NameType, Holding
<1>9. Apart'
  BY <1>2, <1>3, <1>4 DEF Apart, Sound, Still
<1>10. Kept'
  <2>. SUFFICES ASSUME ~closed, NEW s \in live, s \notin Held', s \notin Doomed
                PROVE  \E o \in Workers : mine'[o] = s
    BY <1>3 DEF Kept
  <2>1. CASE s = mine[w]
    BY <2>1
  <2>2. CASE s # mine[w]
    <3>1. PICK o \in Workers : mine[o] = s
      BY <1>2, <2>2 DEF Sound, Kept
    <3>. QED  BY <1>4, <2>2, <3>1 DEF Still
  <2>. QED  BY <2>1, <2>2
<1>. QED  BY <1>4, <1>5, <1>6, <1>7, <1>8, <1>9, <1>10, WorkerStep

LEMMA VerifySessionSound == ASSUME Sound, NEW w \in Workers, VerifySession(w) PROVE Sound'
<1>. USE DEF remoteVars
<1>1. pc[w] = "verifying" /\ UNCHANGED <<closed, closing, live, tracker, phase, victims, holder>>
  BY DEF VerifySession
<1>2. tracker[w] \in Trackers /\ holder[tracker[w]] = w /\ mine[w] # None /\ victims[w] = {}
      /\ (id[tracker[w]] = mine[w] \/ closed)
  BY <1>1, Occupied DEF Sound, AtHome, Own, Holding, Using, Keeping
<1>3. CASE pc' = [pc EXCEPT ![w] = "asking"] /\ UNCHANGED <<id, mine>>
  <2>1. pc'[w] = "asking"
    BY <1>1, <1>3 DEF Sound, NameType
  <2>2. Own(w)'
    BY <1>1, <1>2, <1>3, <2>1 DEF Own, Using, Keeping, Without
  <2>. QED  BY <1>1, <1>3, <2>2, StepsOn DEF Holding
<1>4. CASE /\ mine[w] \notin live /\ Reset(tracker[w], mine[w])
           /\ mine' = [mine EXCEPT ![w] = None] /\ pc' = [pc EXCEPT ![w] = "forgetting"]
  <2>1. CASE id[tracker[w]] = mine[w]
    <3>1. id' = [id EXCEPT ![tracker[w]] = None]
      BY <1>4, <2>1 DEF Reset
    <3>. QED  BY <1>1, <1>4, <2>1, <3>1, EntryTaken DEF Using
  <2>2. CASE id[tracker[w]] # mine[w]
    <3>1. id' = id /\ closed
      BY <1>2, <1>4, <2>2 DEF Reset
    <3>2. id[tracker[w]] = None
      BY <1>2, <3>1, HeldIs DEF Sound, Apart
    <3>3. pc'[w] = "forgetting" /\ mine'[w] = None
          /\ \A o \in Workers \ {w} : Still(o)
      BY <1>1, <1>4 DEF Sound, NameType, Still
    <3>4. AtHome(w)'
      BY <1>1, <1>2, <3>3 DEF Sound, AtHome, Holding
    <3>5. Own(w)'
      BY <1>1, <1>2, <3>1, <3>2, <3>3 DEF Own, Using, Keeping, Without
    <3>6. NameType'
      BY <1>1, <1>4, <3>1 DEF Sound, NameType, Holding
    <3>. QED  BY <1>1, <3>1, <3>3, <3>4, <3>5, <3>6, Walks
  <2>. QED  BY <2>1, <2>2
<1>. QED  BY <1>3, <1>4 DEF VerifySession

LEMMA ForgetLostSound == ASSUME Sound, NEW w \in Workers, ForgetLost(w) PROVE Sound'
<1>. USE DEF jackletVars, remoteVars, workerVars
<1>1. pc[w] = "forgetting" /\ pc' = [pc EXCEPT ![w] = "evicting"]
      /\ UNCHANGED <<closed, closing, id, live, victims, tracker, phase, mine, holder>>
  BY DEF ForgetLost
<1>2. pc'[w] = "evicting"
  BY <1>1 DEF Sound, NameType
<1>3. Own(w)'
  BY <1>1, <1>2 DEF Sound, Own, Using, Keeping, Without
<1>. QED  BY <1>1, <1>3, StepsOn DEF Holding

-----------------------------------------------------------------------------
(***************************************************************************)
(* Making room, and a new session.                                         *)
(***************************************************************************)

LEMMA EvictSound == ASSUME Sound, NEW w \in Workers, Evict(w) PROVE Sound'
<1>. USE DEF remoteVars
<1>. DEFINE p == IF Evictable = {} THEN "creating" ELSE "destroying"
<1>1. /\ pc[w] = "evicting" /\ pc' = [pc EXCEPT ![w] = p]
      /\ UNCHANGED <<closed, closing, live, tracker, phase, mine, holder>>
      /\ victims' = [victims EXCEPT ![w] = {<<t, id[t]>> : t \in Evictable}]
      /\ id' = [t \in Trackers |-> IF t \in Evictable THEN None ELSE id[t]]
  BY DEF Evict
<1>2. Evictable \subseteq Trackers /\ \A t \in Evictable : id[t] # None /\ holder[t] = None
  BY DEF Evictable, Idle
<1>. HIDE DEF p
<1>3. tracker[w] \in Trackers /\ holder[tracker[w]] = w /\ w # None /\ mine[w] = None
      /\ id[tracker[w]] = None /\ victims[w] = {}
  BY <1>1, Occupied DEF Sound, AtHome, Own, Holding, Using, Keeping, Without
<1>4. p \in {"creating", "destroying"} /\ (p = "creating" => Evictable = {})
  BY DEF p
<1>5. pc'[w] = p /\ victims'[w] = {<<t, id[t]>> : t \in Evictable}
      /\ \A o \in Workers \ {w} : Still(o)
  BY <1>1 DEF Sound, NameType, Still
<1>6. \A s : s \in Held' <=> s \in Held /\ \A t \in Evictable : id[t] # s
  BY <1>1, <1>2, HeldIs, HeldIsNext DEF Sound, Apart
<1>7. \A s : s \in Doomed' <=> s \in Doomed \/ \E t \in Evictable : id[t] = s
  <2>1. \A s : (\E v \in victims'[w] : v[2] = s) <=> \E t \in Evictable : id[t] = s
    <3>1. \A t : <<t, id[t]>>[2] = id[t]
      OBVIOUS
    <3>2. ASSUME NEW s, NEW t \in Evictable, id[t] = s PROVE \E v \in victims'[w] : v[2] = s
      <4>1. <<t, id[t]>> \in victims'[w]
        BY <1>5
      <4>. QED  BY <3>1, <3>2, <4>1
    <3>3. ASSUME NEW s, NEW v \in victims'[w], v[2] = s PROVE \E t \in Evictable : id[t] = s
      BY <1>5, <3>1, <3>3
    <3>. QED  BY <3>2, <3>3
  <2>2. \A s : (\E o \in Workers \ {w} : \E v \in victims'[o] : v[2] = s) <=> s \in Doomed
    BY <1>3, <1>5, DoomedIs DEF Still
  <2>. QED  BY <2>1, <2>2, DoomedIsNext
<1>8. \A o \in Workers \ {w} : Spared(o)
  <2>. SUFFICES ASSUME NEW o \in Workers \ {w} PROVE Spared(o)
    OBVIOUS
  <2>1. pc[o] \in Holding => tracker[o] \in Trackers \ Evictable
    BY <1>2, Occupied DEF Sound, AtHome, Holding
  <2>2. pc[o] = "storing" => \A t \in Evictable : id[t] # mine[o]
    <3>1. pc[o] = "storing" => mine[o] \notin Held
      BY DEF Sound, Own, Keeping
    <3>. QED  BY <1>2, <3>1, HeldIs
  <2>. QED  BY <1>1, <1>6, <1>7, <2>1, <2>2 DEF Spared
<1>9. NameType'
  <2>1. id' \in [Trackers -> Sessions \union {None}]
    BY <1>1 DEF Sound, NameType
  <2>2. {<<t, id[t]>> : t \in Evictable} \subseteq Trackers \X (Sessions \union {None})
    BY <1>2 DEF Sound, NameType
  <2>3. victims' \in [Workers -> SUBSET (Trackers \X (Sessions \union {None}))]
    BY <1>1, <2>2 DEF Sound, NameType
  <2>4. pc' \in [Workers -> Holding \union Away]
    BY <1>1, <1>4 DEF Sound, NameType, Holding
  <2>. QED  BY <1>1, <2>1, <2>3, <2>4 DEF Sound, NameType
<1>10. AtHome(w)'
  BY <1>1, <1>3, <1>4, <1>5, NameAssumption DEF Sound, AtHome, Holding
<1>11. Own(w)'
  <2>1. id'[tracker[w]] = None
    BY <1>1, <1>3
  <2>2. p = "creating" => victims'[w] = {}
    BY <1>4, <1>5
  <2>. QED  BY <1>1, <1>3, <1>4, <1>5, <2>1, <2>2 DEF Own, Using, Keeping, Without
<1>12. Apart'
  <2>1. \A t, u \in Trackers : id'[t] = id'[u] /\ id'[t] # None => t = u
    BY <1>1 DEF Sound, Apart
  <2>. QED  BY <1>1, <1>6, <1>7, <2>1 DEF Sound, Apart
<1>13. Kept'
  BY <1>1, <1>6, <1>7 DEF Sound, Kept
<1>. QED  BY <1>5, <1>8, <1>9, <1>10, <1>11, <1>12, <1>13, WorkerStep

\* w has one victim less, and its session is gone.
LEMMA VictimGone ==
  ASSUME Sound, NEW w \in Workers, NEW v \in victims[w], NEW rest, pc[w] = "destroying",
         rest \subseteq Trackers \X {None},
         victims' = [victims EXCEPT ![w] = (@ \ {v}) \union rest],
         NEW p \in {"destroying", "creating"}, pc' = [pc EXCEPT ![w] = p],
         p = "creating" => victims[w] = {v} /\ rest = {},
         live' = live \ {v[2]}, UNCHANGED <<closed, closing, id, tracker, phase, mine, holder>>
  PROVE  Sound'
<1>1. pc'[w] = p /\ victims'[w] = (victims[w] \ {v}) \union rest
      /\ \A o \in Workers \ {w} : Still(o)
  BY DEF Sound, NameType, Still
<1>2. \A s : s \in Doomed' => s \in Doomed \union {None}
  <2>1. \A u \in rest : u[2] = None
    OBVIOUS
  <2>. QED  BY <1>1, <2>1, DoomedIs, DoomedIsNext DEF Still
<1>3. \A s : s \in Doomed /\ s # v[2] => s \in Doomed'
  BY <1>1, DoomedIs, DoomedIsNext DEF Still
<1>4. Held' = Held /\ None \notin Held
  BY DEF Held
<1>5. \A o \in Workers \ {w} : Spared(o)
  <2>1. \A o \in Workers : pc[o] = "storing" => mine[o] # None
    BY DEF Sound, Own, Keeping
  <2>. QED  BY <1>2, <1>4, <2>1 DEF Spared
<1>6. NameType'
  <2>1. victims'[w] \subseteq Trackers \X (Sessions \union {None})
    BY <1>1 DEF Sound, NameType
  <2>2. victims' \in [Workers -> SUBSET (Trackers \X (Sessions \union {None}))]
    BY <1>1, <2>1 DEF Sound, NameType
  <2>. QED  BY <2>2 DEF Sound, NameType, Holding
<1>7. AtHome(w)'
  BY <1>1 DEF Sound, AtHome, Holding
<1>8. Own(w)'
  BY <1>1 DEF Sound, Own, Using, Keeping, Without
<1>9. Apart'
  BY <1>2, <1>4 DEF Sound, Apart
<1>10. Kept'
  BY <1>3, <1>4 DEF Sound, Kept
<1>. QED  BY <1>1, <1>5, <1>6, <1>7, <1>8, <1>9, <1>10, WorkerStep

LEMMA DestroyingSound ==
  ASSUME Sound, NEW w \in Workers, NEW v \in victims[w], DestroyVictim(w, v) \/ ForgetVictim(w, v)
  PROVE  Sound'
<1>. USE DEF jackletVars, remoteVars
<1>1. v \in Trackers \X (Sessions \union {None})
  BY DEF Sound, NameType
<1>2. CASE DestroyVictim(w, v)
  <2>1. /\ pc[w] = "destroying" /\ pc' = [pc EXCEPT ![w] = "destroying"]
        /\ victims' = [victims EXCEPT ![w] = (@ \ {v}) \union {<<v[1], None>>}]
        /\ live' = live \ {v[2]} /\ UNCHANGED <<closed, closing, id, tracker, phase, mine, holder>>
    BY <1>2 DEF DestroyVictim, Destroyed, Sound, NameType
  <2>2. {<<v[1], None>>} \subseteq Trackers \X {None}
    BY <1>1
  <2>. QED  BY <2>1, <2>2, VictimGone
<1>3. CASE ForgetVictim(w, v)
  <2>. DEFINE p == IF victims[w] = {v} THEN "creating" ELSE "destroying"
              rest == {}
  <2>1. /\ pc[w] = "destroying" /\ pc' = [pc EXCEPT ![w] = p]
        /\ victims' = [victims EXCEPT ![w] = (@ \ {v}) \union rest]
        /\ UNCHANGED <<closed, closing, id, live, tracker, phase, mine, holder>>
    BY <1>3 DEF ForgetVictim, Sound, NameType
  <2>2. live' = live \ {v[2]}
    BY <1>3, <2>1, NameAssumption DEF ForgetVictim, Sound, NameType
  <2>3. p \in {"destroying", "creating"} /\ (p = "creating" => victims[w] = {v})
    OBVIOUS
  <2>4. rest \subseteq Trackers \X {None} /\ rest = {}
    OBVIOUS
  <2>. HIDE DEF p, rest
  <2>. QED  BY <2>1, <2>2, <2>3, <2>4, VictimGone
<1>. QED  BY <1>2, <1>3

\* The name FlareSolverr gives is in no place yet.
LEMMA CreateSessionSound == ASSUME Sound, NEW w \in Workers, CreateSession(w) PROVE Sound'
<1>. USE DEF jackletVars
<1>1. PICK s \in Sessions \ (live \union Named) :
        /\ live' = live \union {s} /\ mine' = [mine EXCEPT ![w] = s]
        /\ pc' = [pc EXCEPT ![w] = "storing"]
  BY DEF CreateSession
<1>2. pc[w] = "creating" /\ UNCHANGED <<closed, closing, id, tracker, phase, victims, holder>>
  BY DEF CreateSession
<1>3. /\ s # None /\ s \notin live /\ s \notin Held /\ s \notin Doomed
      /\ \A o \in Workers : mine[o] # s
  BY <1>1, NameAssumption DEF Named
<1>4. id[tracker[w]] = None /\ victims[w] = {} /\ mine[w] = None
  BY <1>2 DEF Sound, Own, Without, Using, Keeping
<1>5. pc'[w] = "storing" /\ mine'[w] = s /\ \A o \in Workers \ {w} : Still(o)
  BY <1>1, <1>2 DEF Sound, NameType, Still
<1>6. Held' = Held /\ Doomed' = Doomed
  BY <1>2 DEF Held, Doomed
<1>7. \A o \in Workers \ {w} : Spared(o)
  BY <1>1, <1>2, <1>3, <1>6 DEF Spared
<1>8. NameType'
  BY <1>1, <1>2 DEF Sound, NameType, Holding
<1>9. AtHome(w)'
  BY <1>2, <1>5 DEF Sound, AtHome, Holding
<1>10. Own(w)'
  BY <1>2, <1>3, <1>4, <1>5, <1>6 DEF Own, Using, Keeping, Without
<1>11. Apart'
  BY <1>2, <1>3, <1>5, <1>6 DEF Sound, Apart, Still
<1>12. Kept'
  <2>. SUFFICES ASSUME ~closed, NEW r \in live', r \notin Held, r \notin Doomed
                PROVE  \E o \in Workers : mine'[o] = r
    BY <1>2, <1>6 DEF Kept
  <2>1. CASE r = s
    BY <1>5, <2>1
  <2>2. CASE r # s
    <3>1. r \in live /\ r # None
      BY <1>1, <2>2, NameAssumption DEF Sound, NameType
    <3>2. PICK o \in Workers : mine[o] = r
      BY <3>1 DEF Sound, Kept
    <3>. QED  BY <1>4, <1>5, <3>1, <3>2 DEF Still
  <2>. QED  BY <2>1, <2>2
<1>. QED  BY <1>5, <1>7, <1>8, <1>9, <1>10, <1>11, <1>12, WorkerStep

LEMMA StoreSessionSound == ASSUME Sound, NEW w \in Workers, StoreSession(w) PROVE Sound'
<1>. USE DEF remoteVars, workerVars
<1>1. pc[w] = "storing"
      /\ UNCHANGED <<closed, closing, live, tracker, phase, mine, victims, holder>>
  BY DEF StoreSession
<1>2. /\ tracker[w] \in Trackers /\ holder[tracker[w]] = w /\ mine[w] # None
      /\ mine[w] \notin Held /\ mine[w] \notin Doomed /\ id[tracker[w]] = None /\ victims[w] = {}
  BY <1>1, Occupied DEF Sound, AtHome, Own, Holding, Using, Keeping, Without
<1>3. CASE closed
  <2>1. pc' = [pc EXCEPT ![w] = "discarding"] /\ id' = id
    BY <1>3 DEF StoreSession, Store
  <2>2. pc'[w] = "discarding" /\ Held' = Held
    BY <2>1 DEF Sound, NameType, Held
  <2>3. Own(w)'
    BY <1>1, <1>2, <2>1, <2>2 DEF Own, Using, Keeping, Without
  <2>. QED  BY <1>1, <2>1, <2>3, StepsOn DEF Holding
<1>4. CASE ~closed
  <2>1. pc' = [pc EXCEPT ![w] = "asking"] /\ id' = [id EXCEPT ![tracker[w]] = mine[w]]
    BY <1>4 DEF StoreSession, Store
  <2>2. /\ pc'[w] = "asking" /\ \A o \in Workers \ {w} : Still(o)
        /\ \A t \in Trackers : id'[t] = IF t = tracker[w] THEN mine[w] ELSE id[t]
    BY <1>1, <2>1 DEF Sound, NameType, Still
  <2>3. \A s : s \in Held' <=> s \in Held \/ s = mine[w]
    BY <1>2, <2>2, HeldIs, HeldIsNext
  <2>4. Doomed' = Doomed
    BY <1>1 DEF Doomed
  <2>5. \A o \in Workers \ {w} : Spared(o)
    <3>. SUFFICES ASSUME NEW o \in Workers \ {w} PROVE Spared(o)
      OBVIOUS
    <3>1. pc[o] \in Holding => tracker[o] # tracker[w] /\ tracker[o] \in Trackers
      BY <1>2, Occupied DEF Sound, AtHome, Holding
    <3>2. mine[o] # mine[w]
      BY <1>2 DEF Sound, Apart
    <3>. QED  BY <1>1, <2>2, <2>3, <2>4, <3>1, <3>2 DEF Spared
  <2>6. NameType'
    BY <1>1, <2>1 DEF Sound, NameType, Holding
  <2>7. AtHome(w)'
    BY <1>1, <2>2 DEF Sound, AtHome, Holding
  <2>8. Own(w)'
    BY <1>1, <1>2, <2>2 DEF Own, Using, Keeping, Without
  <2>9. Apart'
    <3>1. \A t, u \in Trackers : id'[t] = id'[u] /\ id'[t] # None => t = u
      BY <1>2, <2>2, HeldIs DEF Sound, Apart
    <3>. QED  BY <1>1, <1>2, <1>4, <2>3, <2>4, <3>1 DEF Sound, Apart
  <2>10. Kept'
    BY <1>1, <2>3, <2>4 DEF Sound, Kept
  <2>. QED  BY <2>2, <2>5, <2>6, <2>7, <2>8, <2>9, <2>10, WorkerStep
<1>. QED  BY <1>3, <1>4

LEMMA NoSessionSound ==
  ASSUME Sound, NEW w \in Workers, CreateFails(w) \/ Discard(w)
  PROVE  Sound'
<1>. USE DEF jackletVars, remoteVars
<1>1. CASE CreateFails(w)
  <2>1. pc[w] = "creating" /\ mine[w] = None
    BY <1>1 DEF CreateFails, Sound, Own, Using, Keeping
  <2>. QED  BY <1>1, <2>1, Goes DEF CreateFails, Leave, Holding
<1>2. CASE Discard(w)
  <2>1. /\ pc[w] = "discarding" /\ live' = live \ {mine[w]} /\ Leave(w, "failed")
        /\ UNCHANGED <<closed, closing, id, victims>>
    BY <1>2 DEF Discard, Destroyed
  <2>2. mine[w] \notin live' /\ live' \subseteq live
    BY <2>1
  <2>. QED  BY <2>1, <2>2, Goes DEF Leave, Holding
<1>. QED  BY <1>1, <1>2

-----------------------------------------------------------------------------
(***************************************************************************)
(* The request, and what becomes of its session.                           *)
(***************************************************************************)

LEMMA RequestSound ==
  ASSUME Sound, NEW w \in Workers,
         Send(w) \/ Cancel(w) \/ Failed(w) \/ Blocked(w)
           \/ \E how \in {"good", "failed"} : Answered(w, how)
  PROVE  Sound'
<1>. USE DEF jackletVars, remoteVars, workerVars
<1>1. pc[w] \in {"asking", "driving"} /\ UNCHANGED <<closed, closing, id, victims>>
  BY DEF Send, Cancel, Canceled, Failed, Blocked, Answered
<1>2. mine[w] # None /\ (id[tracker[w]] = mine[w] \/ closed) /\ victims[w] = {}
      /\ tracker[w] \in Trackers
  BY <1>1, Occupied DEF Sound, Own, Using, Keeping
<1>3. mine[w] \in Held \/ closed
  BY <1>2, HeldIs
<1>4. ASSUME NEW p \in {"driving", "spent"}, pc' = [pc EXCEPT ![w] = p],
             live' \subseteq live \union {mine[w]}, UNCHANGED <<tracker, phase, mine, holder>>
      PROVE  Sound'
  <2>1. pc'[w] = p
    BY <1>4 DEF Sound, NameType
  <2>2. Own(w)'
    BY <1>1, <1>2, <1>4, <2>1 DEF Own, Using, Keeping, Without
  <2>3. live' \subseteq live \union ({mine[w]} \ {None})
    BY <1>2, <1>4
  <2>4. p \in Holding /\ pc[w] \in Holding /\ p # "idle" /\ pc[w] # "idle"
    BY <1>1 DEF Holding
  <2>. QED  BY <1>1, <1>4, <2>2, <2>3, <2>4, StepsOn
<1>5. ASSUME NEW how, Leave(w, how), live' = live PROVE Sound'
  BY <1>1, <1>3, <1>5, Goes DEF Leave, Holding
<1>6. CASE Send(w)
  BY <1>4, <1>6 DEF Send
<1>7. CASE Cancel(w)
  BY <1>4, <1>7 DEF Cancel, Canceled
<1>8. CASE Failed(w)
  <2>1. CASE Leave(w, "failed")
    BY <1>5, <1>8, <2>1 DEF Failed
  <2>2. CASE pc' = [pc EXCEPT ![w] = "spent"] /\ UNCHANGED <<phase, tracker, mine, holder>>
    BY <1>4, <1>8, <2>2 DEF Failed
  <2>. QED  BY <1>8, <2>1, <2>2 DEF Failed
<1>9. CASE Blocked(w)
  BY <1>5, <1>9 DEF Blocked
<1>10. ASSUME NEW how \in {"good", "failed"}, Answered(w, how) PROVE Sound'
  BY <1>5, <1>10 DEF Answered
<1>. QED  BY <1>6, <1>7, <1>8, <1>9, <1>10

LEMMA RetireSound ==
  ASSUME Sound, NEW w \in Workers, Retire(w) \/ DestroyRetired(w) \/ Disown(w)
  PROVE  Sound'
<1>. USE DEF jackletVars, remoteVars, workerVars
<1>1. CASE Retire(w)
  <2>1. pc[w] = "spent" /\ UNCHANGED <<closed, closing, live, victims>> /\ Reset(tracker[w], mine[w])
    BY <1>1 DEF Retire
  <2>2. id[tracker[w]] = mine[w] \/ closed
    BY <2>1 DEF Sound, Own, Using
  <2>3. CASE id[tracker[w]] = mine[w]
    <3>1. pc' = [pc EXCEPT ![w] = "retiring"] /\ UNCHANGED <<phase, tracker, mine, holder>>
          /\ id' = [id EXCEPT ![tracker[w]] = None]
      BY <1>1, <2>3 DEF Retire, Reset
    <3>. QED  BY <2>1, <2>3, <3>1, EntryTaken DEF Using
  <2>4. CASE id[tracker[w]] # mine[w]
    <3>1. Leave(w, "failed") /\ id' = id
      BY <1>1, <2>4 DEF Retire, Reset
    <3>. QED  BY <2>1, <2>2, <2>4, <3>1, Goes DEF Leave, Holding
  <2>. QED  BY <2>3, <2>4
<1>2. CASE DestroyRetired(w)
  <2>1. /\ pc[w] = "retiring" /\ pc' = [pc EXCEPT ![w] = "disowning"]
        /\ live' = live \ {mine[w]}
        /\ UNCHANGED <<closed, closing, id, victims, tracker, phase, mine, holder>>
    BY <1>2 DEF DestroyRetired, Destroyed
  <2>2. pc'[w] = "disowning" /\ Held' = Held
    BY <2>1 DEF Sound, NameType, Held
  <2>3. Own(w)'
    BY <2>1, <2>2 DEF Sound, Own, Using, Keeping, Without
  <2>. QED  BY <2>1, <2>3, StepsOn DEF Holding
<1>3. CASE Disown(w)
  <2>1. pc[w] = "disowning" /\ Leave(w, "failed") /\ UNCHANGED <<closed, closing, id, live, victims>>
    BY <1>3 DEF Disown
  <2>2. mine[w] \notin live'
    BY <2>1 DEF Sound, Own
  <2>. QED  BY <2>1, <2>2, Goes DEF Leave, Holding
<1>. QED  BY <1>1, <1>2, <1>3

-----------------------------------------------------------------------------
(***************************************************************************)
(* Close, and steps of no worker.                                          *)
(***************************************************************************)

LEMMA CloseSound == ASSUME Sound, Close PROVE Sound'
<1>. USE DEF remoteVars, workerVars
<1>1. /\ closed' = TRUE /\ closing' = Held /\ id' = [t \in Trackers |-> None]
      /\ UNCHANGED <<live, tracker, phase, mine, victims, holder, pc>>
  BY DEF Close
<1>2. Held' = {} /\ Doomed' = Doomed
  BY <1>1 DEF Held, Doomed
<1>3. Held \subseteq Sessions
  BY HeldIs DEF Sound, NameType
<1>4. NameType'
  BY <1>1, <1>3 DEF Sound, NameType
<1>5. \A w \in Workers : AtHome(w)'
  BY <1>1 DEF Sound, AtHome
<1>6. \A w \in Workers : Own(w)'
  <2>. SUFFICES ASSUME NEW w \in Workers PROVE Own(w)'
    OBVIOUS
  <2>1. pc[w] \in Without => id'[tracker[w]] = None
    BY <1>1, Occupied DEF Without
  <2>. QED  BY <1>1, <1>2, <2>1 DEF Sound, Own
<1>7. Apart'
  BY <1>1, <1>2 DEF Sound, Apart
<1>8. Kept'
  BY <1>1 DEF Kept
<1>. QED  BY <1>4, <1>5, <1>6, <1>7, <1>8 DEF Sound

LEMMA OutsideSound ==
  ASSUME Sound,
         \/ \E s \in closing : CloseDestroys(s)
         \/ \E t \in Trackers : LoginLapses(t)
         \/ \E s \in busy : TabFinishes(s)
         \/ Restart \/ UNCHANGED vars
  PROVE  Sound'
<1>1. /\ UNCHANGED <<closed, id, tracker, phase, mine, victims, holder, pc>>
      /\ closing' \subseteq closing /\ live' \subseteq live
  BY DEF CloseDestroys, Destroyed, LoginLapses, TabFinishes, Restart, vars, jackletVars, remoteVars,
         workerVars
<1>2. Held' = Held /\ Doomed' = Doomed
  BY <1>1 DEF Held, Doomed
<1>3. NameType'
  BY <1>1 DEF Sound, NameType
<1>4. \A w \in Workers : AtHome(w)' /\ Own(w)'
  BY <1>1, <1>2 DEF Sound, AtHome, Own
<1>5. Apart' /\ Kept'
  BY <1>1, <1>2 DEF Sound, Apart, Kept
<1>. QED  BY <1>3, <1>4, <1>5 DEF Sound

LEMMA SoundBegins == Init => Sound
<1>. SUFFICES ASSUME Init PROVE Sound
  OBVIOUS
<1>1. Held = {} /\ Doomed = {}
  BY DEF Init, Held, Doomed
<1>2. NameType
  BY DEF Init, NameType, Away, Phases
<1>3. \A w \in Workers : AtHome(w) /\ Own(w)
  BY NameAssumption DEF Init, AtHome, Own, Using, Keeping, Without, Holding
<1>4. Apart /\ Kept
  BY <1>1 DEF Init, Apart, Kept
<1>. QED  BY <1>2, <1>3, <1>4 DEF Sound

LEMMA SoundStep == ASSUME Sound, [Next]_vars PROVE Sound'
<1>1. ASSUME NEW w \in Workers, NEW t \in Trackers, Start(w, t) PROVE Sound'
  BY <1>1, StartSound
<1>2. ASSUME NEW w \in Workers, MarkLoggedIn(w) \/ Distrust(w) \/ Enter(w) \/ GiveUp(w) PROVE Sound'
  BY <1>2, LoginSound
<1>3. ASSUME NEW w \in Workers, TakeSlot(w) \/ ReadSession(w) \/ VerifySession(w) \/ ForgetLost(w)
      PROVE  Sound'
  BY <1>3, TakeSlotSound, ReadSessionSound, VerifySessionSound, ForgetLostSound
<1>4. ASSUME NEW w \in Workers, Evict(w) PROVE Sound'
  BY <1>4, EvictSound
<1>5. ASSUME NEW w \in Workers, NEW v \in victims[w], DestroyVictim(w, v) \/ ForgetVictim(w, v)
      PROVE  Sound'
  BY <1>5, DestroyingSound
<1>6. ASSUME NEW w \in Workers, CreateSession(w) \/ CreateFails(w) \/ StoreSession(w) \/ Discard(w)
      PROVE  Sound'
  BY <1>6, CreateSessionSound, StoreSessionSound, NoSessionSound
<1>7. ASSUME NEW w \in Workers,
             Send(w) \/ Cancel(w) \/ Failed(w) \/ Blocked(w)
               \/ \E how \in {"good", "failed"} : Answered(w, how)
      PROVE  Sound'
  BY <1>7, RequestSound
<1>8. ASSUME NEW w \in Workers, Retire(w) \/ DestroyRetired(w) \/ Disown(w) PROVE Sound'
  BY <1>8, RetireSound
<1>. QED
  BY <1>1, <1>2, <1>3, <1>4, <1>5, <1>6, <1>7, <1>8, CloseSound, OutsideSound DEF Next

LEMMA SoundAlways == Spec => []Sound
BY SoundBegins, SoundStep, PTL DEF Spec

-----------------------------------------------------------------------------
(***************************************************************************)
(* Counts, and the sets FlareSolverr keeps of its sessions.                *)
(***************************************************************************)

LEMMA UsedNowType ==
  ASSUME CountType, NEW t \in Trackers
  PROVE  UsedNow(t) \in [Trackers -> 0..Cardinality(Trackers)]
<1>1. Cardinality(Trackers) \in Nat
  BY NameAssumption, FS_CardinalityType
<1>. QED  BY <1>1 DEF CountType, UsedNow

LEMMA CountStep == ASSUME Sound, CountType, [Next]_vars PROVE CountType'
<1>. USE DEF CountType, jackletVars, remoteVars, workerVars
<1>1. ASSUME NEW w \in Workers, NEW t \in Trackers, Start(w, t) PROVE CountType'
  BY <1>1 DEF Start
<1>2. ASSUME NEW w \in Workers,
             MarkLoggedIn(w) \/ Distrust(w) \/ Enter(w) \/ GiveUp(w) \/ TakeSlot(w) \/ ForgetLost(w)
      PROVE  CountType'
  BY <1>2 DEF MarkLoggedIn, Distrust, Enter, GiveUp, TakeSlot, ForgetLost
<1>3. ASSUME NEW w \in Workers, ReadSession(w) PROVE CountType'
  <2>1. tracker[w] \in Trackers
    BY <1>3, Occupied DEF ReadSession
  <2>. QED  BY <1>3, <2>1, UsedNowType DEF ReadSession
<1>4. ASSUME NEW w \in Workers, VerifySession(w) \/ Retire(w) PROVE CountType'
  <2>1. failures' \in [Trackers -> 0..MaxFailures]
    BY <1>4, LimitAssumption DEF VerifySession, Retire, Reset
  <2>. QED  BY <1>4, <2>1 DEF VerifySession, Retire
<1>5. ASSUME NEW w \in Workers, Evict(w) PROVE CountType'
  <2>1. failures' \in [Trackers -> 0..MaxFailures]
    BY <1>5, LimitAssumption DEF Evict
  <2>. QED  BY <1>5, <2>1 DEF Evict
<1>6. ASSUME NEW w \in Workers, NEW v \in victims[w], DestroyVictim(w, v) \/ ForgetVictim(w, v)
      PROVE  CountType'
  BY <1>6 DEF DestroyVictim, ForgetVictim, Destroyed
<1>7. ASSUME NEW w \in Workers,
             CreateSession(w) \/ CreateFails(w) \/ StoreSession(w) \/ Discard(w) \/ Send(w)
      PROVE  CountType'
  BY <1>7 DEF CreateSession, CreateFails, StoreSession, Discard, Destroyed, Send
<1>8. ASSUME NEW w \in Workers, NEW how, Answered(w, how) PROVE CountType'
  <2>1. failures' \in [Trackers -> 0..MaxFailures]
    <3>1. 0 \in 0..MaxFailures
      BY LimitAssumption
    <3>. QED  BY <1>8, <3>1 DEF Answered
  <2>. QED  BY <1>8, <2>1 DEF Answered
<1>9. ASSUME NEW w \in Workers, Blocked(w) \/ Cancel(w) PROVE CountType'
  BY <1>9 DEF Blocked, Cancel, Canceled
<1>10. ASSUME NEW w \in Workers, Failed(w) PROVE CountType'
  <2>1. failures' = [failures EXCEPT ![tracker[w]] = IF @ < MaxFailures THEN @ + 1 ELSE @]
    BY <1>10 DEF Failed
  <2>2. failures' \in [Trackers -> 0..MaxFailures]
    <3>1. \A n \in 0..MaxFailures : (IF n < MaxFailures THEN n + 1 ELSE n) \in 0..MaxFailures
      BY LimitAssumption
    <3>2. tracker[w] \in Trackers
      BY <1>10, Occupied DEF Failed
    <3>. QED  BY <2>1, <3>1, <3>2
  <2>3. busy' \subseteq live
    BY <1>10 DEF Failed
  <2>. QED  BY <1>10, <2>2, <2>3 DEF Failed
<1>11. ASSUME NEW w \in Workers, DestroyRetired(w) \/ Disown(w) PROVE CountType'
  BY <1>11 DEF DestroyRetired, Destroyed, Disown
<1>12. CASE \/ Close \/ \E s \in closing : CloseDestroys(s)
            \/ \E t \in Trackers : LoginLapses(t)
            \/ \E s \in busy : TabFinishes(s)
  BY <1>12 DEF Close, CloseDestroys, Destroyed, LoginLapses, TabFinishes
<1>13. CASE Restart
  <2>1. restarts' \in 0..MaxRestarts
    BY <1>13, LimitAssumption DEF Restart
  <2>. QED  BY <1>13, <2>1 DEF Restart
<1>14. CASE UNCHANGED vars
  BY <1>14 DEF vars
<1>. QED
  BY <1>1, <1>2, <1>3, <1>4, <1>5, <1>6, <1>7, <1>8, <1>9, <1>10, <1>11, <1>12, <1>13, <1>14 DEF Next

LEMMA CountAlways == Spec => [](Sound /\ CountType)
<1>1. Init => CountType
  <2>1. Cardinality(Trackers) \in Nat
    BY NameAssumption, FS_CardinalityType
  <2>. QED  BY <2>1, LimitAssumption DEF Init, CountType
<1>2. Sound /\ CountType /\ [Next]_vars => CountType'
  BY CountStep
<1>. QED  BY <1>1, <1>2, SoundAlways, PTL DEF Spec

-----------------------------------------------------------------------------
(***************************************************************************)
(* Tabs.                                                                   *)
(***************************************************************************)

\* A tab that is driven is a request's that has the slot of its session, until
\* the session is retired; a request that is about to be sent finds its tab free.
Tabs ==
  /\ \A w \in Workers : pc[w] \in {"storing", "verifying", "asking"} => mine[w] \notin busy
  /\ \A t \in Trackers : id[t] \in busy =>
       \E w \in Workers : holder[t] = w /\ pc[w] \in {"driving", "spent"}

Driven == {"driving", "spent"}

\* A step of w that drives no tab, and leaves none that is driven.
LEMMA TabsLeft ==
  ASSUME Tabs, NEW w \in Workers, busy' \subseteq busy,
         \A o \in Workers \ {w} :
           /\ pc'[o] = pc[o] /\ mine'[o] = mine[o]
           /\ \A t \in Trackers : holder[t] = o => holder'[t] = o,
         pc'[w] \in {"storing", "verifying", "asking"} => mine'[w] \notin busy',
         \A t \in Trackers : id'[t] \in busy' =>
           /\ id'[t] = id[t]
           /\ holder[t] = w /\ pc[w] \in Driven => holder'[t] = w /\ pc'[w] \in Driven
  PROVE  Tabs'
<1>1. \A o \in Workers : pc'[o] \in {"storing", "verifying", "asking"} => mine'[o] \notin busy'
  BY DEF Tabs
<1>2. ASSUME NEW t \in Trackers, id'[t] \in busy'
      PROVE  \E o \in Workers : holder'[t] = o /\ pc'[o] \in Driven
  <2>1. PICK o \in Workers : holder[t] = o /\ pc[o] \in Driven
    BY <1>2 DEF Tabs, Driven
  <2>. QED  BY <1>2, <2>1
<1>. QED  BY <1>1, <1>2 DEF Tabs, Driven

\* The same of a step with which w's request is over, and the tab with it.
LEMMA TabsGo ==
  ASSUME Tabs, Sound, NEW w \in Workers, pc[w] # "idle", NEW how, Proceed(w, how),
         UNCHANGED id, busy' \subseteq busy,
         \/ UNCHANGED holder /\ pc[w] \notin Holding
         \/ holder' = [holder EXCEPT ![tracker[w]] = None] /\ pc[w] \in Holding,
         pc[w] \in Driven => id[tracker[w]] \notin busy'
  PROVE  Tabs'
<1>1. /\ pc' = [pc EXCEPT ![w] = pc'[w]] /\ pc'[w] \in Away
      /\ mine' = [mine EXCEPT ![w] = None]
  BY ProceedsTo
<1>2. \A o \in Workers \ {w} : pc'[o] = pc[o] /\ mine'[o] = mine[o]
  BY <1>1 DEF Sound, NameType
<1>3. ASSUME NEW o \in Workers \ {w}, NEW t \in Trackers, holder[t] = o PROVE holder'[t] = o
  <2>1. pc[w] \in Holding => holder[tracker[w]] = w
    BY DEF Sound, AtHome
  <2>. QED  BY <1>3, <2>1 DEF Sound, NameType
<1>4. \A t \in Trackers : holder[t] = w => t = tracker[w]
  BY DEF Sound, AtHome
<1>. QED  BY <1>1, <1>2, <1>3, <1>4, TabsLeft DEF Away

\* A session whose tracker's slot is w's, and that w does not drive, is not driven.
LEMMA TabFree ==
  ASSUME Tabs, Sound, NEW w \in Workers, pc[w] \in Holding \ Driven
  PROVE  id[tracker[w]] \notin busy
<1>1. holder[tracker[w]] = w /\ tracker[w] \in Trackers
  BY Occupied DEF Sound, AtHome, Holding
<1>. QED  BY <1>1 DEF Tabs, Driven

\* Nobody's session is never driven, and w's is its tracker's unless Close took it.
LEMMA TabOf ==
  ASSUME Sound, CountType, NEW w \in Workers, pc[w] \in Using, NEW t \in Trackers, id[t] \in busy
  PROVE  holder[t] = w => id[t] = mine[w]
<1>1. id[t] # None
  BY NameAssumption DEF CountType, Sound, NameType
<1>2. ~closed
  BY <1>1, HeldIs DEF Sound, Apart
<1>. QED  BY <1>2 DEF Sound, AtHome, Own

LEMMA TabsOfLogin ==
  ASSUME Tabs, Sound, NEW w \in Workers,
         \/ \E t \in Trackers : Start(w, t)
         \/ MarkLoggedIn(w) \/ Distrust(w) \/ Enter(w) \/ GiveUp(w) \/ TakeSlot(w)
  PROVE  Tabs'
<1>. USE DEF jackletVars, remoteVars, workerVars
<1>1. CASE \/ \E t \in Trackers : Start(w, t)
           \/ MarkLoggedIn(w) \/ Distrust(w) \/ TakeSlot(w) \/ (Enter(w) /\ ~closed)
  <2>1. /\ pc[w] \in Away /\ UNCHANGED <<id, busy, mine>>
        /\ \E p \in {"entering", "idle", "reading", "queued"} : pc' = [pc EXCEPT ![w] = p]
        /\ holder' = holder \/ (holder' = [holder EXCEPT ![tracker[w]] = w] /\ holder[tracker[w]] = None)
    BY <1>1 DEF Start, MarkLoggedIn, Distrust, TakeSlot, Enter, Away
  <2>2. \A o \in Workers \ {w} : pc'[o] = pc[o]
    BY <2>1 DEF Sound, NameType
  <2>3. \A o \in Workers \ {w}, t \in Trackers : holder[t] = o => holder'[t] = o
    BY <2>1, NameAssumption DEF Sound, NameType
  <2>4. pc'[w] \notin {"storing", "verifying", "asking"} /\ pc[w] \notin Driven
    BY <2>1 DEF Sound, NameType, Away, Driven
  <2>. QED  BY <2>1, <2>2, <2>3, <2>4, TabsLeft
<1>2. CASE GiveUp(w) \/ (Enter(w) /\ closed)
  <2>1. /\ pc[w] \in {"queued", "entering"} /\ UNCHANGED <<id, busy, holder>>
        /\ \E how : Proceed(w, how)
    BY <1>2 DEF GiveUp, Enter
  <2>2. pc[w] \notin Holding /\ pc[w] \notin Driven /\ pc[w] # "idle"
    BY <2>1 DEF Holding, Driven
  <2>. QED  BY <2>1, <2>2, TabsGo
<1>. QED  BY <1>1, <1>2

LEMMA TabsOfSession ==
  ASSUME Tabs, Sound, CountType, NEW w \in Workers,
         \/ ReadSession(w) \/ VerifySession(w) \/ ForgetLost(w) \/ Evict(w)
         \/ \E v \in victims[w] : DestroyVictim(w, v) \/ ForgetVictim(w, v)
         \/ CreateSession(w) \/ CreateFails(w) \/ StoreSession(w) \/ Discard(w)
         \/ DestroyRetired(w) \/ Disown(w)
  PROVE  Tabs'
<1>. USE DEF jackletVars, remoteVars, workerVars
<1>1. pc[w] \in Holding \ Driven /\ busy' \subseteq busy /\ pc[w] # "idle"
  BY DEF ReadSession, VerifySession, ForgetLost, Evict, DestroyVictim, ForgetVictim, CreateSession,
         CreateFails, StoreSession, Discard, DestroyRetired, Disown, Destroyed, Holding, Driven
<1>2. id[tracker[w]] \notin busy /\ None \notin busy
  BY <1>1, TabFree, NameAssumption DEF CountType, Sound, NameType
<1>3. ASSUME NEW p, pc' = [pc EXCEPT ![w] = p], holder' = holder,
             \A o \in Workers \ {w} : mine'[o] = mine[o],
             p \in {"storing", "verifying", "asking"} => mine'[w] \notin busy,
             \A t \in Trackers : id'[t] \in busy => id'[t] = id[t]
      PROVE  Tabs'
  <2>1. \A o \in Workers \ {w} : pc'[o] = pc[o]
    BY <1>3 DEF Sound, NameType
  <2>2. pc'[w] = p
    BY <1>3 DEF Sound, NameType
  <2>. QED  BY <1>1, <1>3, <2>1, <2>2, TabsLeft
<1>4. ASSUME NEW how, Leave(w, how), UNCHANGED id PROVE Tabs'
  BY <1>1, <1>4, TabsGo DEF Leave
<1>5. CASE ReadSession(w)
  <2>1. CASE Leave(w, "failed")
    BY <1>4, <1>5, <2>1 DEF ReadSession
  <2>2. CASE pc' = [pc EXCEPT ![w] = "verifying"] /\ mine' = [mine EXCEPT ![w] = id[tracker[w]]]
             /\ holder' = holder
    BY <1>2, <1>3, <1>5, <2>2 DEF ReadSession, Sound, NameType
  <2>3. CASE pc' = [pc EXCEPT ![w] = "evicting"] /\ mine' = mine /\ holder' = holder
    BY <1>3, <1>5, <2>3 DEF ReadSession
  <2>. QED  BY <1>5, <2>1, <2>2, <2>3 DEF ReadSession
<1>6. CASE VerifySession(w)
  <2>1. mine[w] \notin busy
    BY <1>6 DEF VerifySession, Tabs
  <2>2. CASE pc' = [pc EXCEPT ![w] = "asking"] /\ UNCHANGED <<id, mine>>
    BY <1>3, <1>6, <2>1, <2>2 DEF VerifySession
  <2>3. CASE pc' = [pc EXCEPT ![w] = "forgetting"] /\ mine' = [mine EXCEPT ![w] = None]
             /\ Reset(tracker[w], mine[w])
    <3>1. \A t \in Trackers : id'[t] \in busy => id'[t] = id[t]
      BY <1>2, <2>3 DEF Reset, Sound, NameType
    <3>. QED  BY <1>3, <1>6, <2>3, <3>1 DEF VerifySession, Sound, NameType
  <2>. QED  BY <1>6, <2>2, <2>3 DEF VerifySession
<1>7. CASE ForgetLost(w)
  BY <1>3, <1>7 DEF ForgetLost
<1>8. CASE Evict(w)
  <2>. DEFINE p == IF Evictable = {} THEN "creating" ELSE "destroying"
  <2>1. pc' = [pc EXCEPT ![w] = p] /\ UNCHANGED <<holder, mine>>
        /\ \A t \in Trackers : id'[t] \in {None, id[t]}
    BY <1>8 DEF Evict
  <2>2. p \notin {"storing", "verifying", "asking"}
    OBVIOUS
  <2>. HIDE DEF p
  <2>. QED  BY <1>2, <1>3, <2>1, <2>2
<1>9. ASSUME NEW v \in victims[w], DestroyVictim(w, v) \/ ForgetVictim(w, v) PROVE Tabs'
  <2>1. \E p \in {"destroying", "creating"} : pc' = [pc EXCEPT ![w] = p]
    BY <1>9 DEF DestroyVictim, ForgetVictim, Sound, NameType
  <2>. QED  BY <1>3, <1>9, <2>1 DEF DestroyVictim, ForgetVictim
<1>10. CASE CreateSession(w)
  <2>1. PICK s \in Sessions \ (live \union Named) :
          mine' = [mine EXCEPT ![w] = s] /\ pc' = [pc EXCEPT ![w] = "storing"]
    BY <1>10 DEF CreateSession
  <2>2. mine'[w] \notin busy /\ \A o \in Workers \ {w} : mine'[o] = mine[o]
    BY <2>1 DEF Sound, NameType, CountType
  <2>. QED  BY <1>3, <1>10, <2>1, <2>2 DEF CreateSession
<1>11. CASE StoreSession(w)
  <2>1. mine[w] \notin busy
    BY <1>11 DEF StoreSession, Tabs
  <2>2. \E p \in {"discarding", "asking"} : pc' = [pc EXCEPT ![w] = p]
    BY <1>11 DEF StoreSession, Store
  <2>3. \A t \in Trackers : id'[t] \in {id[t], mine[w]}
    BY <1>11 DEF StoreSession, Store, Sound, NameType
  <2>. QED  BY <1>3, <1>11, <2>1, <2>2, <2>3 DEF StoreSession
<1>12. CASE CreateFails(w) \/ Discard(w) \/ Disown(w)
  BY <1>4, <1>12 DEF CreateFails, Discard, Disown
<1>13. CASE DestroyRetired(w)
  BY <1>3, <1>13 DEF DestroyRetired
<1>. QED  BY <1>5, <1>6, <1>7, <1>8, <1>9, <1>10, <1>11, <1>12, <1>13

LEMMA TabsOfRequest ==
  ASSUME Tabs, Sound, CountType, ~LateRequests, NEW w \in Workers,
         Send(w) \/ Cancel(w) \/ Failed(w) \/ Blocked(w) \/ Retire(w)
           \/ \E how \in {"good", "failed"} : Answered(w, how)
  PROVE  Tabs'
<1>. USE DEF jackletVars, remoteVars, workerVars
<1>1. pc[w] \in {"asking", "driving", "spent"}
  BY DEF Send, Cancel, Failed, Blocked, Retire, Answered
<1>2. /\ pc[w] \in Using /\ pc[w] \in Holding /\ pc[w] # "idle"
      /\ tracker[w] \in Trackers /\ holder[tracker[w]] = w /\ None \notin busy
  BY <1>1, Occupied, NameAssumption DEF Using, Holding, CountType, Sound, NameType, AtHome
<1>3. id[tracker[w]] \in busy => id[tracker[w]] = mine[w]
  BY <1>2, TabOf
<1>4. ASSUME NEW how, Leave(w, how), UNCHANGED id, busy' = busy \ {mine[w]} PROVE Tabs'
  BY <1>2, <1>3, <1>4, TabsGo DEF Leave
<1>5. ASSUME pc' = [pc EXCEPT ![w] = "spent"], UNCHANGED <<id, mine, holder>>, busy' \subseteq busy
      PROVE  Tabs'
  <2>1. \A o \in Workers \ {w} : pc'[o] = pc[o]
    BY <1>5 DEF Sound, NameType
  <2>2. pc'[w] = "spent"
    BY <1>5 DEF Sound, NameType
  <2>. QED  BY <1>5, <2>1, <2>2, TabsLeft DEF Driven
<1>6. CASE Send(w)
  <2>1. pc' = [pc EXCEPT ![w] = "driving"] /\ busy' = busy \union {mine[w]}
        /\ UNCHANGED <<closed, id, mine, holder>>
    BY <1>6 DEF Send
  <2>2. pc'[w] = "driving" /\ mine[w] # None /\ \A o \in Workers \ {w} : pc'[o] = pc[o]
    BY <1>2, <2>1 DEF Sound, NameType, Own
  <2>3. \A o \in Workers \ {w} : mine[o] # mine[w]
    BY <2>2 DEF Sound, Apart
  <2>4. \A o \in Workers : pc'[o] \in {"storing", "verifying", "asking"} => mine'[o] \notin busy'
    BY <2>1, <2>2, <2>3 DEF Tabs
  <2>5. ASSUME NEW t \in Trackers, id'[t] \in busy'
        PROVE  \E o \in Workers : holder'[t] = o /\ pc'[o] \in {"driving", "spent"}
    <3>1. CASE id[t] \in busy
      <4>1. PICK o \in Workers : holder[t] = o /\ pc[o] \in {"driving", "spent"}
        BY <3>1 DEF Tabs
      <4>. QED  BY <2>1, <2>2, <4>1
    <3>2. CASE id[t] = mine[w]
      <4>1. id[t] # None /\ ~closed
        BY <2>2, <3>2, HeldIs DEF Sound, Apart
      <4>2. id[tracker[w]] = mine[w]
        BY <1>2, <4>1 DEF Sound, Own
      <4>3. t = tracker[w]
        BY <1>2, <3>2, <4>1, <4>2 DEF Sound, Apart
      <4>. QED  BY <1>2, <2>1, <2>2, <4>3
    <3>. QED  BY <2>1, <2>5, <3>1, <3>2
  <2>. QED  BY <2>4, <2>5 DEF Tabs
<1>7. CASE Cancel(w)
  BY <1>5, <1>7 DEF Cancel, Canceled
<1>8. CASE Failed(w)
  <2>1. busy' = busy \ {mine[w]} /\ UNCHANGED id
    BY <1>8 DEF Failed
  <2>2. CASE Leave(w, "failed")
    BY <1>4, <2>1, <2>2
  <2>3. CASE pc' = [pc EXCEPT ![w] = "spent"] /\ UNCHANGED <<mine, holder>>
    BY <1>5, <2>1, <2>3
  <2>. QED  BY <1>8, <2>2, <2>3 DEF Failed
<1>9. CASE Blocked(w) \/ \E how \in {"good", "failed"} : Answered(w, how)
  BY <1>4, <1>9 DEF Blocked, Answered
<1>10. CASE Retire(w)
  <2>1. CASE id[tracker[w]] = mine[w]
    <3>1. /\ pc' = [pc EXCEPT ![w] = "retiring"] /\ UNCHANGED <<mine, holder, busy>>
          /\ id' = [id EXCEPT ![tracker[w]] = None]
      BY <1>10, <2>1 DEF Retire, Reset
    <3>2. pc'[w] = "retiring" /\ \A o \in Workers \ {w} : pc'[o] = pc[o]
      BY <3>1 DEF Sound, NameType
    <3>3. \A t \in Trackers : id'[t] \in busy => id'[t] = id[t] /\ t # tracker[w]
      BY <1>2, <3>1 DEF Sound, NameType
    <3>4. \A t \in Trackers : holder[t] = w => t = tracker[w]
      BY DEF Sound, AtHome
    <3>. QED  BY <3>1, <3>2, <3>3, <3>4, TabsLeft
  <2>2. CASE id[tracker[w]] # mine[w]
    <3>1. Leave(w, "failed") /\ UNCHANGED <<id, busy>>
      BY <1>10, <2>2 DEF Retire, Reset
    <3>. QED  BY <1>2, <1>3, <2>2, <3>1, TabsGo DEF Leave
  <2>. QED  BY <2>1, <2>2
<1>. QED  BY <1>6, <1>7, <1>8, <1>9, <1>10

LEMMA TabsStep == ASSUME Tabs, Sound, CountType, ~LateRequests, [Next]_vars PROVE Tabs'
<1>1. ASSUME NEW w \in Workers,
             \/ \E t \in Trackers : Start(w, t)
             \/ MarkLoggedIn(w) \/ Distrust(w) \/ Enter(w) \/ GiveUp(w) \/ TakeSlot(w)
      PROVE  Tabs'
  BY <1>1, TabsOfLogin
<1>2. ASSUME NEW w \in Workers,
             \/ ReadSession(w) \/ VerifySession(w) \/ ForgetLost(w) \/ Evict(w)
             \/ \E v \in victims[w] : DestroyVictim(w, v) \/ ForgetVictim(w, v)
             \/ CreateSession(w) \/ CreateFails(w) \/ StoreSession(w) \/ Discard(w)
             \/ DestroyRetired(w) \/ Disown(w)
      PROVE  Tabs'
  BY <1>2, TabsOfSession
<1>3. ASSUME NEW w \in Workers,
             Send(w) \/ Cancel(w) \/ Failed(w) \/ Blocked(w) \/ Retire(w)
               \/ \E how \in {"good", "failed"} : Answered(w, how)
      PROVE  Tabs'
  BY <1>3, TabsOfRequest
<1>4. CASE Close
  <2>1. None \notin busy
    BY NameAssumption DEF CountType, Sound, NameType
  <2>. QED  BY <1>4, <2>1 DEF Close, remoteVars, workerVars, Tabs
<1>5. CASE \/ \E s \in closing : CloseDestroys(s)
           \/ \E t \in Trackers : LoginLapses(t)
           \/ \E s \in busy : TabFinishes(s)
           \/ Restart \/ UNCHANGED vars
  <2>1. busy' \subseteq busy /\ UNCHANGED <<id, mine, holder, pc>>
    BY <1>5 DEF CloseDestroys, Destroyed, LoginLapses, TabFinishes, Restart, vars, jackletVars,
                remoteVars, workerVars
  <2>. QED  BY <2>1 DEF Tabs
<1>. QED  BY <1>1, <1>2, <1>3, <1>4, <1>5 DEF Next

-----------------------------------------------------------------------------
LEMMA SoundIsConsistent ==
  ASSUME Sound, CountType, Tabs
  PROVE  Consistent
<1>1. TypeOK
  BY DEF TypeOK, Sound, NameType, CountType, Away
<1>2. OneHolder
  <2>1. ASSUME NEW w \in Workers
        PROVE  /\ pc[w] \in Holding <=> \E t \in Trackers : holder[t] = w
               /\ pc[w] \in Holding => holder[tracker[w]] = w
               /\ pc[w] = "idle" <=> tracker[w] = None
    <3>1. pc[w] \in Holding => tracker[w] \in Trackers
      BY Occupied DEF Holding
    <3>. QED  BY <3>1 DEF Sound, AtHome
  <2>2. ASSUME NEW t \in Trackers, NEW u \in Trackers, holder[t] = holder[u], holder[t] # None
        PROVE  t = u
    BY <2>2 DEF Sound, NameType, AtHome
  <2>. QED  BY <2>1, <2>2 DEF OneHolder
<1>3. NamesApart
  BY DEF Sound, Apart, Own, Keeping, NamesApart
<1>4. UsedIsCurrent
  BY DEF Sound, Own, Using, Keeping, UsedIsCurrent
<1>5. ClosedForGood /\ TabNotShared
  BY DEF Sound, Apart, Tabs, ClosedForGood, TabNotShared
<1>. QED  BY <1>1, <1>2, <1>3, <1>4, <1>5 DEF Consistent

\* Where requests are over at their deadline, entries, slots, names and tabs agree
\* between any two steps, and no two requests meet in one tab
\* (scrapeWithFlareSolverr, flareSolverrSession, evictIdleFlareSolverrSessions,
\* retireFlareSolverrSession, Close).
THEOREM ConsistentAlways == ASSUME ~LateRequests PROVE Spec => []Consistent
<1>1. Init => Tabs
  BY NameAssumption DEF Init, Tabs
<1>2. Sound /\ CountType /\ Tabs /\ [Next]_vars => Tabs'
  BY TabsStep
<1>3. Sound /\ CountType /\ Tabs => Consistent
  BY SoundIsConsistent
<1>. QED  BY <1>1, <1>2, <1>3, CountAlways, PTL DEF Spec

\* Until Close, Jacklet holds the name of every session FlareSolverr has
\* (evictIdleFlareSolverrSessions, retireFlareSolverrSession).
THEOREM AccountedAlways == Spec => []Accounted
<1>1. Sound => Accounted
  <2>. SUFFICES ASSUME Sound, ~closed, NEW s \in live PROVE s \in Named
    BY DEF Accounted
  <2>. QED  BY DEF Sound, Kept, Named
<1>. QED  BY <1>1, SoundAlways, PTL

\* A session that a worker drives is destroyed only by Close or a restart.
LEMMA DrivenStays ==
  ASSUME Sound, [Next]_vars, NEW o \in Workers, pc[o] = "driving", mine[o] \in live,
         mine[o] \notin live', ~closed
  PROVE  restarts' # restarts
<1>. USE DEF jackletVars, remoteVars, workerVars
<1>1. mine[o] \in Held /\ mine[o] \notin Doomed
  <2>1. id[tracker[o]] = mine[o] /\ mine[o] # None /\ tracker[o] \in Trackers
    BY Occupied DEF Sound, Own, Using
  <2>. QED  BY <2>1, HeldIs DEF Sound, Apart
<1>2. ASSUME NEW w \in Workers, live' = live \ {mine[w]}, pc[w] \in {"discarding", "retiring"}
      PROVE  FALSE
  <2>1. mine[o] = mine[w]
    BY <1>2
  <2>2. mine[o] # None
    BY DEF Sound, Own, Using
  <2>. QED  BY <1>2, <2>1, <2>2 DEF Sound, Apart
<1>3. ASSUME NEW w \in Workers, NEW v \in victims[w], live' = live \ {v[2]} PROVE FALSE
  BY <1>1, <1>3, DoomedIs
<1>4. ASSUME NEW s \in closing PROVE FALSE
  BY <1>4 DEF Sound, Apart
<1>5. ASSUME NEW w \in Workers,
             \/ \E t \in Trackers : Start(w, t)
             \/ MarkLoggedIn(w) \/ Distrust(w) \/ Enter(w) \/ GiveUp(w) \/ TakeSlot(w)
             \/ ReadSession(w) \/ VerifySession(w) \/ ForgetLost(w) \/ Evict(w)
             \/ \E v \in victims[w] : ForgetVictim(w, v)
             \/ CreateSession(w) \/ CreateFails(w) \/ StoreSession(w) \/ Disown(w)
             \/ Send(w) \/ Cancel(w) \/ Failed(w) \/ Blocked(w) \/ Retire(w)
             \/ \E how \in {"good", "failed"} : Answered(w, how)
      PROVE  FALSE
  BY <1>5 DEF Start, MarkLoggedIn, Distrust, Enter, GiveUp, TakeSlot, ReadSession, VerifySession,
              ForgetLost, Evict, ForgetVictim, CreateSession, CreateFails, StoreSession, Disown, Send,
              Cancel, Failed, Blocked, Retire, Answered
<1>6. ASSUME NEW w \in Workers, Discard(w) \/ DestroyRetired(w) PROVE FALSE
  BY <1>2, <1>6 DEF Discard, DestroyRetired, Destroyed
<1>7. ASSUME NEW w \in Workers, NEW v \in victims[w], DestroyVictim(w, v) PROVE FALSE
  BY <1>3, <1>7 DEF DestroyVictim, Destroyed
<1>8. CASE \/ Close
           \/ \E t \in Trackers : LoginLapses(t)
           \/ \E s \in busy : TabFinishes(s)
           \/ UNCHANGED vars
  BY <1>8 DEF Close, LoginLapses, TabFinishes, vars
<1>9. CASE Restart
  BY <1>9, LimitAssumption DEF Restart
<1>. QED  BY <1>4, <1>5, <1>6, <1>7, <1>8, <1>9 DEF Next

\* No session disappears under the request that drives it, except by Close or a
\* restart of FlareSolverr.
THEOREM RequestsUndisturbedAlways == Spec => RequestsUndisturbed
<1>1. Sound /\ [Next]_vars =>
        [\A w \in Workers :
           pc[w] = "driving" /\ mine[w] \in live /\ mine[w] \notin live'
             => closed \/ restarts' # restarts]_vars
  BY DrivenStays
<1>. QED  BY <1>1, SoundAlways, PTL DEF Spec, RequestsUndisturbed

-----------------------------------------------------------------------------
(***************************************************************************)
(* The limit on sessions.                                                  *)
(***************************************************************************)

\* The trackers that have a session, and the workers that make room or a session.
Owning == {t \in Trackers : id[t] # None}
Making == {w \in Workers : pc[w] \in {"destroying", "creating", "storing"}}

LEMMA CountsAre ==
  /\ IsFiniteSet(Owning) /\ Cardinality(Owning) \in Nat
  /\ IsFiniteSet(Making) /\ Cardinality(Making) \in Nat /\ Cardinality(Making) <= Cardinality(Workers)
  /\ Cardinality(Workers) \in Nat
  /\ IsFiniteSet(Idle) /\ Idle \subseteq Owning
  /\ IsFiniteSet(Evictable) /\ Evictable \subseteq Idle /\ Cardinality(Evictable) \in Nat
  /\ Excess = Cardinality(Owning) - MaxFlareSessions + 1
<1>1. Owning \in SUBSET Trackers /\ Making \in SUBSET Workers /\ Idle \in SUBSET Owning
      /\ Evictable \in SUBSET Idle
  BY DEF Owning, Making, Idle, Evictable
<1>2. IsFiniteSet(Owning) /\ IsFiniteSet(Making) /\ Cardinality(Making) <= Cardinality(Workers)
  BY <1>1, NameAssumption, FS_Subset
<1>3. IsFiniteSet(Idle)
  BY <1>1, <1>2, FS_Subset
<1>4. IsFiniteSet(Evictable)
  BY <1>1, <1>3, FS_Subset
<1>5. Excess = Cardinality(Owning) - MaxFlareSessions + 1
  BY DEF Excess, Owning
<1>. QED  BY <1>1, <1>2, <1>3, <1>4, <1>5, NameAssumption, FS_CardinalityType

\* Unless every idle session goes, enough of them go: those used before the
\* oldest that stays.
LEMMA EvictsEnough ==
  ASSUME CountType, NEW spared \in Idle \ Evictable
  PROVE  Cardinality(Evictable) >= Excess
<1>. DEFINE Ranks == {lastUsed[t] : t \in Idle \ Evictable}
<1>1. \A t \in Idle : lastUsed[t] \in Nat
  <2>1. Cardinality(Trackers) \in Nat
    BY NameAssumption, FS_CardinalityType
  <2>. QED  BY <2>1 DEF CountType, Idle
<1>2. Ranks \subseteq Nat /\ Ranks # {}
  BY <1>1
<1>3. PICK rank \in Ranks : \A r \in Ranks : ~ (<<r, rank>> \in OpToRel(<, Nat))
  <2>. HIDE DEF Ranks
  <2>. QED  BY <1>2, NatLessThanWellFounded, WFMin
<1>4. \A r \in Ranks : ~ (r < rank)
  <2>. HIDE DEF Ranks
  <2>. QED  BY <1>2, <1>3 DEF OpToRel
<1>5. PICK t \in Idle \ Evictable : lastUsed[t] = rank
  OBVIOUS
<1>. DEFINE Older == {u \in Idle : lastUsed[u] < lastUsed[t]}
<1>6. Older \subseteq Evictable
  BY <1>4, <1>5
<1>7. Cardinality(Older) <= Cardinality(Evictable) /\ Cardinality(Older) \in Nat
  BY <1>6, CountsAre, FS_Subset, FS_CardinalityType
<1>8. ~ (Cardinality(Older) < Excess)
  BY <1>5 DEF Evictable
<1>9. Excess \in Int /\ Cardinality(Evictable) \in Nat
  BY CountsAre, LimitAssumption
<1>. HIDE DEF Older
<1>. QED  BY <1>7, <1>8, <1>9

\* A session that is not idle has a worker of its own, which is neither w, that
\* evicts, nor makes a session.
LEMMA DrivenFew ==
  ASSUME Sound, NEW w \in Workers, pc[w] = "evicting"
  PROVE  Cardinality(Owning \ Idle) + Cardinality(Making) + 1 <= Cardinality(Workers)
<1>. DEFINE Rest == Owning \ Idle
            Others == (Workers \ Making) \ {w}
            f == [t \in Rest |-> holder[t]]
<1>1. \A t \in Rest : t \in Trackers /\ id[t] # None /\ holder[t] \in Workers /\ holder[t] # None
  BY DEF Owning, Idle, Sound, NameType
<1>2. \A t \in Rest : tracker[holder[t]] = t
  BY <1>1 DEF Sound, AtHome
<1>3. \A t \in Rest : holder[t] \in Others
  <2>1. SUFFICES ASSUME NEW t \in Rest, pc[holder[t]] \in Without PROVE FALSE
    BY <1>1 DEF Making, Without
  <2>. QED  BY <1>1, <1>2, <2>1 DEF Sound, Own
<1>4. f \in Injection(Rest, Others)
  <2>1. f \in [Rest -> Others]
    BY <1>3
  <2>2. \A t, u \in Rest : f[t] = f[u] => t = u
    BY <1>2
  <2>. QED  BY <2>1, <2>2 DEF Injection, IsInjective
<1>5. /\ IsFiniteSet(Workers \ Making) /\ IsFiniteSet(Others)
      /\ Cardinality(Others) = Cardinality(Workers \ Making) - 1
      /\ Cardinality(Workers \ Making) = Cardinality(Workers) - Cardinality(Making)
  <2>1. w \in Workers \ Making
    BY DEF Making
  <2>2. Workers \intersect Making = Making
    BY DEF Making
  <2>3. IsFiniteSet(Workers \ Making)
        /\ Cardinality(Workers \ Making) = Cardinality(Workers) - Cardinality(Making)
    BY <2>2, NameAssumption, FS_Difference
  <2>. QED  BY <2>1, <2>3, FS_RemoveElement
<1>6. Cardinality(Rest) <= Cardinality(Others)
  <2>. HIDE DEF f, Rest, Others
  <2>. QED  BY <1>4, <1>5, FS_Injection
<1>7. Cardinality(Rest) \in Nat
  <2>1. Rest \in SUBSET Owning
    OBVIOUS
  <2>. QED  BY <2>1, CountsAre, FS_Subset, FS_CardinalityType
<1>. QED  BY <1>5, <1>6, <1>7, CountsAre

\* After an eviction there is room for w's session, or only those that are driven
\* are left.
LEMMA EvictBounded ==
  ASSUME Sound, CountType, NEW w \in Workers, Evict(w)
  PROVE  SessionsBounded'
<1>1. pc[w] = "evicting" /\ Owning' = Owning \ Evictable /\ Making' = Making \union {w} /\ w \notin Making
  <2>1. pc[w] = "evicting" /\ pc' = [pc EXCEPT ![w] = IF Evictable = {} THEN "creating" ELSE "destroying"]
        /\ id' = [t \in Trackers |-> IF t \in Evictable THEN None ELSE id[t]]
    BY DEF Evict
  <2>2. Making' = Making \union {w}
    BY <2>1 DEF Making, Sound, NameType
  <2>3. Owning' = Owning \ Evictable
    BY <2>1 DEF Owning
  <2>. QED  BY <2>1, <2>2, <2>3 DEF Making
<1>2. Cardinality(Making') = Cardinality(Making) + 1
  BY <1>1, CountsAre, FS_AddElement
<1>3. Cardinality(Owning \ Idle) + Cardinality(Making) + 1 <= Cardinality(Workers)
  BY <1>1, DrivenFew
<1>4. /\ Cardinality(Owning \ Idle) \in Nat /\ Cardinality(Owning') \in Nat
      /\ Cardinality(Owning') = Cardinality(Owning) - Cardinality(Evictable)
  <2>1. Owning \intersect Evictable = Evictable
    BY CountsAre
  <2>2. IsFiniteSet(Owning \ Evictable) /\ IsFiniteSet(Owning \ Idle)
        /\ Cardinality(Owning \ Evictable) = Cardinality(Owning) - Cardinality(Evictable)
    BY <2>1, CountsAre, FS_Difference
  <2>. QED  BY <1>1, <2>2, FS_CardinalityType
<1>5. Cardinality(Owning') + Cardinality(Making') <= MaxFlareSessions + Cardinality(Workers) - 1
  <2>1. CASE Evictable = Idle
    BY <1>1, <1>2, <1>3, <1>4, <2>1, CountsAre, LimitAssumption
  <2>2. CASE Evictable # Idle
    <3>1. Cardinality(Evictable) >= Excess
      <4>1. PICK spared \in Idle \ Evictable : TRUE
        BY <2>2, CountsAre
      <4>. QED  BY <4>1, EvictsEnough
    <3>. QED  BY <1>2, <1>3, <1>4, <3>1, CountsAre, LimitAssumption
  <2>. QED  BY <2>1, <2>2
<1>. QED  BY <1>5 DEF SessionsBounded, Owning, Making

\* Fewer have a session, and fewer make one.
LEMMA FewerBounded ==
  ASSUME SessionsBounded, Owning' \subseteq Owning, Making' \subseteq Making
  PROVE  SessionsBounded'
<1>1. /\ Cardinality(Owning') \in Nat /\ Cardinality(Owning') <= Cardinality(Owning)
      /\ Cardinality(Making') \in Nat /\ Cardinality(Making') <= Cardinality(Making)
  BY CountsAre, FS_Subset, FS_CardinalityType
<1>2. Cardinality(Owning) + Cardinality(Making) <= MaxFlareSessions + Cardinality(Workers) - 1
  BY DEF SessionsBounded, Owning, Making
<1>3. Cardinality(Owning') + Cardinality(Making') <= MaxFlareSessions + Cardinality(Workers) - 1
  BY <1>1, <1>2, CountsAre, LimitAssumption
<1>. QED  BY <1>3 DEF SessionsBounded, Owning, Making

\* The session a worker made is the tracker's, that had none.
LEMMA StoreBounded ==
  ASSUME Sound, SessionsBounded, NEW w \in Workers, StoreSession(w)
  PROVE  SessionsBounded'
<1>1. /\ pc[w] = "storing" /\ tracker[w] \in Trackers
      /\ \E p \in {"discarding", "asking"} : pc' = [pc EXCEPT ![w] = p]
      /\ \/ id' = id
         \/ id' = [id EXCEPT ![tracker[w]] = mine[w]]
  BY Occupied DEF StoreSession, Store
<1>2. Making' = Making \ {w} /\ w \in Making
  BY <1>1 DEF Making, Sound, NameType
<1>3. Owning' \subseteq Owning \union {tracker[w]}
  BY <1>1 DEF Owning, Sound, NameType
<1>4. /\ Cardinality(Making') = Cardinality(Making) - 1
      /\ Cardinality(Owning') \in Nat /\ Cardinality(Owning') <= Cardinality(Owning) + 1
  <2>. DEFINE own == tracker[w]
  <2>1. /\ IsFiniteSet(Owning \union {own})
        /\ Cardinality(Owning \union {own})
             = IF own \in Owning THEN Cardinality(Owning) ELSE Cardinality(Owning) + 1
    <3>. HIDE DEF own
    <3>. QED  BY CountsAre, FS_AddElement
  <2>2. /\ IsFiniteSet(Owning') /\ Cardinality(Owning') \in Nat
        /\ Cardinality(Owning') <= Cardinality(Owning \union {own})
    BY <1>3, <2>1, FS_Subset, FS_CardinalityType
  <2>3. Cardinality(Making') = Cardinality(Making) - 1
    BY <1>2, CountsAre, FS_RemoveElement
  <2>. QED  BY <2>1, <2>2, <2>3, CountsAre
<1>5. Cardinality(Owning) + Cardinality(Making) <= MaxFlareSessions + Cardinality(Workers) - 1
  BY DEF SessionsBounded, Owning, Making
<1>6. Cardinality(Owning') + Cardinality(Making') <= MaxFlareSessions + Cardinality(Workers) - 1
  BY <1>4, <1>5, CountsAre, LimitAssumption
<1>. QED  BY <1>6 DEF SessionsBounded, Owning, Making

LEMMA BoundedStep ==
  ASSUME Sound, CountType, SessionsBounded, [Next]_vars
  PROVE  SessionsBounded'
<1>. USE DEF jackletVars, remoteVars, workerVars
<1>1. ASSUME NEW w \in Workers, NEW p, pc' = [pc EXCEPT ![w] = p],
             p \in {"destroying", "creating", "storing"} => w \in Making,
             \A t \in Trackers : id'[t] \in {id[t], None}
      PROVE  SessionsBounded'
  <2>1. Owning' \subseteq Owning
    BY <1>1 DEF Owning
  <2>2. Making' \subseteq Making
    BY <1>1 DEF Making, Sound, NameType
  <2>. QED  BY <2>1, <2>2, FewerBounded
<1>2. ASSUME NEW w \in Workers, NEW how, pc[w] # "idle", Proceed(w, how), UNCHANGED id
      PROVE  SessionsBounded'
  <2>1. pc' = [pc EXCEPT ![w] = pc'[w]] /\ pc'[w] \in Away
    BY <1>2, ProceedsTo
  <2>2. pc'[w] \notin {"destroying", "creating", "storing"}
    BY <2>1 DEF Away
  <2>. QED  BY <1>1, <1>2, <2>1, <2>2
<1>3. ASSUME NEW w \in Workers,
             \/ \E t \in Trackers : Start(w, t)
             \/ MarkLoggedIn(w) \/ Distrust(w) \/ Enter(w) \/ GiveUp(w) \/ TakeSlot(w)
      PROVE  SessionsBounded'
  <2>1. CASE \/ \E t \in Trackers : Start(w, t)
             \/ MarkLoggedIn(w) \/ Distrust(w) \/ TakeSlot(w)
    <3>1. UNCHANGED id /\ \E p \in Away \union {"reading"} : pc' = [pc EXCEPT ![w] = p]
      BY <2>1 DEF Start, MarkLoggedIn, Distrust, TakeSlot, Away
    <3>. QED  BY <1>1, <3>1 DEF Away
  <2>2. CASE Enter(w) \/ GiveUp(w)
    BY <1>1, <1>2, <2>2 DEF Enter, GiveUp
  <2>. QED  BY <1>3, <2>1, <2>2
<1>4. ASSUME NEW w \in Workers,
             \/ ReadSession(w) \/ VerifySession(w) \/ ForgetLost(w) \/ DestroyRetired(w)
             \/ CreateSession(w) \/ CreateFails(w) \/ Discard(w) \/ Disown(w)
      PROVE  SessionsBounded'
  <2>1. CASE ReadSession(w) \/ CreateFails(w) \/ Discard(w) \/ Disown(w)
    BY <1>1, <1>2, <2>1 DEF ReadSession, CreateFails, Discard, Disown, Leave
  <2>2. CASE VerifySession(w)
    BY <1>1, <2>2 DEF VerifySession, Reset, Sound, NameType
  <2>3. CASE ForgetLost(w) \/ DestroyRetired(w)
    BY <1>1, <2>3 DEF ForgetLost, DestroyRetired
  <2>4. CASE CreateSession(w)
    <3>1. w \in Making /\ pc' = [pc EXCEPT ![w] = "storing"] /\ UNCHANGED id
      BY <2>4 DEF CreateSession, Making
    <3>. QED  BY <1>1, <3>1
  <2>. QED  BY <1>4, <2>1, <2>2, <2>3, <2>4
<1>5. ASSUME NEW w \in Workers, NEW v \in victims[w], DestroyVictim(w, v) \/ ForgetVictim(w, v)
      PROVE  SessionsBounded'
  <2>1. UNCHANGED id /\ w \in Making /\ \E p \in {"destroying", "creating"} : pc' = [pc EXCEPT ![w] = p]
    BY <1>5 DEF DestroyVictim, ForgetVictim, Making, Sound, NameType
  <2>. QED  BY <1>1, <2>1
<1>6. ASSUME NEW w \in Workers,
             Send(w) \/ Cancel(w) \/ Failed(w) \/ Blocked(w) \/ Retire(w)
               \/ \E how \in {"good", "failed"} : Answered(w, how)
      PROVE  SessionsBounded'
  <2>1. CASE Send(w) \/ Cancel(w)
    BY <1>1, <2>1 DEF Send, Cancel, Canceled
  <2>2. CASE Failed(w) \/ Blocked(w) \/ \E how \in {"good", "failed"} : Answered(w, how)
    BY <1>1, <1>2, <2>2 DEF Failed, Blocked, Answered, Leave
  <2>3. CASE Retire(w)
    <3>1. CASE id[tracker[w]] = mine[w]
      BY <1>1, <2>3, <3>1 DEF Retire, Reset, Sound, NameType
    <3>2. CASE id[tracker[w]] # mine[w]
      BY <1>2, <2>3, <3>2 DEF Retire, Reset, Leave
    <3>. QED  BY <3>1, <3>2
  <2>. QED  BY <1>6, <2>1, <2>2, <2>3
<1>7. CASE \/ Close \/ \E s \in closing : CloseDestroys(s)
           \/ \E t \in Trackers : LoginLapses(t)
           \/ \E s \in busy : TabFinishes(s)
           \/ Restart \/ UNCHANGED vars
  <2>1. UNCHANGED pc /\ \A t \in Trackers : id'[t] \in {id[t], None}
    BY <1>7 DEF Close, CloseDestroys, LoginLapses, TabFinishes, Restart, vars
  <2>2. Owning' \subseteq Owning /\ Making' \subseteq Making
    BY <2>1 DEF Owning, Making
  <2>. QED  BY <2>2, FewerBounded
<1>. QED  BY <1>3, <1>4, <1>5, <1>6, <1>7, EvictBounded, StoreBounded DEF Next

\* However many workers evict, make and store sessions at once, fewer are above the
\* limit than there are workers (evictIdleFlareSolverrSessions).
THEOREM SessionsBoundedAlways == Spec => []SessionsBounded
<1>1. Init => SessionsBounded
  <2>. SUFFICES ASSUME Init PROVE SessionsBounded
    OBVIOUS
  <2>1. Owning = {} /\ Making = {}
    BY DEF Init, Owning, Making
  <2>2. Cardinality(Owning) = 0 /\ Cardinality(Making) = 0 /\ Cardinality(Workers) \in Nat
    BY <2>1, CountsAre, FS_EmptySet
  <2>3. Cardinality(Owning) + Cardinality(Making) <= MaxFlareSessions + Cardinality(Workers) - 1
    BY <2>2, LimitAssumption
  <2>. QED  BY <2>3 DEF SessionsBounded, Owning, Making
<1>2. Sound /\ CountType /\ SessionsBounded /\ [Next]_vars => SessionsBounded'
  BY BoundedStep
<1>. QED  BY <1>1, <1>2, CountAlways, PTL DEF Spec

=============================================================================
