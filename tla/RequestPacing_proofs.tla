------------------------- MODULE RequestPacing_proofs -------------------------
(***************************************************************************)
(* Proofs about RequestPacing, for any scrapes, any definitions and any    *)
(* gap: the verdict a scrape ends with (Verdicts), and the line its        *)
(* requests stand in (Line).                                               *)
(*                                                                         *)
(* Verdicts follows a scrape through its mirrors: a mirror given up leaves *)
(* an error (so the last one cannot leave none), the paths passed without  *)
(* an error or an answer are exactly the skipped ones, and a failure of    *)
(* the tracker is in an error that is kept.  EveryScrapeEnds is left to    *)
(* TLC.                                                                    *)
(***************************************************************************)
EXTENDS RequestPacing, TLAPS

\* What is noted of a request that failed.
Notes == {"test", "queue", "tracker"}

VerdictType ==
  /\ def \in Definitions
  /\ stage \in [Scrapes -> {"idle", "mirror", "perform", "paths"} \union RequestStages \union Ended]
  /\ mirror \in [Scrapes -> Nat \ {0}] /\ path \in [Scrapes -> Nat]
  /\ mirrorErr \in [Scrapes -> Errors] /\ lastErr \in [Scrapes -> Errors]
  /\ pathsOK \in [Scrapes -> BOOLEAN] /\ skipped \in [Scrapes -> Nat]
  /\ requested \in [Scrapes -> SUBSET STRING] /\ failed \in [Scrapes -> SUBSET Notes]

\* Before a path of the mirror is asked, and between two of them.
Between == {"test", "perform", "page", "submit", "verify", "paths"}

\* The mirrors given up left an error.
ErrorKept(s) ==
  /\ mirror[s] > 1 => lastErr[s] # Fine
  /\ stage[s] = "unreachable" => lastErr[s] # Fine

\* The paths passed so far were answered, failed, or were skipped.
PathsCounted(s) ==
  /\ stage[s] \in Between =>
       /\ path[s] \in 1 .. Len(def.paths[s]) + 1
       /\ pathsOK[s] \/ mirrorErr[s] # Fine \/ (skipped[s] = path[s] - 1 /\ requested[s] = {})
  /\ stage[s] = "search" => path[s] \in 1 .. Len(def.paths[s])
  /\ stage[s] = "answered" => pathsOK[s] \/ IsNotAsked(s)

\* A failure of the tracker is in the scrape's error, or in the mirror's, which
\* becomes part of it.
FailureKept(s) ==
  "tracker" \in failed[s] =>
    \/ lastErr[s] = "tracker"
    \/ mirrorErr[s] = "tracker" /\ stage[s] \in {"paths", "search"}
    \/ stage[s] = "answered"

Judged(s) == ErrorKept(s) /\ PathsCounted(s) /\ FailureKept(s)

Verdicts == VerdictType /\ \A s \in Scrapes : Judged(s)

\* The line: the turn is held by the request that sleeps in it or is out.
LineType ==
  /\ since \in 0 .. Gap /\ quiet = since /\ turn \in Scrapes \union {Nobody}
  /\ request \in [Scrapes -> {"none", "queued", "sleeping", "asking"}]
  /\ isOver \in [Scrapes -> BOOLEAN] /\ late \in [Scrapes -> 0 .. 1]

TurnHeld == \A s \in Scrapes : request[s] \in {"sleeping", "asking"} <=> turn = s

\* A scrape that was given up stands in line once more at most.
LateOnce ==
  \A s \in Scrapes :
    /\ late[s] = 1 => isOver[s] /\ request[s] \notin {"queued", "sleeping"}
    /\ request[s] # "none" => stage[s] \in RequestStages

Line == LineType /\ TurnHeld /\ LateOnce

-----------------------------------------------------------------------------
(***************************************************************************)
(* The verdict.                                                            *)
(***************************************************************************)

LEMMA Kept ==
  ASSUME NEW kept \in Errors, NEW err \in {"queue", "tracker"}
  PROVE  /\ TrackerError(kept, err) \in Errors \ {Fine}
         /\ kept = "tracker" \/ err = "tracker" => TrackerError(kept, err) = "tracker"
BY DEF TrackerError, Errors, Fine

LEMMA PathsOf ==
  ASSUME VerdictType, NEW s \in Scrapes
  PROVE  Len(def.paths[s]) \in Nat /\ Len(def.paths[s]) >= 1
<1>1. def.paths[s] \in Seq(STRING) /\ def.paths[s] # <<>>
  BY PacingAssumption DEF VerdictType
<1>. QED  BY <1>1

\* A step of one scrape leaves the others' verdicts.
LEMMA OneJudged ==
  ASSUME Verdicts, VerdictType', def' = def, NEW s \in Scrapes, Judged(s)',
         \A o \in Scrapes \ {s} :
           /\ stage'[o] = stage[o] /\ mirror'[o] = mirror[o] /\ path'[o] = path[o]
           /\ mirrorErr'[o] = mirrorErr[o] /\ lastErr'[o] = lastErr[o]
           /\ pathsOK'[o] = pathsOK[o] /\ skipped'[o] = skipped[o]
           /\ requested'[o] = requested[o] /\ failed'[o] = failed[o]
  PROVE  Verdicts'
<1>1. ASSUME NEW o \in Scrapes \ {s} PROVE Judged(o)'
  BY DEF Verdicts, Judged, ErrorKept, PathsCounted, FailureKept, IsNotAsked
<1>. QED  BY <1>1 DEF Verdicts

\* Nothing a verdict is made of has changed.
LEMMA JudgedAsBefore ==
  ASSUME Verdicts, UNCHANGED <<def, stage, progress, failed>>
  PROVE  Verdicts'
BY DEF Verdicts, VerdictType, Judged, ErrorKept, PathsCounted, FailureKept, IsNotAsked, progress

\* A mirror is given up with an error, noted or the mirror's.
LEMMA MirrorGivenUp ==
  ASSUME Verdicts, NEW s \in Scrapes, NEW err \in {"queue", "tracker"},
         stage[s] \in {"mirror", "perform", "page", "submit", "verify", "paths"},
         stage[s] = "paths" => err = mirrorErr[s] /\ failed' = failed,
         stage[s] # "paths" => Noted(s, err),
         NextMirror(s, err), UNCHANGED <<def, path, mirrorErr, pathsOK, skipped>>,
         requested' = requested
  PROVE  Verdicts'
<1>. USE DEF NextMirror, GoTo, Noted, Fine, Errors
<1>1. /\ err # Fine /\ TrackerError(lastErr[s], err) \in Errors \ {Fine}
      /\ lastErr[s] = "tracker" \/ err = "tracker" => TrackerError(lastErr[s], err) = "tracker"
  BY Kept DEF Verdicts, VerdictType
<1>. HIDE DEF Errors
<1>2. lastErr' = [lastErr EXCEPT ![s] = TrackerError(lastErr[s], err)]
  BY <1>1
<1>3. failed' \in [Scrapes -> SUBSET Notes] /\ failed'[s] \subseteq failed[s] \union {err}
      /\ \A o \in Scrapes \ {s} : failed'[o] = failed[o]
  <2>1. failed \in [Scrapes -> SUBSET Notes] /\ err \in Notes
    BY DEF Verdicts, VerdictType, Notes
  <2>2. failed' = failed \/ failed' = [failed EXCEPT ![s] = @ \union ({err} \ {Fine})]
    BY DEF Verdicts, VerdictType
  <2>. QED  BY <2>1, <2>2
<1>4. VerdictType'
  <2>1. VerdictType /\ stage' = [stage EXCEPT ![s] = "mirror"] /\ mirror' = [mirror EXCEPT ![s] = @ + 1]
    BY DEF Verdicts
  <2>2. stage' \in [Scrapes -> {"idle", "mirror", "perform", "paths"} \union RequestStages \union Ended]
    BY <2>1 DEF VerdictType
  <2>3. mirror' \in [Scrapes -> Nat \ {0}]
    BY <2>1 DEF VerdictType
  <2>4. lastErr' \in [Scrapes -> Errors]
    BY <1>1, <1>2, <2>1 DEF VerdictType
  <2>. QED  BY <1>3, <2>1, <2>2, <2>3, <2>4 DEF VerdictType
<1>5. stage'[s] = "mirror" /\ lastErr'[s] = TrackerError(lastErr[s], err) /\ mirrorErr'[s] = mirrorErr[s]
  BY <1>2 DEF Verdicts, VerdictType
<1>6. Judged(s)'
  <2>1. ErrorKept(s)' /\ PathsCounted(s)'
    BY <1>1, <1>5 DEF ErrorKept, PathsCounted, Between
  <2>2. FailureKept(s)'
    BY <1>1, <1>3, <1>5 DEF Verdicts, Judged, FailureKept
  <2>. QED  BY <2>1, <2>2 DEF Judged
<1>. QED
  BY <1>2, <1>3, <1>4, <1>6, OneJudged DEF Verdicts, VerdictType

\* A step within a mirror that asks for nothing and fails nothing.
LEMMA WithinMirror ==
  ASSUME Verdicts, NEW s \in Scrapes, NEW to \in Between, GoTo(s, to),
         stage[s] \in Between \ {"paths"}, UNCHANGED <<def, progress, failed>>
  PROVE  Verdicts'
<1>. USE DEF GoTo, progress, Between
<1>1. VerdictType'
  BY DEF Verdicts, VerdictType, RequestStages
<1>2. Judged(s)'
  BY DEF Verdicts, VerdictType, Judged, ErrorKept, PathsCounted, FailureKept
<1>. QED
  BY <1>1, <1>2, OneJudged DEF Verdicts, VerdictType

LEMMA BeginJudged == ASSUME Verdicts, NEW s \in Scrapes, Begin(s) PROVE Verdicts'
<1>. USE DEF Begin, GoTo, progress
<1>1. VerdictType'
  BY DEF Verdicts, VerdictType
<1>2. Judged(s)'
  BY DEF Verdicts, VerdictType, Judged, ErrorKept, PathsCounted, FailureKept, Between
<1>. QED
  BY <1>1, <1>2, OneJudged DEF Verdicts, VerdictType

LEMMA StartMirrorJudged == ASSUME Verdicts, NEW s \in Scrapes, StartMirror(s) PROVE Verdicts'
<1>1. CASE mirror[s] > def.mirrors
  <2>0. mirror[s] \in Nat /\ def.mirrors \in Nat
    BY PacingAssumption DEF Verdicts, VerdictType
  <2>1. GoTo(s, "unreachable") /\ UNCHANGED <<def, progress, failed>>
    BY <1>1, <2>0 DEF StartMirror
  <2>2. mirror[s] > 1
    BY <1>1, PacingAssumption DEF Verdicts, VerdictType
  <2>3. VerdictType'
    BY <2>1 DEF Verdicts, VerdictType, GoTo, progress, Ended
  <2>4. Judged(s)'
    BY <1>1, <2>1, <2>2 DEF StartMirror, Verdicts, VerdictType, Judged, ErrorKept, PathsCounted, FailureKept, Between,
                            GoTo, progress
  <2>. QED  BY <2>1, <2>3, <2>4, OneJudged DEF Verdicts, VerdictType, GoTo, progress
<1>2. CASE mirror[s] <= def.mirrors /\ def.method = "captcha"
  <2>1. /\ NextMirror(s, "tracker") /\ Noted(s, "tracker") /\ stage[s] = "mirror"
        /\ UNCHANGED <<def, path, mirrorErr, pathsOK, skipped, requested>>
    BY <1>2, PacingAssumption DEF StartMirror, Verdicts, VerdictType
  <2>. QED  BY <2>1, MirrorGivenUp
<1>3. CASE mirror[s] <= def.mirrors /\ def.method # "captcha"
  <2>. DEFINE to == IF def.method = "none" \/ fresh THEN "paths"
                    ELSE IF def.isTested THEN "test" ELSE "perform"
  <2>1. /\ stage[s] = "mirror" /\ stage' = [stage EXCEPT ![s] = to]
        /\ path' = [path EXCEPT ![s] = 1] /\ mirrorErr' = [mirrorErr EXCEPT ![s] = Fine]
        /\ pathsOK' = [pathsOK EXCEPT ![s] = FALSE] /\ skipped' = [skipped EXCEPT ![s] = 0]
        /\ requested' = [requested EXCEPT ![s] = {}]
        /\ UNCHANGED <<def, mirror, lastErr, failed>>
    BY <1>3, PacingAssumption DEF StartMirror, GoTo, Verdicts, VerdictType
  <2>2. to \in {"paths", "test", "perform"}
    OBVIOUS
  <2>3. VerdictType'
    BY <2>1, <2>2 DEF Verdicts, VerdictType, RequestStages, Errors, Fine, to
  <2>. HIDE DEF to
  <2>5. Len(def.paths[s]) \in Nat
    BY PathsOf DEF Verdicts
  <2>4. Judged(s)'
    <3>1. ErrorKept(s)'
      BY <2>1, <2>2 DEF Verdicts, VerdictType, Judged, ErrorKept
    <3>2. /\ path'[s] = 1 /\ skipped'[s] = 0 /\ requested'[s] = {} /\ stage'[s] = to
          /\ Len(def'.paths[s]) \in Nat
      BY <2>1, <2>5 DEF Verdicts, VerdictType
    <3>3. PathsCounted(s)'
      BY <2>2, <3>2 DEF PathsCounted, Between
    <3>4. FailureKept(s)'
      BY <2>1, <2>2 DEF Verdicts, VerdictType, Judged, FailureKept
    <3>. QED  BY <3>1, <3>3, <3>4 DEF Judged
  <2>. QED  BY <2>1, <2>3, <2>4, OneJudged DEF Verdicts, VerdictType
<1>. QED  BY <1>1, <1>2, <1>3 DEF StartMirror

\* The credentials are in.
LEMMA SubmittedJudged ==
  ASSUME Verdicts, NEW s \in Scrapes, Submitted(s), stage[s] \in {"perform", "submit"},
         UNCHANGED <<def, progress, failed>>
  PROVE  Verdicts'
BY WithinMirror DEF Submitted, Between

LEMMA PerformLoginJudged == ASSUME Verdicts, NEW s \in Scrapes, PerformLogin(s) PROVE Verdicts'
<1>. USE DEF PerformLogin
<1>1. CASE ~def.isReady
  BY <1>1, MirrorGivenUp
<1>2. CASE def.isReady /\ def.method = "cookie"
  BY <1>2, SubmittedJudged DEF progress
<1>3. CASE def.isReady /\ def.method # "cookie"
  BY <1>3, WithinMirror DEF Between, progress
<1>. QED  BY <1>1, <1>2, <1>3

LEMMA NextPathJudged == ASSUME Verdicts, NEW s \in Scrapes, NextPath(s) PROVE Verdicts'
<1>. DEFINE p == def.paths[s][path[s]]
<1>0. /\ stage[s] = "paths" /\ path[s] \in 1 .. Len(def.paths[s]) /\ Len(def.paths[s]) \in Nat
      /\ p \in STRING /\ def' = def
  <2>1. def.paths[s] \in Seq(STRING)
    BY PacingAssumption DEF Verdicts, VerdictType
  <2>2. path[s] \in 1 .. Len(def.paths[s])
    BY <2>1, PathsOf DEF NextPath, Verdicts, VerdictType, Judged, PathsCounted, Between
  <2>. QED  BY <2>1, <2>2 DEF NextPath
<1>1. CASE p \in {"skip", "broken"} \union requested[s]
  <2>1. /\ path' = [path EXCEPT ![s] = @ + 1]
        /\ skipped' = [skipped EXCEPT ![s] = IF p = "skip" THEN @ + 1 ELSE @]
        /\ mirrorErr' = [mirrorErr EXCEPT ![s] = IF p = "broken" THEN "tracker" ELSE @]
        /\ failed' = [failed EXCEPT ![s] = @ \union ({IF p = "broken" THEN "tracker" ELSE Fine} \ {Fine})]
        /\ UNCHANGED <<stage, requested, mirror, lastErr, pathsOK>>
    BY <1>1 DEF NextPath, Noted
  <2>. HIDE DEF p
  <2>2. VerdictType'
    BY <1>0, <2>1 DEF Verdicts, VerdictType, Errors, Fine, Notes
  <2>3. ErrorKept(s)' /\ PathsCounted(s)'
    BY <1>0, <1>1, <2>1 DEF Verdicts, VerdictType, Judged, ErrorKept, PathsCounted, Between, Fine
  <2>4. FailureKept(s)'
    BY <1>0, <2>1 DEF Verdicts, VerdictType, Judged, FailureKept, Fine
  <2>. QED  BY <1>0, <2>1, <2>2, <2>3, <2>4, OneJudged DEF Judged, Verdicts, VerdictType
<1>2. CASE p \notin {"skip", "broken"} \union requested[s]
  <2>1. /\ stage' = [stage EXCEPT ![s] = "search"]
        /\ requested' = [requested EXCEPT ![s] = @ \union {p}]
        /\ UNCHANGED <<path, skipped, mirrorErr, failed, mirror, lastErr, pathsOK>>
    BY <1>2 DEF NextPath, GoTo
  <2>. HIDE DEF p
  <2>2. VerdictType'
    BY <1>0, <2>1 DEF Verdicts, VerdictType, RequestStages
  <2>3. ErrorKept(s)' /\ PathsCounted(s)' /\ FailureKept(s)'
    BY <1>0, <2>1 DEF Verdicts, VerdictType, Judged, ErrorKept, PathsCounted, FailureKept, Between
  <2>. QED  BY <1>0, <2>1, <2>2, <2>3, OneJudged DEF Judged, Verdicts, VerdictType
<1>. QED  BY <1>1, <1>2

LEMMA EndMirrorJudged == ASSUME Verdicts, NEW s \in Scrapes, EndMirror(s) PROVE Verdicts'
<1>0. /\ stage[s] = "paths" /\ path[s] = Len(def.paths[s]) + 1 /\ Len(def.paths[s]) \in Nat
      /\ UNCHANGED <<def, path, mirrorErr, pathsOK, skipped, requested, failed>>
  <2>1. Len(def.paths[s]) \in Nat
    BY PathsOf DEF Verdicts
  <2>2. stage[s] = "paths" => path[s] \in 1 .. Len(def.paths[s]) + 1
    BY DEF Verdicts, Judged, PathsCounted, Between
  <2>. QED  BY <2>1, <2>2 DEF EndMirror
<1>1. CASE pathsOK[s] \/ IsNotAsked(s)
  <2>1. GoTo(s, "answered") /\ UNCHANGED <<mirror, lastErr>>
    BY <1>1 DEF EndMirror
  <2>2. VerdictType'
    BY <1>0, <2>1 DEF Verdicts, VerdictType, GoTo, Ended
  <2>3. Judged(s)'
    BY <1>0, <1>1, <2>1 DEF Verdicts, VerdictType, Judged, ErrorKept, PathsCounted, FailureKept, Between,
                            GoTo, IsNotAsked
  <2>. QED  BY <1>0, <2>1, <2>2, <2>3, OneJudged DEF Verdicts, VerdictType, GoTo
<1>2. CASE ~pathsOK[s] /\ ~IsNotAsked(s)
  <2>1. mirrorErr[s] \in {"queue", "tracker"}
    BY <1>0, <1>2 DEF Verdicts, VerdictType, Judged, PathsCounted, Between, IsNotAsked, Errors, Fine
  <2>. QED  BY <1>0, <1>2, <2>1, MirrorGivenUp DEF EndMirror
<1>. QED  BY <1>1, <1>2

\* A request fails, of the tracker or of Jacklet's own queue.
LEMMA FailedJudged ==
  ASSUME Verdicts, NEW s \in Scrapes, NEW err \in {"queue", "tracker"}, Failed(s, err),
         stage[s] \in RequestStages, def' = def
  PROVE  Verdicts'
<1>1. CASE stage[s] = "test"
  <2>1. /\ stage' = [stage EXCEPT ![s] = "perform"] /\ UNCHANGED progress
        /\ failed' \in [Scrapes -> SUBSET Notes] /\ \A o \in Scrapes \ {s} : failed'[o] = failed[o]
        /\ "tracker" \in failed'[s] => "tracker" \in failed[s]
    <3>1. /\ stage' = [stage EXCEPT ![s] = "perform"] /\ UNCHANGED progress
          /\ Noted(s, IF err = "tracker" THEN "test" ELSE err)
      BY <1>1 DEF Failed, GoTo
    <3>2. PICK note \in {"test", "queue"} : failed' = [failed EXCEPT ![s] = @ \union ({note} \ {Fine})]
      BY <3>1 DEF Noted
    <3>. QED  BY <3>1, <3>2 DEF Verdicts, VerdictType, Notes
  <2>2. VerdictType'
    BY <2>1 DEF Verdicts, VerdictType, progress
  <2>3. Judged(s)'
    BY <1>1, <2>1 DEF Verdicts, VerdictType, Judged, ErrorKept, PathsCounted, FailureKept, Between, progress
  <2>. QED  BY <2>1, <2>2, <2>3, OneJudged DEF Verdicts, VerdictType, progress
<1>2. CASE stage[s] = "search"
  <2>1. /\ stage' = [stage EXCEPT ![s] = "paths"]
        /\ path' = [path EXCEPT ![s] = @ + 1]
        /\ mirrorErr' = [mirrorErr EXCEPT ![s] = TrackerError(mirrorErr[s], err)]
        /\ UNCHANGED <<mirror, lastErr, pathsOK, skipped, requested>>
        /\ failed' = [failed EXCEPT ![s] = @ \union ({err} \ {Fine})]
    BY <1>2 DEF Failed, GoTo, Noted
  <2>2. /\ TrackerError(mirrorErr[s], err) \in Errors \ {Fine}
        /\ mirrorErr[s] = "tracker" \/ err = "tracker" => TrackerError(mirrorErr[s], err) = "tracker"
    BY Kept DEF Verdicts, VerdictType
  <2>3. VerdictType'
    BY <2>1, <2>2 DEF Verdicts, VerdictType, Notes
  <2>4. Len(def.paths[s]) \in Nat
    BY PathsOf DEF Verdicts
  <2>5. ErrorKept(s)' /\ PathsCounted(s)'
    BY <1>2, <2>1, <2>2, <2>4 DEF Verdicts, VerdictType, Judged, ErrorKept, PathsCounted, Between
  <2>6. FailureKept(s)'
    BY <1>2, <2>1, <2>2 DEF Verdicts, VerdictType, Judged, FailureKept
  <2>. QED  BY <2>1, <2>3, <2>5, <2>6, OneJudged DEF Judged, Verdicts, VerdictType
<1>3. CASE stage[s] \in {"page", "submit", "verify"}
  <2>1. /\ NextMirror(s, err) /\ Noted(s, err)
        /\ UNCHANGED <<path, mirrorErr, pathsOK, skipped, requested>>
    BY <1>3 DEF Failed
  <2>. QED  BY <1>3, <2>1, MirrorGivenUp
<1>. QED  BY <1>1, <1>2, <1>3 DEF RequestStages

\* A request is answered.
LEMMA SucceededJudged ==
  ASSUME Verdicts, NEW s \in Scrapes, Succeeded(s), stage[s] \in RequestStages, def' = def
  PROVE  Verdicts'
<1>1. CASE stage[s] = "page"
  BY <1>1, WithinMirror DEF Succeeded, Between, progress
<1>2. CASE stage[s] = "submit"
  BY <1>2, SubmittedJudged DEF Succeeded, progress
<1>3. CASE stage[s] = "search"
  <2>1. /\ stage' = [stage EXCEPT ![s] = "paths"]
        /\ path' = [path EXCEPT ![s] = @ + 1]
        /\ pathsOK' = [pathsOK EXCEPT ![s] = TRUE]
        /\ UNCHANGED <<mirror, lastErr, failed, mirrorErr, skipped, requested>>
    BY <1>3 DEF Succeeded, GoTo
  <2>2. VerdictType'
    BY <2>1 DEF Verdicts, VerdictType
  <2>3. Len(def.paths[s]) \in Nat
    BY PathsOf DEF Verdicts
  <2>4. Judged(s)'
    BY <1>3, <2>1, <2>3 DEF Verdicts, VerdictType, Judged, ErrorKept, PathsCounted, FailureKept, Between
  <2>. QED  BY <2>1, <2>2, <2>4, OneJudged DEF Verdicts, VerdictType
<1>4. CASE stage[s] \in {"test", "verify"}
  <2>1. CASE GoTo(s, "paths") /\ UNCHANGED <<path, pathsOK, mirror, lastErr, failed>>
    BY <1>4, <2>1, WithinMirror DEF Succeeded, Between, progress
  <2>2. CASE ~(GoTo(s, "paths") /\ UNCHANGED <<path, pathsOK, mirror, lastErr, failed>>)
    <3>1. CASE stage[s] = "test"
      BY <2>2, <3>1, WithinMirror DEF Succeeded, Between, progress
    <3>2. CASE stage[s] = "verify"
      <4>1. /\ NextMirror(s, "tracker") /\ Noted(s, "tracker")
            /\ UNCHANGED <<path, pathsOK, mirrorErr, skipped, requested>>
        BY <2>2, <3>2 DEF Succeeded
      <4>. QED  BY <3>2, <4>1, MirrorGivenUp
    <3>. QED  BY <1>4, <3>1, <3>2
  <2>. QED  BY <2>1, <2>2
<1>. QED  BY <1>1, <1>2, <1>3, <1>4 DEF RequestStages

\* Every step of a scrape keeps the account of its verdict.
LEMMA VerdictsStep == ASSUME Verdicts, Line, [PacingNext]_pacingVars PROVE Verdicts'
<1>1. ASSUME NEW s \in Scrapes, Begin(s) PROVE Verdicts'
  BY <1>1, BeginJudged
<1>2. ASSUME NEW s \in Scrapes, StartMirror(s) PROVE Verdicts'
  BY <1>2, StartMirrorJudged
<1>3. ASSUME NEW s \in Scrapes, PerformLogin(s) PROVE Verdicts'
  BY <1>3, PerformLoginJudged
<1>4. ASSUME NEW s \in Scrapes, NextPath(s) PROVE Verdicts'
  BY <1>4, NextPathJudged
<1>5. ASSUME NEW s \in Scrapes, EndMirror(s) PROVE Verdicts'
  BY <1>5, EndMirrorJudged
<1>6. ASSUME NEW s \in Scrapes, Join(s) PROVE Verdicts'
  BY <1>6, FailedJudged, JudgedAsBefore DEF Join
<1>7. ASSUME NEW s \in Scrapes, Wake(s) PROVE Verdicts'
  BY <1>7, JudgedAsBefore DEF Wake
<1>8. ASSUME NEW s \in Scrapes, LeaveLine(s) PROVE Verdicts'
  <2>1. stage[s] \in RequestStages
    BY <1>8 DEF LeaveLine, Line, LateOnce
  <2>. QED  BY <1>8, <2>1, FailedJudged DEF LeaveLine
<1>9. ASSUME NEW s \in Scrapes, Answered(s) PROVE Verdicts'
  <2>1. stage[s] \in RequestStages /\ def' = def
    BY <1>9 DEF Answered, Line, LateOnce
  <2>2. CASE Succeeded(s) \/ Failed(s, "tracker") \/ Failed(s, "queue")
    BY <2>1, <2>2, SucceededJudged, FailedJudged
  <2>3. CASE ~(Succeeded(s) \/ Failed(s, "tracker") \/ Failed(s, "queue"))
    <3>1. /\ stage' = [stage EXCEPT ![s] = "unreachable"]
          /\ failed' = [failed EXCEPT ![s] = @ \union ({"tracker"} \ {Fine})]
          /\ lastErr' = [lastErr EXCEPT ![s] = "tracker"]
          /\ UNCHANGED <<mirror, path, mirrorErr, pathsOK, skipped, requested>>
      BY <1>9, <2>3 DEF Answered, GoTo, Noted
    <3>2. VerdictType'
      BY <2>1, <3>1 DEF Verdicts, VerdictType, Ended, Errors, Notes
    <3>3. Judged(s)'
      BY <3>1 DEF Verdicts, VerdictType, Judged, ErrorKept, PathsCounted, FailureKept, Between, Fine
    <3>. QED  BY <2>1, <3>1, <3>2, <3>3, OneJudged DEF Verdicts, VerdictType
  <2>. QED  BY <2>2, <2>3
<1>10. ASSUME NEW s \in Scrapes, TakeTurn(s) PROVE Verdicts'
  BY <1>10, JudgedAsBefore DEF TakeTurn
<1>11. ASSUME NEW s \in Scrapes, Expire(s) PROVE Verdicts'
  BY <1>11, JudgedAsBefore DEF Expire
<1>12. CASE PacingTick
  BY <1>12, JudgedAsBefore DEF PacingTick
<1>13. CASE UNCHANGED pacingVars
  BY <1>13, JudgedAsBefore DEF pacingVars
<1>. QED
  BY <1>1, <1>2, <1>3, <1>4, <1>5, <1>6, <1>7, <1>8, <1>9, <1>10, <1>11, <1>12, <1>13
  DEF PacingNext, Proceeds
-----------------------------------------------------------------------------
(***************************************************************************)
(* The line.                                                               *)
(***************************************************************************)

\* A request that ends is in line no more, and has a stage to be in before it.
LEMMA EndsRequest ==
  ASSUME Line, Verdicts, NEW s \in Scrapes, NEW err \in {"queue", "tracker"},
         Failed(s, err) \/ Succeeded(s), stage[s] \in RequestStages
  PROVE  /\ request' = [request EXCEPT ![s] = "none"]
         /\ \A o \in Scrapes \ {s} : stage'[o] = stage[o]
BY DEF Failed, Succeeded, Submitted, NextMirror, GoTo, Verdicts, VerdictType, RequestStages

\* The line is as it was, but that s has left it, or never stood in it.
LEMMA LeavesLine ==
  ASSUME Line, NEW s \in Scrapes, request' = [request EXCEPT ![s] = "none"],
         turn' = LeftLine(s), \A o \in Scrapes \ {s} : stage'[o] = stage[o],
         UNCHANGED <<late, isOver>>, since' \in 0 .. Gap, quiet' = since'
  PROVE  Line'
BY PacingAssumption DEF Line, LineType, TurnHeld, LateOnce, LeftLine

\* Steps between requests.
LEMMA OutsideLine ==
  ASSUME Line, NEW s \in Scrapes, request[s] = "none",
         \A o \in Scrapes \ {s} : stage'[o] = stage[o], UNCHANGED <<request, lineVars, isOver>>
  PROVE  Line'
BY DEF Line, LineType, TurnHeld, LateOnce, lineVars

LEMMA BetweenRequests ==
  ASSUME Line, Verdicts, NEW s \in Scrapes,
         Begin(s) \/ StartMirror(s) \/ PerformLogin(s) \/ NextPath(s) \/ EndMirror(s)
  PROVE  Line'
<1>1. stage[s] \notin RequestStages
  BY DEF Begin, StartMirror, PerformLogin, NextPath, EndMirror, RequestStages
<1>2. request[s] = "none" /\ UNCHANGED <<request, lineVars, isOver>>
  BY <1>1 DEF Begin, StartMirror, PerformLogin, NextPath, EndMirror, Line, LineType, LateOnce
<1>3. \A o \in Scrapes \ {s} : stage'[o] = stage[o]
  BY DEF Begin, StartMirror, PerformLogin, NextPath, EndMirror, Submitted, NextMirror, GoTo,
         Verdicts, VerdictType
<1>. QED  BY <1>2, <1>3, OutsideLine

\* A request goes out when its scrape has the turn and the gap has passed, and once
\* more at most after the scrape was given up.
LEMMA AskInLine ==
  ASSUME Line, NEW s \in Scrapes, Ask(s), request[s] \in {"queued", "sleeping"}, since = Gap,
         turn' = s, turn \in {s, Nobody}, UNCHANGED <<since, quiet, stage, isOver>>
  PROVE  Line' /\ late'[s] <= 1 /\ quiet = Gap /\ \A other \in Scrapes : request[other] # "asking"
<1>. USE DEF Line
<1>1. late[s] = 0 /\ request' = [request EXCEPT ![s] = "asking"]
      /\ late' = [late EXCEPT ![s] = IF isOver[s] THEN 1 ELSE 0]
  <2>1. late[s] \in {0, 1} /\ late[s] # 1
    BY DEF LineType, LateOnce
  <2>2. late[s] = 0
    BY <2>1
  <2>. QED  BY <2>2 DEF Ask
<1>2. \A o \in Scrapes \ {s} : request[o] \notin {"sleeping", "asking"} /\ turn # o
  BY PacingAssumption DEF TurnHeld
<1>3. LineType'
  BY <1>1 DEF LineType
<1>4. TurnHeld'
  BY <1>1, <1>2 DEF TurnHeld, LineType
<1>5. LateOnce'
  BY <1>1 DEF LateOnce, LineType
<1>. QED  BY <1>1, <1>2, <1>3, <1>4, <1>5 DEF LineType

LEMMA TakeTurnInLine ==
  ASSUME Line, NEW s \in Scrapes, TakeTurn(s)
  PROVE  /\ Line'
         /\ request'[s] = "asking" =>
              late'[s] <= 1 /\ quiet = Gap /\ \A other \in Scrapes : request[other] # "asking"
<1>1. CASE since < Gap
  <2>1. request' = [request EXCEPT ![s] = "sleeping"] /\ turn' = s /\ turn = Nobody
        /\ UNCHANGED <<since, quiet, stage, isOver, late>> /\ request[s] = "queued"
    BY <1>1 DEF TakeTurn
  <2>. QED  BY <2>1, PacingAssumption DEF Line, LineType, TurnHeld, LateOnce
<1>2. CASE ~(since < Gap)
  <2>1. since = Gap
    BY <1>2, PacingAssumption DEF Line, LineType
  <2>2. /\ Ask(s) /\ request[s] = "queued" /\ turn' = s /\ turn = Nobody
        /\ UNCHANGED <<since, quiet, stage, isOver>>
    BY <1>2 DEF TakeTurn
  <2>. QED  BY <2>1, <2>2, AskInLine
<1>. QED  BY <1>1, <1>2

LEMMA WakeInLine ==
  ASSUME Line, NEW s \in Scrapes, Wake(s)
  PROVE  Line' /\ late'[s] <= 1 /\ quiet = Gap /\ \A other \in Scrapes : request[other] # "asking"
<1>1. turn = s /\ turn' = s
  BY DEF Wake, Line, TurnHeld
<1>. QED  BY <1>1, AskInLine DEF Wake

LEMMA JoinInLine == ASSUME Line, Verdicts, NEW s \in Scrapes, Join(s) PROVE Line'
<1>1. CASE isOver[s]
  <2>1. Failed(s, "queue") /\ stage[s] \in RequestStages /\ request[s] = "none"
        /\ UNCHANGED <<lineVars, isOver>>
    BY <1>1 DEF Join
  <2>2. request' = [request EXCEPT ![s] = "none"] /\ \A o \in Scrapes \ {s} : stage'[o] = stage[o]
    BY <2>1, EndsRequest
  <2>3. request' = request
    BY <2>1, <2>2 DEF Line, LineType
  <2>. QED  BY <2>1, <2>2, <2>3, OutsideLine
<1>2. CASE ~isOver[s]
  <2>1. request' = [request EXCEPT ![s] = "queued"] /\ UNCHANGED <<stage, lineVars, isOver>>
        /\ stage[s] \in RequestStages /\ request[s] = "none"
    BY <1>2 DEF Join
  <2>. QED  BY <1>2, <2>1 DEF Line, LineType, TurnHeld, LateOnce, lineVars
<1>. QED  BY <1>1, <1>2

LEMMA LeaveLineInLine == ASSUME Line, Verdicts, NEW s \in Scrapes, LeaveLine(s) PROVE Line'
<1>1. Failed(s, "queue") /\ stage[s] \in RequestStages
  BY DEF LeaveLine, Line, LateOnce
<1>2. request' = [request EXCEPT ![s] = "none"] /\ \A o \in Scrapes \ {s} : stage'[o] = stage[o]
  BY <1>1, EndsRequest
<1>. QED  BY <1>2, LeavesLine DEF LeaveLine, Line, LineType

LEMMA AnsweredInLine == ASSUME Line, Verdicts, NEW s \in Scrapes, Answered(s) PROVE Line'
<1>1. /\ request[s] = "asking" /\ turn = s /\ stage[s] \in RequestStages
      /\ turn' = Nobody /\ since' = 0 /\ quiet' = 0 /\ UNCHANGED <<late, isOver>>
  BY DEF Answered, Line, TurnHeld, LateOnce, Restarted
<1>2. request' = [request EXCEPT ![s] = "none"] /\ \A o \in Scrapes \ {s} : stage'[o] = stage[o]
  <2>1. CASE Succeeded(s) \/ Failed(s, "tracker") \/ Failed(s, "queue")
    BY <1>1, <2>1, EndsRequest
  <2>2. CASE ~(Succeeded(s) \/ Failed(s, "tracker") \/ Failed(s, "queue"))
    BY <2>2 DEF Answered, GoTo, Verdicts, VerdictType
  <2>. QED  BY <2>1, <2>2
<1>3. turn' = LeftLine(s)
  BY <1>1 DEF LeftLine
<1>4. since' \in 0 .. Gap /\ quiet' = since'
  BY <1>1, PacingAssumption
<1>. QED  BY <1>1, <1>2, <1>3, <1>4, LeavesLine

\* Every step keeps the line in order.
LEMMA LineStep == ASSUME Line, Verdicts, [PacingNext]_pacingVars PROVE Line'
<1>1. ASSUME NEW s \in Scrapes,
             Begin(s) \/ StartMirror(s) \/ PerformLogin(s) \/ NextPath(s) \/ EndMirror(s)
      PROVE  Line'
  BY <1>1, BetweenRequests
<1>2. ASSUME NEW s \in Scrapes, Join(s) PROVE Line'
  BY <1>2, JoinInLine
<1>3. ASSUME NEW s \in Scrapes, Wake(s) PROVE Line'
  BY <1>3, WakeInLine
<1>4. ASSUME NEW s \in Scrapes, LeaveLine(s) PROVE Line'
  BY <1>4, LeaveLineInLine
<1>5. ASSUME NEW s \in Scrapes, Answered(s) PROVE Line'
  BY <1>5, AnsweredInLine
<1>6. ASSUME NEW s \in Scrapes, TakeTurn(s) PROVE Line'
  BY <1>6, TakeTurnInLine
<1>7. ASSUME NEW s \in Scrapes, Expire(s) PROVE Line'
  BY <1>7 DEF Expire, Line, LineType, TurnHeld, LateOnce, lineVars
<1>8. CASE PacingTick
  <2>1. since' \in 0 .. Gap /\ quiet' = since'
    BY <1>8, PacingAssumption DEF PacingTick, Line, LineType
  <2>. QED  BY <1>8, <2>1 DEF PacingTick, Line, LineType, TurnHeld, LateOnce
<1>9. CASE UNCHANGED pacingVars
  BY <1>9 DEF pacingVars, lineVars, Line, LineType, TurnHeld, LateOnce
<1>. QED
  BY <1>1, <1>2, <1>3, <1>4, <1>5, <1>6, <1>7, <1>8, <1>9 DEF PacingNext, Proceeds

\* A request begins in its turn, after the gap, and after its scrape's end once at
\* most.
LEMMA BeginsInTurn ==
  ASSUME Line, Verdicts, [PacingNext]_pacingVars, NEW s \in Scrapes,
         request'[s] = "asking", request[s] # "asking"
  PROVE  late'[s] <= 1 /\ quiet = Gap /\ \A other \in Scrapes : request[other] # "asking"
<1>. DEFINE Turn == late'[s] <= 1 /\ quiet = Gap /\ \A other \in Scrapes : request[other] # "asking"
<1>1. ASSUME NEW t \in Scrapes, request' = [request EXCEPT ![t] = "none"] PROVE FALSE
  BY <1>1 DEF Line, LineType
<1>2. ASSUME NEW t \in Scrapes,
             Begin(t) \/ StartMirror(t) \/ PerformLogin(t) \/ NextPath(t) \/ EndMirror(t) \/ Expire(t)
      PROVE  FALSE
  BY <1>2 DEF Begin, StartMirror, PerformLogin, NextPath, EndMirror, Expire
<1>3. ASSUME NEW t \in Scrapes, Join(t) PROVE FALSE
  <2>1. CASE isOver[t]
    BY <1>1, <1>3, <2>1, EndsRequest DEF Join
  <2>2. CASE ~isOver[t]
    BY <1>3, <2>2 DEF Join, Line, LineType
  <2>. QED  BY <2>1, <2>2
<1>4. ASSUME NEW t \in Scrapes, LeaveLine(t) PROVE FALSE
  BY <1>1, <1>4, EndsRequest DEF LeaveLine, Line, LateOnce
<1>5. ASSUME NEW t \in Scrapes, Answered(t) PROVE FALSE
  <2>1. stage[t] \in RequestStages
    BY <1>5 DEF Answered, Line, LateOnce
  <2>2. request' = [request EXCEPT ![t] = "none"]
    BY <1>5, <2>1, EndsRequest DEF Answered
  <2>. QED  BY <1>1, <2>2
<1>6. ASSUME NEW t \in Scrapes, TakeTurn(t) PROVE Turn
  <2>1. s = t
    BY <1>6 DEF TakeTurn, Ask, Line, LineType
  <2>. QED  BY <1>6, <2>1, TakeTurnInLine
<1>7. ASSUME NEW t \in Scrapes, Wake(t) PROVE Turn
  <2>1. s = t
    BY <1>7 DEF Wake, Ask, Line, LineType
  <2>. QED  BY <1>7, <2>1, WakeInLine
<1>8. CASE PacingTick \/ UNCHANGED pacingVars
  BY <1>8 DEF PacingTick, pacingVars
<1>. QED
  BY <1>2, <1>3, <1>4, <1>5, <1>6, <1>7, <1>8 DEF PacingNext, Proceeds

-----------------------------------------------------------------------------
LEMMA PacingBegins == PacingInit => Line /\ Verdicts
<1>. SUFFICES ASSUME PacingInit PROVE Line /\ Verdicts
  OBVIOUS
<1>1. VerdictType
  <2>1. stage \in [Scrapes -> {"idle", "mirror", "perform", "paths"} \union RequestStages \union Ended]
    BY DEF PacingInit
  <2>2. mirror \in [Scrapes -> Nat \ {0}] /\ path \in [Scrapes -> Nat] /\ skipped \in [Scrapes -> Nat]
    BY DEF PacingInit
  <2>3. mirrorErr \in [Scrapes -> Errors] /\ lastErr \in [Scrapes -> Errors]
        /\ pathsOK \in [Scrapes -> BOOLEAN]
    BY DEF PacingInit, Errors, Fine
  <2>4. requested \in [Scrapes -> SUBSET STRING]
    BY DEF PacingInit
  <2>5. failed \in [Scrapes -> SUBSET Notes]
    BY DEF PacingInit
  <2>. QED  BY <2>1, <2>2, <2>3, <2>4, <2>5 DEF PacingInit, VerdictType
<1>2. \A s \in Scrapes : Judged(s)
  <2>. TAKE s \in Scrapes
  <2>1. stage[s] = "idle" /\ mirror[s] = 1 /\ failed[s] = {}
    BY DEF PacingInit
  <2>2. ErrorKept(s)
    BY <2>1 DEF ErrorKept
  <2>3. PathsCounted(s)
    BY <2>1 DEF PathsCounted, Between
  <2>4. FailureKept(s)
    BY <2>1 DEF FailureKept
  <2>. QED  BY <2>2, <2>3, <2>4 DEF Judged
<1>3. Line
  BY PacingAssumption DEF PacingInit, Line, LineType, TurnHeld, LateOnce
<1>. QED  BY <1>1, <1>2, <1>3 DEF Verdicts

LEMMA PacingInvariant == PacingSpec => [](Line /\ Verdicts)
<1>1. Line /\ Verdicts /\ [PacingNext]_pacingVars => (Line /\ Verdicts)'
  BY LineStep, VerdictsStep
<1>. QED  BY <1>1, PacingBegins, PTL DEF PacingSpec

\* A scrape ends answered only when a path was read or none applied, and a tracker
\* that failed is never taken for one that was only queued for (trackerError,
\* scrapeMirror, Scrape).
THEOREM VerdictEarnedAlways == PacingSpec => []VerdictEarned
<1>1. Line /\ Verdicts => VerdictEarned
  <2>. SUFFICES ASSUME Line, Verdicts PROVE VerdictEarned
    OBVIOUS
  <2>1. PacingTypeOK
    BY DEF PacingTypeOK, Line, LineType, TurnHeld, Verdicts, VerdictType
  <2>2. ASSUME NEW s \in Scrapes, stage[s] = "unreachable", lastErr[s] = "queue"
        PROVE  "tracker" \notin failed[s]
    BY <2>2 DEF Verdicts, Judged, FailureKept
  <2>. QED  BY <2>1, <2>2 DEF VerdictEarned, Verdicts, Judged, ErrorKept, PathsCounted
<1>. QED  BY <1>1, PacingInvariant, PTL

\* One request of a tracker at a time, each the gap after the answer before it, and
\* none begun late but one that stood in line (paceRequest, requestLine).
THEOREM PacedAlways == PacingSpec => Paced
<1>1. Line /\ Verdicts /\ [PacingNext]_pacingVars =>
        [\A s \in Scrapes :
           request'[s] = "asking" /\ request[s] # "asking" =>
             /\ \A other \in Scrapes : request[other] # "asking"
             /\ quiet = Gap
             /\ late'[s] <= 1]_pacingVars
  BY BeginsInTurn
<1>2. PacingSpec => [][PacingNext]_pacingVars
  BY PTL DEF PacingSpec
<1>. QED  BY <1>1, <1>2, PacingInvariant, PTL DEF Paced

=============================================================================
