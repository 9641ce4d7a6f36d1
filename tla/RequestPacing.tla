---------------------------- MODULE RequestPacing ----------------------------
(***************************************************************************)
(* What a scrape asks of one tracker, and when: the mirrors it tries in    *)
(* turn, on each of them the requests that sign in and one request for     *)
(* each search path, every request waiting for the tracker's requestDelay  *)
(* in one line with those of the other scrapes; and which error the scrape *)
(* ends with, on which it depends whether the tracker is held to have      *)
(* failed (finishScrape, in ScrapeScheduler).                              *)
(*                                                                         *)
(* A scrape's context may end at any time.  A request that waits for its   *)
(* turn then ends with errRequestQueue (here "queue"); every other failure *)
(* is the tracker's ("tracker").                                           *)
(***************************************************************************)
EXTENDS Naturals, Sequences

CONSTANTS
  Scrapes,     \* calls of Scrape that fetch
  Gap,         \* requestGap, in ticks of the clock
  Definitions  \* what the tracker's definition may be, see PacingAssumption

Nobody == "nobody"

\* A definition has a login block (method, whether it is tested, whether its
\* credentials are configured), a number of mirrors and, as each search finds
\* them, its search paths: "skip" (no category in common), "broken" (no address
\* can be built), or the name of the GET it makes.
ASSUME PacingAssumption ==
  /\ Gap \in Nat \ {0} /\ Nobody \notin Scrapes
  /\ \A d \in Definitions :
       /\ d.method \in {"none", "captcha", "cookie", "submit", "form"}
       /\ d.isTested \in BOOLEAN /\ d.isReady \in BOOLEAN /\ d.mirrors \in Nat \ {0}
       /\ \A s \in Scrapes : d.paths[s] \in Seq(STRING) /\ d.paths[s] # <<>>

VARIABLES
  def,         \* the definition
  fresh,       \* the tracker's login is held to be good
  since,       \* the time since line.answered, as far as Gap
  turn,        \* line.turn: the scrape whose request is admitted, if any
  stage,       \* stage[s]: the request s is about to make, or what it decides
  request,     \* request[s]: how far that request is
  mirror, path,            \* mirror[s], path[s]: the ones being asked
  isOver,      \* isOver[s]: the context of s has ended
  mirrorErr, lastErr,      \* the errors kept, of this mirror and of the scrape
  pathsOK, skipped,        \* of this mirror
  requested,   \* requested[s]: the GETs made of this mirror
  failed, late, quiet   \* history: what went wrong in s, the requests it began
                        \* after its end, and the time since an answer, up to Gap

progress   == <<mirror, path, mirrorErr, lastErr, pathsOK, skipped, requested>>
lineVars   == <<since, turn, late, quiet>>
pacingVars == <<def, fresh, lineVars, stage, request, isOver, progress, failed>>

Fine   == "none"      \* no error
Errors == {Fine, "queue", "tracker"}

RequestStages == {"test", "page", "submit", "verify", "search"}
Ended         == {"answered", "unreachable"}

PacingInit ==
  /\ def \in Definitions
  /\ fresh = FALSE
  /\ since = Gap /\ turn = Nobody
  /\ stage = [s \in Scrapes |-> "idle"]
  /\ request = [s \in Scrapes |-> "none"]
  /\ mirror = [s \in Scrapes |-> 1] /\ path = [s \in Scrapes |-> 1]
  /\ isOver = [s \in Scrapes |-> FALSE]
  /\ mirrorErr = [s \in Scrapes |-> Fine] /\ lastErr = [s \in Scrapes |-> Fine]
  /\ pathsOK = [s \in Scrapes |-> FALSE] /\ skipped = [s \in Scrapes |-> 0]
  /\ requested = [s \in Scrapes |-> {}]
  /\ failed = [s \in Scrapes |-> {}] /\ late = [s \in Scrapes |-> 0]
  /\ quiet = Gap

-----------------------------------------------------------------------------
(***************************************************************************)
(* What a scrape decides between its requests.                             *)
(***************************************************************************)

\* Variant: the last error is the one kept.
LatestError(kept, err) == err

\* trackerError: a wait for Jacklet's own turn hides no failure of the tracker.
TrackerError(kept, err) == IF kept # Fine /\ err = "queue" THEN kept ELSE err

GoTo(s, what) == stage' = [stage EXCEPT ![s] = what]

Noted(s, err) == failed' = [failed EXCEPT ![s] = @ \union ({err} \ {Fine})]

\* The mirror is given up with an error, and the next one is tried.
NextMirror(s, err) ==
  /\ GoTo(s, "mirror")
  /\ mirror' = [mirror EXCEPT ![s] = @ + 1]
  /\ lastErr' = [lastErr EXCEPT ![s] = IF err = Fine THEN @ ELSE TrackerError(@, err)]

\* Scrape begins, once it has had its slot.
Begin(s) ==
  /\ stage[s] = "idle"
  /\ GoTo(s, "mirror")
  /\ UNCHANGED <<def, fresh, lineVars, request, isOver, progress, failed>>

\* ensureLoggedIn, or the end of the loop over the mirrors.
StartMirror(s) ==
  /\ stage[s] = "mirror"
  /\ \/ /\ mirror[s] > def.mirrors
        /\ GoTo(s, "unreachable")
        /\ UNCHANGED <<progress, failed>>
     \/ /\ mirror[s] <= def.mirrors /\ def.method = "captcha"
        /\ NextMirror(s, "tracker") /\ Noted(s, "tracker")
        /\ UNCHANGED <<path, mirrorErr, pathsOK, skipped, requested>>
     \/ /\ mirror[s] <= def.mirrors /\ def.method # "captcha"
        /\ GoTo(s, IF def.method = "none" \/ fresh THEN "paths"
                   ELSE IF def.isTested THEN "test" ELSE "perform")
        /\ path' = [path EXCEPT ![s] = 1]
        /\ mirrorErr' = [mirrorErr EXCEPT ![s] = Fine]
        /\ pathsOK' = [pathsOK EXCEPT ![s] = FALSE]
        /\ skipped' = [skipped EXCEPT ![s] = 0]
        /\ requested' = [requested EXCEPT ![s] = {}]
        /\ UNCHANGED <<mirror, lastErr, failed>>
  /\ UNCHANGED <<def, fresh, lineVars, request, isOver>>

\* The credentials are in: they are verified when the definition says how.
Submitted(s) ==
  IF def.isTested THEN GoTo(s, "verify") /\ UNCHANGED fresh
  ELSE GoTo(s, "paths") /\ fresh' = TRUE

\* performLogin, up to its first request.
PerformLogin(s) ==
  /\ stage[s] = "perform"
  /\ \/ /\ ~def.isReady
        /\ NextMirror(s, "tracker") /\ Noted(s, "tracker")
        /\ UNCHANGED fresh
     \/ /\ def.isReady /\ def.method = "cookie"
        /\ Submitted(s)
        /\ UNCHANGED <<mirror, lastErr, failed>>
     \/ /\ def.isReady /\ def.method # "cookie"
        /\ GoTo(s, IF def.method = "form" THEN "page" ELSE "submit")
        /\ UNCHANGED <<fresh, mirror, lastErr, failed>>
  /\ UNCHANGED <<def, lineVars, request, isOver, path, mirrorErr, pathsOK, skipped,
                 requested>>

\* scrapeMirror considers its next path.
NextPath(s) ==
  LET p == def.paths[s][path[s]]
  IN /\ stage[s] = "paths" /\ path[s] <= Len(def.paths[s])
     /\ IF p \in {"skip", "broken"} \union requested[s]
          THEN /\ path' = [path EXCEPT ![s] = @ + 1]
               /\ skipped' = [skipped EXCEPT ![s] = IF p = "skip" THEN @ + 1 ELSE @]
               /\ mirrorErr' = [mirrorErr EXCEPT ![s] = IF p = "broken" THEN "tracker" ELSE @]
               /\ Noted(s, IF p = "broken" THEN "tracker" ELSE Fine)
               /\ UNCHANGED <<stage, requested>>
          ELSE /\ GoTo(s, "search")
               /\ requested' = [requested EXCEPT ![s] = @ \union {p}]
               /\ UNCHANGED <<path, skipped, mirrorErr, failed>>
     /\ UNCHANGED <<def, fresh, lineVars, request, isOver, mirror, lastErr, pathsOK>>

\* Every path of the mirror was skipped, so it was asked nothing.
IsNotAsked(s) == skipped[s] = Len(def.paths[s])

\* scrapeMirror returns.
EndMirror(s) ==
  /\ stage[s] = "paths" /\ path[s] > Len(def.paths[s])
  /\ \/ /\ pathsOK[s] \/ IsNotAsked(s)
        /\ GoTo(s, "answered")
        /\ UNCHANGED <<mirror, lastErr>>
     \/ /\ ~pathsOK[s] /\ ~IsNotAsked(s)
        /\ NextMirror(s, mirrorErr[s])
  /\ UNCHANGED <<def, fresh, lineVars, request, isOver, path, mirrorErr, pathsOK,
                 skipped, requested, failed>>

-----------------------------------------------------------------------------
(***************************************************************************)
(* One request: paceRequest, the request, and what becomes of its answer.  *)
(***************************************************************************)

\* What a request that ended with an error makes of the scrape.
Failed(s, err) ==
  /\ request' = [request EXCEPT ![s] = "none"]
  /\ Noted(s, IF stage[s] = "test" /\ err = "tracker" THEN "test" ELSE err)
  /\ CASE stage[s] = "test" ->
            GoTo(s, "perform") /\ UNCHANGED <<fresh, progress>>
       [] stage[s] = "search" ->
            /\ GoTo(s, "paths")
            /\ path' = [path EXCEPT ![s] = @ + 1]
            /\ mirrorErr' = [mirrorErr EXCEPT ![s] = TrackerError(@, err)]
            /\ fresh' = (fresh /\ err = "queue")
            /\ UNCHANGED <<mirror, lastErr, pathsOK, skipped, requested>>
       [] OTHER ->
            /\ NextMirror(s, err)
            /\ UNCHANGED <<fresh, path, mirrorErr, pathsOK, skipped, requested>>

\* What its answer makes of it.
Succeeded(s) ==
  /\ request' = [request EXCEPT ![s] = "none"]
  /\ CASE stage[s] = "page" ->
            GoTo(s, "submit") /\ UNCHANGED <<fresh, path, pathsOK, mirror, lastErr, failed>>
       [] stage[s] = "submit" ->
            Submitted(s) /\ UNCHANGED <<path, pathsOK, mirror, lastErr, failed>>
       [] stage[s] = "search" ->
            /\ GoTo(s, "paths")
            /\ path' = [path EXCEPT ![s] = @ + 1]
            /\ pathsOK' = [pathsOK EXCEPT ![s] = TRUE]
            /\ UNCHANGED <<fresh, mirror, lastErr, failed>>
       [] stage[s] \in {"test", "verify"} ->
            \/ /\ GoTo(s, "paths") /\ fresh' = TRUE
               /\ UNCHANGED <<path, pathsOK, mirror, lastErr, failed>>
            \/ /\ IF stage[s] = "test"
                    THEN GoTo(s, "perform") /\ UNCHANGED <<mirror, lastErr, failed>>
                    ELSE NextMirror(s, "tracker") /\ Noted(s, "tracker")
               /\ UNCHANGED <<fresh, path, pathsOK>>
  /\ UNCHANGED <<mirrorErr, skipped, requested>>

\* paceRequest: whoever has given up gets no turn.
Join(s) ==
  /\ stage[s] \in RequestStages /\ request[s] = "none"
  /\ \/ /\ isOver[s]
        /\ Failed(s, "queue")
     \/ /\ ~isOver[s]
        /\ request' = [request EXCEPT ![s] = "queued"]
        /\ UNCHANGED <<fresh, stage, progress, failed>>
  /\ UNCHANGED <<def, lineVars, isOver>>

\* The request goes out.
Ask(s) ==
  /\ request' = [request EXCEPT ![s] = "asking"]
  /\ late' = [late EXCEPT ![s] = IF isOver[s] THEN @ + 1 ELSE @]

\* The turn is free and the select takes it.
TakeTurn(s) ==
  /\ request[s] = "queued" /\ turn = Nobody
  /\ turn' = s
  /\ IF since < Gap
       THEN request' = [request EXCEPT ![s] = "sleeping"] /\ UNCHANGED late
       ELSE Ask(s)
  /\ UNCHANGED <<def, fresh, since, quiet, stage, isOver, progress, failed>>

Wake(s) ==
  /\ request[s] = "sleeping" /\ since = Gap
  /\ Ask(s)
  /\ UNCHANGED <<def, fresh, since, quiet, turn, stage, isOver, progress, failed>>

\* Variant: a sleep that ends early keeps the turn.
LeftLineKeeping(s) == turn

\* The turn after s has left the line.
LeftLine(s) == IF turn = s THEN Nobody ELSE turn

\* The context ends while s waits for the turn or sleeps in it.
LeaveLine(s) ==
  /\ isOver[s] /\ request[s] \in {"queued", "sleeping"}
  /\ turn' = LeftLine(s)
  /\ Failed(s, "queue")
  /\ UNCHANGED <<def, since, quiet, late, isOver>>

\* Variant: the gap is kept from the moment the turn was taken.
NotRestarted == since

\* answered(): the gap follows the answer.
Restarted == 0

\* The request ends, whichever way.  A wait for FlareSolverr that ends with the
\* context is a queue wait too, and has held the turn; a panic ends the scrape.
Answered(s) ==
  /\ request[s] = "asking"
  /\ turn' = Nobody /\ since' = Restarted /\ quiet' = 0
  /\ \/ Succeeded(s)
     \/ Failed(s, "tracker")
     \/ isOver[s] /\ Failed(s, "queue")
     \/ /\ request' = [request EXCEPT ![s] = "none"]
        /\ GoTo(s, "unreachable") /\ Noted(s, "tracker")
        /\ lastErr' = [lastErr EXCEPT ![s] = "tracker"]
        /\ UNCHANGED <<fresh, mirror, path, mirrorErr, pathsOK, skipped, requested>>
  /\ UNCHANGED <<def, late, isOver>>

-----------------------------------------------------------------------------
Expire(s) ==
  /\ ~isOver[s] /\ stage[s] \notin Ended \union {"idle"}
  /\ isOver' = [isOver EXCEPT ![s] = TRUE]
  /\ UNCHANGED <<def, fresh, lineVars, stage, request, progress, failed>>

PacingTick ==
  /\ quiet < Gap
  /\ quiet' = quiet + 1
  /\ since' = IF since < Gap THEN since + 1 ELSE Gap
  /\ UNCHANGED <<def, fresh, turn, late, stage, request, isOver, progress, failed>>

\* What s does without being obliged to by anyone but itself.
Proceeds(s) ==
  \/ StartMirror(s) \/ PerformLogin(s) \/ NextPath(s) \/ EndMirror(s)
  \/ Join(s) \/ Wake(s) \/ LeaveLine(s) \/ Answered(s)

PacingNext ==
  \/ \E s \in Scrapes : Begin(s) \/ Proceeds(s) \/ TakeTurn(s) \/ Expire(s)
  \/ PacingTick

\* Goroutines run, timers fire, requests and contexts end.  The channel serves
\* its waiters in order, so whoever keeps finding it free is let in: strong
\* fairness.
PacingFairness ==
  /\ WF_pacingVars(PacingTick)
  /\ \A s \in Scrapes : WF_pacingVars(Proceeds(s)) /\ SF_pacingVars(TakeTurn(s))

PacingSpec == PacingInit /\ [][PacingNext]_pacingVars /\ PacingFairness

-----------------------------------------------------------------------------
(***************************************************************************)
(* Properties.                                                             *)
(***************************************************************************)

\* One request of the tracker is in flight at a time and each begins Gap after
\* the answer before it; a scrape that was given up begins no request but one
\* that was already in line.
Paced ==
  [][\A s \in Scrapes :
       request'[s] = "asking" /\ request[s] # "asking" =>
         /\ \A other \in Scrapes : request[other] # "asking"
         /\ quiet = Gap
         /\ late'[s] <= 1]_pacingVars

\* Every variable has its type, and the turn is held by a request under way.
PacingTypeOK ==
  /\ since \in 0 .. Gap
  /\ turn \in Scrapes \union {Nobody}
  /\ \A s \in Scrapes :
       /\ stage[s] \in {"idle", "mirror", "perform", "paths"} \union RequestStages \union Ended
       /\ request[s] \in {"none", "queued", "sleeping", "asking"}
       /\ request[s] \in {"sleeping", "asking"} <=> turn = s
       /\ lastErr[s] \in Errors /\ mirrorErr[s] \in Errors

\* A scrape answers only when a path was read or none applied, has an error when
\* it does not, and passes for a mere wait for Jacklet's own turn, which spares
\* the tracker, only when nothing it was to keep an error of failed otherwise.
VerdictEarned ==
  /\ PacingTypeOK
  /\ \A s \in Scrapes :
       /\ stage[s] = "answered" => pathsOK[s] \/ IsNotAsked(s)
       /\ stage[s] = "unreachable" => lastErr[s] # Fine
       /\ stage[s] = "unreachable" /\ lastErr[s] = "queue" => "tracker" \notin failed[s]

\* Every scrape ends, whoever gives up before it in line and wherever.
EveryScrapeEnds == \A s \in Scrapes : stage[s] = "mirror" ~> stage[s] \in Ended

=============================================================================
