---------------------------- MODULE ServerProcess ----------------------------
(***************************************************************************)
(* The life of the server: run, which opens the store, builds the stack,   *)
(* binds the port, starts the sweep of old results and serves, and which   *)
(* undoes it all in the opposite order when it ends; the requests in       *)
(* flight meanwhile; and the handler that runs it as a Windows service and *)
(* tells the Service Control Manager how it is doing.                      *)
(***************************************************************************)
EXTENDS Naturals

CONSTANTS
  Clients,      \* the requests
  HasRetention  \* JACKLET_RETENTION_DAYS is not 0

ASSUME ProcessAssumption == HasRetention \in BOOLEAN

VARIABLES
  proc,        \* how far run is
  cause,       \* why it ends: "none", "error", or "asked"
  storeIs,     \* "none", "open", "closed"
  pruner,      \* pruneExpired: "off", "sweeping", "sleeping", or "over"
  isStopping,  \* stopPruning has been called, or the whole context ended
  handling,    \* handling[c]: "none", "inside", "served", or "cut" by a closed store
  hasAsked,    \* the process has been asked to stop: the context of run has ended
  isReady,     \* ready has been called
  service,     \* the status last reported to the Service Control Manager, or
               \* "none" where the process was started from a console
  gaveUp       \* history: run goes on without its requests, as a drain timed out or
               \* the server failed

processVars == <<proc, cause, storeIs, pruner, isStopping, handling, hasAsked, isReady,
                 service, gaveUp>>

\* The stages of run, those that unwind it last.
Unwinding == {"draining", "stopPruning", "closeScraper", "closeStore"}
Over      == {"exited", "gone"}

ProcessInit ==
  /\ proc = "opening" /\ cause = "none"
  /\ storeIs = "none" /\ pruner = "off" /\ isStopping = FALSE
  /\ handling = [c \in Clients |-> "none"]
  /\ hasAsked = FALSE /\ isReady = FALSE
  /\ service \in {"startPending", "none"}
  /\ gaveUp = FALSE

-----------------------------------------------------------------------------
(***************************************************************************)
(* run.                                                                    *)
(***************************************************************************)

\* The settings are read and the database opened.
OpenStore ==
  /\ proc = "opening"
  /\ \/ proc' = "building" /\ storeIs' = "open" /\ UNCHANGED cause
     \/ proc' = "exited" /\ cause' = "error" /\ UNCHANGED storeIs
  /\ UNCHANGED <<pruner, isStopping, handling, hasAsked, isReady, service, gaveUp>>

\* jacklet.New and the routes: a failure closes what there is by then.
Build ==
  /\ proc = "building"
  /\ \/ proc' = "binding" /\ UNCHANGED cause
     \/ proc' \in {"closeScraper", "closeStore"} /\ cause' = "error"
  /\ UNCHANGED <<storeIs, pruner, isStopping, handling, hasAsked, isReady, service, gaveUp>>

\* The port is bound, and only then the sweep starts.
Bind ==
  /\ proc = "binding"
  /\ \/ /\ proc' = "bound"
        /\ pruner' = IF HasRetention THEN "sweeping" ELSE "off"
        /\ UNCHANGED cause
     \/ proc' = "closeScraper" /\ cause' = "error" /\ UNCHANGED pruner
  /\ UNCHANGED <<storeIs, isStopping, handling, hasAsked, isReady, service, gaveUp>>

\* ready is called once the port is bound.
Ready ==
  /\ proc = "bound" /\ ~isReady
  /\ isReady' = TRUE
  /\ UNCHANGED <<proc, cause, storeIs, pruner, isStopping, handling, hasAsked, service, gaveUp>>

Serve ==
  /\ proc = "bound" /\ isReady
  /\ proc' = "serving"
  /\ UNCHANGED <<cause, storeIs, pruner, isStopping, handling, hasAsked, isReady, service, gaveUp>>

Busy == {c \in Clients : handling[c] = "inside"}

\* Serve ends by itself: run returns at once, and leaves the connections open.
ServerFails ==
  /\ proc = "serving"
  /\ proc' = "stopPruning" /\ cause' = "error" /\ gaveUp' = TRUE
  /\ UNCHANGED <<storeIs, pruner, isStopping, handling, hasAsked, isReady, service>>

\* The context has ended: server.Shutdown closes the listener.
ShutDown ==
  /\ proc = "serving" /\ hasAsked
  /\ proc' = "draining" /\ cause' = "asked"
  /\ UNCHANGED <<storeIs, pruner, isStopping, handling, hasAsked, isReady, service, gaveUp>>

\* Shutdown returns when no request is left.
IsDrained == Busy = {}

Drained ==
  /\ proc = "draining" /\ IsDrained
  /\ proc' = "stopPruning"
  /\ UNCHANGED <<cause, storeIs, pruner, isStopping, handling, hasAsked, isReady, service, gaveUp>>

\* shutdownTimeout passes: requests are left to run.
DrainTimesOut ==
  /\ proc = "draining" /\ Busy # {}
  /\ proc' = "stopPruning" /\ gaveUp' = TRUE
  /\ UNCHANGED <<cause, storeIs, pruner, isStopping, handling, hasAsked, isReady, service>>

\* The deferred stopPruning.
StopPruning ==
  /\ proc = "stopPruning" /\ ~isStopping
  /\ isStopping' = TRUE
  /\ UNCHANGED <<proc, cause, storeIs, pruner, handling, hasAsked, isReady, service, gaveUp>>

\* Variant: the sweep is told to stop and not waited for.
HasStoppedAnyway == isStopping

\* The deferred pruning.Wait has returned.
HasStopped == isStopping /\ pruner \in {"off", "over"}

WaitForPruning ==
  /\ proc = "stopPruning" /\ HasStopped
  /\ proc' = "closeScraper"
  /\ UNCHANGED <<cause, storeIs, pruner, isStopping, handling, hasAsked, isReady, service, gaveUp>>

\* closeScraper, within shutdownTimeout.
CloseScraper ==
  /\ proc = "closeScraper"
  /\ proc' = "closeStore"
  /\ UNCHANGED <<cause, storeIs, pruner, isStopping, handling, hasAsked, isReady, service, gaveUp>>

CloseStore ==
  /\ proc = "closeStore"
  /\ proc' = "exited" /\ storeIs' = "closed"
  /\ UNCHANGED <<cause, pruner, isStopping, handling, hasAsked, isReady, service, gaveUp>>

-----------------------------------------------------------------------------
(***************************************************************************)
(* pruneExpired.                                                           *)
(***************************************************************************)

\* A sweep ends: it is done, it failed, or its context ended.
SweepEnds ==
  /\ pruner = "sweeping" /\ proc # "gone"
  /\ pruner' = "sleeping"
  /\ UNCHANGED <<proc, cause, storeIs, isStopping, handling, hasAsked, isReady, service, gaveUp>>

\* The ticker, which the select may prefer to an ended context.
SweepAgain ==
  /\ pruner = "sleeping" /\ proc # "gone"
  /\ pruner' = "sweeping"
  /\ UNCHANGED <<proc, cause, storeIs, isStopping, handling, hasAsked, isReady, service, gaveUp>>

\* Variant: only stopPruning is looked at, between two sweeps that follow each
\* other without end.
IsCanceledNever == FALSE

\* The context of the sweep has ended, which stops it and the wait after it.
IsCanceled == isStopping \/ hasAsked

PruningEnds ==
  /\ pruner = "sleeping" /\ proc # "gone" /\ IsCanceled
  /\ pruner' = "over"
  /\ UNCHANGED <<proc, cause, storeIs, isStopping, handling, hasAsked, isReady, service, gaveUp>>

-----------------------------------------------------------------------------
(***************************************************************************)
(* Requests, and those who ask the process to stop.                        *)
(***************************************************************************)

\* Serve has failed, and the process lives on.
HasFailed == cause = "error" /\ isReady /\ proc \in Unwinding \union {"exited"}

\* On a connection that Serve has accepted, or did before a shutdown or its failure:
\* a shutdown closes those that stay idle, a failure none.
Arrive(c) ==
  /\ handling[c] = "none" /\ (proc \in {"serving", "draining"} \/ HasFailed)
  /\ handling' = [handling EXCEPT ![c] = "inside"]
  /\ UNCHANGED <<proc, cause, storeIs, pruner, isStopping, hasAsked, isReady, service, gaveUp>>

\* The handler ends, having used the store.
Respond(c) ==
  /\ handling[c] = "inside" /\ proc # "gone"
  /\ handling' = [handling EXCEPT ![c] = IF storeIs = "closed" THEN "cut" ELSE "served"]
  /\ UNCHANGED <<proc, cause, storeIs, pruner, isStopping, hasAsked, isReady, service, gaveUp>>

\* A signal, from a console.
Interrupt ==
  /\ service = "none" /\ ~hasAsked
  /\ hasAsked' = TRUE
  /\ UNCHANGED <<proc, cause, storeIs, pruner, isStopping, handling, isReady, service, gaveUp>>

-----------------------------------------------------------------------------
(***************************************************************************)
(* Execute, of the Windows service.                                        *)
(***************************************************************************)

\* Running is reported once ready has been called.
ReportRunning ==
  /\ service = "startPending" /\ isReady
  /\ service' = "running"
  /\ UNCHANGED <<proc, cause, storeIs, pruner, isStopping, handling, hasAsked, isReady, gaveUp>>

\* run returned before it was ready or was asked to stop, or was not ready in
\* time: Execute gives up, and with it its context ends.
ReportFailed ==
  /\ \/ service = "startPending"
     \/ service = "running" /\ proc = "exited"
  /\ service' = "failed" /\ hasAsked' = TRUE
  /\ UNCHANGED <<proc, cause, storeIs, pruner, isStopping, handling, isReady, gaveUp>>

\* The Service Control Manager asks for a stop, or Windows shuts down.
StopService ==
  /\ service = "running"
  /\ service' = "stopPending" /\ hasAsked' = TRUE
  /\ UNCHANGED <<proc, cause, storeIs, pruner, isStopping, handling, isReady, gaveUp>>

\* waitForServer returns, with run or without: either way the exit is clean.
ReportStopped ==
  /\ service = "stopPending"
  /\ service' = "stopped"
  /\ UNCHANGED <<proc, cause, storeIs, pruner, isStopping, handling, hasAsked, isReady, gaveUp>>

\* The process ends, and whatever is still running in it.
ProcessEnds ==
  /\ proc # "gone"
  /\ service \in {"failed", "stopped"} \/ (service = "none" /\ proc = "exited")
  /\ proc' = "gone"
  /\ UNCHANGED <<cause, storeIs, pruner, isStopping, handling, hasAsked, isReady, service, gaveUp>>

-----------------------------------------------------------------------------
RunStep ==
  \/ OpenStore \/ Build \/ Bind \/ Ready \/ Serve \/ ShutDown \/ Drained \/ DrainTimesOut
  \/ StopPruning \/ WaitForPruning \/ CloseScraper \/ CloseStore \/ ProcessEnds

ProcessNext ==
  \/ RunStep \/ ServerFails
  \/ SweepEnds \/ SweepAgain \/ PruningEnds
  \/ \E c \in Clients : Arrive(c) \/ Respond(c)
  \/ Interrupt \/ ReportRunning \/ ReportFailed \/ StopService \/ ReportStopped

\* Goroutines run and timeouts fire; a handler may take for ever.  A sweep ends,
\* and of a ticker and an ended context, both ready again and again, select
\* picks either in the end.
ProcessFairness ==
  /\ WF_processVars(RunStep) /\ WF_processVars(ReportStopped)
  /\ WF_processVars(SweepEnds) /\ SF_processVars(PruningEnds)

ProcessSpec == ProcessInit /\ [][ProcessNext]_processVars /\ ProcessFairness

-----------------------------------------------------------------------------
(***************************************************************************)
(* Properties.                                                             *)
(***************************************************************************)

\* Every variable has its type.
ProcessTypeOK ==
  /\ proc \in {"opening", "building", "binding", "bound", "serving"} \union Unwinding \union Over
  /\ cause \in {"none", "error", "asked"} /\ storeIs \in {"none", "open", "closed"}
  /\ pruner \in {"off", "sweeping", "sleeping", "over"}
  /\ service \in {"none", "startPending", "running", "stopPending", "stopped", "failed"}

\* Nobody is left with a closed store, whatever ends the server and however far
\* starting it had come: a sweep runs against an open one only, and a request
\* that was let in meets a closed one only where run went on without its requests,
\* after a drain that timed out or a server that failed.
SweepsOpenStore ==
  /\ ProcessTypeOK
  /\ pruner = "sweeping" => storeIs = "open"
  /\ \A c \in Clients : handling[c] = "cut" => gaveUp

\* A process asked to stop ends, whatever its requests and its sweep are doing.
StopEnds == hasAsked ~> proc \in Over

=============================================================================
