------------------------ MODULE ServerProcess_proofs ------------------------
(***************************************************************************)
(* Proof that nobody is left with a closed store, for any requests, however*)
(* far a start had come and whatever ended it.                             *)
(*                                                                         *)
(* SweepsOpenStore needs to know where run is while somebody uses the      *)
(* store: the store is open until run is over (StoreWhereRun), the sweep   *)
(* runs from the port's binding to its wait and never beyond               *)
(* (SweepWhereRun), and a request that is inside past the drain was given  *)
(* up (InsideWhereRun), as are all that come once Serve has failed         *)
(* (FailureLetsGo).                                                        *)
(***************************************************************************)
EXTENDS ServerProcess, TLAPS

ProcessType ==
  /\ ProcessTypeOK
  /\ handling \in [Clients -> {"none", "inside", "served", "cut"}] /\ gaveUp \in BOOLEAN

\* The store is opened by the first stage of run and closed by the last.
StoreWhereRun ==
  /\ storeIs = "none" => proc \in {"opening"} \union Over
  /\ storeIs = "closed" => proc \in Over

\* The sweep is started once the port is bound, and is over before anything that
\* it uses is closed.
SweepWhereRun ==
  pruner \in {"sweeping", "sleeping"} =>
    /\ proc \notin {"opening", "building", "binding", "closeScraper", "closeStore", "exited"}
    /\ storeIs = "open"

\* A request that is inside while run is not serving or draining was given up.
InsideWhereRun ==
  \A c \in Clients :
    /\ handling[c] = "inside" => proc \in {"serving", "draining", "gone"} \/ gaveUp
    /\ handling[c] = "cut" => gaveUp

\* A run that ends with an error after it was ready gave its requests up.
FailureLetsGo ==
  /\ proc \in {"opening", "building", "binding"} => ~isReady
  /\ HasFailed => gaveUp

ProcessInv == ProcessType /\ StoreWhereRun /\ SweepWhereRun /\ InsideWhereRun /\ FailureLetsGo

-----------------------------------------------------------------------------
\* Stages of run that neither end it nor let it give anything up.
LEMMA RunGoesOn ==
  ASSUME ProcessInv,
         OpenStore \/ Build \/ Bind \/ Ready \/ Serve \/ ShutDown \/ StopPruning \/ CloseScraper
  PROVE  ProcessInv'
<1>. USE DEF ProcessInv, ProcessType, ProcessTypeOK, StoreWhereRun, SweepWhereRun, InsideWhereRun,
             FailureLetsGo, HasFailed, Unwinding, Over
<1>1. CASE OpenStore
  BY <1>1 DEF OpenStore
<1>2. CASE Build
  BY <1>2 DEF Build
<1>3. CASE Bind
  BY <1>3, ProcessAssumption DEF Bind
<1>4. CASE Ready
  BY <1>4 DEF Ready
<1>5. CASE Serve
  BY <1>5 DEF Serve
<1>6. CASE ShutDown
  BY <1>6 DEF ShutDown
<1>7. CASE StopPruning
  BY <1>7 DEF StopPruning
<1>8. CASE CloseScraper
  BY <1>8 DEF CloseScraper
<1>. QED  BY <1>1, <1>2, <1>3, <1>4, <1>5, <1>6, <1>7, <1>8

\* Stages after which run looks no more at its requests, its sweep or its store.
LEMMA RunLetsGo ==
  ASSUME ProcessInv,
         Drained \/ DrainTimesOut \/ ServerFails \/ WaitForPruning \/ CloseStore \/ ProcessEnds
  PROVE  ProcessInv'
<1>. USE DEF ProcessInv, ProcessType, ProcessTypeOK, StoreWhereRun, SweepWhereRun, InsideWhereRun,
             FailureLetsGo, HasFailed, Unwinding, Over
<1>1. CASE Drained
  BY <1>1 DEF Drained, IsDrained, Busy
<1>2. CASE DrainTimesOut
  BY <1>2 DEF DrainTimesOut
<1>3. CASE ServerFails
  BY <1>3 DEF ServerFails
<1>4. CASE WaitForPruning
  BY <1>4 DEF WaitForPruning, HasStopped
<1>5. CASE CloseStore
  BY <1>5 DEF CloseStore
<1>6. CASE ProcessEnds
  BY <1>6 DEF ProcessEnds
<1>. QED  BY <1>1, <1>2, <1>3, <1>4, <1>5, <1>6

\* The sweep and the requests.
LEMMA UsersOfTheStore ==
  ASSUME ProcessInv,
         SweepEnds \/ SweepAgain \/ PruningEnds \/ \E c \in Clients : Arrive(c) \/ Respond(c)
  PROVE  ProcessInv'
<1>. USE DEF ProcessInv, ProcessType, ProcessTypeOK, StoreWhereRun, SweepWhereRun, InsideWhereRun,
             FailureLetsGo, HasFailed, Unwinding, Over
<1>1. CASE SweepEnds
  BY <1>1 DEF SweepEnds
<1>2. CASE SweepAgain
  BY <1>2 DEF SweepAgain
<1>3. CASE PruningEnds
  BY <1>3 DEF PruningEnds
<1>4. ASSUME NEW c \in Clients, Arrive(c) PROVE ProcessInv'
  BY <1>4 DEF Arrive
<1>5. ASSUME NEW c \in Clients, Respond(c) PROVE ProcessInv'
  BY <1>5 DEF Respond
<1>. QED  BY <1>1, <1>2, <1>3, <1>4, <1>5

\* Those who ask the process to stop, and what is reported of it.
LEMMA Reports ==
  ASSUME ProcessInv,
         Interrupt \/ ReportRunning \/ ReportFailed \/ StopService \/ ReportStopped
           \/ UNCHANGED processVars
  PROVE  ProcessInv'
<1>1. /\ UNCHANGED <<proc, cause, storeIs, pruner, handling, isReady, gaveUp>>
      /\ service' \in {"none", "startPending", "running", "stopPending", "stopped", "failed"}
  BY DEF Interrupt, ReportRunning, ReportFailed, StopService, ReportStopped, processVars,
         ProcessInv, ProcessType, ProcessTypeOK
<1>. QED
  BY <1>1 DEF ProcessInv, ProcessType, ProcessTypeOK, StoreWhereRun, SweepWhereRun, InsideWhereRun,
              FailureLetsGo, HasFailed, Unwinding, Over

LEMMA ProcessBegins == ProcessInit => ProcessInv
BY DEF ProcessInit, ProcessInv, ProcessType, ProcessTypeOK, StoreWhereRun, SweepWhereRun,
       InsideWhereRun, FailureLetsGo, HasFailed, Unwinding, Over

-----------------------------------------------------------------------------
\* A sweep runs against an open store only, and a request that was let in meets a
\* closed one only where run went on without its requests (run, pruneExpired).
THEOREM SweepsOpenStoreAlways == ProcessSpec => []SweepsOpenStore
<1>1. ProcessInv /\ [ProcessNext]_processVars => ProcessInv'
  BY RunGoesOn, RunLetsGo, UsersOfTheStore, Reports DEF ProcessNext, RunStep
<1>2. ProcessInv => SweepsOpenStore
  BY DEF ProcessInv, ProcessType, SweepWhereRun, InsideWhereRun, SweepsOpenStore
<1>. QED  BY <1>1, <1>2, ProcessBegins, PTL DEF ProcessSpec

=============================================================================
