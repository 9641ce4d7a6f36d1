--------------------------- MODULE WindowsService ---------------------------
(***************************************************************************)
(* The verbs of "jacklet service", run at once from several prompts        *)
(* against the Service Control Manager and the registry, while the service *)
(* starts, stops and fails by itself and, at its first start, exchanges    *)
(* the password an installer left behind for its hash.                     *)
(*                                                                         *)
(* Every call of a verb to the manager or to a registry value is one step, *)
(* may fail, and may be the last before the command is interrupted.        *)
(***************************************************************************)
EXTENDS Naturals, Sequences

CONSTANTS
  Prompts,      \* commands that run at once
  MaxInstances, \* bound: how often the service is started
  HashSetting,  \* passwordHashSetting
  OtherSettings \* the other settings that matter here

ASSUME WindowsAssumption == MaxInstances \in Nat /\ HashSetting \notin OtherSettings

VARIABLES
  registered,   \* the service is installed
  hasSource,    \* its event log source is
  settings,     \* the names of the settings in the registry
  hasPlain,     \* the installer's plaintext password is in the registry
  state,        \* the service's state, "stopped" also when there is none
  instance,     \* its process, numbered
  isTold,       \* that process has accepted a stop
  exchange,     \* how far its first start is
  verb, doing,  \* verb[p], doing[p]: the command, and what it does next
  seen,         \* seen[p]: what its last query told
  stopping,     \* stopping[p]: stoppingProcessID, or 0 when no stop stands
  read,         \* read[p]: the settings a config command has read
  told,         \* history: told[p], the processes whose answer to a stop p has
  hadPassword, raced  \* history: the installer left a password; a config command
                      \* wrote settings it had read before the exchange

registryVars == <<registered, hasSource, settings, hasPlain>>
runtimeVars  == <<state, instance, isTold, exchange>>
promptVars   == <<verb, doing, seen, stopping, read, told>>
windowsVars  == <<registryVars, runtimeVars, promptVars, hadPassword, raced>>

States    == {"stopped", "startPending", "running", "stopPending"}
Verbs     == {"install", "uninstall", "start", "stop", "set", "unset"}
Seeds     == OtherSettings
NotAsked  == [state |-> "stopped", instance |-> 0]
Names     == OtherSettings \union {HashSetting}

\* A machine without Jacklet, or one an installer has just set up.
WindowsInit ==
  /\ registered \in BOOLEAN /\ hasSource = registered /\ hasPlain = registered
  /\ settings = IF registered THEN Seeds ELSE {}
  /\ state = "stopped" /\ instance = 0 /\ isTold = FALSE /\ exchange = "none"
  /\ verb = [p \in Prompts |-> "none"] /\ doing = [p \in Prompts |-> "none"]
  /\ seen = [p \in Prompts |-> NotAsked] /\ stopping = [p \in Prompts |-> 0]
  /\ read = [p \in Prompts |-> {}] /\ told = [p \in Prompts |-> {}]
  /\ hadPassword = hasPlain /\ raced = FALSE

-----------------------------------------------------------------------------
(***************************************************************************)
(* The service.                                                            *)
(***************************************************************************)

\* A new process starts.
Launch ==
  /\ instance < MaxInstances
  /\ state' = "startPending" /\ instance' = instance + 1 /\ isTold' = FALSE
  /\ exchange' = "reading"

\* consumeBootstrapPassword reads the plaintext, if there is any.
ExchangeBegins ==
  /\ exchange = "reading"
  /\ exchange' = IF hasPlain THEN "hash" ELSE "done"
  /\ UNCHANGED <<registryVars, state, instance, isTold, promptVars, hadPassword, raced>>

\* It writes the hash, and only then removes the plaintext.
WriteHash ==
  /\ exchange = "hash"
  /\ settings' = settings \union {HashSetting}
  /\ exchange' = "plain"
  /\ UNCHANGED <<registered, hasSource, hasPlain, state, instance, isTold, promptVars,
                 hadPassword, raced>>

RemovePlaintext ==
  /\ exchange = "plain"
  /\ hasPlain' = FALSE
  /\ exchange' = "done"
  /\ UNCHANGED <<registered, hasSource, settings, state, instance, isTold, promptVars,
                 hadPassword, raced>>

\* The service goes on to its next state by itself: it starts, or acts on a stop
\* it has accepted.
Advance ==
  /\ \/ state = "startPending" /\ exchange = "done" /\ state' = "running"
     \/ state = "running" /\ isTold /\ state' = "stopPending"
     \/ state = "stopPending" /\ state' = "stopped"
  /\ UNCHANGED <<registryVars, instance, isTold, exchange, promptVars, hadPassword, raced>>

\* Its process ends, whatever it was doing; the recovery actions may start it
\* again.
Collapse ==
  /\ state # "stopped"
  /\ \/ Launch
     \/ state' = "stopped" /\ exchange' = "none" /\ UNCHANGED <<instance, isTold>>
  /\ UNCHANGED <<registryVars, promptVars, hadPassword, raced>>

-----------------------------------------------------------------------------
(***************************************************************************)
(* The commands.                                                           *)
(***************************************************************************)

To(p, what) == doing' = [doing EXCEPT ![p] = what]

\* The command ends: it is done, a call of it failed, or it was interrupted.
EndCommand(p) ==
  /\ doing[p] # "none"
  /\ verb' = [verb EXCEPT ![p] = "none"]
  /\ doing' = [doing EXCEPT ![p] = "none"]
  /\ seen' = [seen EXCEPT ![p] = NotAsked]
  /\ stopping' = [stopping EXCEPT ![p] = 0]
  /\ read' = [read EXCEPT ![p] = {}]
  /\ told' = [told EXCEPT ![p] = {}]
  /\ UNCHANGED <<registryVars, runtimeVars, hadPassword, raced>>

\* A command begins; all but an install and the settings need the service.
Run(p, v) ==
  /\ doing[p] = "none"
  /\ v = "install" => ~registered
  /\ v \in {"uninstall", "start", "stop"} => registered
  /\ verb' = [verb EXCEPT ![p] = v]
  /\ To(p, CASE v = "install" -> "create" [] v = "start" -> "start"
             [] v \in {"stop", "uninstall"} -> "query" [] OTHER -> "read")
  /\ UNCHANGED <<registryVars, runtimeVars, seen, stopping, read, told, hadPassword, raced>>

\* installService: the service, its event source, its settings.
CreateService(p) ==
  /\ doing[p] = "create" /\ ~registered
  /\ registered' = TRUE
  /\ To(p, "source")
  /\ UNCHANGED <<hasSource, settings, hasPlain, runtimeVars, verb, seen, stopping, read, told,
                 hadPassword, raced>>

RegisterSource(p) ==
  /\ doing[p] = "source"
  /\ hasSource' = TRUE
  /\ To(p, "seed")
  /\ UNCHANGED <<registered, settings, hasPlain, runtimeVars, verb, seen, stopping, read, told,
                 hadPassword, raced>>

Seed(p) ==
  /\ doing[p] = "seed"
  /\ settings' = settings \union Seeds
  /\ To(p, "end")
  /\ UNCHANGED <<registered, hasSource, hasPlain, runtimeVars, verb, seen, stopping, read, told,
                 hadPassword, raced>>

\* startService.
StartService(p) ==
  /\ doing[p] = "start" /\ registered /\ state = "stopped"
  /\ Launch
  /\ To(p, "await")
  /\ UNCHANGED <<registryVars, verb, seen, stopping, read, told, hadPassword, raced>>

\* awaitState: running is what it waits for, and stopped is a failure.
Await(p) ==
  /\ doing[p] = "await" /\ state \in {"running", "stopped"}
  /\ seen' = [seen EXCEPT ![p] = [state |-> state, instance |-> instance]]
  /\ To(p, "end")
  /\ UNCHANGED <<registryVars, runtimeVars, verb, stopping, read, told, hadPassword, raced>>

-----------------------------------------------------------------------------
\* Variant: the service is removed first.
RemovalsServiceFirst == <<"delete", "removeSource", "removePlain", "removeSettings">>

\* What an uninstall removes, the service last, as it cannot be uninstalled
\* again once it is gone.
Removals == <<"removeSource", "removePlain", "removeSettings", "delete">>

AfterRemoving(what) ==
  LET i == CHOOSE j \in DOMAIN Removals : Removals[j] = what
  IN IF i = Len(Removals) THEN "end" ELSE Removals[i + 1]

(***************************************************************************)
(* ensureStopped, for a stop or an uninstall.                              *)
(***************************************************************************)

\* Variant: a stop that was accepted stands, whoever runs now.
IsTheSameAlways(p) == TRUE

\* The process a stop was sent to is the one that runs.
IsTheSame(p) == stopping[p] \in {0, instance}

QueryService(p) ==
  LET stands == IF IsTheSame(p) THEN stopping[p] ELSE 0
  IN /\ doing[p] = "query"
     /\ seen' = [seen EXCEPT ![p] = [state |-> state, instance |-> instance]]
     /\ stopping' = [stopping EXCEPT ![p] = stands]
     /\ To(p, IF state = "stopped" THEN IF verb[p] = "stop" THEN "end" ELSE Head(Removals)
              ELSE IF stands = 0 /\ state = "running" THEN "control" ELSE "sleep")
     /\ UNCHANGED <<registryVars, runtimeVars, verb, read, told, hadPassword, raced>>

\* The stop is accepted by whatever process runs, or refused by a service that
\* has moved on.
ControlStop(p) ==
  /\ doing[p] = "control"
  /\ IF state = "running"
       THEN isTold' = TRUE /\ stopping' = [stopping EXCEPT ![p] = seen[p].instance]
       ELSE UNCHANGED <<isTold, stopping>>
  /\ told' = [told EXCEPT ![p] = @ \union {seen[p].instance, instance}]
  /\ To(p, "sleep")
  /\ UNCHANGED <<registryVars, state, instance, exchange, verb, seen, read, hadPassword, raced>>

\* The deadline has passed: ensureStopped gives up.
GiveUpStop(p) == doing[p] = "sleep" /\ EndCommand(p)

Sleep(p) ==
  /\ doing[p] = "sleep"
  /\ To(p, "query")
  /\ UNCHANGED <<registryVars, runtimeVars, verb, seen, stopping, read, told, hadPassword, raced>>

-----------------------------------------------------------------------------
(***************************************************************************)
(* uninstallService, once the service is stopped.                          *)
(***************************************************************************)

RemoveSource(p) ==
  /\ doing[p] = "removeSource"
  /\ hasSource' = FALSE
  /\ To(p, AfterRemoving("removeSource"))
  /\ UNCHANGED <<registered, settings, hasPlain, runtimeVars, verb, seen, stopping, read, told,
                 hadPassword, raced>>

\* removeProductRegistry: the installer's key, and then the settings.
RemovePlain(p) ==
  /\ doing[p] = "removePlain"
  /\ hasPlain' = FALSE /\ hadPassword' = FALSE
  /\ To(p, AfterRemoving("removePlain"))
  /\ UNCHANGED <<registered, hasSource, settings, runtimeVars, verb, seen, stopping, read, told,
                 raced>>

RemoveSettings(p) ==
  /\ doing[p] = "removeSettings"
  /\ settings' = {}
  /\ To(p, AfterRemoving("removeSettings"))
  /\ UNCHANGED <<registered, hasSource, hasPlain, runtimeVars, verb, seen, stopping, read, told,
                 hadPassword, raced>>

DeleteService(p) ==
  /\ doing[p] = "delete"
  /\ registered' = FALSE
  /\ To(p, AfterRemoving("delete"))
  /\ UNCHANGED <<hasSource, settings, hasPlain, runtimeVars, verb, seen, stopping, read, told,
                 hadPassword, raced>>

-----------------------------------------------------------------------------
(***************************************************************************)
(* The config commands.                                                    *)
(***************************************************************************)

ReadConfig(p) ==
  /\ doing[p] = "read"
  /\ read' = [read EXCEPT ![p] = settings]
  /\ To(p, "write")
  /\ UNCHANGED <<registryVars, runtimeVars, verb, seen, stopping, told, hadPassword, raced>>

\* writeServiceConfiguration: what was not read, or is no longer wanted, goes.
WriteConfig(p, name) ==
  /\ doing[p] = "write"
  /\ verb[p] = "unset" => name \in read[p]
  /\ settings' = IF verb[p] = "set" THEN read[p] \union {name} ELSE read[p] \ {name}
  /\ raced' = (raced \/ ~(settings \subseteq read[p]) \/ name = HashSetting)
  /\ To(p, "end")
  /\ UNCHANGED <<registered, hasSource, hasPlain, runtimeVars, verb, seen, stopping, read, told,
                 hadPassword>>

WindowsNext ==
  \/ ExchangeBegins \/ WriteHash \/ RemovePlaintext \/ Advance \/ Collapse
  \/ \E p \in Prompts :
       \/ \E v \in Verbs : Run(p, v)
       \/ EndCommand(p)
       \/ CreateService(p) \/ RegisterSource(p) \/ Seed(p) \/ StartService(p) \/ Await(p)
       \/ QueryService(p) \/ ControlStop(p) \/ Sleep(p)
       \/ RemoveSource(p) \/ RemovePlain(p) \/ RemoveSettings(p) \/ DeleteService(p)
       \/ ReadConfig(p) \/ \E name \in Names : WriteConfig(p, name)

WindowsSpec == WindowsInit /\ [][WindowsNext]_windowsVars

-----------------------------------------------------------------------------
(***************************************************************************)
(* Properties.                                                             *)
(***************************************************************************)

\* Every variable has its type.
WindowsTypeOK ==
  /\ state \in States /\ instance \in 0 .. MaxInstances
  /\ settings \subseteq Names
  /\ \A p \in Prompts : verb[p] \in Verbs \union {"none"} /\ stopping[p] \in 0 .. MaxInstances

\* The password an installer left is never lost, wherever the first start is
\* interrupted and started again: its hash or the plaintext is there, unless it
\* was uninstalled or a config command overwrote what it had not read.
PasswordKept == hadPassword /\ ~raced => hasPlain \/ HashSetting \in settings

\* Of commands run one at a time: whatever an installation or its removal leaves
\* behind, wherever it fails or is interrupted, another uninstall can remove, as
\* the service it needs is there as long as its event source or the installer's
\* password is.
RemainsRemovable == hasSource \/ hasPlain => registered

\* Neither is lost wherever the commands and the first start are interrupted.
Recoverable == WindowsTypeOK /\ PasswordKept /\ RemainsRemovable

\* A stop that gives up on a service it last saw running has had an answer to a
\* stop from the process it saw, however often the service was started again.
EveryInstanceAsked ==
  [][\A p \in Prompts :
       GiveUpStop(p) /\ seen[p].state = "running" => seen[p].instance \in told[p]]_windowsVars

=============================================================================
