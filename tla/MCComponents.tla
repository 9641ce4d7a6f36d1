---------------------------- MODULE MCComponents ----------------------------
(***************************************************************************)
(* The components that share no state, each on an instance of its own.  A  *)
(* behaviour is one of the component that "part" names; the others stay as *)
(* they began.                                                             *)
(***************************************************************************)
EXTENDS DefinitionStore, AdminPanel, TrackerSettings, LogRotation, WindowsService

CONSTANT Parts     \* the components a run follows

VARIABLE part

MCContents == {[id |-> "i1", replaces |-> {}], [id |-> "i2", replaces |-> {"i1"}], Broken}
MCClaims   == {<<>>, <<"garbage">>, <<"elsewhere", "proxy">>}
MCOldIds   == <<"old">>
MCNoOldIds == <<>>
MCKinds    == [password |-> "secret"]

MCInit ==
  /\ part \in Parts
  /\ DefinitionInit
  /\ PanelInit
  /\ SettingsInit /\ (part # "settings" => files = [id \in FileIds |-> NoValues])
  /\ LogInit
  /\ WindowsInit /\ (part # "windows" => registered)

MCNext ==
  /\ UNCHANGED part
  /\ \/ part = "definitions" /\ DefinitionNext
        /\ UNCHANGED <<panelVars, settingsVars, logVars, windowsVars>>
     \/ part = "panel" /\ PanelNext
        /\ UNCHANGED <<definitionVars, settingsVars, logVars, windowsVars>>
     \/ part = "settings" /\ SettingsNext
        /\ UNCHANGED <<definitionVars, panelVars, logVars, windowsVars>>
     \/ part = "log" /\ LogNext
        /\ UNCHANGED <<definitionVars, panelVars, settingsVars, windowsVars>>
     \/ part = "windows" /\ WindowsNext
        /\ UNCHANGED <<definitionVars, panelVars, settingsVars, logVars>>

MCVars == <<part, definitionVars, panelVars, settingsVars, logVars, windowsVars>>

MCSpec == MCInit /\ [][MCNext]_MCVars

=============================================================================
