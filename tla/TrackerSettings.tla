--------------------------- MODULE TrackerSettings ---------------------------
(***************************************************************************)
(* The settings an operator saves for one tracker: the file of the         *)
(* tracker's own id and, for a tracker that was renamed, those of the ids  *)
(* it replaces.  Requests of the panel save them while scrapes read them   *)
(* and sign in with them, and the process may end at any moment.           *)
(*                                                                         *)
(* Nothing locks the files.  A read of one file is a step (the descriptor  *)
(* keeps the file a rename replaces), and so is each call that changes     *)
(* the directory; a write to a file is two, as it may be seen half done.   *)
(***************************************************************************)
EXTENDS Naturals, Sequences

CONSTANTS
  Savers,       \* requests of the panel that save the form
  Readers,      \* scrapes
  OldIds,       \* the ids the definition replaces, in order
  Kinds,        \* the kind of each setting: "secret", "checkbox", "text", or
                \* "flaresolverr", the operator's own
  HasFlare,     \* FlareSolverrEnabled
  Values,       \* what a field of the form may hold
  IsTested      \* the login block has a test

ASSUME SettingsAssumption ==
  /\ OldIds \in Seq(STRING) /\ HasFlare \in BOOLEAN /\ IsTested \in BOOLEAN
  /\ \A n \in DOMAIN Kinds : Kinds[n] \in {"secret", "checkbox", "text", "flaresolverr"}

\* The store hands out no tracker that replaces an id in use, its own included; a
\* request of the panel is no scrape.
ASSUME OwnersAssumption ==
  /\ \A i \in DOMAIN OldIds : OldIds[i] # "own"
  /\ Savers \intersect Readers = {}

\* There is something to save, and what is half written is none of it.
ASSUME ValuesAssumption == DOMAIN Kinds # {} /\ "torn" \notin Values

VARIABLES
  files,         \* files[id]: the settings the file of id holds
  at, place,     \* at[p]: what p does next; place[p]: the id it does it to
  found,         \* found[p]: the settings p has read, as TrackerOverrides returns them
  unread,        \* unread[p]: a file could not be read
  submitted,     \* submitted[p]: the form
  jar,           \* the settings the session in the cookie jar was made with, or
                 \* NoLogin
  loginFresh,    \* loginIsFresh
  before, alone  \* history: the settings in force when p began, and whether
                 \* nothing but p has changed a file since, and nothing failed

settingsHistory == <<before, alone>>
settingsVars == <<files, at, place, found, unread, submitted, jar, loginFresh, settingsHistory>>

Users    == Savers \union Readers
OwnId    == "own"
FileIds  == {OwnId} \union {OldIds[i] : i \in DOMAIN OldIds}
Unset    == "unset"
Mask     == "mask"
NoValues == [n \in DOMAIN Kinds |-> Unset]    \* no file, or an empty one
Torn     == [n \in DOMAIN Kinds |-> "torn"]   \* a file half written
NoLogin  == [n \in DOMAIN Kinds |-> "none"]
Settings == [DOMAIN Kinds -> Values \union {Unset}]

\* What a form may hold: a secret is shown, and comes back, as its mask.
Forms ==
  {f \in [DOMAIN Kinds -> Values \union {Unset, Mask}] :
     \A n \in DOMAIN Kinds :
       /\ f[n] = Mask => Kinds[n] = "secret"
       /\ Kinds[n] = "flaresolverr" /\ ~HasFlare => f[n] = Unset}

SettingsInit ==
  /\ files \in [FileIds -> Settings] /\ files[OwnId] = NoValues
  /\ at = [p \in Users |-> "idle"] /\ place = [p \in Users |-> 0]
  /\ found = [p \in Users |-> NoValues] /\ unread = [p \in Users |-> FALSE]
  /\ submitted = [p \in Savers |-> NoValues]
  /\ jar = NoLogin /\ loginFresh = FALSE
  /\ before = [p \in Savers |-> NoValues] /\ alone = [p \in Savers |-> TRUE]

\* The id TrackerOverrides looks at in the i-th place.
IdAt(i) == IF i = 0 THEN OwnId ELSE OldIds[i]

\* What TrackerOverrides would return if it were one step.
InForce ==
  LET held == {i \in 0 .. Len(OldIds) : files[IdAt(i)] # NoValues}
  IN IF held = {} THEN NoValues
     ELSE files[IdAt(CHOOSE i \in held : \A j \in held : i <= j)]

Goes(p, what, i) == at' = [at EXCEPT ![p] = what] /\ place' = [place EXCEPT ![p] = i]

\* A file changed at the hands of p.
Disturbed(p) == alone' = [q \in Savers |-> alone[q] /\ q = p]

-----------------------------------------------------------------------------
(***************************************************************************)
(* TrackerOverrides, for a save or a scrape.                               *)
(***************************************************************************)

\* Variant: a save looks at the tracker's own file only.
LastPlaceOwn(p) == IF p \in Savers THEN 0 ELSE Len(OldIds)

\* The last place it looks in.
LastPlace(p) == Len(OldIds)

\* The handler begins with the form it was sent.
BeginSave(p, form) ==
  /\ at[p] = "idle"
  /\ Goes(p, "read", 0)
  /\ submitted' = [submitted EXCEPT ![p] = form]
  /\ before' = [before EXCEPT ![p] = InForce]
  /\ alone' = [alone EXCEPT ![p] = TRUE]
  /\ UNCHANGED <<files, found, unread, jar, loginFresh>>

BeginScrape(p) ==
  /\ at[p] = "idle"
  /\ Goes(p, "read", 0)
  /\ UNCHANGED <<files, found, unread, submitted, jar, loginFresh, settingsHistory>>

\* A file is read: settings end the search, and none send it on.
ReadPlace(p) ==
  LET held == files[IdAt(place[p])]
  IN /\ at[p] = "read"
     /\ found' = [found EXCEPT ![p] = held]
     /\ IF held = NoValues /\ place[p] < LastPlace(p)
          THEN Goes(p, "read", place[p] + 1)
          ELSE Goes(p, "resolved", 0)
     /\ UNCHANGED <<files, unread, submitted, jar, loginFresh, settingsHistory>>

\* A file that is there cannot be read: the settings pass for none.
ReadingFails(p) ==
  /\ at[p] = "read" /\ files[IdAt(place[p])] # NoValues
  /\ found' = [found EXCEPT ![p] = NoValues]
  /\ unread' = [unread EXCEPT ![p] = TRUE]
  /\ Goes(p, "resolved", 0)
  /\ alone' = [q \in Savers |-> alone[q] /\ q # p]
  /\ UNCHANGED <<files, submitted, jar, loginFresh, before>>

-----------------------------------------------------------------------------
(***************************************************************************)
(* handleSaveSettings and ConfigStore.Save.                                *)
(***************************************************************************)

\* The settings a form makes of those already stored.
Overridden(form, existing) ==
  [n \in DOMAIN Kinds |->
     CASE Kinds[n] = "secret" -> IF form[n] = Mask THEN existing[n] ELSE form[n]
       [] Kinds[n] = "checkbox" -> IF form[n] = Unset THEN "off" ELSE "on"
       [] Kinds[n] = "text" -> form[n]
       [] Kinds[n] = "flaresolverr" -> IF HasFlare THEN form[n] ELSE existing[n]]

Wanted(p) == Overridden(submitted[p], found[p])

\* The handler ends, whichever way.
EndSave(p) ==
  /\ Goes(p, "idle", 0)
  /\ found' = [found EXCEPT ![p] = NoValues]
  /\ unread' = [unread EXCEPT ![p] = FALSE]
  /\ submitted' = [submitted EXCEPT ![p] = NoValues]
  /\ before' = [before EXCEPT ![p] = NoValues]
  /\ alone' = [alone EXCEPT ![p] = TRUE]

\* Save fails before it has changed a thing a reader could see.
SaveFails(p) ==
  /\ p \in Savers /\ at[p] \in {"resolved", "written", "complete"}
  /\ EndSave(p)
  /\ UNCHANGED <<files, jar, loginFresh>>

\* Saving no settings removes the tracker's own file.
RemoveOwn(p) ==
  /\ p \in Savers /\ at[p] = "resolved" /\ Wanted(p) = NoValues
  /\ files' = [files EXCEPT ![OwnId] = NoValues]
  /\ Goes(p, "saved", 1)
  /\ Disturbed(p)
  /\ UNCHANGED <<found, unread, submitted, jar, loginFresh, before>>

\* Variant: the file is written in place.
WrittenInPlace(content) == files' = [files EXCEPT ![OwnId] = content]

\* What is written goes to a temporary file of its own, which nobody reads.
WrittenAside(content) == UNCHANGED files

\* The file is created and part of it written.
WritePart(p) ==
  /\ p \in Savers /\ at[p] = "resolved" /\ Wanted(p) # NoValues
  /\ WrittenAside(Torn)
  /\ Goes(p, "written", 0)
  /\ UNCHANGED <<found, unread, submitted, jar, loginFresh, settingsHistory>>

\* The rest is, and the file closed.
WriteRest(p) ==
  /\ at[p] = "written"
  /\ WrittenAside(Wanted(p))
  /\ Goes(p, "complete", 0)
  /\ UNCHANGED <<found, unread, submitted, jar, loginFresh, before, alone>>

\* The rename that puts it in its place.
RenameOver(p) ==
  /\ at[p] = "complete"
  /\ files' = [files EXCEPT ![OwnId] = Wanted(p)]
  /\ Goes(p, "saved", 1)
  /\ Disturbed(p)
  /\ UNCHANGED <<found, unread, submitted, jar, loginFresh, before>>

\* Variant: the replaced ids' settings are left when nothing was saved.
HasMovedSome(p) == ~unread[p] /\ Wanted(p) # NoValues

\* Whether the settings of the replaced ids have been carried over.
HasMoved(p) == ~unread[p]

\* The next replaced id's file is removed; one that cannot be stays.
RemoveOld(p) ==
  /\ at[p] = "saved" /\ place[p] <= Len(OldIds) /\ HasMoved(p)
  /\ \/ /\ files' = [files EXCEPT ![IdAt(place[p])] = NoValues]
        /\ Disturbed(p)
     \/ /\ alone' = [q \in Savers |-> alone[q] /\ q # p]
        /\ UNCHANGED files
  /\ Goes(p, "saved", place[p] + 1)
  /\ UNCHANGED <<found, unread, submitted, jar, loginFresh, before>>

\* InvalidateLogin, and the answer.
DropLogin(p) ==
  /\ at[p] = "saved" /\ (place[p] > Len(OldIds) \/ ~HasMoved(p))
  /\ loginFresh' = FALSE
  /\ EndSave(p)
  /\ UNCHANGED <<files, jar>>

-----------------------------------------------------------------------------
(***************************************************************************)
(* ensureLoggedIn, as a whole: only what it leaves in the jar matters here.*)
(***************************************************************************)

EndScrape(p) ==
  /\ p \in Readers /\ at[p] = "resolved"
  /\ Goes(p, "idle", 0)
  /\ found' = [found EXCEPT ![p] = NoValues]
  /\ unread' = [unread EXCEPT ![p] = FALSE]
  /\ UNCHANGED <<files, submitted, settingsHistory>>

\* The login is fresh, or signing in fails: nothing has been configured, or the
\* tracker does not take it.
SignInNot(p) == EndScrape(p) /\ UNCHANGED <<jar, loginFresh>>

\* The login test finds the session in the jar to be good, whoever made it.
TestPasses(p) ==
  /\ ~loginFresh /\ IsTested /\ jar # NoLogin
  /\ EndScrape(p)
  /\ loginFresh' = TRUE
  /\ UNCHANGED jar

\* performLogin, with the settings the scrape resolved.
PerformSignIn(p) ==
  /\ ~loginFresh /\ found[p] # NoValues
  /\ EndScrape(p)
  /\ loginFresh' = TRUE /\ jar' = found[p]

SignIn(p) == TestPasses(p) \/ PerformSignIn(p)

\* The process ends and starts again: the files stay as they are.
Stop ==
  /\ at' = [p \in Users |-> "idle"] /\ place' = [p \in Users |-> 0]
  /\ found' = [p \in Users |-> NoValues] /\ unread' = [p \in Users |-> FALSE]
  /\ submitted' = [p \in Savers |-> NoValues]
  /\ before' = [p \in Savers |-> NoValues] /\ alone' = [p \in Savers |-> TRUE]
  /\ jar' = NoLogin /\ loginFresh' = FALSE
  /\ UNCHANGED files

SettingsNext ==
  \/ \E p \in Savers :
       \/ \E form \in Forms : BeginSave(p, form)
       \/ SaveFails(p) \/ RemoveOwn(p) \/ WritePart(p) \/ WriteRest(p)
       \/ RenameOver(p) \/ RemoveOld(p) \/ DropLogin(p)
  \/ \E p \in Readers : BeginScrape(p) \/ SignIn(p) \/ SignInNot(p)
  \/ \E p \in Users : ReadPlace(p) \/ ReadingFails(p)
  \/ Stop

SettingsSpec == SettingsInit /\ [][SettingsNext]_settingsVars

-----------------------------------------------------------------------------
(***************************************************************************)
(* Properties.                                                             *)
(***************************************************************************)

\* Whatever is read while others save, and after a process that ended half-way
\* through a save, is all of what one save wrote, or nothing.
ReadsOneSave == \A p \in Users : found[p] # Torn

\* A save that met no failure and no other save leaves in force what the form
\* makes of the settings that were in force when it was sent, be they its own or
\* a replaced id's: a masked secret keeps its value, and an empty form leaves
\* nothing in force.
SaveTakesEffect ==
  [][\A p \in Savers :
       DropLogin(p) /\ alone[p] =>
         InForce = Overridden(submitted[p], before[p])]_settingsVars

\* The comment of handleSaveSettings: a session established with the old
\* credentials must not be trusted.  Once nobody saves or scrapes, a login that
\* is held to be good was made with the settings in force.
OldSessionUntrusted == (\A p \in Users : at[p] = "idle") /\ loginFresh => jar = InForce

\* Every variable has its type.
SettingsTypeOK ==
  /\ \A id \in FileIds : id \in DOMAIN files
  /\ \A p \in Users :
       /\ at[p] \in {"idle", "read", "resolved", "written", "complete", "saved"}
       /\ place[p] \in 0 .. Len(OldIds) + 1

=============================================================================
