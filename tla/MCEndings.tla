----------------------------- MODULE MCEndings -----------------------------
(***************************************************************************)
(* What has to end: the scrapes in a tracker's line, and a process that is *)
(* asked to stop.  The two share no state; a behaviour is one of the       *)
(* component "part" names, and the other stays as it began.                *)
(***************************************************************************)
EXTENDS RequestPacing, ServerProcess

CONSTANTS s1, s2

VARIABLE part

\* Two mirrors and one, with every way to sign in; the scrapes search alike or
\* differently, and the second may find no path that applies.
MCDefinition(how, tested, configured, count, first, second) ==
  [method |-> how, isTested |-> tested, isReady |-> configured, mirrors |-> count,
   paths |-> [s \in Scrapes |-> IF s = s1 THEN first ELSE second]]

MCPlain == MCDefinition("none", FALSE, TRUE, 2, <<"broken", "g1", "g1">>, <<"g1">>)

MCDefinitions ==
  {MCPlain,
   MCDefinition("form", TRUE, TRUE, 1, <<"g1">>, <<"skip", "g1">>),
   MCDefinition("cookie", TRUE, TRUE, 1, <<"g1", "g2">>, <<"skip">>),
   MCDefinition("submit", FALSE, TRUE, 2, <<"g1">>, <<"skip">>),
   MCDefinition("submit", FALSE, FALSE, 2, <<"g1">>, <<"g1">>),
   MCDefinition("captcha", FALSE, TRUE, 1, <<"g1">>, <<"g1">>)}

MCInit ==
  /\ part \in {"pacing", "process"}
  /\ PacingInit /\ (part = "process" => def = MCPlain)
  /\ ProcessInit /\ (part = "pacing" => service = "none")

MCNext ==
  /\ UNCHANGED part
  /\ \/ part = "pacing" /\ PacingNext
        /\ UNCHANGED <<processVars>>
     \/ part = "process" /\ ProcessNext
        /\ UNCHANGED <<pacingVars>>

MCVars == <<part, pacingVars, processVars>>

\* PacingFairness asks nothing of a line nobody stands in; a process has always
\* begun.
MCFairness ==
  /\ PacingFairness
  /\ WF_processVars(part = "process" /\ RunStep)
  /\ WF_processVars(part = "process" /\ ReportStopped)
  /\ WF_processVars(part = "process" /\ SweepEnds)
  /\ SF_processVars(part = "process" /\ PruningEnds)

MCSpec == MCInit /\ [][MCNext]_MCVars /\ MCFairness

=============================================================================
