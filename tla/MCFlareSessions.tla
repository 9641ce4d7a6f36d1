--------------------------- MODULE MCFlareSessions ---------------------------
(***************************************************************************)
(* Small instances of FlareSessions.                                       *)
(***************************************************************************)
EXTENDS FlareSessions, TLC

\* Workers, sessions, and trackers without a test are interchangeable.
Symmetric ==
  Permutations(Workers) \union Permutations(Sessions) \union Permutations(Trackers \ Tested)

=============================================================================
