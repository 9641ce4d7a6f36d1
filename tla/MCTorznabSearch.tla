--------------------------- MODULE MCTorznabSearch ---------------------------
(***************************************************************************)
(* The instance of TorznabSearch that TLC checks.  Tracker t2 cannot       *)
(* answer the search k2.                                                   *)
(***************************************************************************)
EXTENDS TorznabSearch

CONSTANTS t1, t2, k1, k2

MCHandles == {<<t1, k1>>, <<t1, k2>>, <<t2, k1>>}

MCQuestions ==
  {[id |-> t1, key |-> k1], [id |-> t2, key |-> k2], [id |-> All, key |-> k1],
   [id |-> All, key |-> k2], [id |-> Unknown, key |-> k1]}

=============================================================================
