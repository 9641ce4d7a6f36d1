------------------------- MODULE MCScrapeScheduler -------------------------
(***************************************************************************)
(* Small instances of ScrapeScheduler.  The durations keep what matters of *)
(* the order the code's are in: the spacing is shorter than the            *)
(* de-duplication window; one slot can be waited for and two in a row      *)
(* cannot; a slot can be reserved beyond the end of a backoff; and a       *)
(* window and a backoff can both be over while requests still arrive.      *)
(***************************************************************************)
EXTENDS ScrapeScheduler

=============================================================================
