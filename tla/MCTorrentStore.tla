---------------------------- MODULE MCTorrentStore ----------------------------
(***************************************************************************)
(* Small instances of TorrentStore.                                        *)
(***************************************************************************)
EXTENDS TorrentStore, TLC

\* Trackers, identities and searches are interchangeable.
Symmetric ==
  Permutations(Trackers) \union Permutations(Identities) \union Permutations(Keys)

=============================================================================
