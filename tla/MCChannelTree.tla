--------------------------- MODULE MCChannelTree ---------------------------
(* ChannelTree for TLC: an admin, a user who makes hubs and channels, and a *)
(* member whose socket and page may fail.                                  *)
EXTENDS ChannelTree, TLC

CONSTANTS ann, max

MCMaxRequests == (ann :> 3) @@ (max :> 1)

Symmetry == Permutations(Hubs) \cup Permutations(Channels)
=============================================================================
