---------------------------- MODULE MCStreamHub ----------------------------
(* StreamHub for TLC.  Sockets of a kind, streams and clients are            *)
(* interchangeable.                                                          *)
EXTENDS StreamHub, TLC

Symmetry == Permutations(Ctrls) \cup Permutations(Medias) \cup Permutations(Streams) \cup Permutations(Clients)
=============================================================================
