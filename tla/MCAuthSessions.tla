--------------------------- MODULE MCAuthSessions ---------------------------
(* AuthSessions for TLC.  Connections, request slots and handles are         *)
(* interchangeable.                                                          *)
EXTENDS AuthSessions, TLC

Symmetry == Permutations(Conns) \cup Permutations(Reqs) \cup Permutations(Handles)
=============================================================================
