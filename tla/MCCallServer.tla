---------------------------- MODULE MCCallServer ----------------------------
(* CallServer for TLC: a room per owner, symmetric connections.  There is no *)
(* admin, whose only right here, to end any call, an owner has in his room.  *)
EXTENDS CallServer, TLC

CONSTANTS c1, c2, c3, u1, u2, r1, r2

MCConns  == {c1, c2, c3}
MCUsers  == {u1, u2}
MCRooms  == {r1, r2}
MCAdmins == {}
MCOwner  == (r1 :> u1) @@ (r2 :> u2)

\* No guard reads `sent`: states that differ in it only have the same future.
View == <<connVars, member, callVars>>

\* Bound: at most one index entry left behind by a second authentication.
FewStaleEntries ==
    Cardinality({<<u, c>> \in Users \X Conns : c \in userConns[u] /\ connUser[c] # u}) <= 1

\* Connections are interchangeable, and so are the two users together with the
\* rooms they own.
SwapOwners == (u1 :> u2) @@ (u2 :> u1) @@ (r1 :> r2) @@ (r2 :> r1)
Symmetry == Permutations(MCConns) \cup {SwapOwners @@ f : f \in Permutations(MCConns)}
=============================================================================
