--------------------------- MODULE MCMessageFlow ---------------------------
(* MessageFlow for TLC: one client whose socket and page may fail, and a     *)
(* steady one that posts.  Channels are interchangeable.                     *)
EXTENDS MessageFlow, TLC

CONSTANTS a, b

MCClients  == {a, b}
MCUnstable == {a}
\* The unstable client's user acts while a request is under way.
MCMaxQueue == (a :> 2) @@ (b :> 1)

Symmetry == Permutations(Channels)
=============================================================================
