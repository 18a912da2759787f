---------------------------- MODULE CallRegistry ----------------------------
(***************************************************************************)
(* What the call server promises, without peers, sockets or tables: a room *)
(* holds at most one call at a time, a connection attends at most one      *)
(* call, a call lasts exactly until its last attendee goes or somebody     *)
(* ends it, and a call that is over never comes back.                      *)
(***************************************************************************)
CONSTANTS Conns, Rooms, CallIds, None

VARIABLES
    live,       \* calls that are going on
    roomOf,     \* the room of a call, None before it is opened
    attends     \* the call a connection attends, or None

vars == <<live, roomOf, attends>>

Init ==
    /\ live = {}
    /\ roomOf = [k \in CallIds |-> None]
    /\ attends = [c \in Conns |-> None]

\* The calls that survive when c goes: not the one that only c attends.
LiveWithout(c) ==
    {k \in live : attends[c] # k \/ \E d \in Conns \ {c} : attends[d] = k}

Open(k, r) ==
    /\ roomOf[k] = None
    /\ \A j \in live : roomOf[j] # r
    /\ live' = live \cup {k}
    /\ roomOf' = [roomOf EXCEPT ![k] = r]
    /\ UNCHANGED attends

\* Entering a call leaves the one attended before.
Enter(c, k) ==
    /\ attends[c] # k
    /\ k \in live
    /\ live' = LiveWithout(c)
    /\ attends' = [attends EXCEPT ![c] = k]
    /\ UNCHANGED roomOf

Exit(c) ==
    /\ attends[c] # None
    /\ live' = LiveWithout(c)
    /\ attends' = [attends EXCEPT ![c] = None]
    /\ UNCHANGED roomOf

End(k) ==
    /\ k \in live
    /\ live' = live \ {k}
    /\ attends' = [c \in Conns |-> IF attends[c] = k THEN None ELSE attends[c]]
    /\ UNCHANGED roomOf

Next ==
    \/ \E k \in CallIds : End(k) \/ \E r \in Rooms : Open(k, r)
    \/ \E c \in Conns : Exit(c) \/ \E k \in CallIds : Enter(c, k)

Spec == Init /\ [][Next]_vars
=============================================================================
