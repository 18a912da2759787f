-------------------------- MODULE CallServer_proofs --------------------------
(***************************************************************************)
(* Proofs about CallServer for any number of connections, users, rooms,    *)
(* calls and peers.                                                        *)
(***************************************************************************)
EXTENDS CallServer, FiniteSetTheorems, TLAPS

(***************************************************************************)
(* The inductive invariant: the tables agree, a connection that is not     *)
(* open holds nothing, and the ids not handed out yet are unknown to every *)
(* table, so that a new peer or call cannot be confused with an old one.   *)
(***************************************************************************)
OnlyOpenConnections ==
    \A c \in Conns : connState[c] # "open" => connPeer[c] = None /\ connUser[c] = None

FreshIdsUnknown ==
    /\ \A p \in PeerIds : peerUser[p] = None => peerConn[p] = None
    /\ \A k \in live : roomOf[k] # None

Tables == CallsConsistent /\ OnlyOpenConnections /\ FreshIdsUnknown

IInv == TypeOK /\ Tables /\ OneCallPerRoom /\ IndexComplete

\* The initial state satisfies the inductive invariant: no call, no peer, no
\* open connection.
LEMMA InitIInv == Init => IInv
<1> SUFFICES ASSUME Init PROVE IInv
    OBVIOUS
<1>1. TypeOK
    BY ConstantsAssumption DEF Init, TypeOK
<1>2. Tables
    BY ConstantsAssumption DEF Init, Tables, CallsConsistent, RegistryMatchesConnections,
        ConnectionsAreInLiveCalls, PeersAreConnected, InCall, OnlyOpenConnections, FreshIdsUnknown
<1>3. OneCallPerRoom /\ IndexComplete
    BY DEF Init, OneCallPerRoom, IndexComplete, Authed
<1>4. QED
    BY <1>1, <1>2, <1>3 DEF IInv

-----------------------------------------------------------------------------
(***************************************************************************)
(* The index of connections by user, which only Authenticate and Close     *)
(* change.                                                                 *)
(***************************************************************************)
\* A step that leaves the index, the users and the sockets alone keeps it complete.
LEMMA IndexKept ==
    ASSUME IndexComplete, UNCHANGED <<connState, connUser, userConns>>
    PROVE  IndexComplete'
BY DEF IndexComplete, Authed

-----------------------------------------------------------------------------
(***************************************************************************)
(* One lemma per action.                                                   *)
(***************************************************************************)
\* A step that writes messages only, or changes a room's members only.
LEMMA QuietStep ==
    ASSUME IInv, member' \in [Rooms -> SUBSET Users], UNCHANGED <<connVars, callVars>>
    PROVE  IInv'
<1>1. TypeOK'
    BY DEF IInv, TypeOK, connVars, callVars
<1>2. Tables'
    BY DEF IInv, Tables, CallsConsistent, RegistryMatchesConnections, ConnectionsAreInLiveCalls,
        PeersAreConnected, InCall, OnlyOpenConnections, FreshIdsUnknown, connVars, callVars
<1>3. OneCallPerRoom' /\ IndexComplete'
    BY IndexKept DEF IInv, OneCallPerRoom, connVars, callVars
<1>4. QED
    BY <1>1, <1>2, <1>3 DEF IInv

LEMMA ConnectStep ==
    ASSUME IInv, NEW c \in Conns, Connect(c)
    PROVE  IInv'
<1> USE DEF Connect, callVars
<1>1. TypeOK'
    BY DEF IInv, TypeOK
<1>2. Tables'
    <2>1. RegistryMatchesConnections'
        BY ConstantsAssumption DEF IInv, TypeOK, Tables, CallsConsistent,
            RegistryMatchesConnections, OnlyOpenConnections
    <2>2. ConnectionsAreInLiveCalls' /\ PeersAreConnected'
        BY DEF IInv, Tables, CallsConsistent, ConnectionsAreInLiveCalls, PeersAreConnected, InCall
    <2>3. OnlyOpenConnections' /\ FreshIdsUnknown'
        BY DEF IInv, TypeOK, Tables, OnlyOpenConnections, FreshIdsUnknown
    <2>4. QED
        BY <2>1, <2>2, <2>3 DEF Tables, CallsConsistent
<1>3. OneCallPerRoom'
    BY DEF IInv, OneCallPerRoom
<1>4. IndexComplete'
    BY DEF IInv, TypeOK, Tables, OnlyOpenConnections, IndexComplete, Authed
<1>5. QED
    BY <1>1, <1>2, <1>3, <1>4 DEF IInv

LEMMA AuthenticateStep ==
    ASSUME IInv, NEW c \in Conns, NEW u \in Users, Authenticate(c, u)
    PROVE  IInv'
<1> USE DEF Authenticate, callVars
<1>1. TypeOK'
    BY DEF IInv, TypeOK
<1>2. Tables'
    <2>1. CallsConsistent'
        BY DEF IInv, Tables, CallsConsistent, RegistryMatchesConnections,
            ConnectionsAreInLiveCalls, PeersAreConnected, InCall
    <2>2. OnlyOpenConnections' /\ FreshIdsUnknown'
        BY DEF IInv, TypeOK, Tables, OnlyOpenConnections, FreshIdsUnknown
    <2>3. QED
        BY <2>1, <2>2 DEF Tables
<1>3. OneCallPerRoom'
    BY DEF IInv, OneCallPerRoom
<1>4. IndexComplete'
    BY ConstantsAssumption DEF IInv, TypeOK, IndexComplete, Authed
<1>5. QED
    BY <1>1, <1>2, <1>3, <1>4 DEF IInv

LEMMA CallCreateStep ==
    ASSUME IInv, NEW c \in Conns, NEW r \in Rooms, RtcCallCreate(c, r)
    PROVE  IInv'
<1>1. CASE UNCHANGED <<connVars, member, callVars>>
    BY <1>1, QuietStep DEF IInv, TypeOK
<1>2. ASSUME NEW k \in CallIds, FreshCall(k), CallOfRoom(r) = {},
             live' = live \cup {k},
             roomOf' = [roomOf EXCEPT ![k] = r],
             UNCHANGED <<connVars, member, callPeers, peerUser, peerConn>>
      PROVE  IInv'
    <2> USE <1>2 DEF connVars
    <2>1. TypeOK'
        BY DEF IInv, TypeOK
    <2>2. CallsConsistent'
        BY DEF IInv, Tables, CallsConsistent, RegistryMatchesConnections,
            ConnectionsAreInLiveCalls, PeersAreConnected, InCall
    <2>3. OnlyOpenConnections' /\ FreshIdsUnknown'
        BY ConstantsAssumption DEF IInv, TypeOK, Tables, OnlyOpenConnections, FreshIdsUnknown
    <2>4. OneCallPerRoom'
        BY DEF IInv, TypeOK, OneCallPerRoom, CallOfRoom
    <2>5. IndexComplete'
        BY IndexKept DEF IInv
    <2>6. QED
        BY <2>1, <2>2, <2>3, <2>4, <2>5 DEF IInv, Tables
<1>3. QED
    BY <1>1, <1>2 DEF RtcCallCreate, Reply

\* A fresh peer is in no call and is registered for no connection.
LEMMA FreshPeerUnknown ==
    ASSUME IInv, NEW p \in PeerIds, FreshPeer(p)
    PROVE  /\ peerConn[p] = None
           /\ \A k \in CallIds : p \notin callPeers[k]
           /\ \A c \in Conns : connPeer[c] # p
BY ConstantsAssumption DEF IInv, TypeOK, Tables, CallsConsistent, FreshIdsUnknown, FreshPeer,
    PeersAreConnected, ConnectionsAreInLiveCalls, InCall

LEMMA JoinFirstStep ==
    ASSUME IInv, NEW c \in Conns, NEW k \in CallIds, k \in live, Authed(c), JoinFirst(c, k)
    PROVE  IInv'
<1>1. PICK p \in PeerIds :
        /\ FreshPeer(p)
        /\ callPeers' = [callPeers EXCEPT ![k] = callPeers[k] \cup {p}]
        /\ peerUser' = [peerUser EXCEPT ![p] = connUser[c]]
        /\ peerConn' = [peerConn EXCEPT ![p] = c]
        /\ connPeer' = [connPeer EXCEPT ![c] = p]
        /\ connCall' = [connCall EXCEPT ![c] = k]
    BY DEF JoinFirst, Register
<1>2. UNCHANGED <<connState, connUser, userConns, member, live, roomOf>>
    BY DEF JoinFirst
<1>3. connPeer[c] = None /\ connCall[c] = None
    BY DEF JoinFirst, InCall, IInv, Tables, CallsConsistent, ConnectionsAreInLiveCalls
<1>4. peerConn[p] = None /\ (\A j \in CallIds : p \notin callPeers[j]) /\ (\A d \in Conns : connPeer[d] # p)
    BY <1>1, FreshPeerUnknown
<1>5. TypeOK'
    BY <1>1, <1>2, ConstantsAssumption DEF IInv, TypeOK
<1>6. CallsConsistent'
    <2> USE <1>1, <1>2, <1>3, <1>4, ConstantsAssumption DEF IInv, TypeOK, Tables, CallsConsistent, Authed
    <2>1. RegistryMatchesConnections'
        BY DEF RegistryMatchesConnections
    <2>2. ConnectionsAreInLiveCalls'
        BY DEF ConnectionsAreInLiveCalls, InCall
    <2>3. PeersAreConnected'
        BY DEF PeersAreConnected
    <2>4. QED
        BY <2>1, <2>2, <2>3
<1>7. OnlyOpenConnections' /\ FreshIdsUnknown'
    BY <1>1, <1>2, ConstantsAssumption
        DEF IInv, TypeOK, Tables, OnlyOpenConnections, FreshIdsUnknown, Authed
<1>8. OneCallPerRoom' /\ IndexComplete'
    BY <1>2, IndexKept DEF IInv, OneCallPerRoom
<1>9. QED
    BY <1>5, <1>6, <1>7, <1>8 DEF IInv, Tables

\* The peer of a connection in a call is registered for that connection only,
\* and belongs to no other call.
LEMMA OwnPeer ==
    ASSUME IInv, NEW c \in Conns, InCall(c)
    PROVE  /\ connPeer[c] \in PeerIds /\ connCall[c] \in live /\ live \subseteq CallIds
           /\ connState[c] = "open"
           /\ connPeer[c] \in callPeers[connCall[c]]
           /\ peerConn[connPeer[c]] = c
           /\ \A d \in Conns : connPeer[d] = connPeer[c] => d = c
           /\ \A k \in CallIds : connPeer[c] \in callPeers[k] => k = connCall[c]
<1>1. connPeer[c] \in PeerIds /\ connCall[c] \in live /\ live \subseteq CallIds
      /\ connState[c] = "open" /\ connPeer[c] \in callPeers[connCall[c]]
    BY DEF IInv, TypeOK, Tables, CallsConsistent, ConnectionsAreInLiveCalls, InCall,
        OnlyOpenConnections
<1>2. peerConn[connPeer[c]] = c
    BY <1>1 DEF IInv, Tables, CallsConsistent, RegistryMatchesConnections
<1>3. ASSUME NEW d \in Conns, connPeer[d] = connPeer[c] PROVE d = c
    BY <1>1, <1>2, <1>3, ConstantsAssumption
        DEF IInv, Tables, CallsConsistent, RegistryMatchesConnections, OnlyOpenConnections, InCall
<1>4. ASSUME NEW k \in CallIds, connPeer[c] \in callPeers[k] PROVE k = connCall[c]
    BY <1>2, <1>4 DEF IInv, Tables, CallsConsistent, PeersAreConnected
<1>5. QED
    BY <1>1, <1>2, <1>3, <1>4

LEMMA JoinSwitchStep ==
    ASSUME IInv, NEW c \in Conns, NEW k \in CallIds, k \in live, Authed(c), JoinSwitch(c, k)
    PROVE  IInv'
<1> DEFINE old == connPeer[c]
           was == connCall[c]
<1>1. PICK p \in PeerIds :
        /\ FreshPeer(p)
        /\ live' = LiveAfterLeave(was, old)
        /\ callPeers' = [[callPeers EXCEPT ![was] = @ \ {old}]
                             EXCEPT ![k] = [callPeers EXCEPT ![was] = @ \ {old}][k] \cup {p}]
        /\ peerUser' = [peerUser EXCEPT ![p] = connUser[c]]
        /\ peerConn' = [peerConn EXCEPT ![old] = None, ![p] = c]
        /\ connPeer' = [connPeer EXCEPT ![c] = p]
        /\ connCall' = [connCall EXCEPT ![c] = k]
    BY DEF JoinSwitch, Register
<1>2. UNCHANGED <<connState, connUser, userConns, member, roomOf>>
    BY DEF JoinSwitch
<1>3. InCall(c)
    BY DEF JoinSwitch
<1>4. /\ old \in PeerIds /\ was \in live /\ live \subseteq CallIds
      /\ old \in callPeers[was] /\ peerConn[old] = c
      /\ \A d \in Conns : connPeer[d] = old => d = c
      /\ \A j \in CallIds : old \in callPeers[j] => j = was
    BY <1>3, OwnPeer
<1>5. was # k
    BY <1>4 DEF JoinSwitch
<1>6. peerConn[p] = None /\ (\A j \in CallIds : p \notin callPeers[j]) /\ (\A d \in Conns : connPeer[d] # p)
    BY <1>1, FreshPeerUnknown
<1>7. live' \subseteq live /\ live \ live' \subseteq {was} /\ k \in live'
      /\ (was \notin live' => callPeers[was] = {old})
    BY <1>1, <1>4, <1>5 DEF LiveAfterLeave, Remaining
<1>8. callPeers' = [j \in CallIds |-> IF j = k THEN callPeers[k] \cup {p}
                                      ELSE IF j = was THEN callPeers[was] \ {old} ELSE callPeers[j]]
    BY <1>1, <1>4, <1>5 DEF IInv, TypeOK
<1> HIDE DEF old, was
<1>9. TypeOK'
    BY <1>1, <1>2, <1>4, <1>7, <1>8, ConstantsAssumption DEF IInv, TypeOK
<1>10. CallsConsistent'
    <2> USE <1>1, <1>2, <1>4, <1>5, <1>6, <1>7, <1>8, ConstantsAssumption
        DEF IInv, TypeOK, Tables, CallsConsistent, Authed
    <2>1. RegistryMatchesConnections'
        BY DEF RegistryMatchesConnections, old
    <2>2. ConnectionsAreInLiveCalls'
        BY DEF ConnectionsAreInLiveCalls, InCall, old, was
    <2>3. PeersAreConnected'
        <3> SUFFICES ASSUME NEW j \in CallIds, NEW q \in callPeers'[j]
                     PROVE  j \in live' /\ \E d \in Conns : peerConn'[q] = d /\ connCall'[d] = j
            BY DEF PeersAreConnected
        <3>1. CASE q = p
            <4>1. j = k
                BY <3>1
            <4>2. peerConn'[p] = c /\ connCall'[c] = k
                OBVIOUS
            <4>3. QED
                BY <3>1, <4>1, <4>2
        <3>2. CASE q # p
            <4>1. q \in callPeers[j] /\ q # old
                BY <3>2
            <4>2. PICK d \in Conns : j \in live /\ peerConn[q] = d /\ connCall[d] = j
                BY <4>1 DEF PeersAreConnected
            <4>3. d # c
                BY <4>1, <4>2 DEF RegistryMatchesConnections, old
            <4>4. j \in live'
                BY <4>1, <4>2
            <4>5. QED
                BY <3>2, <4>1, <4>2, <4>3, <4>4
        <3>3. QED
            BY <3>1, <3>2
    <2>4. QED
        BY <2>1, <2>2, <2>3
<1>11. OnlyOpenConnections' /\ FreshIdsUnknown'
    BY <1>1, <1>2, <1>4, <1>7, ConstantsAssumption
        DEF IInv, TypeOK, Tables, OnlyOpenConnections, FreshIdsUnknown, Authed
<1>12. OneCallPerRoom' /\ IndexComplete'
    BY <1>2, <1>7, IndexKept DEF IInv, OneCallPerRoom
<1>13. QED
    BY <1>9, <1>10, <1>11, <1>12 DEF IInv, Tables

\* What leaving does to the tables, whether the connection stays open
\* (rtc.leave) or not (a lost socket).
LEMMA DepartStep ==
    ASSUME IInv, NEW c \in Conns, InCall(c), Depart(c),
           connPeer' = [connPeer EXCEPT ![c] = None],
           connCall' = [connCall EXCEPT ![c] = None],
           \A d \in Conns \ {c} : connState'[d] = connState[d]
    PROVE  /\ live' \subseteq live /\ roomOf' = roomOf
           /\ callPeers' \in [CallIds -> SUBSET PeerIds] /\ peerUser' = peerUser
           /\ peerConn' \in [PeerIds -> Conns \cup {None}]
           /\ CallsConsistent' /\ FreshIdsUnknown'
<1> DEFINE p == connPeer[c]
           k == connCall[c]
<1>1. /\ p \in PeerIds /\ k \in live /\ live \subseteq CallIds
      /\ p \in callPeers[k] /\ peerConn[p] = c
      /\ \A d \in Conns : connPeer[d] = p => d = c
      /\ \A j \in CallIds : p \in callPeers[j] => j = k
    BY OwnPeer
<1>2. /\ callPeers' = [callPeers EXCEPT ![k] = @ \ {p}]
      /\ peerConn' = [peerConn EXCEPT ![p] = None]
      /\ UNCHANGED <<roomOf, peerUser>>
    BY DEF Depart
<1>3. live' \subseteq live /\ live \ live' \subseteq {k} /\ (k \notin live' => callPeers[k] = {p})
    BY <1>1 DEF Depart, LiveAfterLeave, Remaining
<1> HIDE DEF p, k
<1>4. /\ callPeers' \in [CallIds -> SUBSET PeerIds]
      /\ peerConn' \in [PeerIds -> Conns \cup {None}]
    BY <1>1, <1>2 DEF IInv, TypeOK
<1>5. CallsConsistent'
    <2> USE <1>1, <1>2, <1>3, ConstantsAssumption DEF IInv, TypeOK, Tables, CallsConsistent
    <2>1. RegistryMatchesConnections'
        BY DEF RegistryMatchesConnections, p
    <2>2. ConnectionsAreInLiveCalls'
        BY DEF ConnectionsAreInLiveCalls, InCall, p, k
    <2>3. PeersAreConnected'
        <3> SUFFICES ASSUME NEW j \in CallIds, NEW q \in callPeers'[j]
                     PROVE  j \in live' /\ \E d \in Conns : peerConn'[q] = d /\ connCall'[d] = j
            BY DEF PeersAreConnected
        <3>1. q \in callPeers[j] /\ q # p
            OBVIOUS
        <3>2. PICK d \in Conns : j \in live /\ peerConn[q] = d /\ connCall[d] = j
            BY <3>1 DEF PeersAreConnected
        <3>3. d # c
            BY <3>1, <3>2 DEF RegistryMatchesConnections, p
        <3>4. QED
            BY <3>1, <3>2, <3>3
    <2>4. QED
        BY <2>1, <2>2, <2>3
<1>6. FreshIdsUnknown'
    BY <1>1, <1>2, <1>3 DEF IInv, TypeOK, Tables, FreshIdsUnknown
<1>7. QED
    BY <1>2, <1>3, <1>4, <1>5, <1>6

LEMMA LeaveStep ==
    ASSUME IInv, NEW c \in Conns, NEW k \in CallIds, NEW p \in PeerIds, RtcLeave(c, k, p)
    PROVE  IInv'
<1>1. /\ InCall(c) /\ Depart(c)
      /\ connPeer' = [connPeer EXCEPT ![c] = None]
      /\ connCall' = [connCall EXCEPT ![c] = None]
      /\ UNCHANGED <<connState, connUser, userConns, member>>
    BY ConstantsAssumption DEF RtcLeave, PeerMatch, InCall
<1>2. /\ live' \subseteq live /\ roomOf' = roomOf
      /\ callPeers' \in [CallIds -> SUBSET PeerIds] /\ peerUser' = peerUser
      /\ peerConn' \in [PeerIds -> Conns \cup {None}]
      /\ CallsConsistent' /\ FreshIdsUnknown'
    BY <1>1, DepartStep
<1>3. TypeOK' /\ OnlyOpenConnections' /\ OneCallPerRoom' /\ IndexComplete'
    BY <1>1, <1>2, IndexKept DEF IInv, TypeOK, Tables, OnlyOpenConnections, OneCallPerRoom
<1>4. QED
    BY <1>2, <1>3 DEF IInv, Tables

LEMMA CloseStep ==
    ASSUME IInv, NEW c \in Conns, Close(c)
    PROVE  IInv'
<1>1. /\ connState[c] = "open"
      /\ connState' = [connState EXCEPT ![c] = "closed"]
      /\ connUser' = [connUser EXCEPT ![c] = None]
      /\ connPeer' = [connPeer EXCEPT ![c] = None]
      /\ connCall' = [connCall EXCEPT ![c] = None]
      /\ userConns' = RemoveUserConnection(connUser[c], c)
      /\ member' = member
    BY DEF Close
<1>2. /\ live' \subseteq live /\ roomOf' = roomOf
      /\ callPeers' \in [CallIds -> SUBSET PeerIds] /\ peerUser' = peerUser
      /\ peerConn' \in [PeerIds -> Conns \cup {None}]
      /\ CallsConsistent' /\ FreshIdsUnknown'
    <2>1. CASE InCall(c) /\ Depart(c)
        <3>1. \A d \in Conns \ {c} : connState'[d] = connState[d]
            BY <1>1 DEF IInv, TypeOK
        <3>2. QED
            BY <1>1, <2>1, <3>1, DepartStep
    <2>2. CASE ~InCall(c) /\ UNCHANGED callVars
        <3>1. connPeer[c] = None /\ connCall[c] = None
            BY <2>2 DEF InCall, IInv, Tables, CallsConsistent, ConnectionsAreInLiveCalls
        <3>2. connPeer' = connPeer /\ connCall' = connCall
            BY <1>1, <3>1 DEF IInv, TypeOK
        <3>3. CallsConsistent'
            BY <1>1, <2>2, <3>1, <3>2, ConstantsAssumption
                DEF IInv, TypeOK, Tables, CallsConsistent, RegistryMatchesConnections,
                    ConnectionsAreInLiveCalls, PeersAreConnected, InCall, callVars
        <3>4. QED
            BY <2>2, <3>3 DEF IInv, TypeOK, Tables, FreshIdsUnknown, callVars
    <2>3. QED
        BY <2>1, <2>2 DEF Close
<1>3. TypeOK'
    BY <1>1, <1>2 DEF IInv, TypeOK, RemoveUserConnection
<1>4. OnlyOpenConnections' /\ OneCallPerRoom'
    BY <1>1, <1>2 DEF IInv, TypeOK, Tables, OnlyOpenConnections, OneCallPerRoom
<1>5. IndexComplete'
    BY <1>1 DEF IInv, TypeOK, IndexComplete, Authed, RemoveUserConnection
<1>6. QED
    BY <1>2, <1>3, <1>4, <1>5 DEF IInv, Tables

LEMMA EndCallStep ==
    ASSUME IInv, NEW c \in Conns, NEW k \in CallIds, RtcEndCall(c, k)
    PROVE  IInv'
<1>1. CASE UNCHANGED <<connVars, member, callVars>>
    BY <1>1, QuietStep DEF IInv, TypeOK
<1> DEFINE out == CallAudience(callPeers[k], peerConn)
<1>2. ASSUME connPeer' = [d \in Conns |-> IF d \in out THEN None ELSE connPeer[d]],
             connCall' = [d \in Conns |-> IF d \in out THEN None ELSE connCall[d]],
             peerConn' = [p \in PeerIds |-> IF p \in callPeers[k] THEN None ELSE peerConn[p]],
             callPeers' = [callPeers EXCEPT ![k] = {}],
             live' = live \ {k},
             UNCHANGED <<connState, connUser, userConns, member, roomOf, peerUser>>
      PROVE  IInv'
    <2>1. \A d \in Conns : d \in out <=> InCall(d) /\ connCall[d] = k
        <3>1. ASSUME NEW d \in Conns, d \in out PROVE InCall(d) /\ connCall[d] = k
            BY <3>1, ConstantsAssumption DEF CallAudience, IInv, TypeOK, Tables, CallsConsistent,
                PeersAreConnected, ConnectionsAreInLiveCalls, InCall
        <3>2. ASSUME NEW d \in Conns, InCall(d), connCall[d] = k PROVE d \in out
            BY <3>2, OwnPeer DEF CallAudience
        <3>3. QED
            BY <3>1, <3>2
    <2> HIDE DEF out
    <2>2. TypeOK'
        BY <1>2 DEF IInv, TypeOK
    <2>3. RegistryMatchesConnections'
        <3> SUFFICES ASSUME NEW p \in PeerIds, NEW d \in Conns
                     PROVE  peerConn'[p] = d <=> connState'[d] = "open" /\ connPeer'[d] = p
            BY DEF RegistryMatchesConnections
        <3>1. peerConn[p] = d <=> connState[d] = "open" /\ connPeer[d] = p
            BY DEF IInv, Tables, CallsConsistent, RegistryMatchesConnections
        <3>2. CASE p \in callPeers[k]
            <4>1. PICK e \in Conns : peerConn[p] = e /\ connCall[e] = k
                BY <3>2 DEF IInv, Tables, CallsConsistent, PeersAreConnected
            <4>2. e \in out
                BY <3>2, <4>1 DEF out, CallAudience
            <4>3. QED
                BY <1>2, <3>1, <3>2, <4>1, <4>2, ConstantsAssumption DEF IInv, TypeOK
        <3>3. CASE p \notin callPeers[k]
            <4>1. connPeer[d] = p => d \notin out
                BY <2>1, <3>3, ConstantsAssumption DEF IInv, Tables, CallsConsistent, ConnectionsAreInLiveCalls
            <4>2. QED
                BY <1>2, <3>1, <3>3, <4>1, ConstantsAssumption DEF IInv, TypeOK
        <3>4. QED
            BY <3>2, <3>3
    <2>4. ConnectionsAreInLiveCalls'
        BY <1>2, <2>1, ConstantsAssumption
            DEF IInv, TypeOK, Tables, CallsConsistent, ConnectionsAreInLiveCalls, InCall
    <2>5. PeersAreConnected'
        <3> SUFFICES ASSUME NEW j \in CallIds, NEW q \in callPeers'[j]
                     PROVE  j \in live' /\ \E d \in Conns : peerConn'[q] = d /\ connCall'[d] = j
            BY DEF PeersAreConnected
        <3>1. j # k /\ q \in callPeers[j] /\ q \in PeerIds
            BY <1>2 DEF IInv, TypeOK
        <3>2. PICK d \in Conns : j \in live /\ peerConn[q] = d /\ connCall[d] = j
            BY <3>1 DEF IInv, Tables, CallsConsistent, PeersAreConnected
        <3>3. q \notin callPeers[k] /\ d \notin out
            BY <2>1, <3>1, <3>2 DEF IInv, Tables, CallsConsistent, PeersAreConnected
        <3>4. QED
            BY <1>2, <3>1, <3>2, <3>3
    <2>6. OnlyOpenConnections' /\ FreshIdsUnknown'
        BY <1>2 DEF IInv, TypeOK, Tables, OnlyOpenConnections, FreshIdsUnknown
    <2>7. OneCallPerRoom' /\ IndexComplete'
        BY <1>2, IndexKept DEF IInv, OneCallPerRoom
    <2>8. QED
        BY <2>2, <2>3, <2>4, <2>5, <2>6, <2>7 DEF IInv, Tables, CallsConsistent
<1>3. QED
    BY <1>1, <1>2 DEF RtcEndCall, Reply

-----------------------------------------------------------------------------
\* Every step keeps the inductive invariant.
LEMMA StepIInv == IInv /\ [Next]_vars => IInv'
<1> SUFFICES ASSUME IInv, [Next]_vars PROVE IInv'
    OBVIOUS
<1>1. CASE UNCHANGED vars
    BY <1>1, QuietStep DEF vars, IInv, TypeOK
<1>2. ASSUME NEW c \in Conns, Step(c) PROVE IInv'
    <2>1. CASE Connect(c)
        BY <2>1, ConnectStep
    <2>2. CASE \E u \in Users : Authenticate(c, u)
        BY <2>2, AuthenticateStep
    <2>3. CASE Unauthenticated(c) \/ PeerMismatch(c)
        BY <2>3, QuietStep DEF Unauthenticated, PeerMismatch, Reply, IInv, TypeOK
    <2>4. CASE \E r \in Rooms : ChannelJoin(c, r) \/ ChannelLeave(c, r)
        <3>1. member' \in [Rooms -> SUBSET Users]
            BY <2>4 DEF ChannelJoin, ChannelLeave, IInv, TypeOK, Authed
        <3>2. QED
            BY <2>4, <3>1, QuietStep DEF ChannelJoin, ChannelLeave
    <2>5. CASE \E r \in Rooms : RtcCallCreate(c, r)
        BY <2>5, CallCreateStep
    <2>6. CASE \E k \in IssuedCalls : RtcJoin(c, k)
        <3>1. PICK k \in CallIds : RtcJoin(c, k)
            BY <2>6 DEF IssuedCalls
        <3>2. CASE UNCHANGED <<connVars, member, callVars>>
            BY <3>2, QuietStep DEF IInv, TypeOK
        <3>3. CASE k \in live /\ Authed(c) /\ (JoinFirst(c, k) \/ JoinSwitch(c, k))
            BY <3>3, JoinFirstStep, JoinSwitchStep
        <3>4. QED
            BY <3>1, <3>2, <3>3 DEF RtcJoin, Reply, JoinAgain
    <2>7. CASE \E k \in IssuedCalls : RtcEndCall(c, k)
        BY <2>7, EndCallStep DEF IssuedCalls
    <2>8. CASE \E k \in IssuedCalls, p \in IssuedPeers : RtcLeave(c, k, p)
        BY <2>8, LeaveStep DEF IssuedCalls, IssuedPeers
    <2>9. CASE \/ \E k \in IssuedCalls, p \in IssuedPeers : RtcStreamPublish(c, k, p)
               \/ \E k \in IssuedCalls, p, q \in IssuedPeers : RtcSignal(c, k, p, q)
        BY <2>9, QuietStep DEF RtcStreamPublish, RtcSignal, Reply, IInv, TypeOK
    <2>10. CASE Close(c)
        BY <2>10, CloseStep
    <2>11. QED
        BY <1>2, <2>1, <2>2, <2>3, <2>4, <2>5, <2>6, <2>7, <2>8, <2>9, <2>10 DEF Step
<1>3. QED
    BY <1>1, <1>2 DEF Next

LEMMA SpecIInv == Spec => []IInv
<1>1. QED
    BY InitIInv, StepIInv, PTL DEF Spec

\* Every variable keeps its type.
THEOREM TypeCorrect == Spec => []TypeOK
<1>1. IInv => TypeOK
    BY DEF IInv
<1>2. QED
    BY <1>1, SpecIInv, PTL

\* The connection table, call.peers and peerConnections always agree, for any
\* number of connections, calls and peers.
THEOREM CallsAlwaysConsistent == Spec => []CallsConsistent
<1>1. IInv => CallsConsistent
    BY DEF IInv, Tables
<1>2. QED
    BY <1>1, SpecIInv, PTL

\* A room never has two live calls.
THEOREM OneCallPerRoomAlways == Spec => []OneCallPerRoom
<1>1. IInv => OneCallPerRoom
    BY DEF IInv
<1>2. QED
    BY <1>1, SpecIInv, PTL

\* broadcastChannel never misses an authenticated connection.
THEOREM IndexAlwaysComplete == Spec => []IndexComplete
<1>1. IInv => IndexComplete
    BY DEF IInv
<1>2. QED
    BY <1>1, SpecIInv, PTL
-----------------------------------------------------------------------------
(***************************************************************************)
(* The server implements CallRegistry.                                     *)
(***************************************************************************)
\* A call loses its last peer exactly when nobody else attends it.
LEMMA LastPeerIsLastAttendee ==
    ASSUME IInv, NEW c \in Conns, InCall(c)
    PROVE  LiveAfterLeave(connCall[c], connPeer[c]) = Registry!LiveWithout(c)
<1> DEFINE k == connCall[c]
           p == connPeer[c]
<1>1. /\ p \in PeerIds /\ k \in live /\ live \subseteq CallIds
      /\ p \in callPeers[k] /\ peerConn[p] = c
    BY OwnPeer
<1>2. callPeers[k] \ {p} = {} <=> ~ \E d \in Conns \ {c} : connCall[d] = k
    <2>1. ASSUME NEW d \in Conns \ {c}, connCall[d] = k PROVE callPeers[k] \ {p} # {}
        <3>1. InCall(d)
            BY <1>1, <2>1, ConstantsAssumption
                DEF IInv, Tables, CallsConsistent, ConnectionsAreInLiveCalls, InCall
        <3>2. connPeer[d] \in callPeers[k] /\ connPeer[d] # p
            BY <2>1, <3>1, OwnPeer
        <3>3. QED
            BY <3>2
    <2>2. ASSUME NEW q \in callPeers[k], q # p PROVE \E d \in Conns \ {c} : connCall[d] = k
        <3>1. PICK d \in Conns : peerConn[q] = d /\ connCall[d] = k
            BY <1>1 DEF IInv, Tables, CallsConsistent, PeersAreConnected
        <3>2. q \in PeerIds
            BY <1>1 DEF IInv, TypeOK
        <3>3. d # c
            BY <2>2, <3>1, <3>2 DEF IInv, Tables, CallsConsistent, RegistryMatchesConnections
        <3>4. QED
            BY <3>1, <3>3
    <2>3. QED
        BY <2>1, <2>2
<1>3. QED
    BY <1>1, <1>2 DEF LiveAfterLeave, Remaining, Registry!LiveWithout

LEMMA RegistryInit == Init => Registry!Init
BY DEF Init, Registry!Init

\* Each handler is a step of the registry or leaves it alone.
LEMMA RegistryStep ==
    ASSUME IInv, [Next]_vars
    PROVE  [Registry!Next]_(Registry!vars)
<1> USE DEF Registry!vars
<1>1. CASE UNCHANGED vars
    BY <1>1 DEF vars, connVars, callVars
<1>2. ASSUME NEW c \in Conns, Step(c) PROVE Registry!Next \/ UNCHANGED Registry!vars
    <2>1. CASE UNCHANGED <<live, roomOf, connCall>>
        BY <2>1
    <2>2. CASE \E r \in Rooms : RtcCallCreate(c, r)
        <3>1. PICK r \in Rooms : RtcCallCreate(c, r)
            BY <2>2
        <3>2. ASSUME NEW k \in CallIds, FreshCall(k), CallOfRoom(r) = {},
                     live' = live \cup {k}, roomOf' = [roomOf EXCEPT ![k] = r],
                     UNCHANGED connVars
              PROVE  Registry!Open(k, r)
            BY <3>2 DEF Registry!Open, FreshCall, CallOfRoom, connVars
        <3>3. QED
            BY <2>1, <3>1, <3>2 DEF RtcCallCreate, Reply, Registry!Next, connVars, callVars
    <2>3. CASE \E k \in IssuedCalls : RtcJoin(c, k)
        <3>1. PICK k \in CallIds : RtcJoin(c, k)
            BY <2>3 DEF IssuedCalls
        <3>2. CASE k \in live /\ JoinFirst(c, k)
            <4>1. connCall[c] = None
                BY <3>2 DEF JoinFirst, InCall, IInv, Tables, CallsConsistent, ConnectionsAreInLiveCalls
            <4>2. live' = Registry!LiveWithout(c)
                BY <3>2, <4>1, ConstantsAssumption DEF JoinFirst, Registry!LiveWithout, IInv, TypeOK
            <4>3. Registry!Enter(c, k)
                BY <3>2, <4>1, <4>2, ConstantsAssumption DEF JoinFirst, Registry!Enter
            <4>4. QED
                BY <4>3 DEF Registry!Next
        <3>3. CASE k \in live /\ JoinSwitch(c, k)
            <4>1. InCall(c)
                BY <3>3 DEF JoinSwitch
            <4>2. live' = Registry!LiveWithout(c)
                BY <3>3, <4>1, LastPeerIsLastAttendee DEF JoinSwitch
            <4>3. connCall[c] # k
                BY <3>3, <4>1, OwnPeer DEF JoinSwitch
            <4>4. Registry!Enter(c, k)
                BY <3>3, <4>2, <4>3 DEF JoinSwitch, Registry!Enter
            <4>5. QED
                BY <4>4 DEF Registry!Next
        <3>4. QED
            BY <2>1, <3>1, <3>2, <3>3 DEF RtcJoin, JoinAgain, Reply, connVars, callVars
    <2>4. ASSUME InCall(c), Depart(c), connCall' = [connCall EXCEPT ![c] = None]
          PROVE  Registry!Next
        <3>1. live' = Registry!LiveWithout(c) /\ roomOf' = roomOf
            BY <2>4, LastPeerIsLastAttendee DEF Depart
        <3>2. Registry!Exit(c)
            BY <2>4, <3>1 DEF Registry!Exit, InCall
        <3>3. QED
            BY <3>2 DEF Registry!Next
    <2>5. CASE \E k \in IssuedCalls, p \in IssuedPeers : RtcLeave(c, k, p)
        BY <2>4, <2>5, ConstantsAssumption DEF RtcLeave, PeerMatch, InCall, IssuedCalls, IssuedPeers
    <2>6. CASE Close(c)
        <3>1. CASE InCall(c)
            BY <2>4, <2>6, <3>1 DEF Close
        <3>2. CASE ~InCall(c)
            <4>1. connCall[c] = None
                BY <3>2 DEF InCall, IInv, Tables, CallsConsistent, ConnectionsAreInLiveCalls
            <4>2. QED
                BY <2>1, <2>6, <3>2, <4>1 DEF Close, callVars, IInv, TypeOK
        <3>3. QED
            BY <3>1, <3>2
    <2>7. CASE \E k \in IssuedCalls : RtcEndCall(c, k)
        <3>1. PICK k \in CallIds : RtcEndCall(c, k)
            BY <2>7 DEF IssuedCalls
        <3>2. ASSUME k \in live, live' = live \ {k}, roomOf' = roomOf,
                     connCall' = [d \in Conns |->
                                    IF d \in CallAudience(callPeers[k], peerConn) THEN None ELSE connCall[d]]
              PROVE  Registry!End(k)
            <4>1. ASSUME NEW d \in Conns
                  PROVE  d \in CallAudience(callPeers[k], peerConn) <=> connCall[d] = k
                <5>1. ASSUME connCall[d] = k PROVE d \in CallAudience(callPeers[k], peerConn)
                    <6>1. InCall(d)
                        BY <5>1, ConstantsAssumption
                            DEF IInv, Tables, CallsConsistent, ConnectionsAreInLiveCalls, InCall
                    <6>2. QED
                        BY <5>1, <6>1, OwnPeer DEF CallAudience
                <5>2. ASSUME d \in CallAudience(callPeers[k], peerConn) PROVE connCall[d] = k
                    BY <5>2 DEF CallAudience, IInv, Tables, CallsConsistent, PeersAreConnected
                <5>3. QED
                    BY <5>1, <5>2
            <4>2. QED
                BY <3>2, <4>1 DEF Registry!End
        <3>3. QED
            BY <2>1, <3>1, <3>2 DEF RtcEndCall, Reply, Registry!Next, connVars, callVars
    <2>8. QED
        <3>1. CASE \/ Connect(c) \/ (\E u \in Users : Authenticate(c, u))
                   \/ Unauthenticated(c) \/ PeerMismatch(c)
                   \/ \E r \in Rooms : ChannelJoin(c, r) \/ ChannelLeave(c, r)
            BY <2>1, <3>1 DEF Connect, Authenticate, Unauthenticated, PeerMismatch, ChannelJoin,
                ChannelLeave, Reply, connVars, callVars
        <3>2. CASE \/ \E k \in IssuedCalls, p \in IssuedPeers : RtcStreamPublish(c, k, p)
                   \/ \E k \in IssuedCalls, p, q \in IssuedPeers : RtcSignal(c, k, p, q)
            BY <2>1, <3>2 DEF RtcStreamPublish, RtcSignal, Reply, connVars, callVars
        <3>3. QED
            BY <1>2, <2>2, <2>3, <2>5, <2>6, <2>7, <3>1, <3>2 DEF Step
<1>3. QED
    BY <1>1, <1>2 DEF Next

\* SignalingService's table, ChatServer's connections and peerConnections
\* together implement the registry of who attends which call.
THEOREM ServerImplementsRegistry == Spec => ImplementsRegistry
<1>1. IInv /\ [Next]_vars => [Registry!Next]_(Registry!vars)
    BY RegistryStep
<1>2. QED
    BY <1>1, RegistryInit, SpecIInv, PTL DEF Spec, ImplementsRegistry, Registry!Spec

-----------------------------------------------------------------------------
(***************************************************************************)
(* What a step writes.  The lists of messages of the actions are one, two  *)
(* or four broadcasts in a row; Written only asks what is in them.         *)
(***************************************************************************)
Elements(s)   == {s[i] : i \in DOMAIN s}
Copy(c, S, m) == IF c \in S \cap OpenConns THEN {m} ELSE {}

\* The elements of two lists in a row.
LEMMA ElementsOfBoth ==
    ASSUME NEW M, NEW a \in Seq(M), NEW b \in Seq(M)
    PROVE  /\ a \o b \in Seq(M)
           /\ Elements(a \o b) = Elements(a) \cup Elements(b)
<1> DEFINE ab == a \o b
<1>1. /\ ab \in Seq(M) /\ Len(ab) = Len(a) + Len(b) /\ Len(a) \in Nat /\ Len(b) \in Nat
      /\ \A i \in 1..Len(ab) : ab[i] = IF i <= Len(a) THEN a[i] ELSE b[i - Len(a)]
      /\ DOMAIN ab = 1..Len(ab) /\ DOMAIN a = 1..Len(a) /\ DOMAIN b = 1..Len(b)
    OBVIOUS
<1> HIDE DEF ab
<1>2. ASSUME NEW i \in DOMAIN ab
      PROVE  ab[i] \in Elements(a) \cup Elements(b)
    <2>1. CASE i <= Len(a)
        BY <1>1, <2>1 DEF Elements
    <2>2. CASE i > Len(a)
        <3>1. i - Len(a) \in DOMAIN b /\ ab[i] = b[i - Len(a)]
            BY <1>1, <2>2
        <3>2. QED
            BY <3>1 DEF Elements
    <2>3. QED
        BY <1>1, <2>1, <2>2
<1>3. ASSUME NEW j \in DOMAIN a PROVE \E i \in DOMAIN ab : ab[i] = a[j]
    <2>1. j \in DOMAIN ab /\ ab[j] = a[j]
        BY <1>1
    <2>2. QED
        BY <2>1
<1>4. ASSUME NEW j \in DOMAIN b PROVE \E i \in DOMAIN ab : ab[i] = b[j]
    <2>1. Len(a) + j \in DOMAIN ab /\ ab[Len(a) + j] = b[j]
        BY <1>1
    <2>2. QED
        BY <2>1
<1>5. Elements(ab) = Elements(a) \cup Elements(b)
    BY <1>2, <1>3, <1>4 DEF Elements
<1>6. QED
    BY <1>1, <1>5 DEF ab

\* One broadcast, as a list.
LEMMA ElementsOfOne ==
    ASSUME NEW c \in Conns, NEW S, NEW M, NEW m \in M
    PROVE  /\ ToAll(S, m)[c] \in Seq(M)
           /\ Elements(ToAll(S, m)[c]) = Copy(c, S, m)
<1>1. CASE c \in S \cap OpenConns
    <2>1. ToAll(S, m)[c] = <<m>>
        BY <1>1 DEF ToAll
    <2>2. <<m>> \in Seq(M) /\ DOMAIN <<m>> = {1} /\ <<m>>[1] = m
        OBVIOUS
    <2>3. QED
        BY <1>1, <2>1, <2>2 DEF Copy, Elements
<1>2. CASE c \notin S \cap OpenConns
    <2>1. ToAll(S, m)[c] = <<>>
        BY <1>2 DEF ToAll
    <2>2. <<>> \in Seq(M) /\ DOMAIN <<>> = {}
        OBVIOUS
    <2>3. QED
        BY <1>2, <2>1, <2>2 DEF Copy, Elements
<1>3. QED
    BY <1>1, <1>2

LEMMA WrittenElements == \A c : Written(c) = Elements(sent'[c])
BY DEF Written, Elements

LEMMA WrittenNothing ==
    ASSUME sent' = Nothing, NEW c \in Conns
    PROVE  Written(c) = {}
<1>1. sent'[c] = <<>> /\ DOMAIN <<>> = {}
    BY DEF Nothing
<1>2. QED
    BY <1>1 DEF Written

LEMMA WrittenOne ==
    ASSUME NEW S, NEW m, sent' = ToAll(S, m), NEW c \in Conns
    PROVE  Written(c) = Copy(c, S, m)
<1>1. m \in {m}
    OBVIOUS
<1>2. QED
    BY <1>1, ElementsOfOne, WrittenElements

LEMMA WrittenTwo ==
    ASSUME NEW S1, NEW m1, NEW S2, NEW m2, sent' = Then(ToAll(S1, m1), ToAll(S2, m2)),
           NEW c \in Conns
    PROVE  Written(c) = Copy(c, S1, m1) \cup Copy(c, S2, m2)
<1> DEFINE M == {m1, m2}
           a == ToAll(S1, m1)[c]
           b == ToAll(S2, m2)[c]
<1>1. m1 \in M /\ m2 \in M
    OBVIOUS
<1>2. sent'[c] = a \o b
    BY DEF Then
<1> HIDE DEF M
<1>3. /\ a \in Seq(M) /\ Elements(a) = Copy(c, S1, m1)
      /\ b \in Seq(M) /\ Elements(b) = Copy(c, S2, m2)
    BY <1>1, ElementsOfOne
<1> HIDE DEF a, b
<1>4. Elements(a \o b) = Elements(a) \cup Elements(b)
    BY <1>3, ElementsOfBoth
<1>5. Written(c) = Elements(sent'[c])
    BY WrittenElements
<1>6. QED
    BY <1>2, <1>3, <1>4, <1>5

LEMMA WrittenFour ==
    ASSUME NEW S1, NEW m1, NEW S2, NEW m2, NEW S3, NEW m3, NEW S4, NEW m4,
           sent' = Then(Then(ToAll(S1, m1), ToAll(S2, m2)), Then(ToAll(S3, m3), ToAll(S4, m4))),
           NEW c \in Conns
    PROVE  Written(c) = Copy(c, S1, m1) \cup Copy(c, S2, m2) \cup Copy(c, S3, m3) \cup Copy(c, S4, m4)
<1> DEFINE M == {m1, m2, m3, m4}
           a1 == ToAll(S1, m1)[c]
           a2 == ToAll(S2, m2)[c]
           a3 == ToAll(S3, m3)[c]
           a4 == ToAll(S4, m4)[c]
<1>1. m1 \in M /\ m2 \in M /\ m3 \in M /\ m4 \in M
    OBVIOUS
<1>2. sent'[c] = (a1 \o a2) \o (a3 \o a4)
    BY DEF Then
<1> HIDE DEF M
<1>3. /\ a1 \in Seq(M) /\ Elements(a1) = Copy(c, S1, m1)
      /\ a2 \in Seq(M) /\ Elements(a2) = Copy(c, S2, m2)
      /\ a3 \in Seq(M) /\ Elements(a3) = Copy(c, S3, m3)
      /\ a4 \in Seq(M) /\ Elements(a4) = Copy(c, S4, m4)
    BY <1>1, ElementsOfOne
<1> HIDE DEF a1, a2, a3, a4
<1> DEFINE left == a1 \o a2
           right == a3 \o a4
<1>4. /\ left \in Seq(M)
      /\ Elements(left) = Copy(c, S1, m1) \cup Copy(c, S2, m2)
    BY <1>3, ElementsOfBoth
<1>5. /\ right \in Seq(M)
      /\ Elements(right) = Copy(c, S3, m3) \cup Copy(c, S4, m4)
    BY <1>3, ElementsOfBoth
<1>6. sent'[c] = left \o right
    BY <1>2
<1> HIDE DEF left, right
<1>7. Elements(left \o right) = Elements(left) \cup Elements(right)
    BY <1>4, <1>5, ElementsOfBoth
<1>8. Written(c) = Elements(sent'[c])
    BY WrittenElements
<1>9. QED
    BY <1>4, <1>5, <1>6, <1>7, <1>8

-----------------------------------------------------------------------------
(***************************************************************************)
(* Departures.                                                             *)
(***************************************************************************)
\* Everyone in a call can be reached.
LEMMA PeerReachable ==
    ASSUME IInv, NEW k \in live, NEW q \in callPeers[k]
    PROVE  /\ q \in PeerIds /\ peerConn[q] \in OpenConns
           /\ connPeer[peerConn[q]] = q /\ connCall[peerConn[q]] = k
<1>1. k \in CallIds /\ q \in PeerIds
    BY DEF IInv, TypeOK
<1>2. PICK d \in Conns : peerConn[q] = d /\ connCall[d] = k
    BY <1>1 DEF IInv, Tables, CallsConsistent, PeersAreConnected
<1>3. connState[d] = "open" /\ connPeer[d] = q
    BY <1>1, <1>2 DEF IInv, Tables, CallsConsistent, RegistryMatchesConnections
<1>4. QED
    BY <1>1, <1>2, <1>3 DEF OpenConns

\* A member of a room is in its audience.
LEMMA MemberReachable ==
    ASSUME IInv, NEW c \in Conns, NEW r \in Rooms, Authed(c), connUser[c] \in member[r]
    PROVE  c \in RoomAudience(r) \cap OpenConns
BY DEF IInv, IndexComplete, RoomAudience, Authed, OpenConns

\* leaveCall takes one peer out, the others and the room hear of it.
LEMMA DepartureNoticed ==
    ASSUME IInv, NEW c \in Conns, InCall(c), NEW k, k = connCall[c], NEW p, p = connPeer[c],
           live' = LiveAfterLeave(k, p),
           callPeers'[k] = callPeers[k] \ {p},
           \A j \in live \ {k} : callPeers[j] \subseteq callPeers'[j],
           \A q \in callPeers[k] \ {p} : peerConn'[q] = peerConn[q],
           \A d \in Conns :
               /\ Copy(d, CallAudience(Remaining(k, p), peerConn), PeerEvent("leave", k, p))
                      \subseteq Written(d)
               /\ Remaining(k, p) = {} =>
                      Copy(d, RoomAudience(roomOf[k]), CallEnd(k, roomOf[k])) \subseteq Written(d)
    PROVE  AnnouncesDepartures
<1>1. k \in live /\ p \in callPeers[k] /\ live \subseteq CallIds
    BY OwnPeer
<1>2. ASSUME k \in live', NEW x \in callPeers[k] \ callPeers'[k], NEW q \in callPeers[k] \cap callPeers'[k]
      PROVE  PeerEvent("leave", k, x) \in Written(peerConn'[q])
    <2>1. x = p /\ q \in Remaining(k, p) /\ peerConn'[q] = peerConn[q]
        BY <1>2 DEF Remaining
    <2>2. peerConn[q] \in OpenConns
        BY <1>1, <1>2, PeerReachable
    <2>3. peerConn[q] \in CallAudience(Remaining(k, p), peerConn) /\ peerConn[q] \in Conns
        BY <2>1, <2>2 DEF CallAudience, OpenConns
    <2>4. PeerEvent("leave", k, p) \in
              Copy(peerConn[q], CallAudience(Remaining(k, p), peerConn), PeerEvent("leave", k, p))
        BY <2>2, <2>3 DEF Copy
    <2>5. QED
        BY <2>1, <2>3, <2>4
<1>3. ASSUME k \notin live', NEW d \in Conns,
             \/ connCall[d] = k /\ connCall'[d] = None /\ Cardinality(callPeers[k]) > 1
             \/ Authed(d) /\ connUser[d] \in member[roomOf[k]]
      PROVE  CallEnd(k, roomOf[k]) \in Written(d)
    <2>1. Remaining(k, p) = {}
        BY <1>1, <1>3 DEF LiveAfterLeave
    <2>2. callPeers[k] = {p}
        BY <1>1, <2>1 DEF Remaining
    <2>3. ~(Cardinality(callPeers[k]) > 1)
        <3>1. Cardinality({p}) = 1
            BY FS_Singleton, Zenon
        <3>2. QED
            BY <2>2, <3>1
    <2>4. Authed(d) /\ connUser[d] \in member[roomOf[k]] /\ roomOf[k] \in Rooms
        BY <1>1, <1>3, <2>3 DEF IInv, TypeOK, Tables, FreshIdsUnknown
    <2>5. d \in RoomAudience(roomOf[k]) \cap OpenConns
        BY <2>4, MemberReachable
    <2>6. CallEnd(k, roomOf[k]) \in Copy(d, RoomAudience(roomOf[k]), CallEnd(k, roomOf[k]))
        BY <2>5 DEF Copy
    <2>7. QED
        BY <2>1, <2>6
<1>4. ASSUME NEW j \in live, j # k
      PROVE  j \in live' /\ callPeers[j] \ callPeers'[j] = {}
    BY <1>4 DEF LiveAfterLeave
<1>5. QED
    BY <1>2, <1>3, <1>4 DEF AnnouncesDepartures

\* What leaveNotices writes for a connection that is in a call.
LEMMA LeaveNoticesOf ==
    ASSUME IInv, NEW c \in Conns, InCall(c), NEW k, k = connCall[c], NEW p, p = connPeer[c]
    PROVE  LeaveNotices(k, p) =
               Then(ToAll(CallAudience(Remaining(k, p), peerConn), PeerEvent("leave", k, p)),
                    ToAll(IF Remaining(k, p) = {} THEN RoomAudience(roomOf[k]) ELSE {},
                          CallEnd(k, roomOf[k])))
<1>1. k \in live /\ p \in callPeers[k]
    BY OwnPeer
<1>2. QED
    BY <1>1 DEF LeaveNotices

LEMMA DepartAnnounced ==
    ASSUME IInv, NEW c \in Conns, InCall(c), Depart(c)
    PROVE  AnnouncesDepartures
<1> DEFINE k == connCall[c]
           p == connPeer[c]
           room == IF Remaining(k, p) = {} THEN RoomAudience(roomOf[k]) ELSE {}
<1>1. k \in CallIds /\ p \in PeerIds
    BY OwnPeer
<1>2. /\ callPeers' = [callPeers EXCEPT ![k] = callPeers[k] \ {p}]
      /\ live' = LiveAfterLeave(k, p)
      /\ peerConn' = [peerConn EXCEPT ![p] = None]
      /\ sent' = LeaveNotices(k, p)
    BY DEF Depart
<1>3. \A d \in Conns :
         Written(d) = Copy(d, CallAudience(Remaining(k, p), peerConn), PeerEvent("leave", k, p))
                        \cup Copy(d, room, CallEnd(k, roomOf[k]))
    <2> HIDE DEF k, p
    <2>1. sent' = Then(ToAll(CallAudience(Remaining(k, p), peerConn), PeerEvent("leave", k, p)),
                       ToAll(room, CallEnd(k, roomOf[k])))
        BY <1>2, LeaveNoticesOf DEF k, p
    <2> HIDE DEF room
    <2>2. QED
        BY <2>1, WrittenTwo
<1>4. /\ callPeers'[k] = callPeers[k] \ {p}
      /\ \A j \in live \ {k} : callPeers[j] \subseteq callPeers'[j]
      /\ \A q \in callPeers[k] \ {p} : peerConn'[q] = peerConn[q]
    <2> HIDE DEF k, p
    <2>1. QED
        BY <1>1, <1>2 DEF IInv, TypeOK
<1>5. \A d \in Conns :
         /\ Copy(d, CallAudience(Remaining(k, p), peerConn), PeerEvent("leave", k, p))
                \subseteq Written(d)
         /\ Remaining(k, p) = {} =>
                Copy(d, RoomAudience(roomOf[k]), CallEnd(k, roomOf[k])) \subseteq Written(d)
    <2> HIDE DEF k, p
    <2>1. QED
        BY <1>3
<1>6. k = connCall[c] /\ p = connPeer[c]
    OBVIOUS
<1> HIDE DEF k, p
<1>7. QED
    BY <1>2, <1>4, <1>5, <1>6, DepartureNoticed

\* The peers, registrations and messages of a switch, call by call.
Switched(c, k, p) ==
    /\ FreshPeer(p)
    /\ live' = LiveAfterLeave(connCall[c], connPeer[c])
    /\ callPeers' \in [CallIds -> SUBSET PeerIds]
    /\ callPeers'[k] = callPeers[k] \cup {p}
    /\ callPeers'[connCall[c]] = callPeers[connCall[c]] \ {connPeer[c]}
    /\ \A j \in live \ {k, connCall[c]} : callPeers'[j] = callPeers[j]
    /\ peerConn'[p] = c
    /\ \A q \in PeerIds \ {p, connPeer[c]} : peerConn'[q] = peerConn[q]
    /\ connPeer'[c] = p /\ connCall'[c] = k
    /\ sent' = Then(LeaveNotices(connCall[c], connPeer[c]),
                    Then(To(c, Participants(k, p, callPeers'[k])),
                         ToAll(CallAudience(callPeers'[k], peerConn'), PeerEvent("join", k, p))))

LEMMA SwitchTables ==
    ASSUME IInv, NEW c \in Conns, NEW k \in CallIds, k \in live, JoinSwitch(c, k)
    PROVE  InCall(c) /\ connCall[c] # k /\ \E p \in PeerIds : Switched(c, k, p)
<1> DEFINE old == connPeer[c]
           was == connCall[c]
<1>1. InCall(c)
    BY DEF JoinSwitch
<1>2. /\ old \in PeerIds /\ was \in live /\ live \subseteq CallIds /\ old \in callPeers[was]
    BY <1>1, OwnPeer
<1>3. was # k
    BY <1>2 DEF JoinSwitch
<1>4. PICK p \in PeerIds :
        LET left     == [callPeers EXCEPT ![was] = @ \ {old}]
            peers    == left[k] \cup {p}
            registry == Register([peerConn EXCEPT ![old] = None], p, c)
        IN  /\ FreshPeer(p)
            /\ live' = LiveAfterLeave(was, old)
            /\ callPeers' = [left EXCEPT ![k] = peers]
            /\ peerConn' = registry
            /\ connPeer' = [connPeer EXCEPT ![c] = p]
            /\ connCall' = [connCall EXCEPT ![c] = k]
            /\ sent' = Then(LeaveNotices(was, old),
                            Then(To(c, Participants(k, p, peers)),
                                 ToAll(CallAudience(peers, registry), PeerEvent("join", k, p))))
    BY DEF JoinSwitch
<1> DEFINE left     == [callPeers EXCEPT ![was] = @ \ {old}]
           peers    == left[k] \cup {p}
           registry == [peerConn EXCEPT ![old] = None, ![p] = c]
<1>5. /\ callPeers' = [left EXCEPT ![k] = peers] /\ peerConn' = registry
      /\ connPeer' = [connPeer EXCEPT ![c] = p] /\ connCall' = [connCall EXCEPT ![c] = k]
    BY <1>4 DEF Register
<1>6. sent' = Then(LeaveNotices(was, old),
                   Then(To(c, Participants(k, p, peers)),
                        ToAll(CallAudience(peers, registry), PeerEvent("join", k, p))))
    BY <1>4 DEF Register
<1> HIDE DEF old, was
<1>7. left \in [CallIds -> SUBSET PeerIds] /\ left[k] = callPeers[k]
      /\ left[was] = callPeers[was] \ {old}
      /\ \A j \in CallIds \ {was} : left[j] = callPeers[j]
    BY <1>2, <1>3 DEF IInv, TypeOK
<1>8. registry[p] = c /\ \A q \in PeerIds \ {p, old} : registry[q] = peerConn[q]
    BY DEF IInv, TypeOK
<1> HIDE DEF left, registry
<1>9. /\ callPeers' \in [CallIds -> SUBSET PeerIds]
      /\ callPeers'[k] = callPeers[k] \cup {p}
      /\ callPeers'[was] = callPeers[was] \ {old}
      /\ \A j \in live \ {k, was} : callPeers'[j] = callPeers[j]
      /\ peers = callPeers'[k]
    BY <1>2, <1>3, <1>5, <1>7 DEF IInv, TypeOK
<1>10. connPeer'[c] = p /\ connCall'[c] = k
    BY <1>5 DEF IInv, TypeOK
<1> HIDE DEF peers
<1>11. FreshPeer(p) /\ live' = LiveAfterLeave(was, old)
    BY <1>4
<1>12. /\ peerConn'[p] = c /\ \A q \in PeerIds \ {p, old} : peerConn'[q] = peerConn[q]
    BY <1>5, <1>8
<1>13. sent' = Then(LeaveNotices(was, old),
                    Then(To(c, Participants(k, p, callPeers'[k])),
                         ToAll(CallAudience(callPeers'[k], peerConn'), PeerEvent("join", k, p))))
    BY <1>5, <1>6, <1>9
<1>14. Switched(c, k, p)
    BY <1>9, <1>10, <1>11, <1>12, <1>13 DEF Switched, old, was
<1>15. QED
    BY <1>1, <1>3, <1>14 DEF was

LEMMA SwitchAnnounced ==
    ASSUME IInv, NEW c \in Conns, NEW k \in CallIds, k \in live, JoinSwitch(c, k)
    PROVE  AnnouncesDepartures
<1> DEFINE old == connPeer[c]
           was == connCall[c]
           room == IF Remaining(was, old) = {} THEN RoomAudience(roomOf[was]) ELSE {}
<1>1. InCall(c) /\ was # k
    BY SwitchTables
<1>2. PICK p \in PeerIds : Switched(c, k, p)
    BY SwitchTables
<1>3. /\ FreshPeer(p)
      /\ live' = LiveAfterLeave(was, old)
      /\ callPeers'[k] = callPeers[k] \cup {p}
      /\ callPeers'[was] = callPeers[was] \ {old}
      /\ \A j \in live \ {k, was} : callPeers'[j] = callPeers[j]
      /\ \A q \in PeerIds \ {p, old} : peerConn'[q] = peerConn[q]
      /\ sent' = Then(LeaveNotices(was, old),
                      Then(To(c, Participants(k, p, callPeers'[k])),
                           ToAll(CallAudience(callPeers'[k], peerConn'), PeerEvent("join", k, p))))
    BY <1>2 DEF Switched
<1>4. was \in live /\ live \subseteq CallIds
    BY <1>1, OwnPeer
<1>5. was = connCall[c] /\ old = connPeer[c]
    OBVIOUS
<1>6. LeaveNotices(was, old) =
          Then(ToAll(CallAudience(Remaining(was, old), peerConn), PeerEvent("leave", was, old)),
               ToAll(room, CallEnd(was, roomOf[was])))
    BY <1>1, LeaveNoticesOf
<1> HIDE DEF old, was, room
<1>7. ASSUME NEW d \in Conns
      PROVE  /\ Copy(d, CallAudience(Remaining(was, old), peerConn), PeerEvent("leave", was, old))
                    \subseteq Written(d)
             /\ Copy(d, room, CallEnd(was, roomOf[was])) \subseteq Written(d)
    <2> DEFINE A3 == {c}
               m3 == Participants(k, p, callPeers'[k])
               A4 == CallAudience(callPeers'[k], peerConn')
               m4 == PeerEvent("join", k, p)
    <2>1. sent' = Then(Then(ToAll(CallAudience(Remaining(was, old), peerConn), PeerEvent("leave", was, old)),
                            ToAll(room, CallEnd(was, roomOf[was]))),
                       Then(ToAll(A3, m3), ToAll(A4, m4)))
        BY <1>3, <1>6 DEF To
    <2> HIDE DEF A3, m3, A4, m4
    <2>2. Written(d) = Copy(d, CallAudience(Remaining(was, old), peerConn), PeerEvent("leave", was, old))
                         \cup Copy(d, room, CallEnd(was, roomOf[was])) \cup Copy(d, A3, m3) \cup Copy(d, A4, m4)
        BY <2>1, WrittenFour
    <2>3. QED
        BY <2>2
<1>8. \A j \in live \ {was} : callPeers[j] \subseteq callPeers'[j]
    BY <1>1, <1>3, <1>4
<1>9. \A q \in callPeers[was] \ {old} : peerConn'[q] = peerConn[q]
    <2>1. \A j \in CallIds : p \notin callPeers[j]
        BY <1>3, FreshPeerUnknown
    <2>2. QED
        BY <1>3, <1>4, <2>1 DEF IInv, TypeOK
<1>10. \A d \in Conns :
         /\ Copy(d, CallAudience(Remaining(was, old), peerConn), PeerEvent("leave", was, old))
                \subseteq Written(d)
         /\ Remaining(was, old) = {} =>
                Copy(d, RoomAudience(roomOf[was]), CallEnd(was, roomOf[was])) \subseteq Written(d)
    BY <1>7 DEF room
<1>11. QED
    BY <1>1, <1>3, <1>5, <1>8, <1>9, <1>10, DepartureNoticed

\* A call ended for everyone.
LEMMA EndAnnounced ==
    ASSUME IInv, NEW c \in Conns, NEW k \in CallIds, RtcEndCall(c, k)
    PROVE  AnnouncesDepartures
<1>1. CASE UNCHANGED callVars
    BY <1>1 DEF AnnouncesDepartures, callVars
<1> DEFINE out == CallAudience(callPeers[k], peerConn)
           end == CallEnd(k, roomOf[k])
<1>2. ASSUME k \in live,
             sent' = Then(ToAll(out, end), ToAll(RoomAudience(roomOf[k]), end)),
             callPeers' = [callPeers EXCEPT ![k] = {}],
             live' = live \ {k}
      PROVE  AnnouncesDepartures
    <2>1. \A d \in Conns : Written(d) = Copy(d, out, end) \cup Copy(d, RoomAudience(roomOf[k]), end)
        <3> HIDE DEF out, end
        <3>1. QED
            BY <1>2, WrittenTwo
    <2>2. ASSUME NEW d \in Conns, connCall[d] = k PROVE end \in Written(d)
        <3>1. InCall(d)
            BY <2>2, ConstantsAssumption DEF IInv, Tables, CallsConsistent, ConnectionsAreInLiveCalls, InCall
        <3>2. d \in out \cap OpenConns
            BY <2>2, <3>1, OwnPeer DEF CallAudience, OpenConns
        <3> HIDE DEF out, end
        <3>3. end \in Copy(d, out, end)
            BY <3>2 DEF Copy
        <3>4. QED
            BY <2>1, <3>3
    <2>3. ASSUME NEW d \in Conns, Authed(d), connUser[d] \in member[roomOf[k]] PROVE end \in Written(d)
        <3>1. roomOf[k] \in Rooms
            BY <1>2 DEF IInv, TypeOK, Tables, FreshIdsUnknown
        <3>2. d \in RoomAudience(roomOf[k]) \cap OpenConns
            BY <2>3, <3>1, MemberReachable
        <3> HIDE DEF out, end
        <3>3. end \in Copy(d, RoomAudience(roomOf[k]), end)
            BY <3>2 DEF Copy
        <3>4. QED
            BY <2>1, <3>3
    <2>4. ASSUME NEW j \in live, j # k PROVE j \in live' /\ callPeers'[j] = callPeers[j]
        BY <1>2, <2>4 DEF IInv, TypeOK
    <2>5. QED
        BY <1>2, <2>2, <2>3, <2>4 DEF AnnouncesDepartures
<1>3. QED
    BY <1>1, <1>2 DEF RtcEndCall, Reply

LEMMA StepAnnounced == IInv /\ [Next]_vars => [AnnouncesDepartures]_vars
<1> SUFFICES ASSUME IInv, NEW c \in Conns, Step(c) PROVE AnnouncesDepartures
    BY DEF Next
<1>1. ASSUME live \subseteq live', \A k \in live : callPeers[k] \subseteq callPeers'[k]
      PROVE  AnnouncesDepartures
    BY <1>1 DEF AnnouncesDepartures
<1>2. ASSUME UNCHANGED callVars PROVE AnnouncesDepartures
    BY <1>1, <1>2 DEF callVars
<1>3. CASE \/ Connect(c) \/ (\E u \in Users : Authenticate(c, u))
           \/ Unauthenticated(c) \/ PeerMismatch(c)
           \/ \E r \in Rooms : ChannelJoin(c, r) \/ ChannelLeave(c, r)
    BY <1>2, <1>3 DEF Connect, Authenticate, Unauthenticated, PeerMismatch, ChannelJoin, ChannelLeave, Reply
<1>4. CASE \/ \E k \in IssuedCalls, p \in IssuedPeers : RtcStreamPublish(c, k, p)
           \/ \E k \in IssuedCalls, p, q \in IssuedPeers : RtcSignal(c, k, p, q)
    BY <1>2, <1>4 DEF RtcStreamPublish, RtcSignal, Reply
<1>5. CASE \E r \in Rooms : RtcCallCreate(c, r)
    BY <1>1, <1>2, <1>5 DEF RtcCallCreate, Reply
<1>6. CASE \E k \in IssuedCalls : RtcJoin(c, k)
    <2>1. PICK k \in CallIds : RtcJoin(c, k)
        BY <1>6 DEF IssuedCalls
    <2>2. CASE UNCHANGED callVars
        BY <1>2, <2>2
    <2>3. CASE k \in live /\ JoinFirst(c, k)
        <3>1. live' = live /\ \E p \in PeerIds : callPeers' = [callPeers EXCEPT ![k] = callPeers[k] \cup {p}]
            BY <2>3 DEF JoinFirst
        <3>2. QED
            BY <1>1, <3>1 DEF IInv, TypeOK
    <2>4. CASE k \in live /\ JoinSwitch(c, k)
        BY <2>4, SwitchAnnounced
    <2>5. QED
        BY <2>1, <2>2, <2>3, <2>4 DEF RtcJoin, JoinAgain, Reply
<1>7. CASE \E k \in IssuedCalls : RtcEndCall(c, k)
    BY <1>7, EndAnnounced DEF IssuedCalls
<1>8. CASE \E k \in IssuedCalls, p \in IssuedPeers : RtcLeave(c, k, p)
    BY <1>8, DepartAnnounced, ConstantsAssumption DEF RtcLeave, PeerMatch, InCall, IssuedCalls, IssuedPeers
<1>9. CASE Close(c)
    BY <1>2, <1>9, DepartAnnounced DEF Close
<1>10. QED
    BY <1>3, <1>4, <1>5, <1>6, <1>7, <1>8, <1>9 DEF Step

\* DeparturesAnnounced: leaveCall's result always leads to the broadcasts that
\* the rest of the call and the room need.
THEOREM DeparturesAlwaysAnnounced == Spec => DeparturesAnnounced
<1>1. QED
    BY StepAnnounced, SpecIInv, PTL DEF Spec, DeparturesAnnounced

-----------------------------------------------------------------------------
(***************************************************************************)
(* Rosters and signals: which handlers write them.                         *)
(***************************************************************************)
Silent(t) == \A c \in Conns : \A m \in Written(c) : m.t # t

LEMMA SilentNothing ==
    ASSUME sent' = Nothing, NEW t
    PROVE  Silent(t)
BY WrittenNothing DEF Silent

LEMMA SilentOne ==
    ASSUME NEW S, NEW m, sent' = ToAll(S, m), NEW t, m.t # t
    PROVE  Silent(t)
BY WrittenOne DEF Silent, Copy

LEMMA SilentTwo ==
    ASSUME NEW S1, NEW m1, NEW S2, NEW m2, sent' = Then(ToAll(S1, m1), ToAll(S2, m2)),
           NEW t, m1.t # t, m2.t # t
    PROVE  Silent(t)
BY WrittenTwo DEF Silent, Copy

LEMMA SilentFour ==
    ASSUME NEW S1, NEW m1, NEW S2, NEW m2, NEW S3, NEW m3, NEW S4, NEW m4,
           sent' = Then(Then(ToAll(S1, m1), ToAll(S2, m2)), Then(ToAll(S3, m3), ToAll(S4, m4))),
           NEW t, m1.t # t, m2.t # t, m3.t # t, m4.t # t
    PROVE  Silent(t)
BY WrittenFour DEF Silent, Copy

\* A step that writes neither rosters nor signals.
SilentStep == Silent("rtc.participants") /\ Silent("rtc.signal_event")

LEMMA ReplySilent ==
    ASSUME NEW c \in Conns, NEW m, sent' = To(c, m), m.t # "rtc.participants", m.t # "rtc.signal_event"
    PROVE  SilentStep
BY SilentOne DEF SilentStep, To

LEMMA DepartSilent ==
    ASSUME IInv, NEW c \in Conns, InCall(c), Depart(c)
    PROVE  SilentStep
<1> DEFINE k == connCall[c]
           p == connPeer[c]
           A1 == CallAudience(Remaining(k, p), peerConn)
           m1 == PeerEvent("leave", k, p)
           A2 == IF Remaining(k, p) = {} THEN RoomAudience(roomOf[k]) ELSE {}
           m2 == CallEnd(k, roomOf[k])
<1>1. sent' = Then(ToAll(A1, m1), ToAll(A2, m2))
    BY LeaveNoticesOf DEF Depart
<1>2. m1.t = "rtc.peer_event" /\ m2.t = "rtc.call_end"
    BY DEF PeerEvent, CallEnd
<1> HIDE DEF A1, m1, A2, m2
<1>3. QED
    BY <1>1, <1>2, SilentTwo DEF SilentStep

LEMMA CallCreateSilent ==
    ASSUME NEW c \in Conns, NEW r \in Rooms, RtcCallCreate(c, r)
    PROVE  SilentStep
<1>1. CASE sent' = To(c, Error("FORBIDDEN"))
    BY <1>1, ReplySilent DEF Error
<1>2. ASSUME NEW k \in CallIds \cup live,
             sent' = Then(To(c, CallReply(k, r)), ToAll(RoomAudience(r), CallCreated(k, r)))
      PROVE  SilentStep
    <2> DEFINE m1 == CallReply(k, r)
               m2 == CallCreated(k, r)
    <2>1. m1.t = "rtc.call" /\ m2.t = "rtc.call_event"
        BY DEF CallReply, CallCreated
    <2>2. sent' = Then(ToAll({c}, m1), ToAll(RoomAudience(r), m2))
        BY <1>2 DEF To
    <2> HIDE DEF m1, m2
    <2>3. QED
        BY <2>1, <2>2, SilentTwo DEF SilentStep
<1>3. QED
    BY <1>1, <1>2 DEF RtcCallCreate, Reply, CallOfRoom

LEMMA EndCallSilent ==
    ASSUME NEW c \in Conns, NEW k \in CallIds, RtcEndCall(c, k)
    PROVE  SilentStep
<1>1. ASSUME NEW code, sent' = To(c, Error(code)) PROVE SilentStep
    BY <1>1, ReplySilent DEF Error
<1>2. ASSUME NEW S1, NEW S2, NEW m, m = CallEnd(k, roomOf[k]), sent' = Then(ToAll(S1, m), ToAll(S2, m))
      PROVE  SilentStep
    <2>1. m.t = "rtc.call_end"
        BY <1>2 DEF CallEnd
    <2>2. QED
        BY <1>2, <2>1, SilentTwo DEF SilentStep
<1>3. QED
    BY <1>1, <1>2 DEF RtcEndCall, Reply

\* Only a join writes a roster and only rtc.offer, answer and ice a signal.
LEMMA WhoWrites ==
    ASSUME IInv, NEW c \in Conns, Step(c)
    PROVE  \/ SilentStep
           \/ \E k \in live : Authed(c) /\ (JoinFirst(c, k) \/ JoinAgain(c, k) \/ JoinSwitch(c, k))
           \/ \E k \in live : \E p, q \in callPeers[k] :
                 /\ PeerMatch(c, k, p)
                 /\ sent' = ToAll({peerConn[q]}, SignalEvent(k, p, q))
<1>1. CASE Connect(c)
    BY <1>1, SilentNothing DEF Connect, SilentStep
<1>2. CASE \E u \in Users : Authenticate(c, u)
    BY <1>2, ReplySilent DEF Authenticate, HelloAck
<1>3. CASE Unauthenticated(c) \/ PeerMismatch(c)
    BY <1>3, ReplySilent DEF Unauthenticated, PeerMismatch, Reply, Error
<1>4. CASE \E r \in Rooms : ChannelJoin(c, r) \/ ChannelLeave(c, r)
    BY <1>4, ReplySilent DEF ChannelJoin, ChannelLeave, MemberEvent
<1>5. CASE \E r \in Rooms : RtcCallCreate(c, r)
    BY <1>5, CallCreateSilent
<1>6. CASE \E k \in IssuedCalls : RtcJoin(c, k)
    <2>1. PICK k \in CallIds : RtcJoin(c, k)
        BY <1>6 DEF IssuedCalls
    <2>2. CASE \E code : sent' = To(c, Error(code))
        BY <2>2, ReplySilent DEF Error
    <2>3. QED
        BY <2>1, <2>2 DEF RtcJoin, Reply
<1>7. CASE \E k \in IssuedCalls : RtcEndCall(c, k)
    BY <1>7, EndCallSilent DEF IssuedCalls
<1>8. CASE \E k \in IssuedCalls, p \in IssuedPeers : RtcLeave(c, k, p)
    BY <1>8, DepartSilent, ConstantsAssumption DEF RtcLeave, PeerMatch, InCall, IssuedCalls, IssuedPeers
<1>9. CASE \E k \in IssuedCalls, p \in IssuedPeers : RtcStreamPublish(c, k, p)
    <2>1. PICK k \in CallIds, p \in PeerIds : RtcStreamPublish(c, k, p)
        BY <1>9 DEF IssuedCalls, IssuedPeers
    <2> DEFINE S == IF k \in live THEN CallAudience(callPeers[k], peerConn) ELSE {}
               m == StreamEvent(k, p)
    <2>2. sent' = ToAll(S, m) /\ m.t = "rtc.stream_event"
        BY <2>1 DEF RtcStreamPublish, StreamEvent
    <2> HIDE DEF S, m
    <2>3. QED
        BY <2>2, SilentOne DEF SilentStep
<1>10. CASE \E k \in IssuedCalls, p, q \in IssuedPeers : RtcSignal(c, k, p, q)
    <2>1. PICK k \in CallIds, p \in PeerIds, q \in PeerIds : RtcSignal(c, k, p, q)
        BY <1>10 DEF IssuedCalls, IssuedPeers
    <2>2. CASE ~Routable(k, p, q)
        <3>1. \E code : sent' = To(c, Error(code))
            BY <2>1, <2>2 DEF RtcSignal, Reply
        <3>2. QED
            BY <3>1, ReplySilent DEF Error
    <2>3. CASE Routable(k, p, q)
        BY <2>1, <2>3 DEF RtcSignal, Routable
    <2>4. QED
        BY <2>2, <2>3
<1>11. CASE Close(c)
    BY <1>11, SilentNothing, DepartSilent DEF Close, SilentStep
<1>12. QED
    BY <1>1, <1>2, <1>3, <1>4, <1>5, <1>6, <1>7, <1>8, <1>9, <1>10, <1>11 DEF Step

-----------------------------------------------------------------------------
\* What a join writes: a roster to the joiner, its arrival to everyone in the
\* call, and, when it comes from another call, other messages of no concern here.
JoinWrites(c, k, p) ==
    /\ connPeer'[c] = p /\ connCall'[c] = k
    /\ p \in callPeers'[k]
    /\ connState' = connState
    /\ \A d \in Conns :
          /\ \A m \in Written(d) :
                /\ m.t # "rtc.signal_event"
                /\ m.t = "rtc.participants" => d = c /\ m = Participants(k, p, callPeers'[k])
          /\ Copy(d, CallAudience(callPeers'[k], peerConn'), PeerEvent("join", k, p)) \subseteq Written(d)

LEMMA FirstWrites ==
    ASSUME IInv, NEW c \in Conns, NEW k \in live, JoinFirst(c, k)
    PROVE  \E p \in PeerIds : JoinWrites(c, k, p)
<1>1. PICK p \in PeerIds :
        /\ callPeers' = [callPeers EXCEPT ![k] = callPeers[k] \cup {p}]
        /\ peerConn' = Register(peerConn, p, c)
        /\ connPeer' = [connPeer EXCEPT ![c] = p]
        /\ connCall' = [connCall EXCEPT ![c] = k]
        /\ sent' = Then(To(c, Participants(k, p, callPeers[k] \cup {p})),
                        ToAll(CallAudience(callPeers[k] \cup {p}, Register(peerConn, p, c)),
                              PeerEvent("join", k, p)))
    BY DEF JoinFirst
<1>2. /\ connPeer'[c] = p /\ connCall'[c] = k /\ callPeers'[k] = callPeers[k] \cup {p}
      /\ connState' = connState
    BY <1>1 DEF IInv, TypeOK, JoinFirst
<1> DEFINE m1 == Participants(k, p, callPeers'[k])
           A2 == CallAudience(callPeers'[k], peerConn')
           m2 == PeerEvent("join", k, p)
<1>3. sent' = Then(ToAll({c}, m1), ToAll(A2, m2))
    BY <1>1, <1>2 DEF To
<1>4. m1.t # "rtc.signal_event" /\ m2.t \notin {"rtc.signal_event", "rtc.participants"}
    BY DEF Participants, PeerEvent
<1> HIDE DEF m1, A2, m2
<1>5. \A d \in Conns : Written(d) = Copy(d, {c}, m1) \cup Copy(d, A2, m2)
    BY <1>3, WrittenTwo
<1>6. \A d \in Conns :
          /\ \A m \in Written(d) :
                /\ m.t # "rtc.signal_event"
                /\ m.t = "rtc.participants" => d = c /\ m = m1
          /\ Copy(d, A2, m2) \subseteq Written(d)
    BY <1>4, <1>5 DEF Copy
<1>7. JoinWrites(c, k, p)
    BY <1>2, <1>6 DEF JoinWrites, m1, A2, m2
<1>8. QED
    BY <1>7

LEMMA SwitchWrites ==
    ASSUME IInv, NEW c \in Conns, NEW k \in live, JoinSwitch(c, k)
    PROVE  \E p \in PeerIds : JoinWrites(c, k, p)
<1>1. k \in CallIds /\ connState' = connState
    BY DEF JoinSwitch, IInv, TypeOK
<1>2. InCall(c)
    BY <1>1, SwitchTables
<1>3. PICK p \in PeerIds : Switched(c, k, p)
    BY <1>1, SwitchTables
<1>4. /\ connPeer'[c] = p /\ connCall'[c] = k /\ callPeers'[k] = callPeers[k] \cup {p}
      /\ sent' = Then(LeaveNotices(connCall[c], connPeer[c]),
                      Then(To(c, Participants(k, p, callPeers'[k])),
                           ToAll(CallAudience(callPeers'[k], peerConn'), PeerEvent("join", k, p))))
    BY <1>3 DEF Switched
<1> DEFINE old == connPeer[c]
           was == connCall[c]
           A1 == CallAudience(Remaining(was, old), peerConn)
           m1 == PeerEvent("leave", was, old)
           A2 == IF Remaining(was, old) = {} THEN RoomAudience(roomOf[was]) ELSE {}
           m2 == CallEnd(was, roomOf[was])
           A3 == {c}
           m3 == Participants(k, p, callPeers'[k])
           A4 == CallAudience(callPeers'[k], peerConn')
           m4 == PeerEvent("join", k, p)
<1>5. LeaveNotices(was, old) = Then(ToAll(A1, m1), ToAll(A2, m2))
    BY <1>2, LeaveNoticesOf
<1>6. sent' = Then(Then(ToAll(A1, m1), ToAll(A2, m2)), Then(ToAll(A3, m3), ToAll(A4, m4)))
    <2> HIDE DEF A1, m1, A2, m2
    <2>1. QED
        BY <1>4, <1>5 DEF To
<1>7. /\ m1.t = "rtc.peer_event" /\ m2.t = "rtc.call_end"
      /\ m3.t = "rtc.participants" /\ m4.t = "rtc.peer_event"
    <2>1. m1.t = "rtc.peer_event" /\ m4.t = "rtc.peer_event"
        BY DEF PeerEvent
    <2>2. m2.t = "rtc.call_end"
        BY DEF CallEnd
    <2>3. m3.t = "rtc.participants"
        BY DEF Participants
    <2>4. QED
        BY <2>1, <2>2, <2>3
<1> HIDE DEF old, was, A1, m1, A2, m2, A3, m3, A4, m4
<1>8. \A d \in Conns :
         Written(d) = Copy(d, A1, m1) \cup Copy(d, A2, m2) \cup Copy(d, A3, m3) \cup Copy(d, A4, m4)
    BY <1>6, WrittenFour
<1>9. \A d \in Conns :
          /\ \A m \in Written(d) :
                /\ m.t # "rtc.signal_event"
                /\ m.t = "rtc.participants" => d = c /\ m = m3
          /\ Copy(d, A4, m4) \subseteq Written(d)
    BY <1>7, <1>8 DEF Copy, A3
<1>10. JoinWrites(c, k, p)
    BY <1>1, <1>4, <1>9 DEF JoinWrites, m3, A4, m4
<1>11. QED
    BY <1>10

LEMMA JoinWritesRoster ==
    ASSUME IInv, IInv', NEW c \in Conns, NEW k \in live, k \in live', NEW p \in PeerIds, JoinWrites(c, k, p)
    PROVE  SendsCompleteRosters
<1> SUFFICES ASSUME NEW d \in Conns, NEW m \in Written(d), m.t = "rtc.participants"
             PROVE  /\ m.peers = callPeers'[m.call]
                    /\ m.self \in m.peers /\ connPeer'[d] = m.self /\ connCall'[d] = m.call
                    /\ \A q \in m.peers : PeerEvent("join", m.call, m.self) \in Written(peerConn'[q])
    BY DEF SendsCompleteRosters
<1>1. d = c /\ m.call = k /\ m.self = p /\ m.peers = callPeers'[k]
    <2>1. d = c /\ m = Participants(k, p, callPeers'[k])
        BY DEF JoinWrites
    <2>2. QED
        BY <2>1 DEF Participants
<1>2. ASSUME NEW q \in callPeers'[k] PROVE PeerEvent("join", k, p) \in Written(peerConn'[q])
    <2>1. peerConn'[q] \in Conns /\ connState'[peerConn'[q]] = "open"
        <3>1. k \in CallIds /\ q \in PeerIds
            BY <1>2 DEF IInv, TypeOK
        <3>2. PICK e \in Conns : peerConn'[q] = e /\ connCall'[e] = k
            BY <3>1 DEF IInv, Tables, CallsConsistent, PeersAreConnected
        <3>3. QED
            BY <3>1, <3>2 DEF IInv, Tables, CallsConsistent, RegistryMatchesConnections
    <2>2. peerConn'[q] \in CallAudience(callPeers'[k], peerConn') \cap OpenConns
        BY <2>1 DEF CallAudience, OpenConns, JoinWrites
    <2>3. PeerEvent("join", k, p) \in
              Copy(peerConn'[q], CallAudience(callPeers'[k], peerConn'), PeerEvent("join", k, p))
        BY <2>2 DEF Copy
    <2>4. QED
        BY <2>1, <2>3 DEF JoinWrites
<1>3. QED
    BY <1>1, <1>2 DEF JoinWrites

\* A signal goes to the peer it names.
LEMMA SignalOnePeer ==
    ASSUME IInv, NEW k \in live, NEW p \in callPeers[k], NEW q \in callPeers[k],
           sent' = ToAll({peerConn[q]}, SignalEvent(k, p, q))
    PROVE  SignalsOnePeerOfCall /\ Silent("rtc.participants")
<1> DEFINE m == SignalEvent(k, p, q)
           S == {peerConn[q]}
<1>1. m.t = "rtc.signal_event" /\ m.call = k /\ m.from = p /\ m.to = q
    BY DEF SignalEvent
<1>2. connPeer[peerConn[q]] = q /\ connCall[peerConn[q]] = k
    BY PeerReachable
<1> HIDE DEF m
<1>3. \A d \in Conns : Written(d) = Copy(d, S, m)
    <2> HIDE DEF S
    <2>1. sent' = ToAll(S, m)
        BY DEF S, m
    <2>2. QED
        BY <2>1, WrittenOne
<1>4. \A d \in Conns : Written(d) # {} => d = peerConn[q] /\ Written(d) = {m}
    BY <1>3 DEF Copy
<1>5. QED
    BY <1>1, <1>2, <1>4 DEF SignalsOnePeerOfCall, Silent

LEMMA StepRostersAndSignals ==
    IInv /\ [Next]_vars => [SendsCompleteRosters]_vars /\ [SignalsOnePeerOfCall]_vars
<1> SUFFICES ASSUME IInv, NEW c \in Conns, Step(c) PROVE SendsCompleteRosters /\ SignalsOnePeerOfCall
    BY DEF Next
<1>1. IInv'
    BY StepIInv DEF Next
<1>2. CASE SilentStep
    BY <1>2 DEF SilentStep, Silent, SendsCompleteRosters, SignalsOnePeerOfCall
<1>3. ASSUME NEW k \in live, Authed(c), JoinFirst(c, k) \/ JoinSwitch(c, k)
      PROVE  SendsCompleteRosters /\ SignalsOnePeerOfCall
    <2>1. PICK p \in PeerIds : JoinWrites(c, k, p)
        BY <1>3, FirstWrites, SwitchWrites
    <2>2. k \in live'
        <3>1. p \in callPeers'[k] /\ k \in CallIds
            BY <2>1 DEF JoinWrites, IInv, TypeOK
        <3>2. QED
            BY <1>1, <3>1 DEF IInv, Tables, CallsConsistent, PeersAreConnected
    <2>3. SendsCompleteRosters
        BY <1>1, <2>1, <2>2, JoinWritesRoster
    <2>4. SignalsOnePeerOfCall
        BY <2>1 DEF JoinWrites, SignalsOnePeerOfCall
    <2>5. QED
        BY <2>3, <2>4
<1>4. ASSUME NEW k \in live, JoinAgain(c, k) PROVE SendsCompleteRosters /\ SignalsOnePeerOfCall
    <2> DEFINE m == Participants(k, connPeer[c], callPeers[k])
    <2>1. /\ m.t = "rtc.participants" /\ m.call = k /\ m.self = connPeer[c] /\ m.peers = callPeers[k]
        BY DEF Participants
    <2>2. /\ sent' = ToAll({c}, m) /\ connPeer' = connPeer /\ connCall' = connCall
          /\ callPeers' = callPeers /\ connCall[c] = k /\ connPeer[c] \in callPeers[k]
        BY <1>4 DEF JoinAgain, Reply, To, connVars, callVars
    <2> HIDE DEF m
    <2>3. \A d \in Conns : \A x \in Written(d) : d = c /\ x = m
        BY <2>2, WrittenOne DEF Copy
    <2>4. QED
        BY <2>1, <2>2, <2>3 DEF SendsCompleteRosters, SignalsOnePeerOfCall
<1>5. ASSUME NEW k \in live, NEW p \in callPeers[k], NEW q \in callPeers[k],
             sent' = ToAll({peerConn[q]}, SignalEvent(k, p, q))
      PROVE  SendsCompleteRosters /\ SignalsOnePeerOfCall
    BY <1>5, SignalOnePeer DEF Silent, SendsCompleteRosters
<1>6. QED
    BY <1>2, <1>3, <1>4, <1>5, WhoWrites

\* RostersComplete: whoever joins gets the whole call, and the whole call gets
\* the one who joins, for any number of peers.
THEOREM RostersAlwaysComplete == Spec => RostersComplete
<1>1. QED
    BY StepRostersAndSignals, SpecIInv, PTL DEF Spec, RostersComplete

\* SignalsStayInCall: an offer, answer or candidate reaches the peer it names,
\* in the call it names, and nobody else.
THEOREM SignalsAlwaysStayInCall == Spec => SignalsStayInCall
<1>1. QED
    BY StepRostersAndSignals, SpecIInv, PTL DEF Spec, SignalsStayInCall
=============================================================================
