----------------------------- MODULE CallServer -----------------------------
(***************************************************************************)
(* The signalling core of the chat server: the connection table of         *)
(* ChatServer, the per-user connection index, the membership of the voice  *)
(* rooms, the call table of SignalingService and the peer -> connection    *)
(* index that ties the two together.                                       *)
(*                                                                         *)
(* Every handler here runs to completion without awaiting, so a handler is *)
(* one action.  The messages a handler writes to the sockets are the value *)
(* it gives to `sent`: for each connection, the messages of this step in   *)
(* the order they are written.                                             *)
(*                                                                         *)
(* A definition named Op_Variant is a fault: what Op would be with a       *)
(* plausible bug.  No action uses it; it shows which property guards Op.   *)
(*                                                                         *)
(* Rooms are public channels of a public hub, so canAccessHub is true and  *)
(* channel.join always succeeds; ids (newId) are fresh, never reused.      *)
(***************************************************************************)
EXTENDS Naturals, Sequences, FiniteSets

CONSTANTS
    Conns,      \* connection ids the server can hand out
    Users,      \* user ids
    Rooms,      \* channel ids of the voice channels
    Admins,     \* users whose roles include "admin"
    Owner,      \* Owner[r]: the user whose membership row of r has role "owner"
    MaxCalls,   \* bound on the number of calls ever created
    MaxPeers,   \* bound on the number of peers ever created
    None        \* null

CallIds == 1..MaxCalls
PeerIds == 1..MaxPeers

ASSUME ConstantsAssumption ==
    /\ MaxCalls \in Nat /\ MaxPeers \in Nat
    /\ Admins \subseteq Users
    /\ Owner \in [Rooms -> Users]
    /\ None \notin Conns /\ None \notin Users /\ None \notin Rooms
    /\ None \notin CallIds /\ None \notin PeerIds

VARIABLES
    connState,  \* "new" (id not handed out yet), "open", "closed"
    connUser,   \* connection.userId
    connPeer,   \* connection.peerId
    connCall,   \* connection.callId
    userConns,  \* userConnections, and PresenceService.userToConnections
    member,     \* member[r]: users with a current membership row in r
    live,       \* the keys of SignalingService.calls
    roomOf,     \* room_id of a call, None for an id not created yet
    callPeers,  \* the keys of call.peers, empty for a call that is not live
    peerUser,   \* user_id in a peer record, None for an id not created yet
    peerConn,   \* peerConnections
    sent        \* messages written by the last step, per connection

connVars == <<connState, connUser, connPeer, connCall, userConns>>
callVars == <<live, roomOf, callPeers, peerUser, peerConn>>
vars     == <<connVars, member, callVars, sent>>

(***************************************************************************)
(* Messages.                                                               *)
(***************************************************************************)
CallReply(k, r)         == [t |-> "rtc.call", call |-> k, room |-> r]
CallCreated(k, r)       == [t |-> "rtc.call_event", call |-> k, room |-> r]
Participants(k, p, ps)  == [t |-> "rtc.participants", call |-> k, self |-> p, peers |-> ps]
PeerEvent(kind, k, p)   == [t |-> "rtc.peer_event", kind |-> kind, call |-> k, peer |-> p]
CallEnd(k, r)           == [t |-> "rtc.call_end", call |-> k, room |-> r]
SignalEvent(k, from, to) == [t |-> "rtc.signal_event", call |-> k, from |-> from, to |-> to]
StreamEvent(k, p)       == [t |-> "rtc.stream_event", call |-> k, peer |-> p]
MemberEvent(kind, r)    == [t |-> "channel.member_event", kind |-> kind, room |-> r]
HelloAck(u)             == [t |-> "hello_ack", user |-> u]
Error(code)             == [t |-> "error", code |-> code]

OpenConns == {c \in Conns : connState[c] = "open"}

\* send() skips connections that left the table.
ToAll(S, m)  == [c \in Conns |-> IF c \in S \cap OpenConns THEN <<m>> ELSE <<>>]
To(c, m)     == ToAll({c}, m)
Then(a, b)   == [c \in Conns |-> a[c] \o b[c]]
Nothing      == [c \in Conns |-> <<>>]

\* broadcastCall: the connections registered for the given peers.
CallAudience(peers, registry) == {registry[p] : p \in peers}
\* broadcastChannel: the indexed connections of the current members.
RoomAudience(r) == UNION {userConns[u] : u \in member[r]}

(***************************************************************************)
(* Connections.                                                            *)
(***************************************************************************)
TypeOK ==
    /\ connState \in [Conns -> {"new", "open", "closed"}]
    /\ connUser \in [Conns -> Users \cup {None}]
    /\ connPeer \in [Conns -> PeerIds \cup {None}]
    /\ connCall \in [Conns -> CallIds \cup {None}]
    /\ userConns \in [Users -> SUBSET Conns]
    /\ member \in [Rooms -> SUBSET Users]
    /\ live \subseteq CallIds
    /\ roomOf \in [CallIds -> Rooms \cup {None}]
    /\ callPeers \in [CallIds -> SUBSET PeerIds]
    /\ peerUser \in [PeerIds -> Users \cup {None}]
    /\ peerConn \in [PeerIds -> Conns \cup {None}]

Init ==
    /\ connState = [c \in Conns |-> "new"]
    /\ connUser = [c \in Conns |-> None]
    /\ connPeer = [c \in Conns |-> None]
    /\ connCall = [c \in Conns |-> None]
    /\ userConns = [u \in Users |-> {}]
    /\ member = [r \in Rooms |-> {Owner[r]}]
    /\ live = {}
    /\ roomOf = [k \in CallIds |-> None]
    /\ callPeers = [k \in CallIds |-> {}]
    /\ peerUser = [p \in PeerIds |-> None]
    /\ peerConn = [p \in PeerIds |-> None]
    /\ sent = Nothing

Reply(c, m) == /\ sent' = To(c, m)
               /\ UNCHANGED <<connVars, member, callVars>>

\* handleConnection: a socket was upgraded and gets a connection id.
Connect(c) ==
    /\ connState[c] = "new"
    /\ connState' = [connState EXCEPT ![c] = "open"]
    /\ sent' = Nothing
    /\ UNCHANGED <<connUser, connPeer, connCall, userConns, member, callVars>>

\* setConnectionUser, reached from hello (a valid session), auth.signin and
\* auth.invite_redeem.  A connection may authenticate again, as another user;
\* the last two arrive after an await, when the connection may be gone.
Authenticate(c, u) ==
    /\ connState[c] # "new"
    /\ IF connState[c] = "open"
       THEN /\ connUser' = [connUser EXCEPT ![c] = u]
            /\ userConns' = [userConns EXCEPT ![u] = @ \cup {c}]
       ELSE UNCHANGED <<connUser, userConns>>
    /\ sent' = To(c, HelloAck(u))
    /\ UNCHANGED <<connState, connPeer, connCall, member, callVars>>

\* The gate of handleMessage.
Unauthenticated(c) ==
    /\ connState[c] = "open" /\ connUser[c] = None
    /\ Reply(c, Error("AUTH_REQUIRED"))

Authed(c) == connState[c] = "open" /\ connUser[c] # None

\* channel.join / channel.leave of a public channel.
ChannelJoin(c, r) ==
    /\ Authed(c)
    /\ member' = [member EXCEPT ![r] = @ \cup {connUser[c]}]
    /\ sent' = To(c, MemberEvent("join", r))
    /\ UNCHANGED <<connVars, callVars>>

ChannelLeave(c, r) ==
    /\ Authed(c)
    /\ member' = [member EXCEPT ![r] = @ \ {connUser[c]}]
    /\ sent' = To(c, MemberEvent("leave", r))
    /\ UNCHANGED <<connVars, callVars>>

(***************************************************************************)
(* Calls.                                                                  *)
(***************************************************************************)
\* newId: an id nobody has seen; ids are numbered in the order of creation.
FreshCall(k) == roomOf[k] = None /\ \A j \in CallIds : j < k => roomOf[j] # None
FreshPeer(p) == peerUser[p] = None /\ \A q \in PeerIds : q < p => peerUser[q] # None

CallOfRoom_Never(r) == {}
CallOfRoom(r)       == {k \in live : roomOf[k] = r}

\* handleRtcCallCreate: createCall returns the room's call if it has one.
RtcCallCreate(c, r) ==
    /\ Authed(c)
    /\ \/ /\ connUser[c] \notin member[r]
          /\ Reply(c, Error("FORBIDDEN"))
       \/ /\ connUser[c] \in member[r]
          /\ \E k \in CallOfRoom(r) :
                /\ sent' = Then(To(c, CallReply(k, r)), ToAll(RoomAudience(r), CallCreated(k, r)))
                /\ UNCHANGED <<connVars, member, callVars>>
       \/ /\ connUser[c] \in member[r]
          /\ CallOfRoom(r) = {}
          /\ \E k \in CallIds :
                /\ FreshCall(k)
                /\ live' = live \cup {k}
                /\ roomOf' = [roomOf EXCEPT ![k] = r]
                /\ sent' = Then(To(c, CallReply(k, r)), ToAll(RoomAudience(r), CallCreated(k, r)))
          /\ UNCHANGED <<connVars, member, callPeers, peerUser, peerConn>>

InCall(c) == connPeer[c] # None /\ connCall[c] # None

\* SignalingService.leaveCall: the call goes away with its last peer.
Remaining(k, p) == callPeers[k] \ {p}

LiveAfterLeave_Kept(k, p) == live
LiveAfterLeave(k, p) == IF Remaining(k, p) = {} THEN live \ {k} ELSE live

\* The broadcasts after a leaveCall: rtc.peer_event to those who remain, or
\* rtc.call_end to the room when nobody does.
LeaveNotices_NoEnd(k, p) ==
    ToAll(IF k \in live /\ p \in callPeers[k] THEN CallAudience(Remaining(k, p), peerConn) ELSE {},
          PeerEvent("leave", k, p))
LeaveNotices(k, p) ==
    LET removed == k \in live /\ p \in callPeers[k]
        ended   == k \in live /\ Remaining(k, p) = {}
    IN  Then(ToAll(IF removed THEN CallAudience(Remaining(k, p), peerConn) ELSE {},
                   PeerEvent("leave", k, p)),
             ToAll(IF ended THEN RoomAudience(roomOf[k]) ELSE {}, CallEnd(k, roomOf[k])))

Register_ByUser(registry, p, c) == [registry EXCEPT ![p] = connUser[c]]
Register(registry, p, c)        == [registry EXCEPT ![p] = c]

\* handleRtcJoin of a connection that is in no call.
JoinFirst(c, k) ==
    /\ ~InCall(c)
    /\ \E p \in PeerIds :
        LET peers    == callPeers[k] \cup {p}
            registry == Register(peerConn, p, c)
        IN  /\ FreshPeer(p)
            /\ callPeers' = [callPeers EXCEPT ![k] = peers]
            /\ peerUser' = [peerUser EXCEPT ![p] = connUser[c]]
            /\ peerConn' = registry
            /\ connPeer' = [connPeer EXCEPT ![c] = p]
            /\ connCall' = [connCall EXCEPT ![c] = k]
            /\ sent' = Then(To(c, Participants(k, p, peers)),
                            ToAll(CallAudience(peers, registry), PeerEvent("join", k, p)))
    /\ UNCHANGED <<connState, connUser, userConns, member, live, roomOf>>

\* ... of a connection that is in this very call: the roster again.
JoinAgain_AnyCall(c, k) ==
    /\ InCall(c)
    /\ Reply(c, Participants(k, connPeer[c], callPeers[k]))
JoinAgain(c, k) ==
    /\ InCall(c) /\ connCall[c] = k /\ connPeer[c] \in callPeers[k]
    /\ Reply(c, Participants(k, connPeer[c], callPeers[k]))

\* ... of a connection that is in another call, which it leaves first.  (That
\* leaving cannot end the call being joined follows from CallsConsistent.)
JoinSwitch(c, k) ==
    /\ InCall(c) /\ ~(connCall[c] = k /\ connPeer[c] \in callPeers[k])
    /\ LET old == connPeer[c]
           was == connCall[c]
       IN  \E p \in PeerIds :
            LET left     == [callPeers EXCEPT ![was] = @ \ {old}]
                peers    == left[k] \cup {p}
                registry == Register([peerConn EXCEPT ![old] = None], p, c)
            IN  /\ FreshPeer(p)
                /\ live' = LiveAfterLeave(was, old)
                /\ callPeers' = [left EXCEPT ![k] = peers]
                /\ peerUser' = [peerUser EXCEPT ![p] = connUser[c]]
                /\ peerConn' = registry
                /\ connPeer' = [connPeer EXCEPT ![c] = p]
                /\ connCall' = [connCall EXCEPT ![c] = k]
                /\ sent' = Then(LeaveNotices(was, old),
                                Then(To(c, Participants(k, p, peers)),
                                     ToAll(CallAudience(peers, registry), PeerEvent("join", k, p))))
    /\ UNCHANGED <<connState, connUser, userConns, member, roomOf>>

RtcJoin(c, k) ==
    /\ Authed(c)
    /\ \/ /\ k \notin live
          /\ Reply(c, Error("NOT_FOUND"))
       \/ /\ k \in live /\ connUser[c] \notin member[roomOf[k]]
          /\ Reply(c, Error("FORBIDDEN"))
       \/ /\ k \in live /\ connUser[c] \in member[roomOf[k]]
          /\ JoinFirst(c, k) \/ JoinAgain(c, k) \/ JoinSwitch(c, k)

\* ensurePeerMatch: the ids in the body are the connection's own.
PeerMatch(c, k, p) == connPeer[c] = p /\ connCall[c] = k

\* An offer, answer, candidate, stream_publish or leave with other ids.
PeerMismatch(c) ==
    /\ Authed(c)
    /\ Reply(c, Error("FORBIDDEN"))

\* routeSignal's checks: both peers are in the call.
Routable_AnyTarget(k, from, to) == k \in live /\ from \in callPeers[k]
Routable(k, from, to)           == k \in live /\ {from, to} \subseteq callPeers[k]

\* handleRtcOffer, handleRtcAnswer and handleRtcIce; handleSignalingEvent
\* forwards by peerConnections.
RtcSignal(c, k, from, to) ==
    /\ Authed(c)
    /\ PeerMatch(c, k, from)
    /\ \/ /\ ~Routable(k, from, to)
          /\ Reply(c, Error(IF k \in live THEN "BAD_REQUEST" ELSE "NOT_FOUND"))
       \/ /\ Routable(k, from, to)
          /\ sent' = ToAll({peerConn[to]}, SignalEvent(k, from, to))
          /\ UNCHANGED <<connVars, member, callVars>>

RtcStreamPublish(c, k, p) ==
    /\ Authed(c)
    /\ PeerMatch(c, k, p)
    /\ sent' = ToAll(IF k \in live THEN CallAudience(callPeers[k], peerConn) ELSE {},
                     StreamEvent(k, p))
    /\ UNCHANGED <<connVars, member, callVars>>

\* What handleRtcLeave and handleClose do to the call of a connection.
Depart_KeepRegistration(c) ==
    LET k == connCall[c]
        p == connPeer[c]
    IN  /\ callPeers' = [callPeers EXCEPT ![k] = @ \ {p}]
        /\ live' = LiveAfterLeave(k, p)
        /\ sent' = LeaveNotices(k, p)
        /\ UNCHANGED <<roomOf, peerUser, peerConn>>
Depart(c) ==
    LET k == connCall[c]
        p == connPeer[c]
    IN  /\ callPeers' = [callPeers EXCEPT ![k] = @ \ {p}]
        /\ live' = LiveAfterLeave(k, p)
        /\ peerConn' = [peerConn EXCEPT ![p] = None]
        /\ sent' = LeaveNotices(k, p)
        /\ UNCHANGED <<roomOf, peerUser>>

RtcLeave(c, k, p) ==
    /\ Authed(c)
    /\ PeerMatch(c, k, p)
    /\ Depart(c)
    /\ connPeer' = [connPeer EXCEPT ![c] = None]
    /\ connCall' = [connCall EXCEPT ![c] = None]
    /\ UNCHANGED <<connState, connUser, userConns, member>>

\* handleRtcEndCall: an admin, or the owner's membership row, even a row the
\* owner has left, ends the call for everyone.
RtcEndCall(c, k) ==
    /\ Authed(c)
    /\ \/ /\ k \notin live
          /\ Reply(c, Error("NOT_FOUND"))
       \/ /\ k \in live /\ connUser[c] \notin Admins \cup {Owner[roomOf[k]]}
          /\ Reply(c, Error("FORBIDDEN"))
       \/ /\ k \in live /\ connUser[c] \in Admins \cup {Owner[roomOf[k]]}
          /\ LET out == CallAudience(callPeers[k], peerConn)
                 end == CallEnd(k, roomOf[k])
             IN  /\ connPeer' = [d \in Conns |-> IF d \in out THEN None ELSE connPeer[d]]
                 /\ connCall' = [d \in Conns |-> IF d \in out THEN None ELSE connCall[d]]
                 /\ sent' = Then(ToAll(out, end), ToAll(RoomAudience(roomOf[k]), end))
          /\ peerConn' = [p \in PeerIds |-> IF p \in callPeers[k] THEN None ELSE peerConn[p]]
          /\ callPeers' = [callPeers EXCEPT ![k] = {}]
          /\ live' = live \ {k}
          /\ UNCHANGED <<connState, connUser, userConns, member, roomOf, peerUser>>

\* removeUserConnection: one connection of the user goes.
RemoveUserConnection_All(u, c) == [v \in Users |-> IF v = u THEN {} ELSE userConns[v]]
RemoveUserConnection(u, c) == [v \in Users |-> IF v = u THEN userConns[v] \ {c} ELSE userConns[v]]

\* handleClose: the socket is gone, for whatever reason.  Its own fields are
\* dropped with the connection record.
Close(c) ==
    /\ connState[c] = "open"
    /\ \/ /\ InCall(c)
          /\ Depart(c)
       \/ /\ ~InCall(c)
          /\ sent' = Nothing
          /\ UNCHANGED callVars
    /\ connState' = [connState EXCEPT ![c] = "closed"]
    /\ connUser' = [connUser EXCEPT ![c] = None]
    /\ connPeer' = [connPeer EXCEPT ![c] = None]
    /\ connCall' = [connCall EXCEPT ![c] = None]
    /\ userConns' = RemoveUserConnection(connUser[c], c)
    /\ UNCHANGED member

-----------------------------------------------------------------------------
\* The ids a client can name are those the server has handed out.
IssuedCalls == {k \in CallIds : roomOf[k] # None}
IssuedPeers == {p \in PeerIds : peerUser[p] # None}

Step(c) ==
    \/ Connect(c)
    \/ \E u \in Users : Authenticate(c, u)
    \/ Unauthenticated(c)
    \/ PeerMismatch(c)
    \/ \E r \in Rooms : ChannelJoin(c, r) \/ ChannelLeave(c, r) \/ RtcCallCreate(c, r)
    \/ \E k \in IssuedCalls : RtcJoin(c, k) \/ RtcEndCall(c, k)
    \/ \E k \in IssuedCalls, p \in IssuedPeers : RtcLeave(c, k, p) \/ RtcStreamPublish(c, k, p)
    \/ \E k \in IssuedCalls, p, q \in IssuedPeers : RtcSignal(c, k, p, q)
    \/ Close(c)

Next == \E c \in Conns : Step(c)

Spec == Init /\ [][Next]_vars
-----------------------------------------------------------------------------
(***************************************************************************)
(* Safety.                                                                 *)
(***************************************************************************)
\* peerConnections holds exactly the peers of open connections, each under
\* the connection that carries it.
RegistryMatchesConnections ==
    \A p \in PeerIds, c \in Conns :
        peerConn[p] = c <=> connState[c] = "open" /\ connPeer[c] = p

\* A connection that believes it is in a call is one of the peers of a live
\* call.
ConnectionsAreInLiveCalls ==
    \A c \in Conns :
        /\ connPeer[c] = None <=> connCall[c] = None
        /\ InCall(c) => connCall[c] \in live /\ connPeer[c] \in callPeers[connCall[c]]

\* No ghosts: every peer of a call belongs to an open connection that is in
\* that call.
PeersAreConnected ==
    \A k \in CallIds : \A p \in callPeers[k] :
        k \in live /\ \E c \in Conns : peerConn[p] = c /\ connCall[c] = k

\* The three tables that record who is in a call (connection fields, call.peers
\* and peerConnections) agree after every handler: join, switch, leave, end of
\* the call and loss of the socket keep them in step.
CallsConsistent ==
    /\ RegistryMatchesConnections
    /\ ConnectionsAreInLiveCalls
    /\ PeersAreConnected

\* createCall's search keeps at most one live call per room, so everyone who
\* starts a call in a room meets in the same one.
OneCallPerRoom ==
    \A j, k \in live : roomOf[j] = roomOf[k] => j = k

\* broadcastChannel misses nobody: an open connection is indexed under the user
\* it is authenticated as.
IndexComplete ==
    \A c \in Conns : Authed(c) => c \in userConns[connUser[c]]

Written(c)   == {sent'[c][i] : i \in DOMAIN sent'[c]}

\* Whoever stays in a call learns of every departure from it (a switch to
\* another call, a leave, a lost socket), and a call that ends, because its last
\* peer went or because it was ended, is announced to those who were in it and to
\* all members of its room.
AnnouncesDepartures ==
    \A k \in live :
        /\ k \in live' =>
              \A p \in callPeers[k] \ callPeers'[k], q \in callPeers[k] \cap callPeers'[k] :
                  PeerEvent("leave", k, p) \in Written(peerConn'[q])
        /\ k \notin live' =>
              \A c \in Conns :
                  (/\ connState'[c] = "open"
                   /\ \/ connCall[c] = k /\ connCall'[c] = None
                         /\ Cardinality(callPeers[k]) > 1
                      \/ Authed(c) /\ connUser[c] \in member[roomOf[k]])
                  => CallEnd(k, roomOf[k]) \in Written(c)

\* No handler lets a peer or a call go in silence.
DeparturesAnnounced == [][AnnouncesDepartures]_vars

\* rtc.participants gives the joiner the complete roster, itself included under
\* its own peer id, and everyone else in the call is told of the joiner.
SendsCompleteRosters ==
    \A c \in Conns : \A m \in Written(c) :
        m.t = "rtc.participants" =>
           /\ m.peers = callPeers'[m.call]
           /\ m.self \in m.peers /\ connPeer'[c] = m.self /\ connCall'[c] = m.call
           /\ connPeer[c] # m.self =>
                \A q \in m.peers : PeerEvent("join", m.call, m.self) \in Written(peerConn'[q])

\* No join, whether first, again or from another call, gives a partial roster.
RostersComplete == [][SendsCompleteRosters]_vars

\* An offer, answer or candidate reaches one connection only, the one that is
\* the addressed peer, and only from a peer of the same call.
SignalsOnePeerOfCall ==
    \A c \in Conns : \A m \in Written(c) :
        m.t = "rtc.signal_event" =>
           /\ m.call \in live /\ {m.from, m.to} \subseteq callPeers[m.call]
           /\ connPeer[c] = m.to /\ connCall[c] = m.call
           /\ \A d \in Conns \ {c} : Written(d) = {}

\* No step forwards a signal out of its call.
SignalsStayInCall == [][SignalsOnePeerOfCall]_vars

\* The server forwards a signal only for a peer whose user is a member of the
\* room of the call (PROTOCOL on rtc.offer: "Server validates membership and
\* forwards as an event"; DESIGN: "rtc calls: must be room member").
SignalsOnlyFromMembers ==
    [][ \A c \in Conns : \A m \in Written(c) :
          m.t = "rtc.signal_event" =>
             peerUser[m.from] \in member[roomOf[m.call]] ]_vars

-----------------------------------------------------------------------------
(***************************************************************************)
(* The server implements CallRegistry: the tables of SignalingService and  *)
(* ChatServer are one registry of who attends which call.                  *)
(***************************************************************************)
Registry == INSTANCE CallRegistry WITH attends <- connCall
ImplementsRegistry == Registry!Spec
=============================================================================
