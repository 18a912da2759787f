---------------------------- MODULE VoiceSession ----------------------------
(***************************************************************************)
(* The voice session of every page, composed with the call server: what    *)
(* the user clicks, what app.mjs and RtcCallService keep of the call (the   *)
(* AppStore's call fields, channelCallMap and peerConnections) and the     *)
(* requests and events that cross each other on the socket.                *)
(*                                                                         *)
(* A connection of CallServer is a page: it is open and signed in from the *)
(* start, and once its socket is gone the page is (closing the tab).  The  *)
(* socket is two FIFO queues.  Messages the session does not react to are  *)
(* not queued.  Offers, answers and candidates are PeerNegotiation's; the  *)
(* media of the page itself are left out.                                  *)
(*                                                                         *)
(* A page that is not in Hasty has a patient user, who waits for the       *)
(* answer to his last request before he clicks again.                      *)
(***************************************************************************)
EXTENDS CallServer, SequencesExt

CONSTANTS
    UserOf,     \* UserOf[c]: who is signed in on the page c
    Hasty,      \* the pages whose users click while an answer is outstanding
    MaxClicks,  \* bound: MaxClicks[c] clicks of the user of c
    MaxRenames  \* bound on the renamings of a channel that pages are told of

ASSUME VoiceAssumption ==
    /\ UserOf \in [Conns -> Users] /\ Hasty \subseteq Conns
    /\ MaxClicks \in [Conns -> Nat] /\ MaxRenames \in Nat

VARIABLES
    page,       \* page[c]: the call fields of the AppStore and of app.mjs
    toServer, toClient,
    clicks, renames     \* bounds: how many so far

serverVars == <<connVars, member, callVars, sent>>
voiceVars  == <<serverVars, page, toServer, toClient, clicks, renames>>

Page == [cur : Rooms \cup {None},       \* currentChannelId, a voice channel
         callId : CallIds \cup {None},
         room : Rooms \cup {None},      \* callChannelId
         self : PeerIds \cup {None},    \* selfPeerId
         voice : BOOLEAN,               \* voiceActive
         modal : BOOLEAN,               \* the join dialog is open, for cur
         calls : [Rooms -> CallIds \cup {None}],  \* channelCallMap
         peers : SUBSET PeerIds]        \* the keys of peerConnections

VoiceTypeOK ==
    /\ TypeOK
    /\ page \in [Conns -> Page]
    /\ clicks \in [Conns -> Nat] /\ renames \in 0..MaxRenames

EmptyPage == [cur |-> None, callId |-> None, room |-> None, self |-> None,
              voice |-> FALSE, modal |-> FALSE,
              calls |-> [r \in Rooms |-> None], peers |-> {}]

VoiceInit ==
    /\ connState = [c \in Conns |-> "open"]
    /\ connUser = UserOf
    /\ connPeer = [c \in Conns |-> None] /\ connCall = [c \in Conns |-> None]
    /\ userConns = [u \in Users |-> {c \in Conns : UserOf[c] = u}]
    /\ member = [r \in Rooms |-> {Owner[r]}]
    /\ live = {} /\ roomOf = [k \in CallIds |-> None]
    /\ callPeers = [k \in CallIds |-> {}]
    /\ peerUser = [p \in PeerIds |-> None] /\ peerConn = [p \in PeerIds |-> None]
    /\ sent = Nothing
    /\ page = [c \in Conns |-> EmptyPage]
    /\ toServer = [c \in Conns |-> <<>>] /\ toClient = [c \in Conns |-> <<>>]
    /\ clicks = [c \in Conns |-> 0] /\ renames = 0

-----------------------------------------------------------------------------
(***************************************************************************)
(* What the page sends, and the server's side of the socket.               *)
(***************************************************************************)
ChannelJoinMsg(r) == [t |-> "channel.join", room |-> r]
CallCreateMsg(r)  == [t |-> "rtc.call_create", room |-> r]
JoinMsg(k)        == [t |-> "rtc.join", call |-> k]
LeaveMsg(k, p)    == [t |-> "rtc.leave", call |-> k, peer |-> p]
EndCallMsg(k)     == [t |-> "rtc.end_call", call |-> k]

\* What the session reacts to; of the errors, only rtc.join's NOT_FOUND.
Noticed(m, request) ==
    \/ m.t \in {"rtc.call", "rtc.call_event", "rtc.participants", "rtc.peer_event",
                "rtc.call_end"}
    \/ m.t = "error" /\ request = "rtc.join" /\ m.code = "NOT_FOUND"

\* What a page notices of the messages written to it.
Heard(s, request) ==
    LET upTo[i \in 0..Len(s)] ==
            IF i = 0 THEN <<>>
            ELSE IF Noticed(s[i], request) THEN Append(upTo[i - 1], s[i])
            ELSE upTo[i - 1]
    IN  upTo[Len(s)]

Deliver(request) ==
    toClient' = [d \in Conns |-> toClient[d] \o Heard(sent'[d], request)]

Serve(c) ==
    LET m == Head(toServer[c]) IN
    /\ Authed(c) /\ toServer[c] # <<>>
    /\ \/ m.t = "channel.join" /\ ChannelJoin(c, m.room)
       \/ m.t = "rtc.call_create" /\ RtcCallCreate(c, m.room)
       \/ m.t = "rtc.join" /\ RtcJoin(c, m.call)
       \/ m.t = "rtc.leave" /\ PeerMatch(c, m.call, m.peer) /\ RtcLeave(c, m.call, m.peer)
       \/ m.t = "rtc.leave" /\ ~PeerMatch(c, m.call, m.peer) /\ PeerMismatch(c)
       \/ m.t = "rtc.end_call" /\ RtcEndCall(c, m.call)
    /\ toServer' = [toServer EXCEPT ![c] = Tail(@)]
    /\ Deliver(m.t)
    /\ UNCHANGED <<page, clicks, renames>>

\* The tab is closed.
ClosePage(c) ==
    /\ Close(c)
    /\ toServer' = [toServer EXCEPT ![c] = <<>>]
    /\ toClient' = [d \in Conns |-> IF d = c THEN <<>> ELSE
                       toClient[d] \o Heard(sent'[d], "close")]
    /\ page' = [page EXCEPT ![c] = EmptyPage]
    /\ UNCHANGED <<clicks, renames>>

-----------------------------------------------------------------------------
(***************************************************************************)
(* What the page does, as a pair of its next state and what it sends.      *)
(***************************************************************************)
Result(p, out) == [page |-> p, out |-> out]

\* teardownCall.
TornDown(p) == [p EXCEPT !.callId = None, !.room = None, !.self = None,
                         !.peers = {}, !.voice = FALSE]

\* leaveCurrentVoiceCall in a call: the server is told if the peer id is known.
Left_Silently(p) == Result(TornDown(p), <<>>)
Left(p) == Result(TornDown(p), IF p.self # None THEN <<LeaveMsg(p.callId, p.self)>> ELSE <<>>)

\* joinVoiceChannel: the known call of the room, or a new one.
Joined(p, r) ==
    LET before == IF p.callId # None THEN Left(p) ELSE Result(p, <<>>)
        q      == [before.page EXCEPT !.voice = TRUE, !.modal = FALSE, !.room = r]
        known  == p.calls[r]
    IN  IF p.callId # None /\ p.room = r
        THEN Result([p EXCEPT !.voice = TRUE, !.modal = FALSE], <<>>)
        ELSE IF known # None
        THEN Result([q EXCEPT !.callId = known], Append(before.out, JoinMsg(known)))
        ELSE Result(q, Append(before.out, CallCreateMsg(r)))

InThisCall(p, r) == p.callId # None /\ p.room = r

\* ensureVoiceStateForChannel.
Ensured(p, r) ==
    IF p.voice /\ r # None /\ ~InThisCall(p, r) THEN Joined(p, r) ELSE Result(p, <<>>)

\* setActiveChannel on a voice channel: the dialog, or the session goes on.
Selected(p, r) ==
    LET q == [p EXCEPT !.cur = r]
    IN  IF ~InThisCall(p, r) /\ (~p.voice \/ p.room # r)
        THEN Result([q EXCEPT !.modal = TRUE], <<ChannelJoinMsg(r)>>)
        ELSE Result(Ensured(q, r).page, <<ChannelJoinMsg(r)>> \o Ensured(q, r).out)

\* The handlers of what the server sends.
CallEnded_KeepsCall(p, m) ==
    IF m.call = p.callId \/ m.room = p.room THEN TornDown(p) ELSE p
CallEnded(p, m) ==
    LET q == [p EXCEPT !.calls[m.room] = None]
    IN  IF m.call = p.callId \/ m.room = p.room THEN TornDown(q) ELSE q

\* ensurePeers, handlePeerEvent.
WithPeers_Replaced(p, ps) == [p EXCEPT !.peers = ps \ {p.self}]
WithPeers(p, ps)          == [p EXCEPT !.peers = @ \cup (ps \ {p.self})]

PeerEventHandled(p, m) ==
    IF m.kind = "join" THEN WithPeers(p, {m.peer}) ELSE [p EXCEPT !.peers = @ \ {m.peer}]

Handled(p, m) ==
    CASE m.t = "rtc.call_event" -> Result([p EXCEPT !.calls[m.room] = m.call], <<>>)
      [] m.t = "rtc.call" -> Result([p EXCEPT !.callId = m.call, !.room = m.room],
                                    <<JoinMsg(m.call)>>)
      [] m.t = "rtc.participants" ->
            Result(WithPeers([p EXCEPT !.self = m.self], m.peers), <<>>)
      [] m.t = "rtc.peer_event" -> Result(PeerEventHandled(p, m), <<>>)
      [] m.t = "rtc.call_end" -> Result(CallEnded(p, m), <<>>)
      [] m.t = "error" /\ p.cur # None -> Ensured([p EXCEPT !.calls[p.cur] = None], p.cur)
      [] OTHER -> Result(p, <<>>)

Does(c, result) ==
    /\ page' = [page EXCEPT ![c] = result.page]
    /\ toServer' = [toServer EXCEPT ![c] = @ \o result.out]
    /\ sent' = Nothing
    /\ UNCHANGED <<connVars, member, callVars>>

Receive(c) ==
    /\ toClient[c] # <<>>
    /\ Does(c, Handled(page[c], Head(toClient[c])))
    /\ toClient' = [toClient EXCEPT ![c] = Tail(@)]
    /\ UNCHANGED <<clicks, renames>>

\* channel.updated of the channel the page shows.
ChannelUpdated(c) ==
    /\ Authed(c) /\ page[c].cur # None
    /\ renames < MaxRenames /\ renames' = renames + 1
    /\ Does(c, Ensured(page[c], page[c].cur))
    /\ UNCHANGED <<toClient, clicks>>

(***************************************************************************)
(* The user.  An open dialog blocks the rest of the page; the call bar     *)
(* acts on a call that is known.                                           *)
(***************************************************************************)
Answers == {"rtc.call", "rtc.participants", "error"}

Clicks(c) ==
    /\ Authed(c)
    /\ c \in Hasty \/ (toServer[c] = <<>> /\ \A m \in ToSet(toClient[c]) : m.t \notin Answers)
    /\ clicks[c] < MaxClicks[c]
    /\ clicks' = [clicks EXCEPT ![c] = @ + 1]
    /\ UNCHANGED <<toClient, renames>>

Select(c, r)  == Clicks(c) /\ ~page[c].modal /\ Does(c, Selected(page[c], r))
Join(c)       == Clicks(c) /\ page[c].modal /\ Does(c, Joined(page[c], page[c].cur))
Cancel(c)     == Clicks(c) /\ page[c].modal /\ Does(c, Result([page[c] EXCEPT !.modal = FALSE], <<>>))
LeaveCall(c)  == Clicks(c) /\ ~page[c].modal /\ page[c].callId # None /\ Does(c, Left(page[c]))
EndCall(c)    == /\ Clicks(c) /\ ~page[c].modal
                 /\ page[c].callId # None /\ connUser[c] \in Admins
                 /\ Does(c, Result(page[c], <<EndCallMsg(page[c].callId)>>))

VoiceNext == \E c \in Conns :
    \/ Serve(c) \/ Receive(c) \/ ChannelUpdated(c) \/ ClosePage(c)
    \/ Join(c) \/ Cancel(c) \/ LeaveCall(c) \/ EndCall(c)
    \/ \E r \in Rooms : Select(c, r)

VoiceSpec == VoiceInit /\ [][VoiceNext]_voiceVars

-----------------------------------------------------------------------------
Idle(c) == Authed(c) /\ toServer[c] = <<>> /\ toClient[c] = <<>>

\* When nothing is under way, a page is in the call, and under the peer id, that
\* the server has for it, whatever ended, was renamed or closed meanwhile: no
\* ghost in the call and no page that waits for ever.
PageMatchesServer ==
    \A c \in Conns \ Hasty : Idle(c) =>
        /\ page[c].callId = connCall[c] /\ page[c].self = connPeer[c]
        /\ page[c].room = IF connCall[c] = None THEN None ELSE roomOf[connCall[c]]

\* When nothing is under way, a page has a connection to everybody in its call,
\* also to those whose users do not wait.
NobodyMissing ==
    \A c \in Conns \ Hasty :
        Idle(c) /\ page[c].callId # None =>
            callPeers[page[c].callId] \ {page[c].self} \subseteq page[c].peers

\* The call a page would join in a room is the one that is going on there.
KnownCallsAreLive ==
    \A c \in Conns : Idle(c) =>
        \A r \in Rooms : page[c].calls[r] \in CallOfRoom(r) \cup {None}
=============================================================================
