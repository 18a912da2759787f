---------------------------- MODULE MessageFlow ----------------------------
(***************************************************************************)
(* Text messages from end to end: MessageService and the handlers of       *)
(* msg.send, msg.list and channel.join on the server; the client's view of *)
(* every channel (AppStore.messages), its copy in localStorage, and the    *)
(* client's reactions to what the server sends.                            *)
(*                                                                         *)
(* A client is a user with one page and at most one socket.  A socket is   *)
(* two FIFO queues; when it is lost both are, at any point of what was     *)
(* under way.  A message of a channel is its seq.  Rows are never deleted, *)
(* so MAX(seq) of a channel is the number of its messages.  Every channel  *)
(* is public and exists from the start; sessions stay valid.               *)
(*                                                                         *)
(* A definition Op_Variant is a fault: what Op would be with a plausible   *)
(* bug.                                                                    *)
(***************************************************************************)
EXTENDS Naturals, SequencesExt

CONSTANTS
    Clients, Channels,
    Limit,      \* page size of msg.list (200)
    CacheSize,  \* messages kept in localStorage per channel (50)
    Unstable,   \* bound: the clients whose socket or page may be lost alone
    MaxMsgs,    \* bound on the messages of all channels
    MaxQueue,   \* bound: c's user acts while less than MaxQueue[c] is under way
    None

ASSUME FlowAssumption ==
    /\ {Limit, CacheSize, MaxMsgs} \subseteq Nat \ {0}
    /\ MaxQueue \in [Clients -> Nat]
    /\ Unstable \subseteq Clients
    /\ None \notin Channels

VARIABLES
    last,       \* last[ch]: MAX(seq), the committed messages are 1..last[ch]
    indexed,    \* rows of fts_messages
    announced,  \* messages that were acknowledged and broadcast
    member,     \* channel_members
    authed,     \* connections whose userId is set
    online,     \* clients whose socket is open
    toServer,   \* per client: what it sent and the server has not handled
    toClient,   \* per client: what the server sent and it has not handled
    cur,        \* state.currentChannelId
    view,       \* state.messages
    cache,      \* localStorage, survives a reload of the page
    covered     \* history: this connection was sent the whole channel, and the
                \* view of it was not replaced by the cached one since

serverVars == <<last, indexed, announced, member>>
clientVars == <<cur, view, cache>>
vars == <<serverVars, authed, online, toServer, toClient, clientVars, covered>>

Msg(t, ch)          == [t |-> t, ch |-> ch]
ListResult(ch, s)   == [t |-> "msg.list_result", ch |-> ch, msgs |-> s]
Event(ch, n)        == [t |-> "msg.event", ch |-> ch, msg |-> n]

Requests ==
    [t : {"hello", "channel.list"}, ch : {None}]
        \cup [t : {"channel.join", "msg.list", "msg.send"}, ch : Channels]
Answers ==
    [t : {"hello_ack", "channel.list_result"}, ch : {None}]
        \cup [t : {"channel.member_event"}, ch : Channels]
        \cup [t : {"msg.list_result"}, ch : Channels, msgs : Seq(Nat)]
        \cup [t : {"msg.event"}, ch : Channels, msg : Nat]
        \cup [t : {"error"}, ch : {None}, code : {"FORBIDDEN", "INTERNAL"}]

TypeOK ==
    /\ last \in [Channels -> Nat]
    /\ indexed \in [Channels -> SUBSET Nat] /\ announced \in [Channels -> SUBSET Nat]
    /\ member \in [Channels -> SUBSET Clients]
    /\ authed \subseteq online /\ online \subseteq Clients
    /\ toServer \in [Clients -> Seq(Requests)] /\ toClient \in [Clients -> Seq(Answers)]
    /\ cur \in [Clients -> Channels \cup {None}]
    /\ view \in [Clients -> [Channels -> Seq(Nat)]]
    /\ cache \in [Clients -> [Channels -> Seq(Nat)]]
    /\ \A c \in Clients, ch \in Channels : Len(cache[c][ch]) <= CacheSize
    /\ covered \in [Clients -> [Channels -> BOOLEAN]]

Nowhere == [ch \in Channels |-> FALSE]
NoMessages == [ch \in Channels |-> <<>>]

Init ==
    /\ last = [ch \in Channels |-> 0]
    /\ indexed = [ch \in Channels |-> {}] /\ announced = [ch \in Channels |-> {}]
    /\ member = [ch \in Channels |-> {}]
    /\ authed = {} /\ online = {}
    /\ toServer = [c \in Clients |-> <<>>] /\ toClient = [c \in Clients |-> <<>>]
    /\ cur = [c \in Clients |-> None]
    /\ view = [c \in Clients |-> NoMessages] /\ cache = [c \in Clients |-> NoMessages]
    /\ covered = [c \in Clients |-> Nowhere]

-----------------------------------------------------------------------------
(***************************************************************************)
(* Sockets.                                                                *)
(***************************************************************************)
\* onOpen: the client introduces itself with its session token.
Open(c) ==
    /\ c \notin online
    /\ online' = online \cup {c}
    /\ toServer' = [toServer EXCEPT ![c] = <<Msg("hello", None)>>]
    /\ UNCHANGED <<serverVars, authed, toClient, clientVars, covered>>

Cut(S) ==
    /\ online' = online \ S /\ authed' = authed \ S
    /\ toServer' = [c \in Clients |-> IF c \in S THEN <<>> ELSE toServer[c]]
    /\ toClient' = [c \in Clients |-> IF c \in S THEN <<>> ELSE toClient[c]]
    /\ covered' = [c \in Clients |-> IF c \in S THEN Nowhere ELSE covered[c]]

Drop(c) ==
    /\ c \in online
    /\ Cut({c})
    /\ UNCHANGED <<serverVars, clientVars>>

\* The page is loaded again: the store starts empty, localStorage is kept.
Reload(c) ==
    /\ Cut({c})
    /\ cur' = [cur EXCEPT ![c] = None]
    /\ view' = [view EXCEPT ![c] = NoMessages]
    /\ UNCHANGED <<serverVars, cache>>

-----------------------------------------------------------------------------
(***************************************************************************)
(* The server handles the next message of c.                               *)
(***************************************************************************)
Incoming(c, t) == c \in online /\ toServer[c] # <<>> /\ Head(toServer[c]).t = t
Consume(c)     == toServer' = [toServer EXCEPT ![c] = Tail(@)]
Reply(c, m)    == toClient' = [toClient EXCEPT ![c] = Append(@, m)]

HandleHello(c) ==
    /\ Incoming(c, "hello")
    /\ Consume(c) /\ Reply(c, Msg("hello_ack", None))
    /\ authed' = authed \cup {c}
    /\ UNCHANGED <<serverVars, online, clientVars, covered>>

HandleChannelList(c) ==
    /\ Incoming(c, "channel.list")
    /\ Consume(c) /\ Reply(c, Msg("channel.list_result", None))
    /\ UNCHANGED <<serverVars, authed, online, clientVars, covered>>

HandleChannelJoin(c) ==
    /\ Incoming(c, "channel.join")
    /\ LET ch == Head(toServer[c]).ch
       IN  /\ member' = [member EXCEPT ![ch] = @ \cup {c}]
           /\ Reply(c, Msg("channel.member_event", ch))
    /\ Consume(c)
    /\ UNCHANGED <<last, indexed, announced, authed, online, clientVars, covered>>

Failure(code) == [t |-> "error", ch |-> None, code |-> code]

Refuse(c) ==
    /\ Consume(c) /\ Reply(c, Failure("FORBIDDEN"))
    /\ UNCHANGED <<serverVars, authed, online, clientVars, covered>>

\* listMessages with after_seq 0: the first Limit messages.
Page(ch) == [n \in 1..(IF last[ch] < Limit THEN last[ch] ELSE Limit) |-> n]

HandleMsgList(c) ==
    LET ch == Head(toServer[c]).ch IN
    /\ Incoming(c, "msg.list")
    /\ \/ /\ c \notin member[ch]
          /\ Refuse(c)
       \/ /\ c \in member[ch]
          /\ Consume(c) /\ Reply(c, ListResult(ch, Page(ch)))
          /\ covered' = [covered EXCEPT ![c][ch] = last[ch] <= Limit]
          /\ UNCHANGED <<serverVars, authed, online, clientVars>>

\* broadcastChannel.
Broadcast_ToOthers(ch, n, c) ==
    [d \in Clients |-> IF d \in (member[ch] \cap authed) \ {c}
                       THEN Append(toClient[d], Event(ch, n)) ELSE toClient[d]]
Broadcast(ch, n, c) ==
    [d \in Clients |-> IF d \in member[ch] \cap authed
                       THEN Append(toClient[d], Event(ch, n)) ELSE toClient[d]]

\* sendMessage commits the row with the next seq, then indexes it outside the
\* transaction, and the handler broadcasts it last.  The index may fail to take
\* the row (an error of the database), which ends the handler with an error to
\* the sender; the process may die between the commit and the rest.
Deliver_DespiteIndex(c, ch, n) ==
    /\ indexed' = [indexed EXCEPT ![ch] = @ \cup {n}] \/ UNCHANGED indexed
    /\ announced' = [announced EXCEPT ![ch] = @ \cup {n}]
    /\ toClient' = Broadcast(ch, n, c)
Deliver(c, ch, n) ==
    \/ /\ indexed' = [indexed EXCEPT ![ch] = @ \cup {n}]
       /\ announced' = [announced EXCEPT ![ch] = @ \cup {n}]
       /\ toClient' = Broadcast(ch, n, c)
    \/ /\ Reply(c, Failure("INTERNAL"))
       /\ UNCHANGED <<indexed, announced>>

HandleMsgSend(c) ==
    LET ch == Head(toServer[c]).ch IN
    /\ Incoming(c, "msg.send")
    /\ \/ /\ c \notin member[ch]
          /\ Refuse(c)
       \/ /\ c \in member[ch]
          /\ SumFunction(last) < MaxMsgs
          /\ last' = [last EXCEPT ![ch] = @ + 1]
          /\ \/ /\ Deliver(c, ch, last[ch] + 1)
                /\ Consume(c)
                /\ UNCHANGED <<authed, online, covered>>
             \/ /\ Cut(Clients)
                /\ UNCHANGED <<indexed, announced>>
          /\ UNCHANGED <<member, clientVars>>

-----------------------------------------------------------------------------
(***************************************************************************)
(* The client handles the next message from the server.                    *)
(***************************************************************************)
Arrived(c, t) == toClient[c] # <<>> /\ Head(toClient[c]).t = t
Taken(c)      == toClient' = [toClient EXCEPT ![c] = Tail(@)]

\* send: nothing is sent, and nothing kept, when the socket is not open.
Sends(c, m) ==
    toServer' = IF c \in online THEN [toServer EXCEPT ![c] = Append(@, m)] ELSE toServer

\* cacheMessages: the last messages of the view.
LastPart(s) == SubSeq(s, IF Len(s) > CacheSize THEN Len(s) - CacheSize + 1 ELSE 1, Len(s))

\* messages/set by msg.list_result, messages/append by msg.event.
Applied_ListAppends(v, m, ch) ==
    CASE m.t = "msg.list_result" /\ m.ch = ch -> v \o m.msgs
      [] m.t = "msg.event" /\ m.ch = ch       -> Append(v, m.msg)
      [] OTHER                                -> v
Applied(v, m, ch) ==
    CASE m.t = "msg.list_result" /\ m.ch = ch -> m.msgs
      [] m.t = "msg.event" /\ m.ch = ch       -> Append(v, m.msg)
      [] OTHER                                -> v

ShowMessages(c) ==
    /\ Arrived(c, "msg.list_result") \/ Arrived(c, "msg.event")
    /\ LET m  == Head(toClient[c])
           ch == m.ch
           v  == Applied(view[c][ch], m, ch)
       IN  /\ view' = [view EXCEPT ![c][ch] = v]
           /\ cache' = [cache EXCEPT ![c][ch] = LastPart(v)]
    /\ Taken(c)
    /\ UNCHANGED <<serverVars, authed, online, toServer, cur, covered>>

HandleHelloAck(c) ==
    /\ Arrived(c, "hello_ack")
    /\ Taken(c) /\ Sends(c, Msg("channel.list", None))
    /\ UNCHANGED <<serverVars, authed, online, clientVars, covered>>

\* setActiveChannel: the cached messages are shown until the list arrives.
SetActiveChannel(c, ch) ==
    /\ cur' = [cur EXCEPT ![c] = ch]
    /\ view' = [view EXCEPT ![c][ch] = cache[c][ch]]
    /\ covered' = [covered EXCEPT ![c][ch] = FALSE]
    /\ Sends(c, Msg("channel.join", ch))
    /\ UNCHANGED cache

\* The first list of channels opens one of them; a later one opens nothing.
HandleChannelListResult(c) ==
    /\ Arrived(c, "channel.list_result")
    /\ Taken(c)
    /\ \/ cur[c] = None /\ \E ch \in Channels : SetActiveChannel(c, ch)
       \/ cur[c] # None /\ UNCHANGED <<toServer, clientVars, covered>>
    /\ UNCHANGED <<serverVars, authed, online>>

\* handleChannelMemberEvent: the history of the channel that is shown.
HandleChannelMemberEvent(c) ==
    LET ch == Head(toClient[c]).ch IN
    /\ Arrived(c, "channel.member_event")
    /\ Taken(c)
    /\ IF ch = cur[c] THEN Sends(c, Msg("msg.list", ch)) ELSE UNCHANGED toServer
    /\ UNCHANGED <<serverVars, authed, online, clientVars, covered>>

\* handleError: "Not a member" makes the client join the channel it shows; an
\* internal error is only displayed.
HandleError(c) ==
    /\ Arrived(c, "error")
    /\ Taken(c)
    /\ IF Head(toClient[c]).code = "FORBIDDEN" /\ cur[c] # None
       THEN Sends(c, Msg("channel.join", cur[c]))
       ELSE UNCHANGED toServer
    /\ UNCHANGED <<serverVars, authed, online, clientVars, covered>>

-----------------------------------------------------------------------------
(***************************************************************************)
(* The user.                                                               *)
(***************************************************************************)
UserMayAct(c) == cur[c] # None /\ Len(toServer[c]) + Len(toClient[c]) < MaxQueue[c]

SwitchTo(c, ch) ==
    /\ UserMayAct(c)
    /\ SetActiveChannel(c, ch)
    /\ UNCHANGED <<serverVars, authed, online, toClient>>

SendMessage(c) ==
    /\ UserMayAct(c) /\ c \in online
    /\ Sends(c, Msg("msg.send", cur[c]))
    /\ UNCHANGED <<serverVars, authed, online, toClient, clientVars, covered>>

ServerStep(c) ==
    \/ HandleHello(c) \/ HandleChannelList(c) \/ HandleChannelJoin(c)
    \/ HandleMsgList(c) \/ HandleMsgSend(c)
ClientStep(c) ==
    \/ ShowMessages(c) \/ HandleHelloAck(c) \/ HandleChannelListResult(c)
    \/ HandleChannelMemberEvent(c) \/ HandleError(c)
UserStep(c) == SendMessage(c) \/ \E ch \in Channels : SwitchTo(c, ch)

Next == \E c \in Clients :
    \/ Open(c) \/ ServerStep(c) \/ ClientStep(c) \/ UserStep(c)
    \/ c \in Unstable /\ (Drop(c) \/ Reload(c))

Spec == Init /\ [][Next]_vars

-----------------------------------------------------------------------------
\* A view of ch after the messages of a queue, one after the other.
Shown(v, q, ch) ==
    LET after[i \in 0..Len(q)] == IF i = 0 THEN v ELSE Applied(after[i - 1], q[i], ch)
    IN  after[Len(q)]

\* What c will show of ch once it has handled all that is on its way.
Upcoming(c, ch) == Shown(view[c][ch], toClient[c], ch)

Increasing(s) == \A i, j \in DOMAIN s : i < j => s[i] < s[j]

\* No client ever shows a message twice or out of order, whatever it had cached,
\* however lists cross events, sockets are lost and pages are reloaded.
ViewsInOrder ==
    \A c \in Clients, ch \in Channels :
        Increasing(view[c][ch]) /\ Increasing(cache[c][ch]) /\ Increasing(Upcoming(c, ch))

\* A client that was sent the whole of a channel on this connection, and has not
\* gone back to the cached view, misses no message that is announced afterwards.
NothingMissedWhileConnected ==
    \A c \in Clients, ch \in Channels :
        covered[c][ch] => announced[ch] \subseteq ToSet(Upcoming(c, ch))

\* A client shows committed messages only; what was announced is searchable, even
\* when the index failed or the process died for other messages.
ShownIsStored ==
    \A c \in Clients, ch \in Channels :
        /\ ToSet(Upcoming(c, ch)) \cup ToSet(cache[c][ch]) \subseteq 1..last[ch]
        /\ announced[ch] \subseteq indexed[ch]

Quiet(c) == c \in authed /\ toServer[c] = <<>> /\ toClient[c] = <<>>

\* "Reconnect triggers re-sync of missed messages via msg.list" (DESIGN): a client
\* that is connected and has nothing under way shows every announced message of
\* the channel it displays.
ReconnectResyncs ==
    \A c \in Clients :
        Quiet(c) /\ cur[c] # None => announced[cur[c]] \subseteq ToSet(view[c][cur[c]])
=============================================================================
