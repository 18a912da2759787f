----------------------------- MODULE StreamHub -----------------------------
(***************************************************************************)
(* The stream relay of ChatServer: one broadcaster and many viewers per    *)
(* named stream.  A participant holds a control socket (roles, state of    *)
(* the stream) and a media socket (binary frames), tied together only by   *)
(* the client_id both of them name.                                        *)
(*                                                                         *)
(* No handler awaits, so a handler is one action.  A handler changes       *)
(* several tables and writes messages in between; the order matters, since *)
(* an audience is read from the tables at the time of writing.  So each    *)
(* statement is an operator from tables to tables and a handler composes   *)
(* them.  What a control socket was told last about the stream it joined   *)
(* is kept in `heard`.                                                     *)
(*                                                                         *)
(* Socket ids are never reused by the server; here a closed slot reopens   *)
(* as a new id, which HubConsistent justifies: nothing refers to a closed  *)
(* slot.  A definition Op_Variant is a fault: what Op would be with a      *)
(* plausible bug.                                                          *)
(***************************************************************************)
EXTENDS Naturals, FiniteSets

CONSTANTS
    Ctrls,      \* slots for control sockets
    Medias,     \* slots for media sockets
    Streams,    \* stream names
    Clients,    \* client ids, chosen by the clients
    None

Roles == {"broadcaster", "viewer"}

\* The connections of both kinds take their ids from one generator.
ASSUME HubAssumption ==
    /\ None \notin Ctrls \cup Medias \cup Streams \cup Clients \cup Roles \cup {"join"}
    /\ Ctrls \cap Medias = {}

VARIABLES
    open,           \* keys of streamControlConnections and streamMediaConnections
    ctrl,           \* role, stream and clientId of a control connection
    media,          \* role, stream and clientId of a media connection
    broadcaster,    \* streamBroadcasters
    viewers,        \* streamControlViewers
    byClient,       \* streamControlByClientId
    state,          \* streamStates: "idle" or "live"
    mediaViewers,   \* streamMediaViewers
    heard,          \* what a control socket was told last, since it joined
    frame           \* the binary frame relayed by the last step, or NoFrame

ctrlVars  == <<ctrl, broadcaster, viewers, byClient, state, heard>>
mediaVars == <<media, mediaViewers>>
vars      == <<open, ctrlVars, mediaVars, frame>>

Unjoined == [role |-> None, stream |-> None, client |-> None]
Joined(r, s, x) == [role |-> r, stream |-> s, client |-> x]
Unheard == [state |-> None, present |-> None, peer |-> None]
NoFrame == [to |-> {}, stream |-> None, client |-> None]

Sessions == [role : Roles, stream : Streams, client : Clients] \cup {Unjoined}

TypeOK ==
    /\ open \subseteq Ctrls \cup Medias
    /\ ctrl \in [Ctrls -> Sessions] /\ media \in [Medias -> Sessions]
    /\ broadcaster \in [Streams -> Ctrls \cup {None}]
    /\ viewers \in [Streams -> SUBSET Ctrls]
    /\ byClient \in [Clients -> Ctrls \cup {None}]
    /\ state \in [Streams -> {"idle", "live"}]
    /\ mediaViewers \in [Streams -> SUBSET Medias]

Init ==
    /\ open = {}
    /\ ctrl = [c \in Ctrls |-> Unjoined]
    /\ media = [m \in Medias |-> Unjoined]
    /\ broadcaster = [s \in Streams |-> None]
    /\ viewers = [s \in Streams |-> {}]
    /\ byClient = [x \in Clients |-> None]
    /\ state = [s \in Streams |-> "idle"]
    /\ mediaViewers = [s \in Streams |-> {}]
    /\ heard = [c \in Ctrls |-> Unheard]
    /\ frame = NoFrame

-----------------------------------------------------------------------------
(***************************************************************************)
(* Statements: from tables to tables.                                      *)
(***************************************************************************)
Tables == [ctrl |-> ctrl, broadcaster |-> broadcaster, viewers |-> viewers,
           byClient |-> byClient, state |-> state, heard |-> heard]

Assign(t) ==
    /\ ctrl' = t.ctrl /\ broadcaster' = t.broadcaster /\ viewers' = t.viewers
    /\ byClient' = t.byClient /\ state' = t.state /\ heard' = t.heard

Present(t, s) == t.broadcaster[s] # None

\* broadcastStreamControl: the broadcaster and the viewers of s.
Audience(t, s) == {c \in Ctrls : t.broadcaster[s] = c \/ c \in t.viewers[s]}

TellState(t, C, s) ==
    [t EXCEPT !.heard = [c \in Ctrls |->
        IF c \in C THEN [@[c] EXCEPT !.state = t.state[s], !.present = Present(t, s)] ELSE @[c]]]
TellPeer(t, C, kind) ==
    [t EXCEPT !.heard = [c \in Ctrls |->
        IF c \in C THEN [@[c] EXCEPT !.peer = kind] ELSE @[c]]]

\* updateStreamState.
UpdateState(t, s, next) ==
    LET u == [t EXCEPT !.state[s] = next] IN TellState(u, Audience(u, s), s)

\* The entry of streamControlByClientId goes, if it is this connection's own.
ForgetClient_Always(t, c) ==
    IF t.ctrl[c].client # None THEN [t EXCEPT !.byClient[t.ctrl[c].client] = None] ELSE t
ForgetClient(t, c) ==
    LET x == t.ctrl[c].client
    IN  IF x # None /\ t.byClient[x] = c THEN [t EXCEPT !.byClient[x] = None] ELSE t

RemoveStreamMembership_BroadcasterOnly(t, c) ==
    LET s == t.ctrl[c].stream
    IN  IF t.ctrl[c].role = "broadcaster" /\ t.broadcaster[s] = c
        THEN [t EXCEPT !.broadcaster[s] = None] ELSE t
RemoveStreamMembership(t, c) ==
    LET s == t.ctrl[c].stream
    IN  CASE t.ctrl[c].role = "broadcaster" /\ t.broadcaster[s] = c ->
                [t EXCEPT !.broadcaster[s] = None]
          [] t.ctrl[c].role = "viewer" -> [t EXCEPT !.viewers[s] = @ \ {c}]
          [] OTHER -> t

StreamIdle(t, s) ==
    LET u == UpdateState(t, s, "idle") IN TellPeer(u, Audience(u, s), "leave")

\* What a join of another stream and the loss of the socket begin with.
Leave(t, c) ==
    LET u == RemoveStreamMembership(ForgetClient(t, c), c)
    IN  IF t.ctrl[c].role = "broadcaster" THEN StreamIdle(u, t.ctrl[c].stream) ELSE u

\* The previous broadcaster of s, if it is another connection, is out.
Displace_KeepRole(t, s, c) ==
    LET d == t.broadcaster[s]
    IN  IF d \in {None, c} THEN t
        ELSE StreamIdle(RemoveStreamMembership(ForgetClient(t, d), d), s)
Displace(t, s, c) ==
    LET d == t.broadcaster[s]
        u == RemoveStreamMembership(ForgetClient(t, d), d)
    IN  IF d \in {None, c} THEN t
        ELSE StreamIdle([u EXCEPT !.ctrl[d] = Unjoined], s)

Broadcast(t, s, c) ==
    LET u == UpdateState([Displace(t, s, c) EXCEPT !.broadcaster[s] = c], s, "live")
    IN  TellPeer(u, Audience(u, s), "join")

View_ByClient(t, s, c)   == [t EXCEPT !.viewers[s] = @ \cup {t.ctrl[c].client}]
View_NoGreeting(t, s, c) == [t EXCEPT !.viewers[s] = @ \cup {c}]
View(t, s, c) ==
    LET u == [t EXCEPT !.viewers[s] = @ \cup {c}]
    IN  IF Present(u, s) THEN TellPeer(u, {c}, "join") ELSE u

Enter(t, c, r, s, x) ==
    LET u == [t EXCEPT !.ctrl[c] = Joined(r, s, x), !.byClient[x] = c, !.heard[c] = Unheard]
    IN  TellState(IF r = "broadcaster" THEN Broadcast(u, s, c) ELSE View(u, s, c), {c}, s)

-----------------------------------------------------------------------------
(***************************************************************************)
(* Handlers.  Malformed messages get an error and change nothing.          *)
(***************************************************************************)
OpenSocket(c) ==
    /\ c \notin open
    /\ open' = open \cup {c}
    /\ frame' = NoFrame
    /\ UNCHANGED <<ctrlVars, mediaVars>>

\* handleStreamJoin.
StreamJoin(c, r, s, x) ==
    /\ c \in open
    /\ Assign(Enter(Leave(Tables, c), c, r, s, x))
    /\ frame' = NoFrame
    /\ UNCHANGED <<open, mediaVars>>

\* handleStreamControlClose.
ControlClose(c) ==
    /\ c \in open
    /\ open' = open \ {c}
    /\ Assign([Leave(Tables, c) EXCEPT !.ctrl[c] = Unjoined, !.heard[c] = Unheard])
    /\ frame' = NoFrame
    /\ UNCHANGED mediaVars

\* removeStreamMediaMembership.
WithoutMedia(m) == [s \in Streams |-> mediaViewers[s] \ {m}]

\* handleStreamMediaJoin.
MediaJoin(m, r, s, x) ==
    /\ m \in open
    /\ media' = [media EXCEPT ![m] = Joined(r, s, x)]
    /\ mediaViewers' = IF r = "viewer" THEN [WithoutMedia(m) EXCEPT ![s] = @ \cup {m}] ELSE WithoutMedia(m)
    /\ frame' = NoFrame
    /\ UNCHANGED <<open, ctrlVars>>

\* handleStreamMediaClose.
MediaClose(m) ==
    /\ m \in open
    /\ open' = open \ {m}
    /\ media' = [media EXCEPT ![m] = Unjoined]
    /\ mediaViewers' = WithoutMedia(m)
    /\ frame' = NoFrame
    /\ UNCHANGED ctrlVars

\* handleStreamBinary: the control session of the sender's client must be the
\* broadcaster of the sender's stream; otherwise the frame is refused.
MayRelay_ByRole(m) == media[m].role = "broadcaster"
MayRelay(m) ==
    /\ media[m].role = "broadcaster"
    /\ broadcaster[media[m].stream] # None
    /\ broadcaster[media[m].stream] = byClient[media[m].client]

StreamBinary(m) ==
    /\ m \in open
    /\ MayRelay(m)
    /\ frame' = [to |-> mediaViewers[media[m].stream] \cap open,
                 stream |-> media[m].stream, client |-> media[m].client]
    /\ UNCHANGED <<open, ctrlVars, mediaVars>>

Next ==
    \/ \E c \in Ctrls \cup Medias : OpenSocket(c)
    \/ \E c \in Ctrls : ControlClose(c)
    \/ \E c \in Ctrls, r \in Roles, s \in Streams, x \in Clients : StreamJoin(c, r, s, x)
    \/ \E m \in Medias : MediaClose(m) \/ StreamBinary(m)
    \/ \E m \in Medias, r \in Roles, s \in Streams, x \in Clients : MediaJoin(m, r, s, x)

Spec == Init /\ [][Next]_vars

-----------------------------------------------------------------------------
\* Whatever sequence of joins, rejoins, displacements and lost sockets came
\* before, the tables by stream and the fields of the connections agree: a
\* connection is in exactly the table its fields name, closed ones in none, and a
\* client id leads to a control session that still uses it.
HubConsistent ==
    /\ \A s \in Streams, c \in Ctrls :
          /\ broadcaster[s] = c <=> ctrl[c].role = "broadcaster" /\ ctrl[c].stream = s
          /\ c \in viewers[s] <=> ctrl[c].role = "viewer" /\ ctrl[c].stream = s
    /\ \A s \in Streams, m \in Medias :
          m \in mediaViewers[s] <=> media[m].role = "viewer" /\ media[m].stream = s
    /\ \A x \in Clients : byClient[x] # None => ctrl[byClient[x]].client = x
    /\ \A c \in Ctrls \ open : ctrl[c] = Unjoined
    /\ \A m \in Medias \ open : media[m] = Unjoined

\* A client id keeps leading to the control session that took it last, as long as
\* that session uses it: the late close of the client's previous socket, or its
\* displacement as broadcaster, does not unregister the socket that replaced it.
ReplacementStaysFindable ==
    [][ \A x \in Clients :
          byClient[x] # None /\ ctrl'[byClient[x]].client = x => byClient'[x] # None ]_vars

\* A stream is live exactly while somebody broadcasts it, across handovers.
LiveWhileBroadcast ==
    \A s \in Streams : state[s] = "live" <=> broadcaster[s] # None

\* Everyone in a stream has been told its present state last, and has been told
\* of the broadcaster if there is one, and of its leaving if it has heard of it:
\* no handover, rejoin or lost socket leaves a viewer with an older truth.
WatchersUpToDate ==
    \A c \in Ctrls : ctrl[c] # Unjoined =>
        LET s == ctrl[c].stream
        IN  /\ heard[c].state = state[s]
            /\ heard[c].present = (broadcaster[s] # None)
            /\ heard[c].peer = "join" <=> broadcaster[s] # None

\* Frames come from the present broadcaster and go to viewers only: a displaced
\* or departed broadcaster whose media socket is still open reaches nobody, and
\* nobody gets a frame of a stream it has left.
FramesFromBroadcasterToViewers ==
    frame # NoFrame =>
        /\ \E c \in Ctrls :
              /\ broadcaster[frame.stream] = c /\ c \in open
              /\ ctrl[c].client = frame.client
        /\ frame.to = {m \in Medias : media[m].role = "viewer" /\ media[m].stream = frame.stream}
=============================================================================
