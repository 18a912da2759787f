# devchitchat in TLA+

devchitchat is a self-hosted chat: one Node process with an SQLite database
serves a browser client over WebSockets. Text goes through the server; voice and
video go from browser to browser (WebRTC mesh), for which the server only
forwards signals; a separate relay carries one-to-many streams.

This directory holds a TLA+ model of the parts of it that have behaviour worth
arguing about, the TLC runs that check them on small instances, and TLAPS proofs
for all instances of every safety property that the passing runs check. `PROJECT.json` maps every
definition to the source lines it models.

    tlc -workers 2 -config MCCallServer.cfg MCCallServer     # one run
    tlapm CallServer_proofs.tla                              # the proofs of one module

The modules with proofs are `CallServer_proofs`, `AuthSessions_proofs`, `StreamHub_proofs`,
`MessageFlow_proofs`, `WsClient_proofs`, `ChannelTree_proofs`, `VoiceSession_proofs` and
`PeerNegotiation_proofs`.

## 1. Inventory

| component | state | operations | hard because | correct when |
|---|---|---|---|---|
| **Connections and calls** `ChatServer`, `SignalingService`, `PresenceService` | connections (user, peer, call), userConnections, peerConnections, calls with peers | authentication, channel.join/leave, rtc.call_create/join/offer/answer/ice/stream_publish/leave/end_call, loss of a socket | five handlers change the same three tables; broadcasts are made from tables already changed | the tables agree, departures are announced, one call per room |
| **Accounts** `AuthService` | invites, users, sessions, bootstrap token in memory | invite_create, invite_redeem, bootstrap, signin, hello | awaits a password hash between check and write; crashes; the clock | uses, accounts and sessions add up, somebody can administer, nobody acts as somebody else |
| **Stream relay** `ChatServer` | control and media sockets, broadcaster and viewers per stream, client ids, stream state | join, media join, binary frame, loss of either socket | handover of the broadcaster; two sockets with one client id | tables agree, watchers know the present state, frames come from the broadcaster |
| **Text messages** `MessageService`, `SearchService`, `AppStore`, `app.mjs` | messages, index, members; view and cache per channel in the client | msg.send, msg.list, channel.join; opening of a channel; events | lists cross events; sockets are lost; commit before index and broadcast | views in order, nothing missed while connected, only stored messages shown |
| **Peer connections** `RtcCallService`, `RtcConnector` | one actor per peer with a role, negotiation sets, early candidates, local tracks | participants, peer join/leave, offer, answer, ice, change of tracks, teardown | long awaits; roles are replaced; both sides act | the two ends belong to one connection and carry the present tracks |
| **Browser connection** `WsClient` | current socket, two timers, attempts, waiting sign-in | connect, timeouts, open, close | late events of old sockets act on shared timers | one live socket, always a timer or a socket, reconnects |
| **Hubs and channels** `HubService`, `ChannelService`, `ChatServer` | hubs, channels, memberships with a role and left_at | create, update, delete of both; join, leave, add member; lists; the default hub | rows are never removed; lists, joins and audiences ask for different memberships; an admin passes every check before a row is looked at | no orphaned channel, one owner, events reach whoever shows what changed and nobody else |
| **Client tree** `app.mjs`, `AppStore`, `SidebarTreePresenter` | hubs and channels shown, current channel | lists, events, errors; opening a channel | lists replace what events built; events overtake the requests of other pages; reconnects | shows what its user may see, under its present name; moves on from what is deleted |
| **Voice session of the client** `app.mjs`, `CallStateService`, `AppStore`, `RtcCallService` | active call, its channel and peer id, voice on or off, the join dialog, known calls, connections | opening a voice channel, joining, switching, leaving, ending; rtc.call, call_event, participants, peer_event, call_end, NOT_FOUND | answers cross clicks; a call ends or is made by another page meanwhile | the page's call is the server's, with everybody in it |
| `DeliveryService`, `RoomService`, `HubotBridge` | - | - | not reached by the server | - |
| Storage, HTTP, presenters, prototypes | - | - | I/O and rendering | - |

How they interact: a client message is an envelope that `handleMessage` checks
(valid, authenticated) and `routeMessage` dispatches; a handler runs to completion
unless it hashes a password, so the server interleaves at messages and at those
awaits. `setConnectionUser` ties `AuthService` to the connection table;
`ChannelService.isMember` guards messages and calls; `SignalingService` emits
events that `ChatServer` forwards through `peerConnections`; the client dispatches
each server message to one handler, and its RTC handlers await the browser.

## 2. Modules

| module | models | checked by |
|---|---|---|
| `CallRegistry` | abstract: what the call server promises | refined by `CallServer` |
| `CallServer` | connections, calls, signalling | `MCCallServer`, `CallServer_proofs` |
| `AuthSessions` | invites, bootstrap, accounts, sessions | `MCAuthSessions`, `AuthSessions_proofs` |
| `StreamHub` | stream relay | `MCStreamHub`, `StreamHub_proofs` |
| `MessageFlow` | messages from end to end | `MCMessageFlow`, `MessageFlow_proofs` |
| `PeerNegotiation` | two browsers of a call, with the server between | `MCPeerNegotiation`, `PeerNegotiation_proofs` |
| `WsClient` | the page's WebSocket | `MCWsClient`, `WsClient_proofs` |
| `Directory` | tables and rules of hubs and channels | `MCChannelTree`, `ChannelTree_proofs` |
| `ChannelTree` | `Directory` with the server's handlers, sockets and every page's tree | `MCChannelTree`, `ChannelTree_proofs` |
| `VoiceSession` | `CallServer` with every page's voice session | `MCVoiceSession`, `VoiceSession_proofs` |

A definition `Op_Variant` is what `Op` would be with a plausible bug. No action
uses it; `PROJECT.json` says which property fails when it replaces `Op`, so every
property is known to have teeth.

### CallServer

The variables are the fields of a connection record (`connState`, `connUser`,
`connPeer`, `connCall`), the user index (`userConns`: `userConnections` and
`PresenceService.userToConnections`, which move together), channel members, and the
call tables (`live`, `roomOf`, `callPeers`, `peerUser`, `peerConn`). `sent` is what
the last handler wrote to each socket, in order; no guard reads it. A handler is
one action, since none of these awaits, and error replies are disjuncts of their own.
`rtc.join` is three actions: first call, this call again (the roster is
sent again), another call (which is left first). `Authenticate` is what the three
ways to sign in do to the connection table; it may come for a connection that is
gone. Ids are fresh: a new call or peer takes the next number, so an id is never
reused. Rooms are public channels of public hubs.

`CallRegistry` knows only who attends which call. `CallServer` implements it with
`attends <- connCall`: a join is `Enter`, a leave or lost socket `Exit`, end_call
`End`, everything else a stutter.

### AuthSessions

SQLite tables (`role`, `via`, `invite`, `session`) survive a `Crash`; connections,
suspended requests and the bootstrap token do not, and `Restart` arms a new token
while there is no account. Redeem, bootstrap and sign-in are a `Begin` action (the
checks) and a `Finish` action (the transaction and `setConnectionUser`) around the
await; the clock, a lost socket, other requests and a crash come between. A `UNIQUE`
handle that was taken meanwhile rolls the transaction back.

### StreamHub

`handleStreamJoin` changes five tables and writes messages in between, so each
statement is an operator from tables to tables and the handler composes them in
the order of the code. `heard` keeps what a control socket was told last, `frame`
the frame relayed by the last step. A closed socket slot opens again as a new id.

### MessageFlow

A socket is two FIFO queues per client; losing it loses both at any point. A
message is its `seq`. The server commits, then indexes, then broadcasts; the index may
fail (an error to the sender) and the process may die in between. The client keeps
a view and a cache per channel; opening a channel shows the cache, joins, and lists
when the join is confirmed. `covered` is a history variable: this connection was
sent the whole channel and did not go back to the cached view. `SetActiveChannel`
includes the clicks of a user, which may come at any time.

### PeerNegotiation

Two participants, since pairs share no state. For each peer id a participant keeps
an actor (role, signalling state, the remote connection described to it, candidates, tracks
received, an answer that is being applied), the negotiation in flight and the actor it
captured, the queued flag, offers suspended in `handleOffer`, and the queue of early
candidates (`pendingIceByPeer`). Awaits are the boundaries
between actions: `NegotiatePeer` / `AttachLocalTracks` / `MakeOffer`,
`HandleOffer` / `MakeAnswer`, and `HandleAnswer` / `ApplyAnswer`; what goes on with a
connection that was closed meanwhile gives up (`AbandonOffer`, the last disjunct of
`MakeAnswer`). A candidate of another connection than the one described is refused
(`Refuses`): `handleIce` drops it, and the loops of `handleOffer` (334-338) and
`handleAnswer` (388-392), both `FlushPending`, end at it, so that the candidates behind it
are not added, `pendingIceByPeer` is not emptied, and `handleOffer` sends no answer.
`ChangeTracks` is the moment a media request has resolved. The server is what
`CallServer` proves it to be: it forwards between peers of one call and reports
joins and leaves in order. `RTCPeerConnection` is external, by the states in which
it accepts a description and the candidates it accepts.

### WsClient

`ws` is the state of the current socket, `old` counts those given up that have not
closed yet; their late `close` runs the same handler. The network may fail at any
time and dooms the sockets it catches. Browser and network are external.

### Directory

Four variables are the four tables: `hub` and `chan` hold rows (with `live` for
"`deleted_at` is null"), `role` and `present` the membership rows of channels (`present`
for "`left_at` is null", so a row survives in `role`). The rows of `hub_members` are
not a variable: the server never calls `joinHub` or `leaveHub`, so the only member of a
hub is its creator. Each service method is an action, each access rule an operator
(`CanAccessHub`, `CanAccessChannel`, `HubIsListed`, `ChannelIsListed`, `JoinRefusal`),
kept apart because the code keeps them apart.

### ChannelTree

Composes `Directory` with the handlers of `ChatServer` that read or change its tables, the
two queues of each page's socket, and the handlers of `app.mjs` that keep
`state.hubs`, `state.channels` and `state.currentChannelId`. `missed` is a history
variable: which change the server made without telling which connected page, so that the
properties can say that this is the only reason why a page is out of date. Four reductions,
each justified in the module's header: sign-in is one step (until `hello_ack` the page
is told nothing); what the user asks for is handled at once when nothing of his page waits
before it, since the page does not look at its request again; refusals of what a user
asks for, which change nothing, are left out; a hub event's second copy to the requester
is left out, which finds the work done. Refusals of what the page itself
asks for (`channel.join`) are modelled, with the retry they cause.

### VoiceSession

Extends `CallServer`: the same actions, now driven by what is in the pages' queues
(`Serve`), and the pages, whose handlers are operators from a page record to the next
record and the messages it sends (`Joined`, `Left`, `Selected`, `Ensured`, `Handled`).
`page.calls` is `channelCallMap`, `page.peers` the keys of `peerConnections`. An open dialog is
modal; the call bar acts on a call that is known. A page outside `Hasty` has a user
who waits for the answer to his last request. A closed tab takes its socket along; a
socket that is lost and comes back to the same page is not modelled here.

## 3. Runs

| run | what it shows |
|---|---|
| `call_server` | `CallsConsistent` (no ghost peers, no dangling ids, index and call table agree), `OneCallPerRoom`, `IndexComplete`; `DeparturesAnnounced`, `RostersComplete`, `SignalsStayInCall` as action properties over the messages of a step; refinement of `CallRegistry` |
| `auth_sessions` | `InviteAccounting`, `NeverLockedOut`, `IdentityMatchesSession`; `AdminsSettle`: after the first account only bootstrap requests already begun can make an admin |
| `stream_hub` | `HubConsistent`, `LiveWhileBroadcast`, `WatchersUpToDate`, `FramesFromBroadcasterToViewers`, `ReplacementStaysFindable` |
| `message_flow` | `ViewsInOrder`, `NothingMissedWhileConnected`, `ShownIsStored`, all over what is shown and what is on its way |
| `peer_negotiation` | `ConnectedWhenQuiet`, `CandidatesArrive`, `TracksArrive` when users take turns |
| `ws_client` | `OneLiveSocket`, `NeverStranded`, and the liveness property `Reconnects` |
| `channel_tree` | `AccessibleIsShown`, `ShownIsCurrent`: pages converge to what their users may see, over what is shown and what is on its way; `OnlyOutsidersMiss`: who is left untold; `NothingLeaks`; `CurrentIsShown`: pages move on from what is deleted; `NoOrphans`, `CreatorIsOwner` |
| `voice_session` | when nothing is under way: `PageMatchesServer` (call, channel and peer id), `NobodyMissing` (a connection to everybody in the call), `KnownCallsAreLive` (the call a page would join is the one going on) |
| `signals_only_from_members` | **violated**: a user who left the channel keeps signalling in its call, against PROTOCOL.md:746 |
| `invite_within_limit` | **violated**: two overlapping redemptions of a one-time invite succeed, against DESIGN.md:35 |
| `reconnect_resyncs` | **violated**: after a reconnect the open channel is not listed again, against DESIGN.md:331 |
| `negotiation_glare` | **violated**: simultaneous renegotiation leaves the two ends on connections that do not match, against DESIGN.md:90 |

### Bounds

- `MCCallServer`: 3 connections, 2 users who own a room each, 2 calls, 3 peers.
  Three connections give a third party to every departure, two users one with two
  connections, two rooms a switch between calls. `View` drops `sent`, which no guard
  reads; action properties are checked on every step all the same.
  `FewStaleEntries` allows one index entry left by a second sign-in at a time.
  Connections are symmetric, and so are the users together with their rooms.
- `MCAuthSessions`: 2 connections, 2 requests in flight, 3 handles, one one-time
  invite, 3 sessions, times 0..2, invite life 1 and session life 2: an overlap of
  two, with a third account to collide with, and every expiry on either side of a step.
- `MCStreamHub`: 3 control and 2 media sockets, 2 streams, 2 client ids: a handover with
  a watcher, a broadcaster that comes from another stream, a shared client id.
- `MCMessageFlow`: a client whose socket and page may fail and a steady one that
  posts; 2 channels, 2 messages, cache of 1. The page size is 1, so that a list may be
  incomplete (2 in `reconnect_resyncs`, so that it is not to blame). `MaxQueue` bounds when a user acts, not
  what the code does.
- `MCPeerNegotiation`: 3 peer ids (one of the two rejoins), 2 changes of tracks in a call, at
  most 3 actors per peer. `Overlap` lets the other user act while an exchange goes on,
  `Hasty` lets a user leave while his own negotiation is in flight or candidates are on their way
  to him (otherwise `Settled` holds); each is FALSE in the passing run, which is an assumption on
  users and no guard of the code. `negotiation_glare` shows what goes wrong with `Overlap`.
  With `Hasty = TRUE` in its cfg, `peer_negotiation` fails as well, in two ways. A queued negotiation
  survives `teardownCall` and blocks the connection after a rejoin. And, without the second
  conjunct of `Settled`: b's candidates reach a after a has left; `handleIce` queues them under
  b's peer id, which does not change; a joins again, offers, and is answered; the flush in
  `handleAnswer` is refused the old candidate and adds none of the new ones behind it
  (`CandidatesArrive`); the old one is never removed, so when b changes his tracks a's `handleOffer`
  throws before `create-answer`, and b stays in have-local-offer (`ConnectedWhenQuiet`) with tracks
  that a is not told of (`TracksArrive`). These are defects of the code; the run and the theorems say that
  nothing else of the kind happens.
- `MCChannelTree`: an admin and a user whose socket and page may fail; 2 hubs, 2 channels, 2
  names. The admin asks for three things, the other for one, while at most one message is on
  its way to any page when a user acts (`MaxQueue` bounds users, not the code). Two
  hubs and channels give a deletion something to leave and somewhere to move on to; one request
  of the other user is enough to make a hub or channel of his own, which the admin then
  changes, or to click or leave. Hubs and channels are symmetric.
- `MCVoiceSession`: the owner of both rooms, an administrator who waits for answers and
  clicks four times (open, join, switch, leave or end), and an impatient user who clicks three
  times; 2 calls, 3 peers, one renaming. `View` drops `sent`. Larger instances (five clicks of the
  first user, 7.9 million states) hold too but take longer.
- `MCWsClient`: 2 unclosed old sockets per state, attempts counted up to 3, after which only the delay
  grows.

In `MessageFlow`, `PeerNegotiation` and `VoiceSession` the type invariant documents the
variables and holds on the same instances; the runs leave it out in favour of the properties above.

Deadlock is not checked: bounded ids run out, and users may simply stop.

### Fairness

Only `Reconnects` needs fairness: the page loads and connects, its two timers fire,
and the browser reports the opening of a socket on a working network and the end
of one it has lost. That is what browsers do; nothing is assumed of users, and the
network is assumed to stay up only in the property itself. A socket created on a working
network is assumed to open within the connect timeout. Without reports of lost sockets the
property would fail: a late close of an old socket clears the connect timer of the new one,
which then has nothing else to end it.

## 4. Proofs

`CallServer_proofs` proves, for any sets of connections, users and rooms and any
number of calls and peers (assumption `ConstantsAssumption`: the sentinel is no id, the
owners are users):

- `TypeCorrect`, `CallsAlwaysConsistent`, `OneCallPerRoomAlways`,
  `IndexAlwaysComplete`: the invariants of the `call_server` run;
- `ServerImplementsRegistry`: the refinement of `CallRegistry`;
- `DeparturesAlwaysAnnounced`, `RostersAlwaysComplete`, `SignalsAlwaysStayInCall`: the
  action properties over the messages of a step.

The inductive invariant `IInv` is the conjunction of those with two facts that the
code relies on silently. `OnlyOpenConnections`: a connection that is not open holds no
user and no peer, without which a new socket could start in a call.
`FreshIdsUnknown`: an id that was not handed out is in no table, without which a join could
collide with an older peer. `CallsConsistent` itself has to be strong: that a
peer of a call is registered under the very connection that carries it
(`RegistryMatchesConnections`) is what makes leaving a call remove that peer and no other.
There is one lemma per action; the joins and departures rest on `OwnPeer` (a
peer is carried by one connection only) and `FreshPeerUnknown`. The refinement
uses `IInv` and `LastPeerIsLastAttendee`: the peer set of a call runs empty exactly
when its last attendee goes. The action properties hold of every step from a state of `IInv`.
`WrittenOne` to `WrittenFour` say which messages a socket is sent by one, two or four
broadcasts; `LeaveNoticesOf` and `WhoWrites` are what the handlers share. The case that needs
most is `SwitchAnnounced`: the call that is left and the call that is entered may be those of one
room, and the second broadcast is made from tables the first part has changed.

`AuthSessions_proofs` proves `AuthTypeCorrect`, `InvitesAddUp`, `NobodyLockedOut`,
`ConnectionsActAsSessionOwner` and the action property `AdminsAreSettled`, for any
connections, requests, handles, invites, lifetimes and clock (`AuthAssumption`: sentinels are not
values, the handles are finitely many). `InviteAccounting` counts accounts per invite, hence the
finite sets. Next to the four invariants the induction needs what a request may rely on
when it wakes up from the password hash: `RequestsSound` (its connection is open or was forgotten,
its invite and its account are in the tables, whatever happened meanwhile), `OriginsKnown` (the
invite an account came from is there) and `InvitesNeedAdmin` (no invite before the first admin, so
that the first account is always the administrator's).

`StreamHub_proofs` proves all that the `stream_hub` run checks, for any sockets, streams and
clients (`HubAssumption`: control and media sockets share no id). A handler composes operators
from tables to tables, and between two of them the invariant is broken for the connection under way.
So the invariant is stated of tables and one connection (`GoodBut(t, c)`: the tables are right
for everybody but c). Leaving and displacing take a table from `Good` to `GoodBut`
or keep it there, entering takes it back to `Good`, and what a broadcast tells whom
(`Announced`) goes along with each. `ReplacementStaysFindable` follows from `ClientsLead`: a client id
leads to a socket that carries it, so a late close finds its own id only.

`MessageFlow_proofs` proves `FlowTypeCorrect`, `ViewsAlwaysInOrder`,
`NothingEverMissedWhileConnected` and `ShownAlwaysStored`, for any clients, channels, page size,
size of the cache, and length of the queues (`FlowAssumption`). The properties
speak of what a client will show once its queue is drained. `IInv` says of each client and channel
(`Sound`) that every list and event under way holds committed messages in order, and that an
event is above all that the view, the cache and the queue before it hold (`Precedes`); that is
preserved because a list is read, and an event is made, at one moment of the server's order.
`CoveredHears` is what the history variable gives: a client that was sent the whole channel is
a member of it and has in view or on its way what was announced.

`ChannelTree_proofs` proves `DirectoryInvariant` for any users, hubs, channels and names
(`DirectoryAssumption`: admins are users, the sentinel is no row): `NoOrphans` and
`CreatorIsOwner` are inductive next to the types. Three lemmas carry the work, one per kind of write
(`RowsChanged`, `MembersChanged`, `ChannelInserted`), and one lemma per operation shows which
kind it is. `NoOrphans` needs that `deleteHub` touches every channel of the hub and that
whoever creates a channel passed the hub's access check, which an admin does without a look at
the hub; `CreatorIsOwner` needs that an old membership row keeps its role.

It then lifts this to the whole system. `SystemImplementsDirectory`: `Spec =>
DirectorySpec`, that is, no message of a page moves the tables other than by whole
operations of the services. It rests on the types of both queues (`QueuesOK`), because the server
looks up the channel that a page wrote into a message, and a page acts on the id that the server
wrote into an event. `TreeTypeCorrect`, `NoOrphansEver` and `CreatorStaysOwner` follow for the
specification that the `channel_tree` run checks.

Its second part proves the five properties of pages of the `channel_tree` run:
`AccessibleAlwaysShown`, `ShownAlwaysCurrent`, `OnlyOutsidersEverMiss`, `NothingEverLeaks` and
`CurrentAlwaysShown`, for any number of users, admins, hubs, channels and messages under way
(the assumptions of `Directory` and `ChannelTree`). `Upcoming(c)`, what the page will show once all
that is on its way has arrived, does not change when the page takes a message; it changes when
the server sends one, by what that message does, and the rows change in the same step.
`PagesInv` states the properties of `Upcoming` and, next to them, what a lost socket and the reading
of rows need: every message under way and every tree left behind name only what their user may know
of (`KnowsHub`, `KnowsChannel`), which is for ever (`KnowledgeLasts`: no row and no role is
ever removed); without it an old page could learn of a channel by an event about one it shows. There is
one lemma for a page that is not told (`PageUntold`), one for a page that is (`ToldPage`), one for
the tables (`TablesKept`), and one per handler.
`CurrentIsShown` is about a page that keeps its socket, and needs its history: such a page gets one
list of channels. `DisplayInv` says that until the server makes that list the page displays
nothing and its user has left no channel (`Expecting`), and that the list holds all that the page
will have built from events by then (`ListComplete`), so that it takes away nothing that is
on display.

Queues are folded by recursive functions. What such a fold gives for a queue of any length is proved
by induction on the length, without the library's theorems (their operator parameter cannot be
instantiated): `Least` gets from the well-founded order on the naturals that every set of them
has a least element, `NatSet` that a set with 0 and every successor is `Nat`, and
the induction hypothesis is such a set. `RunExists`, `ShownAppend` and `ShownTail` in
`MessageFlow_proofs` and `ChannelTree_proofs` are the outcome: a message at the end is applied last, and
the head is applied first.

`VoiceSession_proofs` proves `KnownCallsAreLive` for any number of pages, users, rooms, calls and
clicks, whether users wait for answers or not. It has three layers. The first says what each request
and each end of a page does to a page that is told of it (`Effect`, `ServeEffect`,
`CloseEffect`): a step of the server is about at most one call, the only one of its
room, and it tells every member of that room when it ends the call (`TellsRight`). It uses
the lemmas and the inductive invariant of `CallServer_proofs`, which every step of `VoiceSession`
keeps (`SessionStep`). The second gives what each handler and click makes of the page in full
(`JoinedOther`, `HandledCallEnd`, `SelectedIs` and the others). The third is the invariant `Known`
over a page and its queue: every call that the page holds or that a message on its way names as going on
(`NamedAt`) was named to a member of its room, the end of a call that is over is on its way
behind it (`EndsComing`), and between two calls of a room comes the end of the first (`EndsInOrder`).
`KnownGrows` shows that a told page keeps it, `KnownTail` that a page that takes its first message does,
and `HeardElements` that the queue grows by just what the page notices of the messages written to it.

For a page whose user waits for the answer to his last request it proves `PageMatchesServer` and
`NobodyMissing` as well, however hasty the users of the other pages are and whenever a channel is
renamed. The two speak of a page with nothing under way, and are inductive only with
`Patient`, which says of a page and both its queues where each request and each answer belongs
(`PatientAt`). While a request or an answer is under way the page is in the room it shows or in none
(`RoomShown`). A request for a live call is for the page's call, and a leave that is under way is of
another room's call, or the page has left for good (`RequestRight`). A roster is of the page's call and
its seat, and who is said to leave is in no call (`AnswerRight`). A live call of the page has
the connection or is being joined (`CallJoined`); the call of the connection is the page's or is being
left (`SeatKnown`); everybody in it is known or about to be told (`RosterKnown`); a page that is in a
room without a call has asked for it (`CallAsked`). Two clauses are about order: no roster comes behind the
end of its call (`RosterFirst`), and the request that makes the user a member comes before
those that need one (`MemberFirst`). `Known` is what makes an end that arrives under way harmless.
`PatientOwn` shows that the invariant survives the server's answer to the page's own request, `PatientTold`
what others do, `PatientTakesFirst` each message the page takes, the retry after `NOT_FOUND`
included, and `PatientClicks` each click and renaming. `Patient` uses that a user waits
(`Clicks`): without it, a leave of a call and a join of the same call can be under way together.

`WsClient_proofs` proves `TypeOK`, `OneLiveSocket` and `NeverStranded` for any bound on the
given-up sockets and on the attempts (`WsClientAssumption`). The three are inductive together:
the types carry that a connect timer belongs to a connecting socket, so `ConnectTimeout` never
leaves a live one behind; `ConnectSafe` shows that `connect()` gives up only a socket that is not
live.

`PeerNegotiation_proofs` proves `ConnectedWhenQuiet`, `CandidatesArrive` and `TracksArrive` for any
number of peer ids, actors and changes of tracks (`NegotiationAssumption`: the sentinel is no
number), when users take turns and wait: `~Overlap` and `~Hasty` are hypotheses of the theorems, and
needed (`negotiation_glare` and the note on `Hasty` under Bounds). `PeerTypes` needs neither. The properties
speak of a call in which nothing is under way; the inductive invariant `NegotiationInv` says what is
under way otherwise. `Base` is about each participant alone: a message names only ids that were
handed out, so nothing of an earlier stay in the call is taken for the present one (`Old`); his
roster is on its way until he has heard it (`BoxOK`); who is out of the call offers nothing
(`LinkOK`). `Pair` is about the two in the call, from the side of t, whose user acted last. The other
does not offer and will not (`Passive`: his own roster, if it is still under way, came before t). Until t's
roster reaches him nothing is exchanged (`Coming`). Then he alone offers (`Offering`): one description is under
way exactly while he waits for an answer (`OneAtATime`: an offer that travels, one whose
`handleOffer` has not gone on, an answer that travels back, or one that is being applied), each names the connection and the
tracks that its sender still has (`OfferSays`, `TakenSays`, `AnswerSays`), the candidates of a
connection that is bound have been added, wait, or travel (`CandsComing`), no candidate waits or
travels that would be refused where it is going (`Orderly`), and what was agreed still
holds (`Agreed`). `Orderly` starts from `Unreached`: nothing waits for, or travels to, somebody who is in no
call, which is what `Settled` buys. That is where one could go wrong: a connection the other replaced meanwhile would
break `Agreed`, and does when users overlap. There is one lemma per action for the types
(`AttachStep` and so on), one for `Base`, and one for `Pair`; the latter rest on lemmas about `Offering` alone,
one for each thing that may happen to it (`OfferingTaken`, `OfferingAnswered`, `OfferingAgreed`, ...). When
the other changes his tracks the call is quiet, and the roles turn (`OfferingSwapped`).

Model-checked only: `Reconnects` of `WsClient`, since liveness under fairness is out of the
prover's reach. All other properties of the passing runs are theorems.

## 5. Not modelled

- Invites to channels: one can be made (`channel.invite_create`) and nothing redeems it.
- `channel.list` for one hub: pages send it without a `hub_id`, and `ChannelIsListed` translates
  that branch of `listChannels` (84-126). The branch for a `hub_id` (55-83) lists the public
  channels of any hub, without a look at whether the user may enter the hub or whether it is deleted.
  No page takes it, so the properties of `ChannelTree`, which are about pages, do not speak of it:
  `NothingLeaks` is no statement about what other clients can ask for.
- The media of a page (microphone, camera, screen, device dialog): their hazards are listed in
  `PROJECT.json` without a property.
- A voice session across a lost socket: the page keeps a dead call, which contradicts
  `PageMatchesServer`; `ChannelTree`, `MessageFlow` and `WsClient` model the reconnection itself.
- The meeting of the tree and the voice session: the deletion of a voice channel on
  display, which leaves the call, and text channels in `VoiceSession`.
- Media connections that fail, data channels, tiles and inbound streams; search queries;
  presence subscriptions, which no handler reads; validation of envelopes and SDP sizes (an error
  and no change).
- `DeliveryService`, `RoomService`, `HubotBridge`, `HubService.joinHub` and `leaveHub`,
  `ChannelService.ensureDefaultChannel`, which the server never calls; storage set-up, HTTP,
  rendering, prototypes.

Known to be false, and therefore not a property: that leaving a call tears everything down.
`rtc.peer_event` is handled without a look at its call, so one that arrives after the user
has left makes a connection outside of any call.

## 6. Plan

1. The media of a page as a module of its own: requests that resolve late against leaving,
   muting and changing devices.
2. `VoiceSession` with text channels, deletion and reconnection.
