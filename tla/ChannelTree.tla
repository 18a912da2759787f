---------------------------- MODULE ChannelTree ----------------------------
(***************************************************************************)
(* The tree of hubs and channels on every user's page, kept up to date by  *)
(* the lists and events that ChatServer derives from the tables of         *)
(* Directory.                                                              *)
(*                                                                         *)
(* A user has one page with at most one socket: two FIFO queues, both lost *)
(* with it.  Only what a page sends by itself waits in toServer.  What the *)
(* user asks for (create, rename, delete, add a member) is handled when    *)
(* all the page sent before it has been: the page does not look at it again *)
(* until the answer, so the steps in between commute with it.  A request   *)
(* that is refused changes nothing and is only displayed; it is left out,  *)
(* and so are a hub event's second copy to the requester, which follows    *)
(* the reply and finds the work done, and the messages of a channel        *)
(* (module MessageFlow).  A hub's or channel's row names its hub for ever, *)
(* so the page's copy of hub_id is the table's.                            *)
(***************************************************************************)
EXTENDS Directory, SequencesExt

CONSTANTS
    Unstable,   \* bound: the users whose socket or page may be lost
    MaxQueue,   \* bound: users act while less than this is on its way to a page
    MaxRequests, \* bound: what each user asks for and clicks in one behaviour
    NewNames    \* bound: the names users give to what they make

ASSUME ChannelTreeAssumption ==
    /\ Hubs \cap Channels = {}    \* newId marks a hub's id with h, a channel's with c
    /\ Unstable \subseteq Users
    /\ MaxQueue \in Nat \ {0}
    /\ MaxRequests \in [Users -> Nat]
    /\ NewNames \subseteq Names

VARIABLES
    authed,     \* users whose page has a socket that the server knows as theirs
    toServer,   \* per user: what the page sent by itself, not handled yet
    toClient,   \* per user: what the server sent, not handled yet
    tree,       \* per user: state.hubs and state.channels, the shown name or None
    cur,        \* state.currentChannelId
    missed,     \* history: <<c, id>> when the server changed the hub or channel id
                \* and did not tell the connected page of c, or left the channel out
                \* of his list though it is there
    requests    \* bound: what each user has asked for so far

pages == <<tree, cur>>
vars == <<tables, authed, toServer, toClient, pages, missed, requests>>

NoTree == [hubs |-> [h \in Hubs |-> None], chans |-> [ch \in Channels |-> None]]

TypeOK ==
    /\ DirectoryTypeOK
    /\ authed \subseteq Users
    /\ tree \in [Users -> [hubs : [Hubs -> Names \cup {None}],
                           chans : [Channels -> Names \cup {None}]]]
    /\ cur \in [Users -> Channels \cup {None}]
    /\ missed \subseteq Users \X (Hubs \cup Channels)
    /\ requests \in [Users -> Nat]

Init ==
    /\ DirectoryInit
    /\ authed = {}
    /\ toServer = [c \in Users |-> <<>>] /\ toClient = [c \in Users |-> <<>>]
    /\ tree = [c \in Users |-> NoTree]
    /\ cur = [c \in Users |-> None]
    /\ missed = {} /\ requests = [c \in Users |-> 0]

-----------------------------------------------------------------------------
(***************************************************************************)
(* Sockets.                                                                *)
(***************************************************************************)
\* What the page sends by itself.
Ask(t, ch) == [t |-> t, ch |-> ch]

\* The socket opens, the server takes the session token of hello, and the page
\* answers hello_ack, the first message of the connection, with two lists.  Until
\* then the server tells the page nothing, and refuses what it sends.
SignIn(c) ==
    /\ c \notin authed
    /\ authed' = authed \cup {c}
    /\ toServer' = [toServer EXCEPT ![c] = <<Ask("hub.list", None), Ask("channel.list", None)>>]
    /\ UNCHANGED <<tables, toClient, pages, missed, requests>>

Cut(c) ==
    /\ authed' = authed \ {c}
    /\ toServer' = [toServer EXCEPT ![c] = <<>>]
    /\ toClient' = [toClient EXCEPT ![c] = <<>>]
    /\ missed' = {m \in missed : m[1] # c}
    /\ UNCHANGED <<tables, requests>>

Drop(c) == c \in authed /\ Cut(c) /\ UNCHANGED pages

Reload(c) ==
    /\ Cut(c)
    /\ tree' = [tree EXCEPT ![c] = NoTree]
    /\ cur' = [cur EXCEPT ![c] = None]

-----------------------------------------------------------------------------
(***************************************************************************)
(* ChatServer handles what a page sent by itself.                          *)
(***************************************************************************)
Incoming(c, t) == toServer[c] # <<>> /\ Head(toServer[c]).t = t
Consume(c)     == toServer' = [toServer EXCEPT ![c] = Tail(@)]
Reply(c, m)    == toClient' = [toClient EXCEPT ![c] = Append(@, m)]

HubList(c) ==
    [t |-> "hub.list_result",
     hubs |-> [h \in Hubs |-> IF HubIsListed(c, h) THEN hub[h].name ELSE None]]
ChannelList(c) ==
    [t |-> "channel.list_result",
     chans |-> [ch \in Channels |-> IF ChannelIsListed(c, ch) THEN chan[ch].name ELSE None]]
\* An event about a hub or a channel; mine marks the reply to the requester.
Event(t, id, name) == [t |-> t, id |-> id, name |-> name, mine |-> FALSE]
Answer(m)          == [m EXCEPT !.mine = TRUE]
Failure(code)      == [t |-> "error", code |-> code]

HandleHubList(c) ==
    /\ Incoming(c, "hub.list")
    /\ Consume(c) /\ Reply(c, HubList(c))
    /\ missed' = missed \ ({c} \X Hubs)
    /\ UNCHANGED <<tables, authed, pages, requests>>

\* A channel that an admin made in a deleted hub: no list has it.
IsOrphan(ch) == Exists(chan[ch]) /\ ~Exists(hub[chan[ch].hub])

HandleChannelList(c) ==
    /\ Incoming(c, "channel.list")
    /\ Consume(c) /\ Reply(c, ChannelList(c))
    /\ missed' = (missed \ ({c} \X {ch \in Channels : Exists(chan[ch])}))
                    \cup ({c} \X {ch \in Channels : IsOrphan(ch)})
    /\ UNCHANGED <<tables, authed, pages, requests>>

HandleChannelJoin(c) ==
    LET ch == Head(toServer[c]).ch IN
    /\ Incoming(c, "channel.join")
    /\ Consume(c)
    /\ \/ /\ JoinChannel(c, ch)
          /\ UNCHANGED toClient
       \/ /\ JoinRefusal(c, ch) # "none"
          /\ Reply(c, Failure(JoinRefusal(c, ch)))
          /\ UNCHANGED tables
    /\ UNCHANGED <<authed, pages, missed, requests>>

\* The requester gets the reply, the other connections of the audience the event.
Tell(S, c, m) ==
    toClient' = [d \in Users |->
        IF d = c                   THEN Append(toClient[d], Answer(m))
        ELSE IF d \in S \cap authed THEN Append(toClient[d], m)
        ELSE toClient[d]]

HubAudience(h)              == {u \in Users : CanAccessHub(u, h)}
ChannelAudience_MembersOnly(ch) == present[ch]
ChannelAudience(ch)         == {u \in Users : CanAccessChannel(u, ch)}

\* The connected pages that S leaves out when c changes the hubs or channels ids.
Uninformed(S, c, ids) == (authed \ (S \cup {c})) \X ids

\* handleChannelCreate with hub_id 'default'; a hub made on the way is told nobody.
HandleDefaultCreate(c) ==
    /\ Incoming(c, "channel.create")
    /\ Consume(c)
    /\ \E ch \in Channels, h \in Hubs :
          /\ CreateDefaultChannel(c, ch, h)
          /\ Tell(ChannelAudience(ch)', c, Event("channel.created", ch, DefaultName))
          /\ missed' = IF hub[h] = None THEN missed \cup (authed \X {h}) ELSE missed
    /\ UNCHANGED <<authed, pages, requests>>

-----------------------------------------------------------------------------
(***************************************************************************)
(* ChatServer handles what the user asked for.  The audience of a deletion *)
(* is taken before it, that of a creation or a change after it.            *)
(***************************************************************************)
Counted(c) ==
    requests[c] < MaxRequests[c] /\ requests' = [requests EXCEPT ![c] = @ + 1]

Requests(c) ==
    /\ c \in authed /\ toServer[c] = <<>>
    /\ \A d \in Users : Len(toClient[d]) < MaxQueue
    /\ Counted(c)
    /\ UNCHANGED <<authed, toServer, pages>>

HandleHubCreate(c) == \E h \in Hubs, name \in NewNames, restricted \in BOOLEAN :
    /\ Requests(c)
    /\ CreateHub(c, h, name, restricted)
    /\ Tell(HubAudience(h)', c, Event("hub.created", h, name))
    /\ UNCHANGED missed

HandleHubUpdate(c) == \E h \in Hubs, name \in Names :
    /\ Requests(c)
    /\ UpdateHub(c, h, name) /\ name # hub[h].name
    /\ Tell(HubAudience(h)', c, Event("hub.updated", h, name))
    /\ UNCHANGED missed

HandleHubDelete_AudienceAfter(c) == \E h \in Hubs :
    /\ Requests(c)
    /\ DeleteHub(c, h)
    /\ Tell(HubAudience(h)', c, Event("hub.deleted", h, None))
    /\ missed' = missed \cup Uninformed(HubAudience(h), c, ChannelsOf(h))
HandleHubDelete(c) == \E h \in Hubs :
    /\ Requests(c)
    /\ DeleteHub(c, h)
    /\ Tell(HubAudience(h), c, Event("hub.deleted", h, None))
    /\ missed' = missed \cup Uninformed(HubAudience(h), c, ChannelsOf(h))

HandleChannelCreate(c) ==
    \E ch \in Channels, h \in Hubs, name \in NewNames, private \in BOOLEAN :
        /\ Requests(c)
        /\ CreateChannel(c, ch, h, name, private)
        /\ Tell(ChannelAudience(ch)', c, Event("channel.created", ch, name))
        /\ UNCHANGED missed

HandleChannelUpdate(c) == \E ch \in Channels, name \in Names :
    /\ Requests(c)
    /\ UpdateChannel(c, ch, name) /\ name # chan[ch].name
    /\ Tell(ChannelAudience(ch)', c, Event("channel.updated", ch, name))
    /\ missed' = missed \cup Uninformed(ChannelAudience(ch), c, {ch})

HandleChannelDelete(c) == \E ch \in Channels :
    /\ Requests(c)
    /\ DeleteChannel(c, ch)
    /\ Tell(ChannelAudience(ch), c, Event("channel.deleted", ch, None))
    /\ missed' = missed \cup Uninformed(ChannelAudience(ch), c, {ch})

\* channel.added goes to the new member even when the channel is deleted.
HandleChannelAddMember_Silent(c) == \E ch \in Channels, target \in Users :
    /\ Requests(c)
    /\ AddMember(c, ch, target)
    /\ UNCHANGED <<toClient, missed>>
HandleChannelAddMember(c) == \E ch \in Channels, target \in Users :
    /\ Requests(c)
    /\ AddMember(c, ch, target)
    /\ IF target \in authed
       THEN Reply(target, Event("channel.added", ch, chan[ch].name))
       ELSE UNCHANGED toClient
    /\ missed' = IF Exists(chan[ch]) THEN missed ELSE missed \cup {<<target, ch>>}

\* channel.leave is not sent by the page but by another client of the same user.
HandleChannelLeave(c) == \E ch \in Channels :
    /\ Requests(c) /\ c \in present[ch]
    /\ LeaveChannel(c, ch)
    /\ UNCHANGED <<toClient, missed>>

-----------------------------------------------------------------------------
(***************************************************************************)
(* The page.                                                               *)
(***************************************************************************)
Arrived(c, T) == toClient[c] # <<>> /\ Head(toClient[c]).t \in T
Taken(c)      == toClient' = [toClient EXCEPT ![c] = Tail(@)]

Sends(c, s) ==
    toServer' = IF c \in authed THEN [toServer EXCEPT ![c] = @ \o s] ELSE toServer

\* What a message does to state.hubs and state.channels: a list replaces, a
\* creation adds what is not shown yet, a change is for what is shown.  The rows of
\* the channels say which of them are drawn under a hub.
Applied(rows, v, m) ==
    CASE m.t = "hub.list_result"     -> [v EXCEPT !.hubs = m.hubs]
      [] m.t = "channel.list_result" -> [v EXCEPT !.chans = m.chans]
      [] m.t = "hub.created" /\ v.hubs[m.id] = None  -> [v EXCEPT !.hubs[m.id] = m.name]
      [] m.t = "hub.updated" /\ v.hubs[m.id] # None  -> [v EXCEPT !.hubs[m.id] = m.name]
      [] m.t = "hub.deleted" ->
            [hubs  |-> [v.hubs EXCEPT ![m.id] = None],
             chans |-> [ch \in Channels |-> IF rows[ch] # None /\ rows[ch].hub = m.id
                                            THEN None ELSE v.chans[ch]]]
      [] m.t \in {"channel.created", "channel.added"} /\ v.chans[m.id] = None
                                     -> [v EXCEPT !.chans[m.id] = m.name]
      [] m.t = "channel.updated" /\ v.chans[m.id] # None
                                     -> [v EXCEPT !.chans[m.id] = m.name]
      [] m.t = "channel.deleted"     -> [v EXCEPT !.chans[m.id] = None]
      [] OTHER                       -> v

ShownIn(v) == {ch \in Channels : v.chans[ch] # None}

\* setActiveChannel.
Activate(c, ch) ==
    /\ cur' = [cur EXCEPT ![c] = ch]
    /\ Sends(c, <<Ask("channel.join", ch)>>)

Stay == UNCHANGED <<cur, toServer>>

\* The page takes the next message into its tree; then(v) is what else it does.
Takes(c, T) ==
    /\ Arrived(c, T)
    /\ Taken(c)
    /\ tree' = [tree EXCEPT ![c] = Applied(chan, tree[c], Head(toClient[c]))]
    /\ UNCHANGED <<tables, authed, missed, requests>>

ShowHubs(c) ==
    Takes(c, {"hub.list_result", "hub.created", "hub.updated"}) /\ Stay

\* The first list opens a channel; an admin whose list is empty makes one.
HandleChannelListResult(c) ==
    /\ Takes(c, {"channel.list_result"})
    /\ LET shown == ShownIn(Applied(chan, tree[c], Head(toClient[c])))
       IN  \/ /\ cur[c] = None
              /\ \E ch \in shown : Activate(c, ch)
           \/ /\ shown = {} /\ c \in Admins
              /\ Sends(c, <<Ask("channel.create", None)>>)
              /\ UNCHANGED cur
           \/ /\ IF shown = {} THEN c \notin Admins ELSE cur[c] # None
              /\ Stay

HandleChannelCreated(c) ==
    /\ Takes(c, {"channel.created", "channel.added"})
    /\ LET m == Head(toClient[c])
       IN  IF m.t = "channel.created" /\ m.mine /\ m.id \notin ShownIn(tree[c])
           THEN Activate(c, m.id)
           ELSE Stay

HandleChannelUpdated(c) == Takes(c, {"channel.updated"}) /\ Stay

\* applyHubDeleted, applyChannelDeleted: the page moves on to what is left.
HandleDeleted_Undefined(c) ==
    /\ Takes(c, {"hub.deleted", "channel.deleted"})
    /\ cur' = [cur EXCEPT ![c] = "undefined"] /\ UNCHANGED toServer
HandleDeleted_KeepsCurrent(c) == Takes(c, {"hub.deleted", "channel.deleted"}) /\ Stay
HandleDeleted(c) ==
    /\ Takes(c, {"hub.deleted", "channel.deleted"})
    /\ LET shown == ShownIn(Applied(chan, tree[c], Head(toClient[c])))
       IN  IF cur[c] \in ShownIn(tree[c]) \ shown
                \/ (Head(toClient[c]).t = "channel.deleted" /\ Head(toClient[c]).id = cur[c])
           THEN \/ \E ch \in shown : Activate(c, ch)
                \/ /\ shown = {}
                   /\ cur' = [cur EXCEPT ![c] = None]
                   /\ UNCHANGED toServer
           ELSE Stay

\* handleError: "Not a member" makes the page join the channel it shows.
HandleError(c) ==
    /\ Arrived(c, {"error"})
    /\ Taken(c)
    /\ IF Head(toClient[c]).code = "NOT_A_MEMBER" /\ cur[c] # None
       THEN Sends(c, <<Ask("channel.join", cur[c])>>)
       ELSE UNCHANGED toServer
    /\ UNCHANGED <<tables, authed, pages, missed, requests>>

\* The user clicks a channel, which is drawn under its hub.
SwitchTo(c, ch) ==
    /\ ch \in ShownIn(tree[c]) \ {cur[c]}
    /\ tree[c].hubs[chan[ch].hub] # None
    /\ toServer[c] = <<>> /\ Counted(c)
    /\ Activate(c, ch)
    /\ UNCHANGED <<tables, authed, toClient, tree, missed>>

ServerStep(c) ==
    \/ HandleHubList(c) \/ HandleChannelList(c)
    \/ HandleChannelJoin(c) \/ HandleDefaultCreate(c)
RequestStep(c) ==
    \/ HandleHubCreate(c) \/ HandleHubUpdate(c) \/ HandleHubDelete(c)
    \/ HandleChannelCreate(c) \/ HandleChannelUpdate(c) \/ HandleChannelDelete(c)
    \/ HandleChannelAddMember(c) \/ HandleChannelLeave(c)
PageStep(c) ==
    \/ ShowHubs(c) \/ HandleChannelListResult(c)
    \/ HandleChannelCreated(c) \/ HandleChannelUpdated(c) \/ HandleDeleted(c)
    \/ HandleError(c)

Next == \E c \in Users :
    \/ SignIn(c) \/ ServerStep(c) \/ RequestStep(c) \/ PageStep(c)
    \/ \E ch \in Channels : SwitchTo(c, ch)
    \/ c \in Unstable /\ (Drop(c) \/ Reload(c))

Spec == Init /\ [][Next]_vars

-----------------------------------------------------------------------------
\* A tree after the messages of a queue, one after the other.
Shown(rows, v, q) ==
    LET after[i \in 0..Len(q)] == IF i = 0 THEN v ELSE Applied(rows, after[i - 1], q[i])
    IN  after[Len(q)]

\* What c's page will show once it has handled all that is on its way.
Upcoming(c) == Shown(chan, tree[c], toClient[c])

\* The page is signed in and the answers to its requests for lists are on their
\* way or already there.
Resynced(c) ==
    /\ c \in authed
    /\ \A m \in ToSet(toServer[c]) : m.t \notin {"hub.list", "channel.list"}

\* However creations, invitations, lists and reconnections cross each other, a page
\* shows every channel its user may read and every hub he may enter, but for a
\* default hub that was made while he was connected.
AccessibleIsShown ==
    \A c \in Users : Resynced(c) =>
        /\ \A ch \in Channels :
              Exists(chan[ch]) /\ Exists(hub[chan[ch].hub]) /\ CanAccessChannel(c, ch) =>
                 Upcoming(c).chans[ch] # None
        /\ \A h \in Hubs :
              HubIsListed(c, h) /\ <<c, h>> \notin missed => Upcoming(c).hubs[h] # None

\* What a page shows is there and carries its present name, unless the server
\* changed it without telling that page.
ShownIsCurrent ==
    \A c \in Users : Resynced(c) =>
        /\ \A ch \in Channels :
              Upcoming(c).chans[ch] # None /\ <<c, ch>> \notin missed =>
                 Exists(chan[ch]) /\ Upcoming(c).chans[ch] = chan[ch].name
        /\ \A h \in Hubs :
              Upcoming(c).hubs[h] # None =>
                 Exists(hub[h]) /\ Upcoming(c).hubs[h] = hub[h].name

\* Only a page that shows a channel its user cannot read is left untold: he was
\* let into a private channel of a hub that is closed to him, has left the channel,
\* is merely the hub's creator, or was added after the channel was deleted.
OnlyOutsidersMiss ==
    \A c \in Users, ch \in Channels :
        c \in authed /\ <<c, ch>> \in missed /\ Upcoming(c).chans[ch] # None =>
           \/ role[ch][c] # "none"
           \/ c \notin Admins /\ chan[ch].private /\ InHub(c, chan[ch].hub)

\* No page learns of a restricted hub or a private channel that does not concern
\* its user.
NothingLeaks ==
    \A c \in Users : LET v == Upcoming(c) IN
        /\ \A h \in Hubs :
              v.hubs[h] # None => c \in Admins \/ ~hub[h].restricted \/ InHub(c, h)
        /\ \A ch \in Channels :
              v.chans[ch] # None =>
                 \/ c \in Admins \/ role[ch][c] # "none"
                 \/ InHub(c, chan[ch].hub)
                 \/ ~chan[ch].private /\ ~hub[chan[ch].hub].restricted

\* A page whose connection has held never displays a channel that is gone from its
\* tree, unless its user was added to the channel after its deletion.
CurrentIsShown ==
    \A c \in Users \ Unstable :
        cur[c] # None /\ <<c, cur[c]>> \notin missed => cur[c] \in ShownIn(tree[c])
=============================================================================
