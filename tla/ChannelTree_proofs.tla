------------------------- MODULE ChannelTree_proofs -------------------------
(***************************************************************************)
(* Proofs about hubs and channels, for any number of users, admins, hubs,  *)
(* channels and pages and any number of requests under way.                *)
(*                                                                         *)
(* First the tables: what is proved about them alone takes only the steps  *)
(* of DirectorySpec, and whatever pages, sockets and queues do, the server *)
(* takes its tables through such steps only, so that it holds of the whole *)
(* system.  Then what the pages show.                                      *)
(***************************************************************************)
EXTENDS ChannelTree, TLAPS, WellFoundedInduction

\* The inductive invariant: its parts do not depend on each other but for the types.
DirectoryInv == DirectoryTypeOK /\ NoOrphans /\ CreatorIsOwner

-----------------------------------------------------------------------------
(***************************************************************************)
(* What writes rows: the three statements that the operations share.       *)
(***************************************************************************)
\* A row changes in what neither an owner nor a creator can be read from: the
\* channels keep their hub and creator, none comes to life, and a hub dies only
\* with its channels.
LEMMA RowsChanged ==
    ASSUME DirectoryInv, DirectoryTypeOK', UNCHANGED role,
           \A ch \in Channels : (chan[ch] = None) <=> (chan'[ch] = None),
           \A ch \in Channels :
              chan[ch] # None => chan'[ch].hub = chan[ch].hub /\ chan'[ch].creator = chan[ch].creator,
           \A ch \in Channels :
              Exists(chan'[ch]) => /\ Exists(chan[ch])
                                   /\ Exists(hub[chan[ch].hub]) => Exists(hub'[chan[ch].hub])
    PROVE  DirectoryInv'
<1>1. NoOrphans'
  <2> SUFFICES ASSUME NEW ch \in Channels, Exists(chan'[ch])
               PROVE  Exists(hub'[chan'[ch].hub]) \/ chan'[ch].creator \in Admins
      BY DEF NoOrphans
  <2>1. Exists(chan[ch]) /\ chan[ch] # None
      BY DEF Exists
  <2>2. chan'[ch].hub = chan[ch].hub /\ chan'[ch].creator = chan[ch].creator
      BY <2>1
  <2>3. Exists(hub[chan[ch].hub]) \/ chan[ch].creator \in Admins
      BY <2>1 DEF DirectoryInv, NoOrphans
  <2>4. QED
      BY <2>1, <2>2, <2>3
<1>2. CreatorIsOwner'
    BY DEF DirectoryInv, CreatorIsOwner
<1>3. QED
    BY <1>1, <1>2 DEF DirectoryInv

\* A membership row is written or revived; nobody becomes or ceases to be an owner.
LEMMA MembersChanged ==
    ASSUME DirectoryInv, UNCHANGED <<hub, chan>>,
           present' \in [Channels -> SUBSET Users],
           role' \in [Channels -> [Users -> {"none", "member", "owner"}]],
           \A ch \in Channels, u \in Users : (role[ch][u] = "owner") <=> (role'[ch][u] = "owner")
    PROVE  DirectoryInv'
<1>1. DirectoryTypeOK'
    BY DEF DirectoryInv, DirectoryTypeOK
<1>2. NoOrphans'
    BY DEF DirectoryInv, NoOrphans
<1>3. CreatorIsOwner'
    BY DEF DirectoryInv, CreatorIsOwner
<1>4. QED
    BY <1>1, <1>2, <1>3 DEF DirectoryInv

\* A channel is made in a hub that is there afterwards, or by an admin, while the
\* other hubs stay as they are.
LEMMA ChannelInserted ==
    ASSUME DirectoryInv,
           NEW u \in Users, NEW ch \in Channels, NEW h \in Hubs,
           NEW name \in Names, NEW private \in BOOLEAN,
           InsertChannel(u, ch, h, name, private),
           hub' \in [Hubs -> HubRow \cup {None}],
           \A g \in Hubs : Exists(hub[g]) => Exists(hub'[g]),
           Exists(hub'[h]) \/ u \in Admins
    PROVE  DirectoryInv'
<1> DEFINE row == [hub |-> h, name |-> name, private |-> private, creator |-> u, live |-> TRUE]
<1>1. row \in ChannelRow
    BY DEF ChannelRow
<1>2. row # None
    BY <1>1, DirectoryAssumption
<1>3. /\ chan \in [Channels -> ChannelRow \cup {None}]
      /\ role \in [Channels -> [Users -> {"none", "member", "owner"}]]
      /\ present \in [Channels -> SUBSET Users]
    BY DEF DirectoryInv, DirectoryTypeOK
<1>4. /\ chan[ch] = None
      /\ chan' = [chan EXCEPT ![ch] = row]
      /\ role' = [role EXCEPT ![ch][u] = "owner"]
      /\ present' = [present EXCEPT ![ch] = {u}]
    BY DEF InsertChannel
<1> HIDE DEF row
<1>5. DirectoryTypeOK'
    BY <1>1, <1>3, <1>4 DEF DirectoryTypeOK
<1>6. NoOrphans'
  <2> SUFFICES ASSUME NEW d \in Channels, Exists(chan'[d])
               PROVE  Exists(hub'[chan'[d].hub]) \/ chan'[d].creator \in Admins
      BY DEF NoOrphans
  <2>1. CASE d = ch
    <3>1. chan'[d].hub = h /\ chan'[d].creator = u
        BY <2>1, <1>3, <1>4 DEF row
    <3>2. QED
        BY <3>1
  <2>2. CASE d # ch
    <3>1. chan'[d] = chan[d]
        BY <2>2, <1>3, <1>4
    <3>2. chan[d] \in ChannelRow
        BY <3>1, <1>3 DEF Exists
    <3>3. chan[d].hub \in Hubs
        BY <3>2 DEF ChannelRow
    <3>4. QED
        BY <3>1, <3>3 DEF DirectoryInv, NoOrphans
  <2>3. QED
      BY <2>1, <2>2
<1>7. CreatorIsOwner'
  <2> SUFFICES ASSUME NEW d \in Channels, NEW v \in Users
               PROVE  role'[d][v] = "owner" <=> chan'[d] # None /\ chan'[d].creator = v
      BY DEF CreatorIsOwner
  <2>1. CASE d = ch
    <3>1. role[ch][v] # "owner"
        BY <1>4 DEF DirectoryInv, CreatorIsOwner
    <3>2. role'[d][v] = "owner" <=> v = u
        BY <2>1, <3>1, <1>3, <1>4
    <3>3. chan'[d] = row /\ row.creator = u
        BY <2>1, <1>3, <1>4 DEF row
    <3>4. QED
        BY <3>2, <3>3, <1>2
  <2>2. CASE d # ch
      BY <2>2, <1>3, <1>4 DEF DirectoryInv, CreatorIsOwner
  <2>3. QED
      BY <2>1, <2>2
<1>8. QED
    BY <1>5, <1>6, <1>7 DEF DirectoryInv

-----------------------------------------------------------------------------
(***************************************************************************)
(* One lemma per operation of the services.                                *)
(***************************************************************************)
LEMMA InitDirectoryInv == DirectoryInit => DirectoryInv
<1> SUFFICES ASSUME DirectoryInit PROVE DirectoryInv
    OBVIOUS
<1>1. DirectoryTypeOK
    BY DEF DirectoryInit, DirectoryTypeOK
<1>2. NoOrphans /\ CreatorIsOwner
    BY DEF DirectoryInit, NoOrphans, CreatorIsOwner, Exists
<1>3. QED
    BY <1>1, <1>2 DEF DirectoryInv

LEMMA CreateHubStep ==
    ASSUME DirectoryInv, NEW u \in Users, NEW h \in Hubs, NEW name \in Names,
           NEW restricted \in BOOLEAN, CreateHub(u, h, name, restricted)
    PROVE  DirectoryInv'
<1>1. DirectoryTypeOK'
    BY DEF DirectoryInv, DirectoryTypeOK, CreateHub, HubRow
<1>2. \A ch \in Channels :
         Exists(chan[ch]) /\ Exists(hub[chan[ch].hub]) => Exists(hub'[chan[ch].hub])
    BY DEF DirectoryInv, DirectoryTypeOK, CreateHub, ChannelRow, Exists
<1>3. QED
    BY <1>1, <1>2, RowsChanged DEF CreateHub

LEMMA UpdateHubStep ==
    ASSUME DirectoryInv, NEW u \in Users, NEW h \in Hubs, NEW name \in Names,
           UpdateHub(u, h, name)
    PROVE  DirectoryInv'
<1>1. hub \in [Hubs -> HubRow \cup {None}] /\ hub[h] \in HubRow
    BY DEF DirectoryInv, DirectoryTypeOK, UpdateHub, MayChangeHub, Exists
<1>2. [hub[h] EXCEPT !.name = name] \in HubRow
    BY <1>1 DEF HubRow
<1>3. hub' = [hub EXCEPT ![h] = [hub[h] EXCEPT !.name = name]]
    BY DEF UpdateHub
<1>4. DirectoryTypeOK'
    BY <1>1, <1>2, <1>3 DEF DirectoryInv, DirectoryTypeOK, UpdateHub
<1>5. \A g \in Hubs : Exists(hub[g]) => Exists(hub'[g])
  <2>1. [hub[h] EXCEPT !.name = name].live = hub[h].live
      BY <1>1 DEF HubRow
  <2>2. [hub[h] EXCEPT !.name = name] # None
      BY <1>2, DirectoryAssumption
  <2>3. QED
      BY <2>1, <2>2, <1>1, <1>3 DEF Exists
<1>6. \A ch \in Channels : Exists(chan[ch]) => chan[ch].hub \in Hubs
    BY DEF DirectoryInv, DirectoryTypeOK, ChannelRow, Exists
<1>7. QED
    BY <1>4, <1>5, <1>6, RowsChanged DEF UpdateHub

LEMMA DeleteHubStep ==
    ASSUME DirectoryInv, NEW u \in Users, NEW h \in Hubs, DeleteHub(u, h)
    PROVE  DirectoryInv'
<1>1. /\ hub \in [Hubs -> HubRow \cup {None}] /\ hub[h] \in HubRow
      /\ chan \in [Channels -> ChannelRow \cup {None}]
    BY DEF DirectoryInv, DirectoryTypeOK, DeleteHub, MayChangeHub, Exists
<1>2. hub' = [hub EXCEPT ![h] = [hub[h] EXCEPT !.live = FALSE]]
    BY DEF DeleteHub
<1>3. [hub[h] EXCEPT !.live = FALSE] \in HubRow
    BY <1>1 DEF HubRow
<1>4. ASSUME NEW ch \in ChannelsOf(h)
      PROVE  /\ chan[ch] \in ChannelRow
             /\ [chan[ch] EXCEPT !.live = FALSE] \in ChannelRow
             /\ [chan[ch] EXCEPT !.live = FALSE].hub = chan[ch].hub
             /\ [chan[ch] EXCEPT !.live = FALSE].creator = chan[ch].creator
             /\ ~[chan[ch] EXCEPT !.live = FALSE].live
  <2>1. chan[ch] \in ChannelRow
      BY <1>1 DEF ChannelsOf, Exists
  <2>2. QED
      BY <2>1 DEF ChannelRow
<1>5. \A ch \in Channels : chan'[ch] = IF ch \in ChannelsOf(h)
                                      THEN [chan[ch] EXCEPT !.live = FALSE] ELSE chan[ch]
    BY DEF DeleteHub
<1>6. chan' \in [Channels -> ChannelRow \cup {None}]
    BY <1>1, <1>4 DEF DeleteHub
<1>7. DirectoryTypeOK'
    BY <1>1, <1>2, <1>3, <1>6 DEF DirectoryInv, DirectoryTypeOK, DeleteHub
<1>8. ASSUME NEW ch \in Channels
      PROVE  /\ (chan[ch] = None) <=> (chan'[ch] = None)
             /\ chan[ch] # None => /\ chan'[ch].hub = chan[ch].hub
                                   /\ chan'[ch].creator = chan[ch].creator
    BY <1>4, <1>5, DirectoryAssumption
<1>9. ASSUME NEW ch \in Channels, Exists(chan'[ch])
      PROVE  /\ Exists(chan[ch])
             /\ Exists(hub[chan[ch].hub]) => Exists(hub'[chan[ch].hub])
  <2>1. ch \notin ChannelsOf(h)
      BY <1>4, <1>5, <1>9 DEF Exists
  <2>2. chan'[ch] = chan[ch]
      BY <2>1, <1>5
  <2>3. Exists(chan[ch])
      BY <2>2, <1>9
  <2>4. chan[ch].hub # h /\ chan[ch].hub \in Hubs
      BY <2>1, <2>3, <1>1 DEF ChannelsOf, Exists, ChannelRow
  <2>5. QED
      BY <2>3, <2>4, <1>1, <1>2
<1>10. QED
    BY <1>7, <1>8, <1>9, RowsChanged DEF DeleteHub

LEMMA CreateChannelStep ==
    ASSUME DirectoryInv, NEW u \in Users, NEW ch \in Channels, NEW h \in Hubs,
           NEW name \in Names, NEW private \in BOOLEAN, CreateChannel(u, ch, h, name, private)
    PROVE  DirectoryInv'
<1>1. hub' = hub /\ InsertChannel(u, ch, h, name, private)
    BY DEF CreateChannel
<1>2. Exists(hub[h]) \/ u \in Admins
    BY DEF CreateChannel, CanAccessHub
<1>3. hub \in [Hubs -> HubRow \cup {None}]
    BY DEF DirectoryInv, DirectoryTypeOK
<1>4. QED
    BY <1>1, <1>2, <1>3, ChannelInserted

LEMMA CreateDefaultChannelStep ==
    ASSUME DirectoryInv, NEW u \in Users, NEW ch \in Channels, NEW h \in Hubs,
           CreateDefaultChannel(u, ch, h)
    PROVE  DirectoryInv'
<1>1. InsertChannel(u, ch, h, DefaultName, FALSE) /\ DefaultName \in Names
    BY DirectoryAssumption DEF CreateDefaultChannel
<1>2. hub \in [Hubs -> HubRow \cup {None}]
    BY DEF DirectoryInv, DirectoryTypeOK
<1>3. CASE h \in DefaultHubs /\ UNCHANGED hub
    BY <1>1, <1>2, <1>3, ChannelInserted DEF DefaultHubs
<1>4. CASE hub[h] = None /\ hub' = [hub EXCEPT ![h] =
              [name |-> DefaultName, restricted |-> FALSE, creator |-> u, live |-> TRUE]]
  <2> DEFINE row == [name |-> DefaultName, restricted |-> FALSE, creator |-> u, live |-> TRUE]
  <2>1. row \in HubRow /\ row.live
      BY DirectoryAssumption DEF HubRow
  <2>2. row # None
      BY <2>1, DirectoryAssumption
  <2> HIDE DEF row
  <2>3. hub' = [hub EXCEPT ![h] = row]
      BY <1>4 DEF row
  <2>4. hub' \in [Hubs -> HubRow \cup {None}]
      BY <2>1, <2>3, <1>2
  <2>5. Exists(hub'[h]) /\ \A g \in Hubs : Exists(hub[g]) => Exists(hub'[g])
      BY <2>1, <2>2, <2>3, <1>2 DEF Exists
  <2>6. QED
      BY <2>4, <2>5, <1>1, ChannelInserted
<1>5. QED
    BY <1>3, <1>4 DEF CreateDefaultChannel

LEMMA UpdateChannelStep ==
    ASSUME DirectoryInv, NEW u \in Users, NEW ch \in Channels, NEW name \in Names,
           UpdateChannel(u, ch, name)
    PROVE  DirectoryInv'
<1> DEFINE row == [chan[ch] EXCEPT !.name = name]
<1>1. chan \in [Channels -> ChannelRow \cup {None}] /\ chan[ch] \in ChannelRow
    BY DEF DirectoryInv, DirectoryTypeOK, UpdateChannel, MayChangeChannel, Exists
<1>2. /\ row \in ChannelRow /\ row.live = chan[ch].live
      /\ row.hub = chan[ch].hub /\ row.creator = chan[ch].creator
    BY <1>1 DEF ChannelRow
<1>3. chan[ch] # None /\ row # None
    BY <1>1, <1>2, DirectoryAssumption
<1> HIDE DEF row
<1>4. chan' = [chan EXCEPT ![ch] = row] /\ UNCHANGED <<hub, role, present>>
    BY DEF UpdateChannel, row
<1>5. DirectoryTypeOK'
    BY <1>1, <1>2, <1>4 DEF DirectoryInv, DirectoryTypeOK
<1>6. QED
    BY <1>1, <1>2, <1>3, <1>4, <1>5, RowsChanged DEF Exists

LEMMA DeleteChannelStep ==
    ASSUME DirectoryInv, NEW u \in Users, NEW ch \in Channels, DeleteChannel(u, ch)
    PROVE  DirectoryInv'
<1> DEFINE row == [chan[ch] EXCEPT !.live = FALSE]
<1>1. chan \in [Channels -> ChannelRow \cup {None}] /\ chan[ch] \in ChannelRow
    BY DEF DirectoryInv, DirectoryTypeOK, DeleteChannel, MayChangeChannel, Exists
<1>2. /\ row \in ChannelRow /\ ~row.live
      /\ row.hub = chan[ch].hub /\ row.creator = chan[ch].creator
    BY <1>1 DEF ChannelRow
<1>3. chan[ch] # None /\ row # None
    BY <1>1, <1>2, DirectoryAssumption
<1> HIDE DEF row
<1>4. chan' = [chan EXCEPT ![ch] = row] /\ UNCHANGED <<hub, role, present>>
    BY DEF DeleteChannel, row
<1>5. DirectoryTypeOK'
    BY <1>1, <1>2, <1>4 DEF DirectoryInv, DirectoryTypeOK
<1>6. QED
    BY <1>1, <1>2, <1>3, <1>4, <1>5, RowsChanged DEF Exists

LEMMA EnrolStep ==
    ASSUME DirectoryInv, NEW u \in Users, NEW ch \in Channels, Enrol(u, ch)
    PROVE  DirectoryInv'
<1>1. /\ role \in [Channels -> [Users -> {"none", "member", "owner"}]]
      /\ present \in [Channels -> SUBSET Users]
    BY DEF DirectoryInv, DirectoryTypeOK
<1>2. present' \in [Channels -> SUBSET Users]
    BY <1>1 DEF Enrol
<1>3. role' \in [Channels -> [Users -> {"none", "member", "owner"}]]
    BY <1>1 DEF Enrol
<1>4. \A d \in Channels, v \in Users : (role[d][v] = "owner") <=> (role'[d][v] = "owner")
    BY <1>1 DEF Enrol
<1>5. QED
    BY <1>2, <1>3, <1>4, MembersChanged DEF Enrol

LEMMA JoinChannelStep ==
    ASSUME DirectoryInv, NEW u \in Users, NEW ch \in Channels, JoinChannel(u, ch)
    PROVE  DirectoryInv'
<1>1. CASE UNCHANGED tables
    BY <1>1 DEF tables, DirectoryInv, DirectoryTypeOK, NoOrphans, CreatorIsOwner
<1>2. CASE Enrol(u, ch)
    BY <1>2, EnrolStep
<1>3. QED
    BY <1>1, <1>2 DEF JoinChannel

LEMMA LeaveChannelStep ==
    ASSUME DirectoryInv, NEW u \in Users, NEW ch \in Channels, LeaveChannel(u, ch)
    PROVE  DirectoryInv'
<1>1. /\ role \in [Channels -> [Users -> {"none", "member", "owner"}]]
      /\ present' \in [Channels -> SUBSET Users]
    BY DEF DirectoryInv, DirectoryTypeOK, LeaveChannel
<1>2. QED
    BY <1>1, MembersChanged DEF LeaveChannel

-----------------------------------------------------------------------------
\* Every operation keeps the invariant.
LEMMA NextDirectoryInv == DirectoryInv /\ [DirectoryNext]_tables => DirectoryInv'
<1> SUFFICES ASSUME DirectoryInv, [DirectoryNext]_tables PROVE DirectoryInv'
    OBVIOUS
<1>1. CASE UNCHANGED tables
    BY <1>1 DEF tables, DirectoryInv, DirectoryTypeOK, NoOrphans, CreatorIsOwner
<1>2. CASE DirectoryNext
  <2> SUFFICES ASSUME NEW u \in Users,
                      \/ \E h \in Hubs, name \in Names : UpdateHub(u, h, name)
                      \/ \E h \in Hubs, name \in Names, b \in BOOLEAN : CreateHub(u, h, name, b)
                      \/ \E h \in Hubs, name \in Names, b \in BOOLEAN, ch \in Channels :
                            CreateChannel(u, ch, h, name, b)
                      \/ \E h \in Hubs : DeleteHub(u, h)
                      \/ \E h \in Hubs, ch \in Channels : CreateDefaultChannel(u, ch, h)
                      \/ \E ch \in Channels, name \in Names : UpdateChannel(u, ch, name)
                      \/ \E ch \in Channels : DeleteChannel(u, ch)
                      \/ \E ch \in Channels : JoinChannel(u, ch)
                      \/ \E ch \in Channels : LeaveChannel(u, ch)
                      \/ \E ch \in Channels, target \in Users : AddMember(u, ch, target)
               PROVE  DirectoryInv'
      BY <1>2 DEF DirectoryNext
  <2>1. CASE \E h \in Hubs, name \in Names : UpdateHub(u, h, name)
      BY <2>1, UpdateHubStep
  <2>2. CASE \E h \in Hubs, name \in Names, b \in BOOLEAN : CreateHub(u, h, name, b)
      BY <2>2, CreateHubStep
  <2>3. CASE \E h \in Hubs, name \in Names, b \in BOOLEAN, ch \in Channels :
                CreateChannel(u, ch, h, name, b)
      BY <2>3, CreateChannelStep
  <2>4. CASE \E h \in Hubs : DeleteHub(u, h)
      BY <2>4, DeleteHubStep
  <2>5. CASE \E h \in Hubs, ch \in Channels : CreateDefaultChannel(u, ch, h)
      BY <2>5, CreateDefaultChannelStep
  <2>6. CASE \E ch \in Channels, name \in Names : UpdateChannel(u, ch, name)
      BY <2>6, UpdateChannelStep
  <2>7. CASE \E ch \in Channels : DeleteChannel(u, ch)
      BY <2>7, DeleteChannelStep
  <2>8. CASE \E ch \in Channels : JoinChannel(u, ch)
      BY <2>8, JoinChannelStep
  <2>9. CASE \E ch \in Channels : LeaveChannel(u, ch)
      BY <2>9, LeaveChannelStep
  <2>10. CASE \E ch \in Channels, target \in Users : AddMember(u, ch, target)
      BY <2>10, EnrolStep DEF AddMember
  <2>11. QED
      BY <2>1, <2>2, <2>3, <2>4, <2>5, <2>6, <2>7, <2>8, <2>9, <2>10
<1>3. QED
    BY <1>1, <1>2

\* The tables keep their types, no channel outlives its hub but those an admin made
\* in a deleted one, and a channel has one owner, its creator, for ever.
THEOREM DirectoryInvariant == DirectorySpec => []DirectoryInv
BY InitDirectoryInv, NextDirectoryInv, PTL DEF DirectorySpec

-----------------------------------------------------------------------------
(***************************************************************************)
(* What the queues hold.  The server acts on the channel that the page put *)
(* into a request, the page on the id that the server put into an event.   *)
(***************************************************************************)
Asks ==
    [t : {"hub.list", "channel.list", "channel.create"}, ch : {None}]
    \cup [t : {"channel.join"}, ch : Channels]

HubNames  == [Hubs -> Names \cup {None}]
ChanNames == [Channels -> Names \cup {None}]
PageTree  == [hubs : HubNames, chans : ChanNames]

HubEvents  == [t : {"hub.created", "hub.updated", "hub.deleted"},
               id : Hubs, name : Names \cup {None}, mine : BOOLEAN]
ChanEvents == [t : {"channel.created", "channel.updated", "channel.deleted", "channel.added"},
               id : Channels, name : Names \cup {None}, mine : BOOLEAN]
Events     == HubEvents \cup ChanEvents
Codes      == {"NOT_FOUND", "FORBIDDEN", "NOT_A_MEMBER", "none"}
Messages   == [t : {"hub.list_result"}, hubs : HubNames]
              \cup [t : {"channel.list_result"}, chans : ChanNames]
              \cup Events \cup [t : {"error"}, code : Codes]

QueuesOK ==
    /\ toServer \in [Users -> Seq(Asks)]
    /\ toClient \in [Users -> Seq(Messages)]
PagesOK ==
    /\ tree \in [Users -> PageTree]
    /\ cur \in [Users -> Channels \cup {None}]
RestOK ==
    /\ authed \subseteq Users
    /\ missed \subseteq Users \X (Hubs \cup Channels)
    /\ requests \in [Users -> Nat]

\* The inductive invariant.
TreeInv == DirectoryInv /\ QueuesOK /\ PagesOK /\ RestOK

\* What a step has to show: the tables move by the services only.
StepOK == [DirectoryNext]_tables /\ QueuesOK' /\ PagesOK' /\ RestOK'

LEMMA InitTreeInv == Init => TreeInv
<1> SUFFICES ASSUME Init PROVE TreeInv
    OBVIOUS
<1>1. DirectoryInv
    BY InitDirectoryInv DEF Init
<1>2. QueuesOK /\ RestOK
    BY DEF Init, QueuesOK, RestOK
<1>3. NoTree \in PageTree
    BY DEF NoTree, PageTree, HubNames, ChanNames
<1>4. PagesOK
    BY <1>3 DEF Init, PagesOK
<1>5. QED
    BY <1>1, <1>2, <1>4 DEF TreeInv

-----------------------------------------------------------------------------
(***************************************************************************)
(* The queues.                                                             *)
(***************************************************************************)
LEMMA Sent ==
    ASSUME QueuesOK, NEW c \in Users, NEW s \in Seq(Asks), Sends(c, s)
    PROVE  toServer' \in [Users -> Seq(Asks)]
<1>1. toServer[c] \o s \in Seq(Asks)
    BY DEF QueuesOK
<1>2. QED
    BY <1>1 DEF QueuesOK, Sends

LEMMA AskConsumed ==
    ASSUME QueuesOK, NEW c \in Users, toServer[c] # <<>>, Consume(c)
    PROVE  toServer' \in [Users -> Seq(Asks)] /\ Head(toServer[c]) \in Asks
<1>1. Tail(toServer[c]) \in Seq(Asks) /\ Head(toServer[c]) \in Asks
    BY DEF QueuesOK
<1>2. QED
    BY <1>1 DEF QueuesOK, Consume

LEMMA MessageTaken ==
    ASSUME QueuesOK, NEW c \in Users, toClient[c] # <<>>, Taken(c)
    PROVE  toClient' \in [Users -> Seq(Messages)] /\ Head(toClient[c]) \in Messages
<1>1. Tail(toClient[c]) \in Seq(Messages) /\ Head(toClient[c]) \in Messages
    BY DEF QueuesOK
<1>2. QED
    BY <1>1 DEF QueuesOK, Taken

LEMMA Replied ==
    ASSUME QueuesOK, NEW c \in Users, NEW m \in Messages, Reply(c, m)
    PROVE  toClient' \in [Users -> Seq(Messages)]
<1>1. Append(toClient[c], m) \in Seq(Messages)
    BY DEF QueuesOK
<1>2. QED
    BY <1>1 DEF QueuesOK, Reply

LEMMA Told ==
    ASSUME QueuesOK, NEW c \in Users, NEW m \in Events, NEW S, Tell(S, c, m)
    PROVE  toClient' \in [Users -> Seq(Messages)]
<1>1. m \in Messages /\ Answer(m) \in Messages
    BY DEF Messages, Events, HubEvents, ChanEvents, Answer
<1>2. \A d \in Users : /\ toClient[d] \in Seq(Messages)
                       /\ Append(toClient[d], m) \in Seq(Messages)
                       /\ Append(toClient[d], Answer(m)) \in Seq(Messages)
    BY <1>1 DEF QueuesOK
<1>3. QED
    BY <1>2 DEF Tell

-----------------------------------------------------------------------------
(***************************************************************************)
(* The server.                                                             *)
(***************************************************************************)
LEMMA ListsOK ==
    ASSUME DirectoryInv, NEW c \in Users
    PROVE  HubList(c) \in Messages /\ ChannelList(c) \in Messages
<1>1. \A h \in Hubs : Exists(hub[h]) => hub[h].name \in Names
    BY DEF DirectoryInv, DirectoryTypeOK, Exists, HubRow
<1>2. \A ch \in Channels : Exists(chan[ch]) => chan[ch].name \in Names
    BY DEF DirectoryInv, DirectoryTypeOK, Exists, ChannelRow
<1>3. [h \in Hubs |-> IF HubIsListed(c, h) THEN hub[h].name ELSE None] \in HubNames
    BY <1>1 DEF HubNames, HubIsListed
<1>4. [ch \in Channels |-> IF ChannelIsListed(c, ch) THEN chan[ch].name ELSE None] \in ChanNames
    BY <1>2 DEF ChanNames, ChannelIsListed
<1>5. QED
    BY <1>3, <1>4 DEF HubList, ChannelList, Messages

LEMMA ServerStepOK ==
    ASSUME TreeInv, NEW c \in Users, ServerStep(c)
    PROVE  StepOK
<1> USE DEF TreeInv
<1>1. /\ toServer[c] # <<>> /\ Consume(c)
      /\ UNCHANGED <<authed, pages, requests>>
    BY DEF ServerStep, HandleHubList, HandleChannelList, HandleChannelJoin, HandleDefaultCreate,
        Incoming
<1>2. toServer' \in [Users -> Seq(Asks)] /\ Head(toServer[c]) \in Asks
    BY <1>1, AskConsumed
<1>3. PagesOK'
    BY <1>1 DEF PagesOK, pages
<1>4. CASE HandleHubList(c)
  <2>1. toClient' \in [Users -> Seq(Messages)]
      BY <1>4, ListsOK, Replied DEF HandleHubList
  <2>2. missed' \subseteq missed
      BY <1>4 DEF HandleHubList
  <2>3. UNCHANGED tables
      BY <1>4 DEF HandleHubList
  <2>4. QED
      BY <1>1, <1>2, <1>3, <2>1, <2>2, <2>3 DEF StepOK, QueuesOK, RestOK
<1>5. CASE HandleChannelList(c)
  <2>1. toClient' \in [Users -> Seq(Messages)]
      BY <1>5, ListsOK, Replied DEF HandleChannelList
  <2>2. missed' \subseteq missed \cup ({c} \X Channels)
      BY <1>5 DEF HandleChannelList
  <2>3. UNCHANGED tables
      BY <1>5 DEF HandleChannelList
  <2>4. QED
      BY <1>1, <1>2, <1>3, <2>1, <2>2, <2>3 DEF StepOK, QueuesOK, RestOK
<1>6. CASE HandleChannelJoin(c)
  <2> DEFINE ch == Head(toServer[c]).ch
  <2>1. ch \in Channels
      BY <1>2, <1>6 DEF HandleChannelJoin, Incoming, Asks
  <2>2. CASE JoinChannel(c, ch) /\ UNCHANGED toClient
      BY <1>1, <1>2, <1>3, <1>6, <2>1, <2>2
      DEF HandleChannelJoin, StepOK, QueuesOK, RestOK, DirectoryNext
  <2>3. CASE Reply(c, Failure(JoinRefusal(c, ch))) /\ UNCHANGED tables
    <3>1. Failure(JoinRefusal(c, ch)) \in Messages
      <4>1. JoinRefusal(c, ch) \in Codes
          BY DEF JoinRefusal, Codes
      <4>2. QED
          BY <4>1 DEF Failure, Messages
    <3>2. toClient' \in [Users -> Seq(Messages)]
        BY <3>1, <2>3, Replied
    <3>3. QED
        BY <1>1, <1>2, <1>3, <1>6, <2>3, <3>2 DEF HandleChannelJoin, StepOK, QueuesOK, RestOK
  <2>4. QED
      BY <1>6, <2>2, <2>3 DEF HandleChannelJoin
<1>7. CASE HandleDefaultCreate(c)
  <2>1. PICK ch \in Channels, h \in Hubs :
            /\ CreateDefaultChannel(c, ch, h)
            /\ Tell(ChannelAudience(ch)', c, Event("channel.created", ch, DefaultName))
            /\ missed' = IF hub[h] = None THEN missed \cup (authed \X {h}) ELSE missed
      BY <1>7 DEF HandleDefaultCreate
  <2>2. Event("channel.created", ch, DefaultName) \in Events
      BY DirectoryAssumption DEF Event, Events, ChanEvents
  <2>3. toClient' \in [Users -> Seq(Messages)]
      BY <2>1, <2>2, Told
  <2>4. RestOK'
      BY <1>1, <2>1 DEF RestOK
  <2>5. DirectoryNext
      BY <2>1 DEF DirectoryNext
  <2>6. QED
      BY <1>2, <1>3, <2>3, <2>4, <2>5 DEF StepOK, QueuesOK
<1>8. QED
    BY <1>4, <1>5, <1>6, <1>7 DEF ServerStep

\* A request: the queue it came from is not in the model, the pages stay as they are.
LEMMA Requested ==
    ASSUME TreeInv, NEW c \in Users, Requests(c), DirectoryNext,
           toClient' \in [Users -> Seq(Messages)],
           missed' \subseteq Users \X (Hubs \cup Channels)
    PROVE  StepOK
<1> USE DEF TreeInv
<1>1. UNCHANGED <<authed, toServer, pages>> /\ Counted(c)
    BY DEF Requests
<1>2. requests' \in [Users -> Nat]
    BY <1>1 DEF Counted, RestOK
<1>3. QED
    BY <1>1, <1>2 DEF StepOK, QueuesOK, PagesOK, RestOK, pages

\* A request whose answer and event are about one hub or channel.
LEMMA RequestedAndTold ==
    ASSUME TreeInv, NEW c \in Users, Requests(c), DirectoryNext,
           NEW m \in Events, NEW S, Tell(S, c, m),
           missed' \subseteq Users \X (Hubs \cup Channels)
    PROVE  StepOK
<1>1. toClient' \in [Users -> Seq(Messages)]
    BY Told DEF TreeInv
<1>2. QED
    BY <1>1, Requested

LEMMA UninformedOK ==
    ASSUME RestOK, NEW S, NEW c, NEW ids, ids \subseteq Hubs \cup Channels
    PROVE  missed \cup Uninformed(S, c, ids) \subseteq Users \X (Hubs \cup Channels)
BY DEF RestOK, Uninformed

LEMMA RequestStepOK ==
    ASSUME TreeInv, NEW c \in Users, RequestStep(c)
    PROVE  StepOK
<1> USE DEF TreeInv
<1>1. missed \subseteq Users \X (Hubs \cup Channels)
    BY DEF RestOK
<1>2. CASE HandleHubCreate(c)
  <2>1. PICK h \in Hubs, name \in NewNames, restricted \in BOOLEAN :
            /\ Requests(c) /\ CreateHub(c, h, name, restricted)
            /\ Tell(HubAudience(h)', c, Event("hub.created", h, name))
            /\ UNCHANGED missed
      BY <1>2 DEF HandleHubCreate
  <2>2. name \in Names /\ Event("hub.created", h, name) \in Events
      BY ChannelTreeAssumption DEF Event, Events, HubEvents
  <2>3. DirectoryNext
      BY <2>1, <2>2 DEF DirectoryNext
  <2>4. QED
      BY <1>1, <2>1, <2>2, <2>3, RequestedAndTold
<1>3. CASE HandleHubUpdate(c)
  <2>1. PICK h \in Hubs, name \in Names :
            /\ Requests(c) /\ UpdateHub(c, h, name)
            /\ Tell(HubAudience(h)', c, Event("hub.updated", h, name))
            /\ UNCHANGED missed
      BY <1>3 DEF HandleHubUpdate
  <2>2. Event("hub.updated", h, name) \in Events
      BY DEF Event, Events, HubEvents
  <2>3. DirectoryNext
      BY <2>1 DEF DirectoryNext
  <2>4. QED
      BY <1>1, <2>1, <2>2, <2>3, RequestedAndTold
<1>4. CASE HandleHubDelete(c)
  <2>1. PICK h \in Hubs :
            /\ Requests(c) /\ DeleteHub(c, h)
            /\ Tell(HubAudience(h), c, Event("hub.deleted", h, None))
            /\ missed' = missed \cup Uninformed(HubAudience(h), c, ChannelsOf(h))
      BY <1>4 DEF HandleHubDelete
  <2>2. Event("hub.deleted", h, None) \in Events
      BY DEF Event, Events, HubEvents
  <2>3. DirectoryNext
      BY <2>1 DEF DirectoryNext
  <2>4. missed' \subseteq Users \X (Hubs \cup Channels)
    <3>1. ChannelsOf(h) \subseteq Hubs \cup Channels
        BY DEF ChannelsOf
    <3>2. QED
        BY <2>1, <3>1, UninformedOK
  <2>5. QED
      BY <2>1, <2>2, <2>3, <2>4, RequestedAndTold
<1>5. CASE HandleChannelCreate(c)
  <2>1. PICK ch \in Channels, h \in Hubs, name \in NewNames, private \in BOOLEAN :
            /\ Requests(c) /\ CreateChannel(c, ch, h, name, private)
            /\ Tell(ChannelAudience(ch)', c, Event("channel.created", ch, name))
            /\ UNCHANGED missed
      BY <1>5 DEF HandleChannelCreate
  <2>2. name \in Names /\ Event("channel.created", ch, name) \in Events
      BY ChannelTreeAssumption DEF Event, Events, ChanEvents
  <2>3. DirectoryNext
      BY <2>1, <2>2 DEF DirectoryNext
  <2>4. QED
      BY <1>1, <2>1, <2>2, <2>3, RequestedAndTold
<1>6. CASE HandleChannelUpdate(c)
  <2>1. PICK ch \in Channels, name \in Names :
            /\ Requests(c) /\ UpdateChannel(c, ch, name)
            /\ Tell(ChannelAudience(ch)', c, Event("channel.updated", ch, name))
            /\ missed' = missed \cup Uninformed(ChannelAudience(ch), c, {ch})
      BY <1>6 DEF HandleChannelUpdate
  <2>2. Event("channel.updated", ch, name) \in Events
      BY DEF Event, Events, ChanEvents
  <2>3. DirectoryNext
      BY <2>1 DEF DirectoryNext
  <2>4. missed' \subseteq Users \X (Hubs \cup Channels)
      BY <2>1, UninformedOK
  <2>5. QED
      BY <2>1, <2>2, <2>3, <2>4, RequestedAndTold
<1>7. CASE HandleChannelDelete(c)
  <2>1. PICK ch \in Channels :
            /\ Requests(c) /\ DeleteChannel(c, ch)
            /\ Tell(ChannelAudience(ch), c, Event("channel.deleted", ch, None))
            /\ missed' = missed \cup Uninformed(ChannelAudience(ch), c, {ch})
      BY <1>7 DEF HandleChannelDelete
  <2>2. Event("channel.deleted", ch, None) \in Events
      BY DEF Event, Events, ChanEvents
  <2>3. DirectoryNext
      BY <2>1 DEF DirectoryNext
  <2>4. missed' \subseteq Users \X (Hubs \cup Channels)
      BY <2>1, UninformedOK
  <2>5. QED
      BY <2>1, <2>2, <2>3, <2>4, RequestedAndTold
<1>8. CASE HandleChannelAddMember(c)
  <2>1. PICK ch \in Channels, target \in Users :
            /\ Requests(c) /\ AddMember(c, ch, target)
            /\ IF target \in authed
               THEN Reply(target, Event("channel.added", ch, chan[ch].name))
               ELSE UNCHANGED toClient
            /\ missed' = IF Exists(chan[ch]) THEN missed ELSE missed \cup {<<target, ch>>}
      BY <1>8 DEF HandleChannelAddMember
  <2>2. DirectoryNext
      BY <2>1 DEF DirectoryNext
  <2>3. Event("channel.added", ch, chan[ch].name) \in Messages
    <3>1. chan[ch] \in ChannelRow
        BY <2>1 DEF AddMember, DirectoryInv, DirectoryTypeOK
    <3>2. chan[ch].name \in Names
        BY <3>1 DEF ChannelRow
    <3>3. QED
        BY <3>2 DEF Event, Messages, Events, ChanEvents
  <2>4. toClient' \in [Users -> Seq(Messages)]
      BY <2>1, <2>3, Replied DEF QueuesOK
  <2>5. missed' \subseteq Users \X (Hubs \cup Channels)
      BY <1>1, <2>1
  <2>6. QED
      BY <2>1, <2>2, <2>4, <2>5, Requested
<1>9. CASE HandleChannelLeave(c)
  <2>1. PICK ch \in Channels :
            Requests(c) /\ LeaveChannel(c, ch) /\ UNCHANGED <<toClient, missed>>
      BY <1>9 DEF HandleChannelLeave
  <2>2. DirectoryNext
      BY <2>1 DEF DirectoryNext
  <2>3. QED
      BY <1>1, <2>1, <2>2, Requested DEF QueuesOK
<1>10. QED
    BY <1>2, <1>3, <1>4, <1>5, <1>6, <1>7, <1>8, <1>9 DEF RequestStep

-----------------------------------------------------------------------------
(***************************************************************************)
(* The pages.                                                              *)
(***************************************************************************)
\* What a message does to a tree leaves a tree.
LEMMA AppliedOK ==
    ASSUME NEW rows, NEW v \in PageTree, NEW m \in Messages
    PROVE  Applied(rows, v, m) \in PageTree
<1>1. v.hubs \in HubNames /\ v.chans \in ChanNames
      /\ v = [hubs |-> v.hubs, chans |-> v.chans]
    BY DEF PageTree
<1>2. \A hs \in HubNames : [v EXCEPT !.hubs = hs] \in PageTree
    BY DEF PageTree
<1>3. \A cs \in ChanNames : [v EXCEPT !.chans = cs] \in PageTree
    BY DEF PageTree
<1>4. \A h \in Hubs, n \in Names \cup {None} : [v.hubs EXCEPT ![h] = n] \in HubNames
    BY <1>1 DEF HubNames
<1>5. \A ch \in Channels, n \in Names \cup {None} : [v.chans EXCEPT ![ch] = n] \in ChanNames
    BY <1>1 DEF ChanNames
<1>6. CASE m \in [t : {"hub.list_result"}, hubs : HubNames]
    BY <1>2, <1>6 DEF Applied
<1>7. CASE m \in [t : {"channel.list_result"}, chans : ChanNames]
    BY <1>3, <1>7 DEF Applied
<1>8. CASE m \in HubEvents
  <2>1. /\ m.id \in Hubs /\ m.name \in Names \cup {None}
        /\ m.t \in {"hub.created", "hub.updated", "hub.deleted"}
      BY <1>8 DEF HubEvents
  <2>2. CASE m.t = "hub.deleted"
    <3>1. [ch \in Channels |-> IF rows[ch] # None /\ rows[ch].hub = m.id
                               THEN None ELSE v.chans[ch]] \in ChanNames
        BY <1>1 DEF ChanNames
    <3>2. QED
        BY <1>4, <2>1, <2>2, <3>1 DEF Applied, PageTree
  <2>3. CASE m.t \in {"hub.created", "hub.updated"}
    <3>1. [v EXCEPT !.hubs[m.id] = m.name] = [v EXCEPT !.hubs = [v.hubs EXCEPT ![m.id] = m.name]]
        BY <1>1
    <3>2. [v EXCEPT !.hubs[m.id] = m.name] \in PageTree
        BY <1>2, <1>4, <2>1, <3>1
    <3>3. QED
        BY <2>1, <2>3, <3>2 DEF Applied
  <2>4. QED
      BY <2>1, <2>2, <2>3
<1>9. CASE m \in ChanEvents
  <2>1. /\ m.id \in Channels /\ m.name \in Names \cup {None} /\ None \in Names \cup {None}
        /\ m.t \in {"channel.created", "channel.updated", "channel.deleted", "channel.added"}
      BY <1>9 DEF ChanEvents
  <2>2. /\ [v EXCEPT !.chans[m.id] = m.name] = [v EXCEPT !.chans = [v.chans EXCEPT ![m.id] = m.name]]
        /\ [v EXCEPT !.chans[m.id] = None] = [v EXCEPT !.chans = [v.chans EXCEPT ![m.id] = None]]
      BY <1>1
  <2>3. /\ [v EXCEPT !.chans[m.id] = m.name] \in PageTree
        /\ [v EXCEPT !.chans[m.id] = None] \in PageTree
      BY <1>3, <1>5, <2>1, <2>2
  <2>4. QED
      BY <2>1, <2>3 DEF Applied
<1>10. CASE m \in [t : {"error"}, code : Codes]
    BY <1>10 DEF Applied
<1>11. QED
    BY <1>6, <1>7, <1>8, <1>9, <1>10 DEF Messages, Events

\* A page step that leaves the server's side alone.
LEMMA PageMoved ==
    ASSUME TreeInv, NEW c \in Users, UNCHANGED <<tables, authed, missed, requests>>,
           toClient' \in [Users -> Seq(Messages)],
           tree' \in [Users -> PageTree],
           \/ UNCHANGED <<cur, toServer>>
           \/ UNCHANGED cur /\ Sends(c, <<Ask("channel.create", None)>>)
           \/ \E ch \in Channels : UNCHANGED cur /\ Sends(c, <<Ask("channel.join", ch)>>)
           \/ \E ch \in Channels : Activate(c, ch)
           \/ cur' = [cur EXCEPT ![c] = None] /\ UNCHANGED toServer
    PROVE  StepOK
<1> USE DEF TreeInv
<1>1. Ask("channel.create", None) \in Asks
    BY DEF Ask, Asks
<1>2. \A ch \in Channels : Ask("channel.join", ch) \in Asks
    BY DEF Ask, Asks
<1>3. cur' \in [Users -> Channels \cup {None}]
    BY DEF PagesOK, Activate
<1>4. UNCHANGED toServer \/ \E a \in Asks : Sends(c, <<a>>)
    BY <1>1, <1>2 DEF Activate
<1>5. toServer' \in [Users -> Seq(Asks)]
  <2>1. CASE UNCHANGED toServer
      BY <2>1 DEF QueuesOK
  <2>2. CASE \E a \in Asks : Sends(c, <<a>>)
    <3>1. PICK a \in Asks : Sends(c, <<a>>)
        BY <2>2
    <3>2. <<a>> \in Seq(Asks)
        OBVIOUS
    <3>3. QED
        BY <3>1, <3>2, Sent
  <2>3. QED
      BY <1>4, <2>1, <2>2
<1>6. QED
    BY <1>3, <1>5 DEF StepOK, QueuesOK, PagesOK, RestOK

LEMMA TakesOK ==
    ASSUME TreeInv, NEW c \in Users, NEW T, Takes(c, T)
    PROVE  /\ toClient' \in [Users -> Seq(Messages)] /\ tree' \in [Users -> PageTree]
           /\ Head(toClient[c]) \in Messages /\ Head(toClient[c]).t \in T
           /\ UNCHANGED <<tables, authed, missed, requests>>
<1> USE DEF TreeInv
<1>1. toClient[c] # <<>> /\ Taken(c) /\ Head(toClient[c]).t \in T
    BY DEF Takes, Arrived
<1>2. toClient' \in [Users -> Seq(Messages)] /\ Head(toClient[c]) \in Messages
    BY <1>1, MessageTaken
<1>3. Applied(chan, tree[c], Head(toClient[c])) \in PageTree
    BY <1>2, AppliedOK DEF PagesOK
<1>4. QED
    BY <1>1, <1>2, <1>3 DEF Takes, PagesOK

LEMMA PageStepOK ==
    ASSUME TreeInv, NEW c \in Users, PageStep(c)
    PROVE  StepOK
<1> USE DEF TreeInv
<1> DEFINE m == Head(toClient[c])
<1>1. CASE ShowHubs(c) \/ HandleChannelUpdated(c)
    BY <1>1, TakesOK, PageMoved DEF ShowHubs, HandleChannelUpdated, Stay
<1>2. CASE HandleChannelListResult(c)
  <2>1. Takes(c, {"channel.list_result"})
      BY <1>2 DEF HandleChannelListResult
  <2>2. \/ \E ch \in Channels : Activate(c, ch)
        \/ UNCHANGED cur /\ Sends(c, <<Ask("channel.create", None)>>)
        \/ UNCHANGED <<cur, toServer>>
      BY <1>2 DEF HandleChannelListResult, ShownIn, Stay
  <2>3. QED
      BY <2>1, <2>2, TakesOK, PageMoved
<1>3. CASE HandleChannelCreated(c)
  <2>1. /\ Takes(c, {"channel.created", "channel.added"})
        /\ \/ m.t = "channel.created" /\ Activate(c, m.id)
           \/ UNCHANGED <<cur, toServer>>
      BY <1>3 DEF HandleChannelCreated, Stay
  <2>2. m \in Messages /\ m.t \in {"channel.created", "channel.added"}
      BY <2>1, TakesOK
  <2>3. m.id \in Channels
      BY <2>2 DEF Messages, Events, HubEvents, ChanEvents
  <2>4. QED
      BY <2>1, <2>3, TakesOK, PageMoved
<1>4. CASE HandleDeleted(c)
  <2>1. Takes(c, {"hub.deleted", "channel.deleted"})
      BY <1>4 DEF HandleDeleted
  <2>2. \/ \E ch \in Channels : Activate(c, ch)
        \/ cur' = [cur EXCEPT ![c] = None] /\ UNCHANGED toServer
        \/ UNCHANGED <<cur, toServer>>
      BY <1>4 DEF HandleDeleted, ShownIn, Stay
  <2>3. QED
      BY <2>1, <2>2, TakesOK, PageMoved
<1>5. CASE HandleError(c)
  <2>1. toClient' \in [Users -> Seq(Messages)]
      BY <1>5, MessageTaken DEF HandleError, Arrived
  <2>2. UNCHANGED <<tables, authed, missed, requests, cur, tree>>
      BY <1>5 DEF HandleError, pages
  <2>3. \/ \E ch \in Channels : Sends(c, <<Ask("channel.join", ch)>>)
        \/ UNCHANGED toServer
      BY <1>5 DEF HandleError, PagesOK
  <2>4. tree' \in [Users -> PageTree]
      BY <2>2 DEF PagesOK
  <2>5. QED
      BY <2>1, <2>2, <2>3, <2>4, PageMoved
<1>6. QED
    BY <1>1, <1>2, <1>3, <1>4, <1>5 DEF PageStep

LEMMA SwitchToOK ==
    ASSUME TreeInv, NEW c \in Users, NEW ch \in Channels, SwitchTo(c, ch)
    PROVE  StepOK
<1> USE DEF TreeInv
<1>1. Activate(c, ch) /\ Counted(c) /\ UNCHANGED <<tables, authed, toClient, tree, missed>>
    BY DEF SwitchTo
<1>2. Ask("channel.join", ch) \in Asks
    BY DEF Ask, Asks
<1>3. toServer' \in [Users -> Seq(Asks)]
  <2>1. <<Ask("channel.join", ch)>> \in Seq(Asks)
      BY <1>2
  <2>2. QED
      BY <1>1, <2>1, Sent DEF Activate
<1>4. PagesOK'
    BY <1>1 DEF PagesOK, Activate
<1>5. RestOK'
    BY <1>1 DEF RestOK, Counted
<1>6. [DirectoryNext]_tables /\ QueuesOK'
    BY <1>1, <1>3 DEF QueuesOK
<1>7. QED
    BY <1>4, <1>5, <1>6 DEF StepOK

\* Signing in, losing the socket, reloading the page.
LEMMA SocketStepOK ==
    ASSUME TreeInv, NEW c \in Users, SignIn(c) \/ Drop(c) \/ Reload(c)
    PROVE  StepOK
<1> USE DEF TreeInv
<1>1. CASE SignIn(c)
  <2>1. <<Ask("hub.list", None), Ask("channel.list", None)>> \in Seq(Asks)
    <3>1. Ask("hub.list", None) \in Asks /\ Ask("channel.list", None) \in Asks
        BY DEF Ask, Asks
    <3>2. QED
        BY <3>1
  <2>2. QED
      BY <1>1, <2>1 DEF SignIn, StepOK, QueuesOK, PagesOK, RestOK, pages
<1>2. CASE Drop(c) \/ Reload(c)
  <2>1. Cut(c)
      BY <1>2 DEF Drop, Reload
  <2>2. [DirectoryNext]_tables /\ QueuesOK' /\ RestOK'
    <3>1. <<>> \in Seq(Asks) /\ <<>> \in Seq(Messages)
        OBVIOUS
    <3>2. QED
        BY <2>1, <3>1 DEF Cut, QueuesOK, RestOK
  <2>3. PagesOK'
    <3>1. NoTree \in PageTree
        BY DEF NoTree, PageTree, HubNames, ChanNames
    <3>2. QED
        BY <1>2, <3>1 DEF Drop, Reload, PagesOK, pages
  <2>4. QED
      BY <2>2, <2>3 DEF StepOK
<1>3. QED
    BY <1>1, <1>2

LEMMA NextOK == TreeInv /\ [Next]_vars => StepOK
<1> SUFFICES ASSUME TreeInv, [Next]_vars PROVE StepOK
    OBVIOUS
<1>1. CASE UNCHANGED vars
    BY <1>1 DEF vars, pages, TreeInv, StepOK, QueuesOK, PagesOK, RestOK
<1>2. CASE Next
    BY <1>2, ServerStepOK, RequestStepOK, PageStepOK, SwitchToOK, SocketStepOK DEF Next
<1>3. QED
    BY <1>1, <1>2

LEMMA NextTreeInv == TreeInv /\ [Next]_vars => TreeInv'
<1> SUFFICES ASSUME TreeInv, [Next]_vars PROVE TreeInv'
    OBVIOUS
<1>1. StepOK
    BY NextOK
<1>2. DirectoryInv'
    BY <1>1, NextDirectoryInv DEF TreeInv, StepOK
<1>3. QED
    BY <1>1, <1>2 DEF TreeInv, StepOK

-----------------------------------------------------------------------------
\* Every request, page and socket takes the tables through the operations of
\* HubService and ChannelService, each whole: the system implements DirectorySpec.
THEOREM SystemImplementsDirectory == Spec => DirectorySpec
<1>1. Init => DirectoryInit
    BY DEF Init
<1>2. TreeInv /\ [Next]_vars => [DirectoryNext]_tables
    BY NextOK DEF StepOK
<1>3. QED
    BY <1>1, <1>2, InitTreeInv, NextTreeInv, PTL DEF Spec, DirectorySpec

\* No message of any page, in whatever order it arrives, breaks a type: what a page
\* joins is a channel's id, what it shows is a name.
THEOREM TreeTypeCorrect == Spec => []TypeOK
<1>1. TreeInv => TypeOK
    BY DEF TreeInv, DirectoryInv, PagesOK, RestOK, TypeOK, PageTree, HubNames, ChanNames
<1>2. QED
    BY <1>1, InitTreeInv, NextTreeInv, PTL DEF Spec

\* A channel outlives its hub only if an admin made it in a hub already deleted.
THEOREM NoOrphansEver == Spec => []NoOrphans
<1>1. TreeInv => NoOrphans
    BY DEF TreeInv, DirectoryInv
<1>2. QED
    BY <1>1, InitTreeInv, NextTreeInv, PTL DEF Spec

\* The creator of a channel is its only owner, through any number of departures,
\* invitations and returns.
THEOREM CreatorStaysOwner == Spec => []CreatorIsOwner
<1>1. TreeInv => CreatorIsOwner
    BY DEF TreeInv, DirectoryInv
<1>2. QED
    BY <1>1, InitTreeInv, NextTreeInv, PTL DEF Spec

-----------------------------------------------------------------------------
(***************************************************************************)
(* What the pages show.                                                    *)
(*                                                                         *)
(* The properties speak of Upcoming(c), what a page will show once all     *)
(* that is on its way has arrived.  A page that takes a message does not   *)
(* change it; the server changes it when it sends a message, by what the   *)
(* message does, and when it changes a row.  So the properties of Upcoming *)
(* are inductive once it is known of every message under way, and of the   *)
(* tree a lost socket leaves behind, that they name only what their user   *)
(* may know of, which is for ever.                                         *)
(***************************************************************************)
\* What c may know of: once he may, he always may.
KnowsHub(c, h) ==
    /\ hub[h] # None
    /\ c \in Admins \/ ~hub[h].restricted \/ InHub(c, h)
KnowsChannel(c, ch) ==
    /\ chan[ch] # None
    /\ \/ c \in Admins
       \/ role[ch][c] # "none"
       \/ /\ ~IsOrphan(ch)
          /\ \/ InHub(c, chan[ch].hub)
             \/ ~chan[ch].private /\ ~hub[chan[ch].hub].restricted

SafeTree(c, v) ==
    /\ \A h \in Hubs : v.hubs[h] # None => KnowsHub(c, h)
    /\ \A ch \in Channels : v.chans[ch] # None => KnowsChannel(c, ch)
SafeMessage(c, m) ==
    /\ m.t = "hub.list_result" => \A h \in Hubs : m.hubs[h] # None => KnowsHub(c, h)
    /\ m.t = "channel.list_result" => \A ch \in Channels : m.chans[ch] # None => KnowsChannel(c, ch)
    /\ m.t \in {"hub.created", "hub.updated"} => m.name # None /\ KnowsHub(c, m.id)
    /\ m.t \in {"channel.created", "channel.updated", "channel.added"} =>
          m.name # None /\ KnowsChannel(c, m.id)

SafeQueue(c, q) == \A i \in 1..Len(q) : SafeMessage(c, q[i])

\* Of the tables: a channel's hub has a row, and a member who has not left a role.
RowsLinked ==
    /\ \A ch \in Channels : chan[ch] # None => hub[chan[ch].hub] # None
    /\ \A ch \in Channels : \A u \in present[ch] : role[ch][u] # "none"

ClosedIsEmpty == \A c \in Users \ authed : toServer[c] = <<>> /\ toClient[c] = <<>>
NewcomersBlank == \A c \in Users \ (Unstable \cup authed) : tree[c] = NoTree
MissedIsThere == \A c \in Users, ch \in Channels : <<c, ch>> \in missed => chan[ch] # None

\* No request of c for the list is waiting.
HubsAsked(c) ==
    c \in authed /\ \A i \in 1..Len(toServer[c]) : toServer[c][i].t # "hub.list"
ChannelsAsked(c) ==
    c \in authed /\ \A i \in 1..Len(toServer[c]) : toServer[c][i].t # "channel.list"

HubRight(c, h) ==
    /\ HubIsListed(c, h) /\ <<c, h>> \notin missed => Upcoming(c).hubs[h] # None
    /\ Upcoming(c).hubs[h] # None => Exists(hub[h]) /\ Upcoming(c).hubs[h] = hub[h].name
ChannelShown(c, ch) ==
    Exists(chan[ch]) /\ Exists(hub[chan[ch].hub]) /\ CanAccessChannel(c, ch) =>
       Upcoming(c).chans[ch] # None
ChannelFresh(c, ch) ==
    Upcoming(c).chans[ch] # None /\ <<c, ch>> \notin missed =>
       Exists(chan[ch]) /\ Upcoming(c).chans[ch] = chan[ch].name
Outside(c, ch) ==
    \/ role[ch][c] # "none"
    \/ c \notin Admins /\ chan[ch].private /\ InHub(c, chan[ch].hub)
MissesRightly(c, ch) ==
    <<c, ch>> \in missed /\ Upcoming(c).chans[ch] # None => Outside(c, ch)

\* A page that began empty and keeps its socket is never out of date.
Steady(c) == c \in authed \ Unstable

Right(c) ==
    /\ HubsAsked(c) => \A h \in Hubs : HubRight(c, h)
    /\ ChannelsAsked(c) => \A ch \in Channels : ChannelShown(c, ch)
    /\ ChannelsAsked(c) \/ Steady(c) => \A ch \in Channels : ChannelFresh(c, ch)
    /\ \A ch \in Channels : MissesRightly(c, ch)

PageSound(c) == SafeTree(c, tree[c]) /\ SafeQueue(c, toClient[c]) /\ Right(c)

\* The inductive invariant.
PagesInv ==
    /\ TreeInv /\ RowsLinked /\ ClosedIsEmpty /\ NewcomersBlank /\ MissedIsThere
    /\ \A c \in Users : PageSound(c)

-----------------------------------------------------------------------------
(***************************************************************************)
(* Induction on the natural numbers, stated of a set.                      *)
(***************************************************************************)
LEMMA Least == \A T \in SUBSET Nat : T # {} => \E x \in T : \A y \in T : ~(y < x)
<1> DEFINE R == {s \in Nat \X Nat : s[1] < s[2]}
<1>1. IsWellFoundedOn(R, Nat)
  BY NatLessThanWellFounded DEF OpToRel
<1>2. \A x, y \in Nat : y < x => <<y, x>> \in R
  OBVIOUS
<1> HIDE DEF R
<1>3. SUFFICES ASSUME NEW T \in SUBSET Nat, T # {}
               PROVE  \E x \in T : \A y \in T : ~(y < x)
  OBVIOUS
<1>4. \E x \in T : \A y \in T : ~(<<y, x>> \in R)
  BY <1>1, <1>3, WFMin
<1> QED
  BY <1>2, <1>4

LEMMA NatSet == \A S \in SUBSET Nat : 0 \in S /\ (\A n \in S : n + 1 \in S) => S = Nat
<1> SUFFICES ASSUME NEW S \in SUBSET Nat, 0 \in S, \A n \in S : n + 1 \in S
             PROVE  S = Nat
  OBVIOUS
<1> DEFINE T == Nat \ S
<1>1. CASE T # {}
  <2>1. PICK x \in T : \A y \in T : ~(y < x)
    <3>1. T \in SUBSET Nat
      OBVIOUS
    <3> QED
      BY <1>1, <3>1, Least
  <2>2. x # 0 /\ x \in Nat
    OBVIOUS
  <2>3. x - 1 \in Nat /\ x - 1 < x /\ (x - 1) + 1 = x
    BY <2>2
  <2>4. x - 1 \in S
    BY <2>1, <2>3
  <2> QED
    BY <2>3, <2>4
<1> QED
  BY <1>1


-----------------------------------------------------------------------------
(***************************************************************************)
(* Shown, the tree after a queue: its recursive definition has a solution, *)
(* only one, and so Shown can be computed from either end of the queue.    *)
(***************************************************************************)
IsRun(rows, s, v, q) ==
    s = [i \in 0..Len(q) |-> IF i = 0 THEN v ELSE Applied(rows, s[i - 1], q[i])]

Follows(rows, s, v, q) ==
    s[0] = v /\ \A i \in 1..Len(q) : s[i] = Applied(rows, s[i - 1], q[i])

LEMMA RunExists ==
  ASSUME NEW q \in Seq(Messages), NEW v, NEW rows
  PROVE  \E s : IsRun(rows, s, v, q)
<1> DEFINE Run(s, n) == s = [i \in 0..n |-> IF i = 0 THEN v ELSE Applied(rows, s[i - 1], q[i])]
           S == {n \in Nat : \E s : Run(s, n)}
<1>1. 0 \in S
  <2> DEFINE s == [i \in 0..0 |-> v]
  <2>1. Run(s, 0)
    OBVIOUS
  <2> QED
    BY <2>1
<1>2. ASSUME NEW n \in S
      PROVE  n + 1 \in S
  <2>1. n \in Nat /\ \E s : Run(s, n)
    OBVIOUS
  <2>2. PICK s : Run(s, n)
    BY <2>1
  <2>3. \A i \in 0..n : s[i] = IF i = 0 THEN v ELSE Applied(rows, s[i - 1], q[i])
    BY <2>2
  <2> DEFINE t == [i \in 0..(n + 1) |-> IF i = n + 1 THEN Applied(rows, s[n], q[n + 1]) ELSE s[i]]
             u == [i \in 0..(n + 1) |-> IF i = 0 THEN v ELSE Applied(rows, t[i - 1], q[i])]
  <2>4. ASSUME NEW i \in 0..(n + 1)
        PROVE  t[i] = u[i]
    <3>1. CASE i = n + 1
      <4>1. t[i] = Applied(rows, s[n], q[n + 1])
        BY <3>1
      <4>2. t[n] = s[n] /\ i # 0 /\ i - 1 = n
        BY <2>1, <3>1
      <4> QED
        BY <3>1, <4>1, <4>2
    <3>2. CASE i # n + 1 /\ i # 0
      <4>1. i \in 0..n /\ i - 1 \in 0..(n + 1) /\ i - 1 # n + 1
        BY <2>1, <3>2
      <4>2. t[i] = s[i] /\ t[i - 1] = s[i - 1]
        BY <3>2, <4>1
      <4> QED
        BY <2>3, <3>2, <4>1, <4>2
    <3>3. CASE i = 0
      <4>1. 0 \in 0..n /\ 0 # n + 1
        BY <2>1
      <4>2. t[0] = s[0]
        BY <4>1
      <4> QED
        BY <2>3, <3>3, <4>1, <4>2
    <3> QED
      BY <3>1, <3>2, <3>3
  <2>5. t = u
    BY <2>4
  <2>6. Run(t, n + 1)
    BY <2>5
  <2> HIDE DEF t, u
  <2> QED
    BY <2>1, <2>6
<1>3. S = Nat
  <2> HIDE DEF S
  <2>1. S \in SUBSET Nat
    BY DEF S
  <2> QED
    BY <1>1, <1>2, <2>1, NatSet
<1>4. Len(q) \in S
  BY <1>3
<1> QED
  BY <1>4 DEF IsRun

LEMMA ShownRun ==
  ASSUME NEW q \in Seq(Messages), NEW v, NEW rows
  PROVE  \E s : Follows(rows, s, v, q) /\ Shown(rows, v, q) = s[Len(q)]
<1> DEFINE s == CHOOSE s : IsRun(rows, s, v, q)
<1>1. IsRun(rows, s, v, q)
  BY RunExists
<1>2. Shown(rows, v, q) = s[Len(q)]
  BY DEF Shown, IsRun
<1> HIDE DEF s
<1>3. \A i \in 0..Len(q) : s[i] = IF i = 0 THEN v ELSE Applied(rows, s[i - 1], q[i])
  BY <1>1 DEF IsRun
<1>4. Follows(rows, s, v, q)
  BY <1>3 DEF Follows
<1> QED
  BY <1>2, <1>4

LEMMA ShownUnique ==
  ASSUME NEW q \in Seq(Messages), NEW v, NEW rows, NEW s, Follows(rows, s, v, q)
  PROVE  Shown(rows, v, q) = s[Len(q)]
<1>1. PICK t : Follows(rows, t, v, q) /\ Shown(rows, v, q) = t[Len(q)]
  BY ShownRun
<1> DEFINE S == {n \in Nat : n <= Len(q) => s[n] = t[n]}
<1>2. 0 \in S
  BY <1>1 DEF Follows
<1>3. ASSUME NEW n \in S
      PROVE  n + 1 \in S
  <2>1. n \in Nat /\ (n <= Len(q) => s[n] = t[n])
    OBVIOUS
  <2>2. SUFFICES ASSUME n + 1 <= Len(q) PROVE s[n + 1] = t[n + 1]
    BY <2>1
  <2>3. n + 1 \in 1..Len(q) /\ (n + 1) - 1 = n /\ s[n] = t[n]
    BY <2>1, <2>2
  <2>4. s[n + 1] = Applied(rows, s[n], q[n + 1])
    BY <2>3 DEF Follows
  <2>5. t[n + 1] = Applied(rows, t[n], q[n + 1])
    BY <1>1, <2>3 DEF Follows
  <2> QED
    BY <2>3, <2>4, <2>5
<1>4. S = Nat
  <2> HIDE DEF S
  <2>1. S \in SUBSET Nat
    BY DEF S
  <2> QED
    BY <1>2, <1>3, <2>1, NatSet
<1>5. Len(q) \in S /\ Len(q) \in Nat
  BY <1>4
<1> QED
  BY <1>1, <1>5

LEMMA ShownEmpty ==
  ASSUME NEW v, NEW rows
  PROVE  Shown(rows, v, <<>>) = v
<1>1. <<>> \in Seq(Messages) /\ Len(<<>>) = 0
  OBVIOUS
<1>2. PICK s : Follows(rows, s, v, <<>>) /\ Shown(rows, v, <<>>) = s[Len(<<>>)]
  BY <1>1, ShownRun
<1> QED
  BY <1>1, <1>2 DEF Follows

LEMMA ShownAppend ==
  ASSUME NEW q \in Seq(Messages), NEW v, NEW rows, NEW m \in Messages
  PROVE  Shown(rows, v, Append(q, m)) = Applied(rows, Shown(rows, v, q), m)
<1> DEFINE p == Append(q, m)
<1>1. /\ p \in Seq(Messages) /\ Len(p) = Len(q) + 1 /\ Len(q) \in Nat
      /\ \A i \in 1..Len(q) : p[i] = q[i]
      /\ p[Len(q) + 1] = m
  OBVIOUS
<1> HIDE DEF p
<1>2. PICK s : Follows(rows, s, v, p) /\ Shown(rows, v, p) = s[Len(p)]
  BY <1>1, ShownRun
<1>3. Follows(rows, s, v, q)
  BY <1>1, <1>2 DEF Follows
<1>4. Shown(rows, v, q) = s[Len(q)]
  BY <1>3, ShownUnique
<1>5. Len(q) + 1 \in 1..Len(p) /\ (Len(q) + 1) - 1 = Len(q)
  BY <1>1
<1>6. s[Len(q) + 1] = Applied(rows, s[Len(q)], m)
  BY <1>1, <1>2, <1>5 DEF Follows
<1> QED
  BY <1>1, <1>2, <1>4, <1>6 DEF p

LEMMA ShownTail ==
  ASSUME NEW q \in Seq(Messages), NEW v, NEW rows, q # <<>>
  PROVE  Shown(rows, v, q) = Shown(rows, Applied(rows, v, Head(q)), Tail(q))
<1> DEFINE p == Tail(q)
<1>1. /\ p \in Seq(Messages) /\ Len(p) = Len(q) - 1 /\ Len(p) \in Nat
      /\ \A i \in 1..Len(p) : p[i] = q[i + 1]
      /\ Head(q) = q[1] /\ 1 \in 1..Len(q)
  OBVIOUS
<1> HIDE DEF p
<1>2. PICK s : Follows(rows, s, v, q) /\ Shown(rows, v, q) = s[Len(q)]
  BY ShownRun
<1> DEFINE t == [i \in 0..Len(p) |-> s[i + 1]]
<1>3. t[0] = Applied(rows, v, Head(q))
  BY <1>1, <1>2 DEF Follows
<1>4. ASSUME NEW i \in 1..Len(p)
      PROVE  t[i] = Applied(rows, t[i - 1], p[i])
  <2>1. i + 1 \in 1..Len(q) /\ (i + 1) - 1 = i /\ i \in 0..Len(p) /\ i - 1 \in 0..Len(p)
        /\ (i - 1) + 1 = i
    BY <1>1
  <2>2. s[i + 1] = Applied(rows, s[i], q[i + 1])
    BY <1>2, <2>1 DEF Follows
  <2>3. t[i] = s[i + 1] /\ t[i - 1] = s[i]
    BY <2>1
  <2> QED
    BY <1>1, <2>2, <2>3
<1>5. t[Len(p)] = s[Len(q)]
  BY <1>1
<1> HIDE DEF t
<1>6. Follows(rows, t, Applied(rows, v, Head(q)), p)
  BY <1>3, <1>4 DEF Follows
<1>7. Shown(rows, Applied(rows, v, Head(q)), p) = t[Len(p)]
  BY <1>1, <1>6, ShownUnique
<1> QED
  BY <1>2, <1>5, <1>7 DEF p

-----------------------------------------------------------------------------
(***************************************************************************)
(* What a message does to one hub and to one channel of a tree.            *)
(***************************************************************************)
HubAfter(v, m, h) ==
    IF m.t = "hub.list_result" THEN m.hubs[h]
    ELSE IF m.t = "hub.deleted" /\ m.id = h THEN None
    ELSE IF \/ m.t = "hub.created" /\ m.id = h /\ v.hubs[h] = None
            \/ m.t = "hub.updated" /\ m.id = h /\ v.hubs[h] # None
         THEN m.name
    ELSE v.hubs[h]

ChanAfter(rows, v, m, ch) ==
    IF m.t = "channel.list_result" THEN m.chans[ch]
    ELSE IF \/ m.t = "channel.deleted" /\ m.id = ch
            \/ m.t = "hub.deleted" /\ rows[ch] # None /\ rows[ch].hub = m.id
         THEN None
    ELSE IF \/ m.t \in {"channel.created", "channel.added"} /\ m.id = ch /\ v.chans[ch] = None
            \/ m.t = "channel.updated" /\ m.id = ch /\ v.chans[ch] # None
         THEN m.name
    ELSE v.chans[ch]

IsAfter(rows, w, v, m) ==
    /\ \A h \in Hubs : w.hubs[h] = HubAfter(v, m, h)
    /\ \A ch \in Channels : w.chans[ch] = ChanAfter(rows, v, m, ch)

LEMMA AppliedIs ==
  ASSUME NEW rows, NEW v \in PageTree, NEW m \in Messages
  PROVE  IsAfter(rows, Applied(rows, v, m), v, m)
<1> DEFINE w == Applied(rows, v, m)
<1>1. v.hubs \in HubNames /\ v.chans \in ChanNames
      /\ v = [hubs |-> v.hubs, chans |-> v.chans]
  BY DEF PageTree
<1>2. CASE m.t = "hub.list_result"
  <2>1. w = [hubs |-> m.hubs, chans |-> v.chans]
    BY <1>1, <1>2 DEF Applied
  <2> HIDE DEF w
  <2> QED
    BY <1>2, <2>1 DEF IsAfter, HubAfter, ChanAfter, w
<1>3. CASE m.t = "channel.list_result"
  <2>1. w = [hubs |-> v.hubs, chans |-> m.chans]
    BY <1>1, <1>3 DEF Applied
  <2> HIDE DEF w
  <2> QED
    BY <1>3, <2>1 DEF IsAfter, HubAfter, ChanAfter, w
<1>4. CASE m.t \in {"hub.created", "hub.updated"}
  <2>1. m.id \in Hubs
    BY <1>4 DEF Messages, Events, HubEvents, ChanEvents
  <2>2. CASE (m.t = "hub.created" /\ v.hubs[m.id] = None) \/ (m.t = "hub.updated" /\ v.hubs[m.id] # None)
    <3>1. w = [hubs |-> [v.hubs EXCEPT ![m.id] = m.name], chans |-> v.chans]
      BY <1>1, <2>1, <2>2 DEF Applied
    <3> HIDE DEF w
    <3>2. \A h \in Hubs : w.hubs[h] = HubAfter(v, m, h)
      BY <1>1, <1>4, <2>1, <2>2, <3>1 DEF HubAfter, HubNames
    <3>3. \A ch \in Channels : w.chans[ch] = ChanAfter(rows, v, m, ch)
      BY <1>4, <2>2, <3>1 DEF ChanAfter
    <3> QED
      BY <3>2, <3>3 DEF IsAfter, w
  <2>3. CASE ~((m.t = "hub.created" /\ v.hubs[m.id] = None) \/ (m.t = "hub.updated" /\ v.hubs[m.id] # None))
    <3>1. w = v
      BY <1>4, <2>3 DEF Applied
    <3> HIDE DEF w
    <3>2. \A h \in Hubs : w.hubs[h] = HubAfter(v, m, h)
      BY <1>4, <2>3, <3>1 DEF HubAfter
    <3>3. \A ch \in Channels : w.chans[ch] = ChanAfter(rows, v, m, ch)
      BY <1>4, <3>1 DEF ChanAfter
    <3> QED
      BY <3>2, <3>3 DEF IsAfter, w
  <2> QED
    BY <2>2, <2>3
<1>5. CASE m.t = "hub.deleted"
  <2>1. m.id \in Hubs
    BY <1>5 DEF Messages, Events, HubEvents, ChanEvents
  <2>2. w = [hubs  |-> [v.hubs EXCEPT ![m.id] = None],
             chans |-> [ch \in Channels |-> IF rows[ch] # None /\ rows[ch].hub = m.id
                                            THEN None ELSE v.chans[ch]]]
    BY <1>5 DEF Applied
  <2> HIDE DEF w
  <2>3. \A h \in Hubs : w.hubs[h] = HubAfter(v, m, h)
    BY <1>1, <1>5, <2>1, <2>2 DEF HubAfter, HubNames
  <2>4. \A ch \in Channels : w.chans[ch] = ChanAfter(rows, v, m, ch)
    BY <1>1, <1>5, <2>1, <2>2 DEF ChanAfter
  <2> QED
    BY <2>3, <2>4 DEF IsAfter, w
<1>6. CASE m.t \in {"channel.created", "channel.added", "channel.updated", "channel.deleted"}
  <2>1. m.id \in Channels
    BY <1>6 DEF Messages, Events, HubEvents, ChanEvents
  <2> DEFINE n == IF m.t = "channel.deleted" THEN None ELSE m.name
             acts == \/ m.t \in {"channel.created", "channel.added"} /\ v.chans[m.id] = None
                     \/ m.t = "channel.updated" /\ v.chans[m.id] # None
                     \/ m.t = "channel.deleted"
  <2>2. CASE acts
    <3>1. w = [hubs |-> v.hubs, chans |-> [v.chans EXCEPT ![m.id] = n]]
      BY <1>1, <1>6, <2>1, <2>2 DEF Applied
    <3> HIDE DEF w
    <3>2. \A h \in Hubs : w.hubs[h] = HubAfter(v, m, h)
      BY <1>6, <3>1 DEF HubAfter
    <3>3. \A ch \in Channels : w.chans[ch] = ChanAfter(rows, v, m, ch)
      BY <1>1, <1>6, <2>1, <2>2, <3>1 DEF ChanAfter, ChanNames
    <3> QED
      BY <3>2, <3>3 DEF IsAfter, w
  <2>3. CASE ~acts
    <3>1. w = v
      BY <1>6, <2>3 DEF Applied
    <3> HIDE DEF w
    <3>2. \A h \in Hubs : w.hubs[h] = HubAfter(v, m, h)
      BY <1>6, <3>1 DEF HubAfter
    <3>3. \A ch \in Channels : w.chans[ch] = ChanAfter(rows, v, m, ch)
      BY <1>6, <2>3, <3>1 DEF ChanAfter
    <3> QED
      BY <3>2, <3>3 DEF IsAfter, w
  <2> QED
    BY <2>2, <2>3
<1>7. CASE m.t = "error"
  <2>1. w = v
    BY <1>7 DEF Applied
  <2> HIDE DEF w
  <2> QED
    BY <1>7, <2>1 DEF IsAfter, HubAfter, ChanAfter, w
<1>8. m.t \in {"hub.list_result", "channel.list_result", "hub.created", "hub.updated", "hub.deleted",
               "channel.created", "channel.added", "channel.updated", "channel.deleted", "error"}
  BY DEF Messages, Events, HubEvents, ChanEvents
<1> QED
  BY <1>2, <1>3, <1>4, <1>5, <1>6, <1>7, <1>8

\* A tree is what it shows of each hub and of each channel.
LEMMA SameTree ==
  ASSUME NEW v \in PageTree, NEW w \in PageTree,
         \A h \in Hubs : w.hubs[h] = v.hubs[h],
         \A ch \in Channels : w.chans[ch] = v.chans[ch]
  PROVE  w = v
<1>1. w.hubs = v.hubs /\ w.chans = v.chans
  BY DEF PageTree, HubNames, ChanNames
<1> QED
  BY <1>1 DEF PageTree

LEMMA SameAnswer ==
  ASSUME NEW m \in Events
  PROVE  /\ m \in Messages /\ Answer(m) \in Messages
         /\ Answer(m).t = m.t /\ Answer(m).id = m.id /\ Answer(m).name = m.name
         /\ m.t \notin {"hub.list_result", "channel.list_result", "error"}
  BY DEF Messages, Events, HubEvents, ChanEvents, Answer

\* The answer to a request does to the tree what the event of it does.
LEMMA AppliedAnswer ==
  ASSUME NEW rows, NEW v \in PageTree, NEW m \in Events
  PROVE  IsAfter(rows, Applied(rows, v, Answer(m)), v, m)
<1>1. IsAfter(rows, Applied(rows, v, Answer(m)), v, Answer(m))
  BY SameAnswer, AppliedIs
<1> HIDE DEF Answer
<1> QED
  BY <1>1, SameAnswer DEF IsAfter, HubAfter, ChanAfter

-----------------------------------------------------------------------------
(***************************************************************************)
(* A tree that names only what its user may know of keeps to that when it  *)
(* takes messages that do.  The rows of channels matter for those only, so *)
(* the tree to come does not change when rows are added and none moves to  *)
(* another hub.                                                            *)
(***************************************************************************)
KeepsHubs(rows) ==
    \A ch \in Channels : chan[ch] # None => rows[ch] # None /\ rows[ch].hub = chan[ch].hub

LEMMA SafeAfter ==
  ASSUME NEW rows, NEW c \in Users, NEW v \in PageTree, SafeTree(c, v),
         NEW m \in Messages, SafeMessage(c, m)
  PROVE  SafeTree(c, Applied(rows, v, m))
<1> DEFINE w == Applied(rows, v, m)
<1>1. IsAfter(rows, w, v, m)
  BY AppliedIs
<1> HIDE DEF w
<1>2. ASSUME NEW h \in Hubs, w.hubs[h] # None
      PROVE  KnowsHub(c, h)
  <2>1. HubAfter(v, m, h) # None
    BY <1>1, <1>2 DEF IsAfter
  <2>2. \/ v.hubs[h] # None
        \/ m.t = "hub.list_result" /\ m.hubs[h] # None
        \/ m.t \in {"hub.created", "hub.updated"} /\ m.id = h
    BY <2>1 DEF HubAfter
  <2> QED
    BY <2>2 DEF SafeTree, SafeMessage
<1>3. ASSUME NEW ch \in Channels, w.chans[ch] # None
      PROVE  KnowsChannel(c, ch)
  <2>1. ChanAfter(rows, v, m, ch) # None
    BY <1>1, <1>3 DEF IsAfter
  <2>2. \/ v.chans[ch] # None
        \/ m.t = "channel.list_result" /\ m.chans[ch] # None
        \/ m.t \in {"channel.created", "channel.updated", "channel.added"} /\ m.id = ch
    BY <2>1 DEF ChanAfter
  <2> QED
    BY <2>2 DEF SafeTree, SafeMessage
<1> QED
  BY <1>2, <1>3 DEF SafeTree, w

LEMMA AppliedSame ==
  ASSUME NEW rows, KeepsHubs(rows), NEW c \in Users, NEW v \in PageTree, SafeTree(c, v),
         NEW m \in Messages
  PROVE  Applied(rows, v, m) = Applied(chan, v, m)
<1> DEFINE w == Applied(rows, v, m)
           x == Applied(chan, v, m)
<1>1. IsAfter(rows, w, v, m) /\ IsAfter(chan, x, v, m) /\ w \in PageTree /\ x \in PageTree
  BY AppliedIs, AppliedOK
<1> HIDE DEF w, x
<1>2. \A h \in Hubs : w.hubs[h] = x.hubs[h]
  BY <1>1 DEF IsAfter
<1>3. ASSUME NEW ch \in Channels
      PROVE  ChanAfter(rows, v, m, ch) = ChanAfter(chan, v, m, ch)
  <2>1. chan[ch] = None => v.chans[ch] = None
    BY DEF SafeTree, KnowsChannel
  <2>2. chan[ch] # None => rows[ch] # None /\ rows[ch].hub = chan[ch].hub
    BY DEF KeepsHubs
  <2>3. m.t = "hub.deleted" => m.t \notin {"channel.created", "channel.updated", "channel.deleted",
                                           "channel.added", "channel.list_result"}
    OBVIOUS
  <2> QED
    BY <2>1, <2>2, <2>3 DEF ChanAfter
<1>4. \A ch \in Channels : w.chans[ch] = x.chans[ch]
  BY <1>1, <1>3 DEF IsAfter
<1>5. w = x
  BY <1>1, <1>2, <1>4, SameTree
<1> QED
  BY <1>5 DEF w, x

SafeTreeOf(c, v) == v \in PageTree /\ SafeTree(c, v)

LEMMA ShownSafe ==
  ASSUME NEW rows, KeepsHubs(rows), NEW c \in Users, NEW v, SafeTreeOf(c, v),
         NEW q \in Seq(Messages), SafeQueue(c, q)
  PROVE  SafeTreeOf(c, Shown(chan, v, q)) /\ Shown(rows, v, q) = Shown(chan, v, q)
<1>1. PICK s : Follows(chan, s, v, q) /\ Shown(chan, v, q) = s[Len(q)]
  BY ShownRun
<1>2. \A i \in 1..Len(q) : q[i] \in Messages /\ SafeMessage(c, q[i])
  BY DEF SafeQueue
<1> DEFINE S == {n \in Nat : n <= Len(q) => SafeTreeOf(c, s[n])}
<1>3. 0 \in S
  BY <1>1 DEF Follows
<1>4. ASSUME NEW n \in S
      PROVE  n + 1 \in S
  <2>1. n \in Nat /\ (n <= Len(q) => SafeTreeOf(c, s[n]))
    OBVIOUS
  <2>2. SUFFICES ASSUME n + 1 <= Len(q) PROVE SafeTreeOf(c, s[n + 1])
    BY <2>1
  <2>3. n + 1 \in 1..Len(q) /\ (n + 1) - 1 = n /\ SafeTreeOf(c, s[n])
    BY <2>1, <2>2
  <2>4. s[n + 1] = Applied(chan, s[n], q[n + 1])
    BY <1>1, <2>3 DEF Follows
  <2> DEFINE u == s[n]
             m == q[n + 1]
  <2>5. u \in PageTree /\ SafeTree(c, u) /\ m \in Messages /\ SafeMessage(c, m)
    BY <1>2, <2>3 DEF SafeTreeOf
  <2> HIDE DEF u, m, S
  <2>6. SafeTreeOf(c, Applied(chan, u, m))
    BY <2>5, SafeAfter, AppliedOK DEF SafeTreeOf
  <2> QED
    BY <2>4, <2>6 DEF u, m
<1>5. S = Nat
  <2> HIDE DEF S
  <2>1. S \in SUBSET Nat
    BY DEF S
  <2> QED
    BY <1>3, <1>4, <2>1, NatSet
<1>6. \A n \in 0..Len(q) : SafeTreeOf(c, s[n])
  BY <1>5
<1>7. SafeTreeOf(c, s[Len(q)])
  BY <1>6
<1>8. ASSUME NEW i \in 1..Len(q)
      PROVE  Applied(rows, s[i - 1], q[i]) = Applied(chan, s[i - 1], q[i])
  <2>1. i - 1 \in 0..Len(q)
    OBVIOUS
  <2>2. SafeTreeOf(c, s[i - 1]) /\ q[i] \in Messages
    BY <1>2, <1>6, <2>1
  <2> QED
    BY <2>2, AppliedSame DEF SafeTreeOf
<1>9. Follows(rows, s, v, q)
  BY <1>1, <1>8 DEF Follows
<1>10. Shown(rows, v, q) = s[Len(q)]
  BY <1>9, ShownUnique
<1> QED
  BY <1>1, <1>7, <1>10

-----------------------------------------------------------------------------
(***************************************************************************)
(* What the services keep of the tables.  A hub's row keeps its creator    *)
(* and whether it is restricted, a channel's row its hub and whether it is *)
(* private, a user his role, and nothing deleted returns: what a user may  *)
(* know of, he may know of for ever.                                       *)
(***************************************************************************)
HubsKept == \A h \in Hubs : hub[h] # None =>
    /\ hub'[h] # None
    /\ hub'[h].restricted = hub[h].restricted
    /\ hub'[h].creator = hub[h].creator
    /\ hub'[h].live => hub[h].live
ChansKept == \A ch \in Channels : chan[ch] # None =>
    /\ chan'[ch] # None
    /\ chan'[ch].hub = chan[ch].hub
    /\ chan'[ch].private = chan[ch].private
    /\ chan'[ch].live => chan[ch].live
RolesKept == \A ch \in Channels, u \in Users : role[ch][u] # "none" => role'[ch][u] # "none"
NoNewOrphans ==
    \A ch \in Channels : chan[ch] # None /\ ~IsOrphan(ch) => ~IsOrphan(ch)'
RowsKept == HubsKept /\ ChansKept /\ RolesKept /\ NoNewOrphans

LEMMA RowsInserted ==
  ASSUME DirectoryTypeOK, RowsLinked, NEW u \in Users, NEW ch \in Channels, NEW h \in Hubs,
         NEW name \in Names, NEW private \in BOOLEAN,
         InsertChannel(u, ch, h, name, private), HubsKept, hub'[h] # None,
         \A g \in Hubs : hub[g] # None => hub'[g] = hub[g]
  PROVE  RowsKept /\ RowsLinked'
<1> DEFINE row == [hub |-> h, name |-> name, private |-> private, creator |-> u, live |-> TRUE]
<1>1. /\ chan[ch] = None /\ chan'[ch] = row /\ row.hub = h /\ row # None
      /\ \A d \in Channels : d # ch => chan'[d] = chan[d]
      /\ \A d \in Channels : chan[d] # None => chan'[d] = chan[d] /\ chan[d].hub \in Hubs
  <2>1. row \in ChannelRow
    BY DEF ChannelRow
  <2>2. row # None /\ row.hub = h
    BY <2>1, DirectoryAssumption
  <2>3. \A d \in Channels : chan[d] # None => chan[d].hub \in Hubs
    BY DEF DirectoryTypeOK, ChannelRow
  <2> QED
    BY <2>2, <2>3 DEF InsertChannel, DirectoryTypeOK
<1> HIDE DEF row
<1>2. ChansKept
  BY <1>1 DEF ChansKept
<1>3. role'[ch][u] = "owner" /\ \A d \in Channels, v \in Users : d # ch \/ v # u => role'[d][v] = role[d][v]
  BY DEF InsertChannel, DirectoryTypeOK
<1>4. RolesKept
  BY <1>3 DEF RolesKept
<1>5. NoNewOrphans
  BY <1>1 DEF NoNewOrphans, IsOrphan, Exists, RowsLinked
<1>6. present'[ch] = {u} /\ \A d \in Channels : d # ch => present'[d] = present[d]
  BY DEF InsertChannel, DirectoryTypeOK
<1>7. \A d \in Channels : chan'[d] # None => hub'[chan'[d].hub] # None
  BY <1>1 DEF RowsLinked
<1>8. ASSUME NEW d \in Channels, NEW v \in Users, v \in present'[d]
      PROVE  role'[d][v] # "none"
  <2>1. CASE d = ch
    BY <1>3, <1>6, <1>8, <2>1
  <2>2. CASE d # ch
    BY <1>3, <1>6, <1>8, <2>2 DEF RowsLinked
  <2> QED
    BY <2>1, <2>2
<1>9. \A d \in Channels : \A v \in present'[d] : v \in Users
  BY <1>6 DEF DirectoryTypeOK
<1> QED
  BY <1>2, <1>4, <1>5, <1>7, <1>8, <1>9 DEF RowsKept, RowsLinked

LEMMA RowsEnrolled ==
  ASSUME DirectoryTypeOK, RowsLinked, NEW u \in Users, NEW ch \in Channels, Enrol(u, ch)
  PROVE  RowsKept /\ RowsLinked'
<1>1. HubsKept /\ ChansKept /\ NoNewOrphans
  BY DEF Enrol, HubsKept, ChansKept, NoNewOrphans, IsOrphan
<1>2. /\ role'[ch][u] # "none"
      /\ \A d \in Channels, v \in Users : d # ch \/ v # u => role'[d][v] = role[d][v]
  BY DEF Enrol, DirectoryTypeOK
<1>3. RolesKept
  BY <1>2 DEF RolesKept
<1>4. /\ present'[ch] = present[ch] \cup {u} /\ \A d \in Channels : d # ch => present'[d] = present[d]
      /\ \A d \in Channels : present[d] \subseteq Users
  BY DEF Enrol, DirectoryTypeOK
<1>5. ASSUME NEW d \in Channels, NEW v \in present'[d]
      PROVE  role'[d][v] # "none"
  <2>1. v \in Users /\ (v \in present[d] \/ (d = ch /\ v = u))
    BY <1>4
  <2> QED
    BY <1>2, <2>1 DEF RowsLinked
<1> QED
  BY <1>1, <1>3, <1>5 DEF RowsKept, RowsLinked, Enrol

LEMMA TablesKept ==
  ASSUME DirectoryTypeOK, RowsLinked, [DirectoryNext]_tables
  PROVE  RowsKept /\ RowsLinked'
<1>1. CASE UNCHANGED tables
  BY <1>1 DEF tables, RowsKept, HubsKept, ChansKept, RolesKept, NoNewOrphans, IsOrphan, RowsLinked
<1>2. ASSUME NEW u \in Users, NEW h \in Hubs, NEW name \in Names,
             UpdateHub(u, h, name) \/ \E b \in BOOLEAN : CreateHub(u, h, name, b)
      PROVE  RowsKept /\ RowsLinked'
  <2>1. \A g \in Hubs : g # h => hub'[g] = hub[g]
    BY <1>2 DEF UpdateHub, CreateHub, DirectoryTypeOK
  <2>2. hub'[h] # None /\ (hub[h] # None => /\ hub'[h].restricted = hub[h].restricted
                                            /\ hub'[h].creator = hub[h].creator
                                            /\ hub'[h].live = hub[h].live)
    <3>1. CASE UpdateHub(u, h, name)
      <4>1. hub[h] \in HubRow /\ hub'[h] = [hub[h] EXCEPT !.name = name]
        BY <3>1 DEF UpdateHub, MayChangeHub, Exists, DirectoryTypeOK
      <4>2. hub'[h] \in HubRow
        BY <4>1 DEF HubRow
      <4> QED
        BY <4>1, <4>2, DirectoryAssumption DEF HubRow
    <3>2. CASE \E b \in BOOLEAN : CreateHub(u, h, name, b)
      <4>1. hub[h] = None /\ hub'[h] \in HubRow
        BY <3>2 DEF CreateHub, DirectoryTypeOK, HubRow
      <4> QED
        BY <4>1, DirectoryAssumption
    <3> QED
      BY <1>2, <3>1, <3>2
  <2>3. UNCHANGED <<chan, role, present>>
    BY <1>2 DEF UpdateHub, CreateHub
  <2>4. \A ch \in Channels : chan[ch] # None => chan[ch].hub \in Hubs
    BY DEF DirectoryTypeOK, ChannelRow
  <2>5. HubsKept
    BY <2>1, <2>2 DEF HubsKept
  <2>6. \A g \in Hubs : hub[g] # None /\ hub[g].live => hub'[g] # None /\ hub'[g].live
    BY <2>1, <2>2
  <2>7. ChansKept /\ RolesKept
    BY <2>3 DEF ChansKept, RolesKept
  <2>8. NoNewOrphans
    BY <2>3, <2>4, <2>6 DEF NoNewOrphans, IsOrphan, Exists
  <2>9. RowsLinked'
    BY <2>3, <2>4, <2>5 DEF RowsLinked, HubsKept
  <2> QED
    BY <2>5, <2>7, <2>8, <2>9 DEF RowsKept
<1>3. ASSUME NEW u \in Users, NEW h \in Hubs, DeleteHub(u, h)
      PROVE  RowsKept /\ RowsLinked'
  <2>1. hub[h] \in HubRow /\ hub[h] # None /\ hub'[h] = [hub[h] EXCEPT !.live = FALSE]
        /\ \A g \in Hubs : g # h => hub'[g] = hub[g]
    BY <1>3, DirectoryAssumption DEF DeleteHub, MayChangeHub, Exists, DirectoryTypeOK
  <2>2. /\ hub'[h] # None /\ hub'[h].restricted = hub[h].restricted
        /\ hub'[h].creator = hub[h].creator /\ hub'[h].live = FALSE
    <3>1. hub'[h] \in HubRow
      BY <2>1 DEF HubRow
    <3> QED
      BY <2>1, <3>1, DirectoryAssumption DEF HubRow
  <2>3. \A ch \in Channels : chan'[ch] = IF ch \in ChannelsOf(h)
                                         THEN [chan[ch] EXCEPT !.live = FALSE] ELSE chan[ch]
    BY <1>3 DEF DeleteHub
  <2>4. ASSUME NEW ch \in Channels, chan[ch] # None
        PROVE  /\ chan'[ch] # None /\ chan'[ch].hub = chan[ch].hub /\ chan[ch].hub \in Hubs
               /\ chan'[ch].private = chan[ch].private
               /\ chan'[ch].live => chan[ch].live /\ chan[ch].hub # h
    <3>1. chan[ch] \in ChannelRow
      BY <2>4 DEF DirectoryTypeOK
    <3>2. CASE ch \in ChannelsOf(h)
      <4>1. chan'[ch] = [chan[ch] EXCEPT !.live = FALSE]
        BY <2>3, <3>2
      <4>2. chan'[ch] \in ChannelRow
        BY <3>1, <4>1 DEF ChannelRow
      <4> QED
        BY <3>1, <4>1, <4>2, DirectoryAssumption DEF ChannelRow
    <3>3. CASE ch \notin ChannelsOf(h)
      BY <2>3, <2>4, <3>1, <3>3 DEF ChannelsOf, Exists, ChannelRow
    <3> QED
      BY <3>2, <3>3
  <2>5. UNCHANGED <<role, present>>
    BY <1>3 DEF DeleteHub
  <2>6. HubsKept /\ ChansKept /\ RolesKept
    BY <2>1, <2>2, <2>4, <2>5 DEF HubsKept, ChansKept, RolesKept
  <2>7. NoNewOrphans
    BY <2>1, <2>4 DEF NoNewOrphans, IsOrphan, Exists
  <2>8. \A ch \in Channels : chan'[ch] # None => chan[ch] # None
    BY <2>3 DEF ChannelsOf, Exists
  <2>9. RowsLinked'
    BY <2>4, <2>5, <2>6, <2>8 DEF RowsLinked, HubsKept
  <2> QED
    BY <2>6, <2>7, <2>9 DEF RowsKept
<1>4. ASSUME NEW u \in Users, NEW ch \in Channels,
             DeleteChannel(u, ch) \/ \E name \in Names : UpdateChannel(u, ch, name)
      PROVE  RowsKept /\ RowsLinked'
  <2>1. chan[ch] \in ChannelRow /\ chan[ch] # None
    BY <1>4, DirectoryAssumption DEF DeleteChannel, UpdateChannel, MayChangeChannel, Exists, DirectoryTypeOK
  <2>2. /\ chan'[ch] # None /\ chan'[ch].hub = chan[ch].hub
        /\ chan'[ch].private = chan[ch].private /\ (chan'[ch].live => chan[ch].live)
    <3>1. CASE DeleteChannel(u, ch)
      <4>1. chan'[ch] = [chan[ch] EXCEPT !.live = FALSE]
        BY <3>1 DEF DeleteChannel, DirectoryTypeOK
      <4>2. chan'[ch] \in ChannelRow
        BY <2>1, <4>1 DEF ChannelRow
      <4> QED
        BY <2>1, <4>1, <4>2, DirectoryAssumption DEF ChannelRow
    <3>2. ASSUME NEW name \in Names, UpdateChannel(u, ch, name)
          PROVE  /\ chan'[ch] # None /\ chan'[ch].hub = chan[ch].hub
                 /\ chan'[ch].private = chan[ch].private /\ (chan'[ch].live => chan[ch].live)
      <4>1. chan'[ch] = [chan[ch] EXCEPT !.name = name]
        BY <3>2 DEF UpdateChannel, DirectoryTypeOK
      <4>2. chan'[ch] \in ChannelRow
        BY <2>1, <4>1 DEF ChannelRow
      <4> QED
        BY <2>1, <4>1, <4>2, DirectoryAssumption DEF ChannelRow
    <3> QED
      BY <1>4, <3>1, <3>2
  <2>3. \A d \in Channels : d # ch => chan'[d] = chan[d]
    BY <1>4 DEF DeleteChannel, UpdateChannel, DirectoryTypeOK
  <2>4. UNCHANGED <<hub, role, present>>
    BY <1>4 DEF DeleteChannel, UpdateChannel
  <2>5. HubsKept /\ ChansKept /\ RolesKept
    BY <2>2, <2>3, <2>4 DEF HubsKept, ChansKept, RolesKept
  <2>6. NoNewOrphans
    BY <2>2, <2>3, <2>4 DEF NoNewOrphans, IsOrphan, Exists
  <2>7. RowsLinked'
    BY <2>1, <2>2, <2>3, <2>4 DEF RowsLinked
  <2> QED
    BY <2>5, <2>6, <2>7 DEF RowsKept
<1>5. ASSUME NEW u \in Users, NEW h \in Hubs, NEW ch \in Channels, NEW name \in Names,
             \E b \in BOOLEAN : CreateChannel(u, ch, h, name, b)
      PROVE  RowsKept /\ RowsLinked'
  <2>1. PICK b \in BOOLEAN : CreateChannel(u, ch, h, name, b)
    BY <1>5
  <2>2. hub' = hub /\ hub[h] # None /\ InsertChannel(u, ch, h, name, b)
    BY <2>1 DEF CreateChannel
  <2>3. HubsKept
    BY <2>2 DEF HubsKept
  <2> QED
    BY <2>2, <2>3, RowsInserted
<1>6. ASSUME NEW u \in Users, NEW h \in Hubs, NEW ch \in Channels, CreateDefaultChannel(u, ch, h)
      PROVE  RowsKept /\ RowsLinked'
  <2>1. InsertChannel(u, ch, h, DefaultName, FALSE) /\ DefaultName \in Names
    BY <1>6, DirectoryAssumption DEF CreateDefaultChannel
  <2>2. CASE UNCHANGED hub /\ h \in DefaultHubs
    <3>1. hub' = hub /\ hub[h] # None
      BY <2>2 DEF DefaultHubs, Exists
    <3>2. HubsKept
      BY <3>1 DEF HubsKept
    <3> QED
      BY <2>1, <3>1, <3>2, RowsInserted
  <2>3. CASE hub[h] = None /\ hub' = [hub EXCEPT ![h] = [name |-> DefaultName, restricted |-> FALSE,
                                                         creator |-> u, live |-> TRUE]]
    <3>1. hub'[h] \in HubRow
      BY <2>1, <2>3 DEF HubRow, DirectoryTypeOK
    <3>2. hub'[h] # None
      BY <3>1, DirectoryAssumption
    <3>3. \A g \in Hubs : hub[g] # None => hub'[g] = hub[g]
      BY <2>3 DEF DirectoryTypeOK
    <3>4. HubsKept
      BY <3>3 DEF HubsKept
    <3> QED
      BY <2>1, <3>2, <3>3, <3>4, RowsInserted
  <2> QED
    BY <1>6, <2>2, <2>3 DEF CreateDefaultChannel
<1>7. ASSUME NEW u \in Users, NEW ch \in Channels, LeaveChannel(u, ch)
      PROVE  RowsKept /\ RowsLinked'
  <2>1. \A d \in Channels : present'[d] \subseteq present[d]
    BY <1>7 DEF LeaveChannel, DirectoryTypeOK
  <2>2. UNCHANGED <<hub, chan, role>>
    BY <1>7 DEF LeaveChannel
  <2>3. RowsKept
    BY <2>2 DEF RowsKept, HubsKept, ChansKept, RolesKept, NoNewOrphans, IsOrphan
  <2> QED
    BY <2>1, <2>2, <2>3 DEF RowsLinked
<1>8. ASSUME NEW u \in Users, NEW ch \in Channels,
             JoinChannel(u, ch) \/ \E target \in Users : AddMember(u, ch, target)
      PROVE  RowsKept /\ RowsLinked'
  BY <1>1, <1>8, RowsEnrolled DEF JoinChannel, AddMember
<1>9. CASE DirectoryNext
  BY <1>2, <1>3, <1>4, <1>5, <1>6, <1>7, <1>8, <1>9 DEF DirectoryNext
<1> QED
  BY <1>1, <1>9

-----------------------------------------------------------------------------
(***************************************************************************)
(* What a step does to one page: nothing, one more message is on its way   *)
(* to it, it takes one, or its queue is lost.                              *)
(***************************************************************************)
SafePage(c) == SafeTree(c, tree[c]) /\ SafeQueue(c, toClient[c])

KnowledgeKept(c) ==
    /\ \A h \in Hubs : KnowsHub(c, h) => KnowsHub(c, h)'
    /\ \A ch \in Channels : KnowsChannel(c, ch) => KnowsChannel(c, ch)'

LEMMA KnowledgeLasts ==
  ASSUME DirectoryTypeOK, RowsLinked, RowsKept, NEW c \in Users
  PROVE  KnowledgeKept(c)
<1>1. \A h \in Hubs : KnowsHub(c, h) => KnowsHub(c, h)'
  BY DEF KnowsHub, InHub, RowsKept, HubsKept
<1>2. ASSUME NEW ch \in Channels, KnowsChannel(c, ch)
      PROVE  KnowsChannel(c, ch)'
  <2>1. chan[ch] # None /\ chan[ch].hub \in Hubs
    BY <1>2 DEF KnowsChannel, DirectoryTypeOK, ChannelRow
  <2>2. hub[chan[ch].hub] # None
    BY <2>1 DEF RowsLinked
  <2>3. /\ chan'[ch] # None /\ chan'[ch].hub = chan[ch].hub /\ chan'[ch].private = chan[ch].private
        /\ hub'[chan[ch].hub].restricted = hub[chan[ch].hub].restricted
        /\ hub'[chan[ch].hub].creator = hub[chan[ch].hub].creator
        /\ role[ch][c] # "none" => role'[ch][c] # "none"
        /\ ~IsOrphan(ch) => ~IsOrphan(ch)'
    BY <2>1, <2>2 DEF RowsKept, HubsKept, ChansKept, RolesKept, NoNewOrphans
  <2> QED
    BY <1>2, <2>1, <2>3 DEF KnowsChannel, InHub
<1> QED
  BY <1>1, <1>2 DEF KnowledgeKept

\* The tree to come names only what its user may know of, whatever rows are added.
LEMMA UpcomingSafe ==
  ASSUME TreeInv, NEW c \in Users, SafePage(c)
  PROVE  /\ SafeTreeOf(c, tree[c]) /\ toClient[c] \in Seq(Messages)
         /\ SafeTreeOf(c, Upcoming(c))
<1>1. tree[c] \in PageTree /\ toClient[c] \in Seq(Messages)
  BY DEF TreeInv, PagesOK, QueuesOK
<1>2. KeepsHubs(chan)
  BY DEF KeepsHubs
<1>3. SafeTreeOf(c, tree[c]) /\ SafeQueue(c, toClient[c])
  BY <1>1 DEF SafeTreeOf, SafePage
<1> QED
  BY <1>1, <1>2, <1>3, ShownSafe DEF Upcoming

LEMMA UpcomingKept ==
  ASSUME TreeInv, NEW c \in Users, SafePage(c), ChansKept
  PROVE  Shown(chan', tree[c], toClient[c]) = Upcoming(c)
<1>1. SafeTreeOf(c, tree[c]) /\ toClient[c] \in Seq(Messages) /\ SafeQueue(c, toClient[c])
  BY UpcomingSafe DEF SafePage
<1>2. KeepsHubs(chan')
  BY DEF KeepsHubs, ChansKept
<1> QED
  BY <1>1, <1>2, ShownSafe DEF Upcoming

LEMMA SafeMessageKept ==
  ASSUME NEW c \in Users, KnowledgeKept(c), NEW m \in Messages, SafeMessage(c, m)
  PROVE  SafeMessage(c, m)'
<1>1. /\ m.t \in {"hub.created", "hub.updated"} => m.id \in Hubs
      /\ m.t \in {"channel.created", "channel.updated", "channel.added"} => m.id \in Channels
  BY DEF Messages, Events, HubEvents, ChanEvents
<1> QED
  BY <1>1 DEF SafeMessage, KnowledgeKept

\* Nothing happens to the page.
LEMMA PageLeft ==
  ASSUME TreeInv, RowsKept, NEW c \in Users, SafePage(c), KnowledgeKept(c),
         tree'[c] = tree[c], toClient'[c] = toClient[c]
  PROVE  SafePage(c)' /\ Upcoming(c)' = Upcoming(c)
<1>1. Upcoming(c)' = Upcoming(c)
  BY UpcomingKept DEF Upcoming, RowsKept
<1>2. SafeTree(c, tree[c])'
  BY DEF SafePage, SafeTree, KnowledgeKept
<1>3. \A i \in 1..Len(toClient[c]) : toClient[c][i] \in Messages
  BY UpcomingSafe
<1>4. ASSUME NEW i \in 1..Len(toClient'[c])
      PROVE  SafeMessage(c, toClient[c][i])'
  <2>1. PICK m \in Messages : m = toClient[c][i] /\ m = toClient'[c][i] /\ SafeMessage(c, m)
    BY <1>3 DEF SafePage, SafeQueue
  <2>2. SafeMessage(c, m)'
    BY <2>1, SafeMessageKept
  <2> QED
    BY <2>1, <2>2 DEF SafeMessage
<1>5. SafeQueue(c, toClient[c])'
  BY <1>4 DEF SafeQueue
<1> QED
  BY <1>1, <1>2, <1>5 DEF SafePage

\* One more message is on its way.
LEMMA PageSent ==
  ASSUME TreeInv, RowsKept, NEW c \in Users, SafePage(c), KnowledgeKept(c),
         NEW m \in Messages, SafeMessage(c, m)',
         tree'[c] = tree[c], toClient'[c] = Append(toClient[c], m)
  PROVE  SafePage(c)' /\ Upcoming(c)' = Applied(chan, Upcoming(c), m)
<1>1. toClient[c] \in Seq(Messages) /\ SafeTreeOf(c, Upcoming(c))
  BY UpcomingSafe
<1>2. Upcoming(c)' = Applied(chan', Shown(chan', tree[c], toClient[c]), m)
  BY <1>1, ShownAppend DEF Upcoming
<1>3. Upcoming(c)' = Applied(chan', Upcoming(c), m)
  BY <1>2, UpcomingKept DEF RowsKept
<1>4. KeepsHubs(chan')
  BY DEF KeepsHubs, ChansKept, RowsKept
<1>5. Applied(chan', Upcoming(c), m) = Applied(chan, Upcoming(c), m)
  BY <1>1, <1>4, AppliedSame DEF SafeTreeOf
<1>6. SafeTree(c, tree[c])'
  BY DEF SafePage, SafeTree, KnowledgeKept
<1>7. ASSUME NEW i \in 1..Len(toClient'[c])
      PROVE  SafeMessage(c, toClient[c][i])'
  <2>1. CASE i \in 1..Len(toClient[c])
    <3>1. PICK n \in Messages : n = toClient[c][i] /\ n = toClient'[c][i] /\ SafeMessage(c, n)
      BY <1>1, <2>1 DEF SafePage, SafeQueue
    <3>2. SafeMessage(c, n)'
      BY <3>1, SafeMessageKept
    <3> QED
      BY <3>1, <3>2 DEF SafeMessage
  <2>2. CASE i \notin 1..Len(toClient[c])
    <3>1. toClient'[c][i] = m
      BY <1>1, <2>2
    <3> QED
      BY <3>1 DEF SafeMessage
  <2> QED
    BY <2>1, <2>2
<1>8. SafeQueue(c, toClient[c])'
  BY <1>7 DEF SafeQueue
<1> QED
  BY <1>3, <1>5, <1>6, <1>8 DEF SafePage

\* The page takes the next message.
LEMMA PageTook ==
  ASSUME TreeInv, NEW c \in Users, SafePage(c), UNCHANGED tables, toClient[c] # <<>>,
         toClient'[c] = Tail(toClient[c]),
         tree'[c] = Applied(chan, tree[c], Head(toClient[c]))
  PROVE  SafePage(c)' /\ Upcoming(c)' = Upcoming(c)
<1>1. toClient[c] \in Seq(Messages) /\ SafeTreeOf(c, tree[c])
  BY UpcomingSafe
<1>2. Upcoming(c)' = Upcoming(c)
  BY <1>1, ShownTail DEF Upcoming, tables
<1>3. PICK m \in Messages : m = Head(toClient[c]) /\ SafeMessage(c, m)
  BY <1>1 DEF SafePage, SafeQueue
<1>4. SafeTree(c, Applied(chan, tree[c], m))
  BY <1>1, <1>3, SafeAfter DEF SafeTreeOf
<1>5. SafeTree(c, tree[c])'
  BY <1>3, <1>4 DEF SafeTree, KnowsHub, KnowsChannel, InHub, IsOrphan, tables
<1>6. ASSUME NEW i \in 1..Len(toClient'[c])
      PROVE  SafeMessage(c, toClient[c][i])'
  <2>1. i + 1 \in 1..Len(toClient[c]) /\ toClient'[c][i] = toClient[c][i + 1]
    BY <1>1
  <2>2. SafeMessage(c, toClient[c][i + 1])
    BY <2>1 DEF SafePage, SafeQueue
  <2> QED
    BY <2>1, <2>2 DEF SafeMessage, KnowsHub, KnowsChannel, InHub, IsOrphan, tables
<1>7. SafeQueue(c, toClient[c])'
  BY <1>6 DEF SafeQueue
<1> QED
  BY <1>2, <1>5, <1>7 DEF SafePage

\* The queue is lost, and the tree with it if the page is reloaded.
LEMMA PageCut ==
  ASSUME TreeInv, NEW c \in Users, SafePage(c), UNCHANGED tables,
         toClient'[c] = <<>>, tree'[c] = tree[c] \/ tree'[c] = NoTree
  PROVE  SafePage(c)'
<1>1. SafeTree(c, tree[c])'
  <2>1. CASE tree'[c] = tree[c]
    BY <2>1 DEF SafePage, SafeTree, KnowsHub, KnowsChannel, InHub, IsOrphan, tables
  <2>2. CASE tree'[c] = NoTree
    BY <2>2 DEF SafeTree, NoTree
  <2> QED
    BY <2>1, <2>2
<1>2. Len(toClient'[c]) = 0
  OBVIOUS
<1>3. SafeQueue(c, toClient[c])'
  BY <1>2 DEF SafeQueue
<1> QED
  BY <1>1, <1>3 DEF SafePage

-----------------------------------------------------------------------------
(***************************************************************************)
(* Requests for lists that wait go on waiting, but for the one the server  *)
(* handles.                                                                *)
(***************************************************************************)
HubsWait(c)     == HubsAsked(c)' => HubsAsked(c)
ChannelsWait(c) == ChannelsAsked(c)' => ChannelsAsked(c)
SteadyBefore(c) == Steady(c)' => Steady(c)
AsksWait(c)     == HubsWait(c) /\ ChannelsWait(c) /\ SteadyBefore(c)

LEMMA AsksLeft ==
  ASSUME NEW c \in Users, toServer'[c] = toServer[c], c \in authed' => c \in authed
  PROVE  AsksWait(c)
BY DEF AsksWait, HubsWait, ChannelsWait, SteadyBefore, Steady, HubsAsked, ChannelsAsked

LEMMA AsksSent ==
  ASSUME QueuesOK, NEW c \in Users, NEW s \in Seq(Asks), Sends(c, s), UNCHANGED authed,
         NEW d \in Users
  PROVE  AsksWait(d) /\ (d \notin authed => toServer'[d] = toServer[d])
<1>1. CASE d = c /\ c \in authed
  <2>1. toServer[c] \in Seq(Asks) /\ toServer'[c] = toServer[c] \o s
    BY <1>1 DEF QueuesOK, Sends
  <2>2. \A i \in 1..Len(toServer[c]) : i \in 1..Len(toServer'[c]) /\ toServer'[c][i] = toServer[c][i]
    BY <2>1
  <2> QED
    BY <1>1, <2>2 DEF AsksWait, HubsWait, ChannelsWait, SteadyBefore, Steady, HubsAsked, ChannelsAsked
<1>2. CASE ~(d = c /\ c \in authed)
  <2>1. toServer'[d] = toServer[d]
    BY <1>2 DEF QueuesOK, Sends
  <2> QED
    BY <2>1, AsksLeft
<1> QED
  BY <1>1, <1>2

LEMMA AsksHandled ==
  ASSUME QueuesOK, ClosedIsEmpty, NEW c \in Users, toServer[c] # <<>>, Consume(c),
         UNCHANGED authed, NEW d \in Users
  PROVE  /\ d # c \/ Head(toServer[c]).t # "hub.list" => HubsWait(d)
         /\ d # c \/ Head(toServer[c]).t # "channel.list" => ChannelsWait(d)
         /\ c \in authed /\ (d \notin authed => toServer'[d] = toServer[d])
         /\ SteadyBefore(d)
<1>1. c \in authed
  BY DEF ClosedIsEmpty
<1>2. ASSUME d = c
      PROVE  /\ Head(toServer[c]).t # "hub.list" => HubsWait(d)
             /\ Head(toServer[c]).t # "channel.list" => ChannelsWait(d)
  <2>1. toServer[c] \in Seq(Asks) /\ toServer'[c] = Tail(toServer[c])
    BY DEF QueuesOK, Consume
  <2>2. ASSUME NEW i \in 1..Len(toServer[c])
        PROVE  \/ toServer[c][i] = Head(toServer[c])
               \/ \E j \in 1..Len(toServer'[c]) : toServer'[c][j] = toServer[c][i]
    <3>1. CASE i = 1
      BY <2>1, <3>1
    <3>2. CASE i # 1
      <4>1. i - 1 \in 1..Len(toServer'[c]) /\ toServer'[c][i - 1] = toServer[c][i]
        BY <2>1, <3>2
      <4> QED
        BY <4>1
    <3> QED
      BY <3>1, <3>2
  <2> QED
    BY <1>1, <1>2, <2>2 DEF HubsWait, ChannelsWait, HubsAsked, ChannelsAsked
<1>3. CASE d # c
  <2>1. toServer'[d] = toServer[d]
    BY <1>3 DEF QueuesOK, Consume
  <2> QED
    BY <1>1, <1>3, <2>1, AsksLeft DEF AsksWait
<1>4. SteadyBefore(d)
  BY DEF SteadyBefore, Steady
<1>5. CASE d = c
  BY <1>1, <1>2, <1>4, <1>5
<1> QED
  BY <1>3, <1>4, <1>5

-----------------------------------------------------------------------------
(***************************************************************************)
(* Hub by hub and channel by channel: what a step does not touch stays     *)
(* right.                                                                  *)
(***************************************************************************)
SameMissed(c, id) == <<c, id>> \in missed' <=> <<c, id>> \in missed

HubUntouched(c, h) ==
    /\ hub'[h] = hub[h] /\ SameMissed(c, h)
    /\ Upcoming(c)'.hubs[h] = Upcoming(c).hubs[h]
ChanUntouched(c, ch) ==
    /\ chan'[ch] = chan[ch] /\ SameMissed(c, ch)
    /\ Upcoming(c)'.chans[ch] = Upcoming(c).chans[ch]
    /\ c \in present'[ch] => \/ c \in present[ch] \/ ~chan[ch].private

LEMMA HubStaysRight ==
  ASSUME NEW c \in Users, NEW h \in Hubs, HubUntouched(c, h), HubRight(c, h)
  PROVE  HubRight(c, h)'
<1> HIDE DEF Upcoming
<1> QED
  BY DEF HubUntouched, HubRight, SameMissed, HubIsListed, CanAccessHub, InHub, Exists

LEMMA HubRowKept ==
  ASSUME DirectoryTypeOK, RowsLinked, RowsKept, NEW ch \in Channels, chan[ch] # None
  PROVE  /\ chan[ch].hub \in Hubs /\ hub[chan[ch].hub] # None /\ hub'[chan[ch].hub] # None
         /\ hub'[chan[ch].hub].creator = hub[chan[ch].hub].creator
         /\ hub'[chan[ch].hub].restricted = hub[chan[ch].hub].restricted
         /\ hub'[chan[ch].hub].live => hub[chan[ch].hub].live
<1>1. chan[ch].hub \in Hubs
  BY DEF DirectoryTypeOK, ChannelRow
<1>2. hub[chan[ch].hub] # None
  BY DEF RowsLinked
<1> QED
  BY <1>1, <1>2 DEF RowsKept, HubsKept

ChannelKept(c, ch) ==
    /\ ChannelShown(c, ch) => ChannelShown(c, ch)'
    /\ ChannelFresh(c, ch) => ChannelFresh(c, ch)'

LEMMA ChannelStaysRight ==
  ASSUME DirectoryTypeOK, RowsLinked, RowsKept,
         NEW c \in Users, NEW ch \in Channels, ChanUntouched(c, ch)
  PROVE  ChannelKept(c, ch)
<1>1. ASSUME (Exists(chan[ch]) /\ Exists(hub[chan[ch].hub]) /\ CanAccessChannel(c, ch))'
      PROVE  Exists(chan[ch]) /\ Exists(hub[chan[ch].hub]) /\ CanAccessChannel(c, ch)
  <2>1. Exists(chan[ch]) /\ chan'[ch] = chan[ch]
    BY <1>1 DEF ChanUntouched, Exists
  <2>2. Exists(hub[chan[ch].hub])
    BY <1>1, <2>1, HubRowKept DEF Exists
  <2>3. chan[ch] # None
    BY <2>1 DEF Exists
  <2>4. CanAccessChannel(c, ch)
    BY <1>1, <2>1, <2>2, <2>3, HubRowKept DEF CanAccessChannel, CanAccessHub, InHub, ChanUntouched
  <2> QED
    BY <2>1, <2>2, <2>4
<1>2. (ChannelShown(c, ch))' =
        ((Exists(chan[ch]) /\ Exists(hub[chan[ch].hub]) /\ CanAccessChannel(c, ch))' =>
              Upcoming(c)'.chans[ch] # None)
  BY DEF ChannelShown, Exists
<1>3. ChannelShown(c, ch) => ChannelShown(c, ch)'
  BY <1>1, <1>2 DEF ChanUntouched, ChannelShown
<1>4. ChannelFresh(c, ch) => ChannelFresh(c, ch)'
  BY DEF ChanUntouched, ChannelFresh, SameMissed, Exists
<1> QED
  BY <1>3, <1>4 DEF ChannelKept

LEMMA MissesStayRight ==
  ASSUME DirectoryTypeOK, RowsLinked, RowsKept, MissedIsThere,
         NEW c \in Users, NEW ch \in Channels,
         <<c, ch>> \in missed' /\ Upcoming(c)'.chans[ch] # None =>
            <<c, ch>> \in missed /\ Upcoming(c).chans[ch] # None,
         MissesRightly(c, ch)
  PROVE  MissesRightly(c, ch)'
<1>1. SUFFICES ASSUME <<c, ch>> \in missed', Upcoming(c)'.chans[ch] # None
               PROVE  Outside(c, ch)'
  BY DEF MissesRightly
<1>2. <<c, ch>> \in missed /\ Outside(c, ch) /\ chan[ch] # None
  BY <1>1 DEF MissesRightly, MissedIsThere
<1>3. /\ chan'[ch].hub = chan[ch].hub /\ chan'[ch].private = chan[ch].private
      /\ role[ch][c] # "none" => role'[ch][c] # "none"
  BY <1>2 DEF RowsKept, ChansKept, RolesKept
<1> QED
  BY <1>2, <1>3, HubRowKept DEF Outside, InHub

\* A step that the page does not notice: no row changes and what the user may read
\* does not grow.
Unnoticed(c) ==
    /\ hub' = hub /\ chan' = chan
    /\ \A ch \in Channels : c \in present'[ch] => c \in present[ch] \/ ~chan[ch].private
    /\ \A id \in Hubs \cup Channels : SameMissed(c, id)
    /\ Upcoming(c)' = Upcoming(c)
    /\ AsksWait(c)

LEMMA RightUnnoticed ==
  ASSUME DirectoryTypeOK, RowsLinked, RowsKept, MissedIsThere, NEW c \in Users,
         Unnoticed(c), Right(c)
  PROVE  Right(c)'
<1>1. \A h \in Hubs : HubRight(c, h) => HubRight(c, h)'
  BY HubStaysRight DEF Unnoticed, HubUntouched
<1>2. \A ch \in Channels : ChannelKept(c, ch)
  BY ChannelStaysRight DEF Unnoticed, ChanUntouched
<1>3. \A ch \in Channels : MissesRightly(c, ch) => MissesRightly(c, ch)'
  BY MissesStayRight DEF Unnoticed, SameMissed
<1> QED
  BY <1>1, <1>2, <1>3 DEF Right, Unnoticed, AsksWait, HubsWait, ChannelsWait, SteadyBefore, ChannelKept

\* A page that is not signed in, and was told of everything it still shows.
LEMMA RightClosed ==
  ASSUME NEW c \in Users, c \notin authed', \A ch \in Channels : <<c, ch>> \notin missed'
  PROVE  Right(c)'
<1>1. ~HubsAsked(c)' /\ ~ChannelsAsked(c)' /\ ~Steady(c)'
  BY DEF HubsAsked, ChannelsAsked, Steady
<1>2. \A ch \in Channels : MissesRightly(c, ch)'
  BY DEF MissesRightly
<1> QED
  BY <1>1, <1>2 DEF Right

-----------------------------------------------------------------------------
(***************************************************************************)
(* The steps of the pages and of the sockets.                              *)
(***************************************************************************)
\* What a step has to show.
PagesStay ==
    /\ ClosedIsEmpty' /\ NewcomersBlank' /\ MissedIsThere'
    /\ \A d \in Users : PageSound(d)'

\* c's page sends what it likes and takes at most one message.
Moves(c) ==
    /\ UNCHANGED <<tables, authed, missed>>
    /\ UNCHANGED toServer \/ \E s \in Seq(Asks) : Sends(c, s)
    /\ \/ UNCHANGED <<tree, toClient>>
       \/ /\ toClient[c] # <<>> /\ toClient' = [toClient EXCEPT ![c] = Tail(@)]
          /\ tree' = [tree EXCEPT ![c] = Applied(chan, tree[c], Head(toClient[c]))]

LEMMA MovesKeep ==
  ASSUME PagesInv, NEW c \in Users, Moves(c)
  PROVE  PagesStay
<1> USE DEF PagesInv
<1>1. RowsKept /\ UNCHANGED tables
  BY DEF Moves, tables, RowsKept, HubsKept, ChansKept, RolesKept, NoNewOrphans, IsOrphan
<1>2. DirectoryTypeOK /\ QueuesOK /\ PagesOK
  BY DEF TreeInv, DirectoryInv
<1>3. ASSUME NEW d \in Users
      PROVE  AsksWait(d) /\ (d \notin authed => toServer'[d] = toServer[d])
  BY <1>2, AsksSent, AsksLeft DEF Moves
<1>4. ASSUME NEW d \in Users
      PROVE  /\ SafePage(d)' /\ Upcoming(d)' = Upcoming(d)
             /\ d \notin authed => toClient'[d] = toClient[d]
  <2>1. SafePage(d)
    BY DEF PageSound, SafePage
  <2>2. CASE toClient'[d] = toClient[d] /\ tree'[d] = tree[d]
    <3>1. KnowledgeKept(d)
      BY <1>1, <1>2, KnowledgeLasts
    <3> QED
      BY <1>1, <2>1, <2>2, <3>1, PageLeft
  <2>3. CASE /\ toClient[d] # <<>> /\ toClient'[d] = Tail(toClient[d])
             /\ tree'[d] = Applied(chan, tree[d], Head(toClient[d]))
    <3>1. d \in authed
      BY <2>3 DEF ClosedIsEmpty
    <3> QED
      BY <1>1, <2>1, <2>3, <3>1, PageTook
  <2>4. \/ toClient'[d] = toClient[d] /\ tree'[d] = tree[d]
        \/ /\ toClient[d] # <<>> /\ toClient'[d] = Tail(toClient[d])
           /\ tree'[d] = Applied(chan, tree[d], Head(toClient[d]))
    BY <1>2 DEF Moves, QueuesOK, PagesOK
  <2> QED
    BY <2>2, <2>3, <2>4
<1>5. ASSUME NEW d \in Users
      PROVE  PageSound(d)'
  <2>1. Unnoticed(d)
    BY <1>3, <1>4 DEF Moves, Unnoticed, tables, SameMissed
  <2>2. Right(d)'
    BY <1>1, <1>2, <2>1, RightUnnoticed DEF PageSound
  <2> QED
    BY <1>4, <2>2 DEF PageSound, SafePage
<1>6. ClosedIsEmpty'
  BY <1>3, <1>4 DEF ClosedIsEmpty, Moves
<1>7. MissedIsThere'
  BY DEF MissedIsThere, Moves, tables
<1>8. NewcomersBlank'
  BY <1>2 DEF NewcomersBlank, ClosedIsEmpty, Moves, PagesOK
<1> QED
  BY <1>5, <1>6, <1>7, <1>8 DEF PagesStay

LEMMA PageStepKeeps ==
  ASSUME PagesInv, NEW c \in Users,
         PageStep(c) \/ \E ch \in Channels : SwitchTo(c, ch)
  PROVE  PagesStay
<1> DEFINE m == Head(toClient[c])
<1>1. /\ \A ch \in Channels : <<Ask("channel.join", ch)>> \in Seq(Asks)
      /\ <<Ask("channel.create", None)>> \in Seq(Asks)
  <2>1. \A ch \in Channels : Ask("channel.join", ch) \in Asks
    BY DEF Ask, Asks
  <2>2. Ask("channel.create", None) \in Asks
    BY DEF Ask, Asks
  <2> QED
    BY <2>1, <2>2
<1>2. PagesOK /\ QueuesOK
  BY DEF PagesInv, TreeInv
<1>3. \A T : Takes(c, T) =>
          /\ UNCHANGED <<tables, authed, missed>> /\ toClient[c] # <<>> /\ m.t \in T
          /\ toClient' = [toClient EXCEPT ![c] = Tail(@)]
          /\ tree' = [tree EXCEPT ![c] = Applied(chan, tree[c], Head(toClient[c]))]
  BY DEF Takes, Arrived, Taken
<1>4. \A ch \in Channels : Activate(c, ch) => \E s \in Seq(Asks) : Sends(c, s)
  BY <1>1 DEF Activate
<1>5. CASE ShowHubs(c) \/ HandleChannelUpdated(c)
  <2>1. UNCHANGED toServer /\ \E T : Takes(c, T)
    BY <1>5 DEF ShowHubs, HandleChannelUpdated, Stay
  <2>2. Moves(c)
    BY <1>3, <2>1 DEF Moves
  <2> QED
    BY <2>2, MovesKeep
<1>6. CASE HandleChannelListResult(c)
  <2>1. \E T : Takes(c, T)
    BY <1>6 DEF HandleChannelListResult
  <2>2. \/ \E ch \in Channels : Activate(c, ch)
        \/ Sends(c, <<Ask("channel.create", None)>>)
        \/ UNCHANGED toServer
    BY <1>6 DEF HandleChannelListResult, ShownIn, Stay
  <2>3. Moves(c)
    BY <1>1, <1>3, <1>4, <2>1, <2>2 DEF Moves
  <2> QED
    BY <2>3, MovesKeep
<1>7. CASE HandleChannelCreated(c)
  <2>1. /\ Takes(c, {"channel.created", "channel.added"})
        /\ \/ m.t = "channel.created" /\ Activate(c, m.id)
           \/ UNCHANGED toServer
    BY <1>7 DEF HandleChannelCreated, Stay
  <2>2. m \in Messages
    BY <1>2, <1>3, <2>1 DEF QueuesOK
  <2>3. m.t = "channel.created" => m.id \in Channels
    BY <2>2 DEF Messages, Events, HubEvents, ChanEvents
  <2>4. Moves(c)
    BY <1>3, <1>4, <2>1, <2>3 DEF Moves
  <2> QED
    BY <2>4, MovesKeep
<1>8. CASE HandleDeleted(c)
  <2>1. \E T : Takes(c, T)
    BY <1>8 DEF HandleDeleted
  <2>2. (\E ch \in Channels : Activate(c, ch)) \/ UNCHANGED toServer
    BY <1>8 DEF HandleDeleted, ShownIn, Stay
  <2>3. Moves(c)
    BY <1>3, <1>4, <2>1, <2>2 DEF Moves
  <2> QED
    BY <2>3, MovesKeep
<1>9. CASE HandleError(c)
  <2>1. /\ UNCHANGED <<tables, authed, missed, tree>> /\ toClient[c] # <<>> /\ m.t = "error"
        /\ toClient' = [toClient EXCEPT ![c] = Tail(@)]
    BY <1>9 DEF HandleError, Arrived, Taken, pages
  <2>2. Applied(chan, tree[c], m) = tree[c]
    BY <2>1 DEF Applied
  <2>3. tree' = [tree EXCEPT ![c] = Applied(chan, tree[c], Head(toClient[c]))]
    BY <1>2, <2>1, <2>2 DEF PagesOK
  <2>4. UNCHANGED toServer \/ \E s \in Seq(Asks) : Sends(c, s)
    BY <1>1, <1>2, <1>9 DEF HandleError, PagesOK
  <2>5. Moves(c)
    BY <2>1, <2>3, <2>4 DEF Moves
  <2> QED
    BY <2>5, MovesKeep
<1>10. CASE \E ch \in Channels : SwitchTo(c, ch)
  <2>1. Moves(c)
    BY <1>4, <1>10 DEF SwitchTo, Moves
  <2> QED
    BY <2>1, MovesKeep
<1> QED
  BY <1>5, <1>6, <1>7, <1>8, <1>9, <1>10 DEF PageStep

LEMMA SocketStepKeeps ==
  ASSUME PagesInv, NEW c \in Users, SignIn(c) \/ (c \in Unstable /\ (Drop(c) \/ Reload(c)))
  PROVE  PagesStay
<1> USE DEF PagesInv
<1>1. UNCHANGED tables
  BY DEF SignIn, Drop, Reload, Cut
<1>2. RowsKept
  BY <1>1 DEF tables, RowsKept, HubsKept, ChansKept, RolesKept, NoNewOrphans, IsOrphan
<1>3. DirectoryTypeOK /\ QueuesOK /\ PagesOK /\ RestOK
  BY DEF TreeInv, DirectoryInv
<1>4. ASSUME NEW d \in Users, d # c
      PROVE  PageSound(d)'
  <2>1. /\ toServer'[d] = toServer[d] /\ toClient'[d] = toClient[d] /\ tree'[d] = tree[d]
        /\ d \in authed' <=> d \in authed
        /\ \A id : SameMissed(d, id)
    BY <1>3, <1>4 DEF SignIn, Drop, Reload, Cut, pages, SameMissed, QueuesOK, PagesOK
  <2>2. SafePage(d) /\ KnowledgeKept(d) /\ AsksWait(d)
    BY <1>2, <1>3, <2>1, KnowledgeLasts, AsksLeft DEF PageSound, SafePage
  <2>3. SafePage(d)' /\ Upcoming(d)' = Upcoming(d)
    BY <1>2, <2>1, <2>2, PageLeft
  <2>4. Unnoticed(d)
    BY <1>1, <2>1, <2>2, <2>3 DEF Unnoticed, tables
  <2>5. Right(d)'
    BY <1>2, <1>3, <2>4, RightUnnoticed DEF PageSound
  <2> QED
    BY <2>3, <2>5 DEF PageSound, SafePage
<1>5. CASE SignIn(c)
  <2>1. /\ toServer'[c] = <<Ask("hub.list", None), Ask("channel.list", None)>>
        /\ toClient' = toClient /\ tree' = tree /\ missed' = missed /\ authed' = authed \cup {c}
    BY <1>3, <1>5 DEF SignIn, pages, QueuesOK
  <2>2. SafePage(c) /\ KnowledgeKept(c)
    BY <1>2, <1>3, KnowledgeLasts DEF PageSound, SafePage
  <2>3. SafePage(c)' /\ Upcoming(c)' = Upcoming(c)
    BY <1>2, <2>1, <2>2, PageLeft
  <2>4. /\ Len(toServer'[c]) = 2
        /\ toServer'[c][1].t = "hub.list" /\ toServer'[c][2].t = "channel.list"
    BY <2>1 DEF Ask
  <2>5. ~HubsAsked(c)' /\ ~ChannelsAsked(c)'
    BY <2>4 DEF HubsAsked, ChannelsAsked
  <2>6. ASSUME NEW ch \in Channels
        PROVE  /\ Steady(c)' => ChannelFresh(c, ch)'
               /\ MissesRightly(c, ch)'
    <3>1. Steady(c)' => ChannelFresh(c, ch)'
      <4>1. SUFFICES ASSUME c \notin Unstable PROVE ChannelFresh(c, ch)'
        BY DEF Steady
      <4>2. tree[c] = NoTree /\ toClient[c] = <<>>
        BY <1>5, <4>1 DEF NewcomersBlank, ClosedIsEmpty, SignIn
      <4>3. Upcoming(c) = NoTree
        BY <4>2, ShownEmpty DEF Upcoming
      <4>4. Upcoming(c)'.chans[ch] = None
        BY <2>3, <4>3 DEF NoTree
      <4> HIDE DEF Upcoming
      <4> QED
        BY <4>4 DEF ChannelFresh
    <3>2. MissesRightly(c, ch)
      BY DEF PageSound, Right
    <3> HIDE DEF Upcoming
    <3>3. MissesRightly(c, ch)'
      BY <1>1, <2>1, <2>3, <3>2 DEF MissesRightly, Outside, InHub, tables
    <3> QED
      BY <3>1, <3>3
  <2>7. Right(c)'
    BY <2>5, <2>6 DEF Right
  <2>8. PageSound(c)'
    BY <2>3, <2>7 DEF PageSound, SafePage
  <2>9. ClosedIsEmpty'
    BY <1>3, <1>5 DEF ClosedIsEmpty, SignIn, QueuesOK
  <2>10. MissedIsThere'
    BY <1>1, <2>1 DEF MissedIsThere, tables
  <2>11. NewcomersBlank'
    BY <2>1 DEF NewcomersBlank
  <2> QED
    BY <1>4, <2>8, <2>9, <2>10, <2>11 DEF PagesStay
<1>6. CASE c \in Unstable /\ (Drop(c) \/ Reload(c))
  <2>1. /\ toServer'[c] = <<>> /\ toClient'[c] = <<>>
        /\ authed' = authed \ {c} /\ missed' = {m \in missed : m[1] # c}
        /\ tree'[c] = tree[c] \/ tree'[c] = NoTree
        /\ \A d \in Users : d # c => /\ toServer'[d] = toServer[d] /\ toClient'[d] = toClient[d]
                                      /\ tree'[d] = tree[d]
    BY <1>3, <1>6 DEF Drop, Reload, Cut, pages, QueuesOK, PagesOK
  <2>2. SafePage(c)'
    BY <1>1, <2>1, PageCut DEF PageSound, SafePage
  <2>3. \A ch \in Channels : <<c, ch>> \notin missed'
    BY <2>1
  <2>4. Right(c)'
    BY <2>1, <2>3, RightClosed
  <2>5. PageSound(c)'
    BY <2>2, <2>4 DEF PageSound, SafePage
  <2>6. ClosedIsEmpty'
    BY <2>1 DEF ClosedIsEmpty
  <2>7. MissedIsThere'
    BY <1>1, <2>1 DEF MissedIsThere, tables
  <2>8. NewcomersBlank'
    BY <1>6, <2>1 DEF NewcomersBlank, SignIn
  <2> QED
    BY <1>4, <2>5, <2>6, <2>7, <2>8 DEF PagesStay
<1> QED
  BY <1>5, <1>6

-----------------------------------------------------------------------------
(***************************************************************************)
(* The server answers what a page sent by itself.                          *)
(***************************************************************************)
\* Nothing is sent to the page, and it does not notice what changed.
LEMMA PageUntold ==
  ASSUME PagesInv, RowsKept, NEW d \in Users, hub' = hub, chan' = chan,
         \A ch \in Channels : d \in present'[ch] => d \in present[ch] \/ ~chan[ch].private,
         \A id \in Hubs \cup Channels : SameMissed(d, id),
         AsksWait(d), tree'[d] = tree[d], toClient'[d] = toClient[d]
  PROVE  PageSound(d)'
<1>1. TreeInv /\ DirectoryTypeOK /\ RowsLinked /\ MissedIsThere /\ PageSound(d)
  BY DEF PagesInv, TreeInv, DirectoryInv
<1>2. KnowledgeKept(d) /\ SafePage(d)
  BY <1>1, KnowledgeLasts DEF PageSound, SafePage
<1>3. SafePage(d)' /\ Upcoming(d)' = Upcoming(d)
  BY <1>1, <1>2, PageLeft
<1>4. Unnoticed(d)
  BY <1>3 DEF Unnoticed
<1>5. Right(d)'
  BY <1>1, <1>4, RightUnnoticed DEF PageSound
<1> QED
  BY <1>3, <1>5 DEF PageSound, SafePage

\* A message is sent to the page.
LEMMA PageReplied ==
  ASSUME PagesInv, RowsKept, NEW c \in Users, NEW m \in Messages, SafeMessage(c, m)',
         tree'[c] = tree[c], toClient'[c] = Append(toClient[c], m)
  PROVE  /\ SafePage(c)' /\ Upcoming(c)' = Applied(chan, Upcoming(c), m)
         /\ IsAfter(chan, Upcoming(c)', Upcoming(c), m)
         /\ SafeTreeOf(c, Upcoming(c))
<1>1. TreeInv /\ DirectoryTypeOK /\ RowsLinked /\ PageSound(c)
  BY DEF PagesInv, TreeInv, DirectoryInv
<1>2. KnowledgeKept(c) /\ SafePage(c)
  BY <1>1, KnowledgeLasts DEF PageSound, SafePage
<1>3. SafePage(c)' /\ Upcoming(c)' = Applied(chan, Upcoming(c), m)
  BY <1>1, <1>2, PageSent
<1>4. SafeTreeOf(c, Upcoming(c))
  BY <1>1, <1>2, UpcomingSafe
<1>5. IsAfter(chan, Applied(chan, Upcoming(c), m), Upcoming(c), m)
  BY <1>4, AppliedIs DEF SafeTreeOf
<1> QED
  BY <1>3, <1>4, <1>5

LEMMA RowsStay ==
  ASSUME UNCHANGED tables
  PROVE  RowsKept
BY DEF tables, RowsKept, HubsKept, ChansKept, RolesKept, NoNewOrphans, IsOrphan

LEMMA HubListKeeps ==
  ASSUME PagesInv, NEW c \in Users, HandleHubList(c)
  PROVE  PagesStay
<1> USE DEF PagesInv
<1>1. /\ UNCHANGED tables /\ UNCHANGED authed /\ UNCHANGED tree
      /\ toServer[c] # <<>> /\ Head(toServer[c]).t = "hub.list" /\ Consume(c)
      /\ missed' = missed \ ({c} \X Hubs) /\ Reply(c, HubList(c))
  BY DEF HandleHubList, Incoming, pages
<1>2. RowsKept
  BY <1>1, RowsStay
<1>3. DirectoryTypeOK /\ QueuesOK /\ DirectoryInv
  BY DEF TreeInv, DirectoryInv
<1>4. /\ \A d \in Users : HubsWait(d) \/ d = c
      /\ \A d \in Users : ChannelsWait(d) /\ SteadyBefore(d) /\ (d \notin authed => toServer'[d] = toServer[d])
      /\ c \in authed
  BY <1>1, <1>3, AsksHandled
<1>5. PICK m \in Messages : m = HubList(c)
  BY <1>3, ListsOK
<1>6. /\ toClient'[c] = Append(toClient[c], m)
      /\ \A d \in Users : d # c => toClient'[d] = toClient[d]
  BY <1>1, <1>3, <1>5 DEF Reply, QueuesOK
<1>7. m.t = "hub.list_result" /\ \A h \in Hubs : m.hubs[h] = IF HubIsListed(c, h) THEN hub[h].name ELSE None
  BY <1>5 DEF HubList
<1>8. SafeMessage(c, m)'
  <2>1. \A h \in Hubs : m.hubs[h] # None => KnowsHub(c, h)
    BY <1>7 DEF HubIsListed, CanAccessHub, KnowsHub, Exists
  <2> QED
    BY <1>1, <1>7, <2>1 DEF SafeMessage, KnowsHub, InHub, tables
<1>9. /\ SafePage(c)' /\ IsAfter(chan, Upcoming(c)', Upcoming(c), m)
  BY <1>1, <1>2, <1>6, <1>8, PageReplied
<1>10. \A ch \in Channels : SameMissed(c, ch) /\ ((<<c, ch>> \in missed') => <<c, ch>> \in missed)
  BY <1>1, ChannelTreeAssumption DEF SameMissed
<1>11. \A ch \in Channels : Upcoming(c)'.chans[ch] = Upcoming(c).chans[ch]
  BY <1>7, <1>9 DEF IsAfter, ChanAfter
<1>12. ASSUME NEW h \in Hubs
       PROVE  HubRight(c, h)'
  <2>1. Upcoming(c)'.hubs[h] = IF HubIsListed(c, h) THEN hub[h].name ELSE None
    BY <1>7, <1>9 DEF IsAfter, HubAfter
  <2>2. HubIsListed(c, h)' = HubIsListed(c, h)
    BY <1>1 DEF tables, HubIsListed, CanAccessHub, InHub, Exists
  <2>3. HubIsListed(c, h) => Exists(hub[h]) /\ hub[h].name # None
    BY <1>3, DirectoryAssumption DEF HubIsListed, Exists, DirectoryTypeOK, HubRow
  <2> HIDE DEF Upcoming, HubIsListed
  <2>4. hub' = hub
    BY <1>1 DEF tables
  <2> QED
    BY <2>1, <2>2, <2>3, <2>4 DEF HubRight, Exists
<1>13. ASSUME NEW ch \in Channels
       PROVE  ChannelKept(c, ch) /\ MissesRightly(c, ch)'
  <2>1. ChanUntouched(c, ch)
    BY <1>1, <1>10, <1>11 DEF ChanUntouched, tables
  <2>2. MissesRightly(c, ch)
    BY DEF PageSound, Right
  <2> QED
    BY <1>2, <1>3, <1>10, <1>11, <2>1, <2>2, ChannelStaysRight, MissesStayRight
<1>14. Right(c)'
  BY <1>4, <1>12, <1>13 DEF Right, ChannelsWait, SteadyBefore, ChannelKept, PageSound
<1>15. ASSUME NEW d \in Users, d # c
       PROVE  PageSound(d)'
  BY <1>1, <1>2, <1>4, <1>6, <1>15, PageUntold DEF tables, SameMissed, AsksWait
<1>16. ClosedIsEmpty'
  BY <1>1, <1>4, <1>6 DEF ClosedIsEmpty
<1>17. MissedIsThere' /\ NewcomersBlank'
  BY <1>1 DEF MissedIsThere, NewcomersBlank, tables
<1> QED
  BY <1>9, <1>14, <1>15, <1>16, <1>17 DEF PagesStay, PageSound, SafePage

LEMMA ChannelListKeeps ==
  ASSUME PagesInv, NEW c \in Users, HandleChannelList(c)
  PROVE  PagesStay
<1> USE DEF PagesInv
<1> DEFINE gone == {c} \X {ch \in Channels : Exists(chan[ch])}
           orphans == {c} \X {ch \in Channels : IsOrphan(ch)}
<1>1. /\ UNCHANGED tables /\ UNCHANGED authed /\ UNCHANGED tree
      /\ toServer[c] # <<>> /\ Head(toServer[c]).t = "channel.list" /\ Consume(c)
      /\ missed' = (missed \ gone) \cup orphans /\ Reply(c, ChannelList(c))
  BY DEF HandleChannelList, Incoming, pages
<1>2. RowsKept
  BY <1>1, RowsStay
<1>3. DirectoryTypeOK /\ QueuesOK /\ DirectoryInv
  BY DEF TreeInv, DirectoryInv
<1>4. /\ \A d \in Users : ChannelsWait(d) \/ d = c
      /\ \A d \in Users : HubsWait(d) /\ SteadyBefore(d) /\ (d \notin authed => toServer'[d] = toServer[d])
      /\ c \in authed
  BY <1>1, <1>3, AsksHandled
<1>5. PICK m \in Messages : m = ChannelList(c)
  BY <1>3, ListsOK
<1>6. /\ toClient'[c] = Append(toClient[c], m)
      /\ \A d \in Users : d # c => toClient'[d] = toClient[d]
  BY <1>1, <1>3, <1>5 DEF Reply, QueuesOK
<1>7. /\ m.t = "channel.list_result"
      /\ \A ch \in Channels : m.chans[ch] = IF ChannelIsListed(c, ch) THEN chan[ch].name ELSE None
  BY <1>5 DEF ChannelList
<1>8. ASSUME NEW ch \in Channels, ChannelIsListed(c, ch)
      PROVE  KnowsChannel(c, ch) /\ chan[ch].name # None /\ Exists(chan[ch]) /\ ~IsOrphan(ch)
  <2>1. Exists(chan[ch]) /\ Exists(hub[chan[ch].hub]) /\ chan[ch] # None
    BY <1>8 DEF ChannelIsListed, Exists
  <2>2. chan[ch].name # None
    BY <2>1, <1>3, DirectoryAssumption DEF DirectoryTypeOK, ChannelRow
  <2>3. ~IsOrphan(ch)
    BY <2>1 DEF IsOrphan
  <2>4. c \in present[ch] => role[ch][c] # "none"
    BY DEF RowsLinked
  <2>5. KnowsChannel(c, ch)
    BY <1>8, <2>1, <2>3, <2>4 DEF ChannelIsListed, KnowsChannel
  <2> QED
    BY <2>1, <2>2, <2>3, <2>5
<1>9. SafeMessage(c, m)'
  <2>1. \A ch \in Channels : m.chans[ch] # None => KnowsChannel(c, ch)
    BY <1>7, <1>8
  <2> QED
    BY <1>1, <1>7, <2>1 DEF SafeMessage, KnowsChannel, InHub, IsOrphan, tables
<1>10. /\ SafePage(c)' /\ IsAfter(chan, Upcoming(c)', Upcoming(c), m)
  BY <1>1, <1>2, <1>6, <1>9, PageReplied
<1>11. \A ch \in Channels :
         Upcoming(c)'.chans[ch] = IF ChannelIsListed(c, ch) THEN chan[ch].name ELSE None
  BY <1>7, <1>10 DEF IsAfter, ChanAfter
<1>12. ASSUME NEW h \in Hubs
       PROVE  HubRight(c, h) => HubRight(c, h)'
  <2>1. SameMissed(c, h)
    BY <1>1, ChannelTreeAssumption DEF SameMissed
  <2>2. Upcoming(c)'.hubs[h] = Upcoming(c).hubs[h]
    BY <1>7, <1>10 DEF IsAfter, HubAfter
  <2>3. HubUntouched(c, h)
    BY <1>1, <2>1, <2>2 DEF HubUntouched, tables
  <2> QED
    BY <2>3, HubStaysRight
<1>13. ASSUME NEW ch \in Channels
       PROVE  ChannelShown(c, ch)' /\ ChannelFresh(c, ch)' /\ MissesRightly(c, ch)'
  <2>1. UNCHANGED <<hub, chan, present>>
    BY <1>1 DEF tables
  <2>2. ASSUME Exists(chan[ch]), Exists(hub[chan[ch].hub]), CanAccessChannel(c, ch)
        PROVE  ChannelIsListed(c, ch)
    BY <2>2 DEF CanAccessChannel, CanAccessHub, ChannelIsListed
  <2>3. (Exists(chan[ch]) /\ Exists(hub[chan[ch].hub]) /\ CanAccessChannel(c, ch))'
          = (Exists(chan[ch]) /\ Exists(hub[chan[ch].hub]) /\ CanAccessChannel(c, ch))
    BY <2>1 DEF CanAccessChannel, CanAccessHub, InHub, Exists
  <2>4. Upcoming(c)'.chans[ch] # None => <<c, ch>> \notin missed'
    <3>1. SUFFICES ASSUME Upcoming(c)'.chans[ch] # None PROVE <<c, ch>> \notin missed'
      OBVIOUS
    <3>2. Exists(chan[ch]) /\ ~IsOrphan(ch)
      BY <1>8, <1>11, <3>1
    <3>3. <<c, ch>> \in gone /\ <<c, ch>> \notin orphans
      BY <3>2
    <3> QED
      BY <1>1, <3>3
  <2>5. (Exists(chan[ch]) /\ Exists(hub[chan[ch].hub]) /\ CanAccessChannel(c, ch))' =>
            Upcoming(c)'.chans[ch] # None
    BY <1>8, <1>11, <2>2, <2>3
  <2>6. Upcoming(c)'.chans[ch] # None => Exists(chan[ch]) /\ Upcoming(c)'.chans[ch] = chan[ch].name
    BY <1>8, <1>11
  <2>7. Exists(chan'[ch]) = Exists(chan[ch])
    BY <2>1
  <2> QED
    BY <2>1, <2>4, <2>5, <2>6, <2>7 DEF ChannelShown, ChannelFresh, MissesRightly, Exists
<1>14. Right(c)'
  BY <1>4, <1>12, <1>13 DEF Right, HubsWait, PageSound
<1>15. ASSUME NEW d \in Users, d # c
       PROVE  PageSound(d)'
  BY <1>1, <1>2, <1>4, <1>6, <1>15, PageUntold DEF tables, SameMissed, AsksWait
<1>16. ClosedIsEmpty'
  BY <1>1, <1>4, <1>6 DEF ClosedIsEmpty
<1>17. MissedIsThere' /\ NewcomersBlank'
  BY <1>1 DEF MissedIsThere, NewcomersBlank, tables, IsOrphan, Exists
<1> QED
  BY <1>10, <1>14, <1>15, <1>16, <1>17 DEF PagesStay, PageSound, SafePage

LEMMA ChannelJoinKeeps ==
  ASSUME PagesInv, RowsKept, NEW c \in Users, HandleChannelJoin(c)
  PROVE  PagesStay
<1> USE DEF PagesInv
<1> DEFINE ch == Head(toServer[c]).ch
<1>1. /\ UNCHANGED authed /\ UNCHANGED tree /\ UNCHANGED missed
      /\ toServer[c] # <<>> /\ Head(toServer[c]).t = "channel.join" /\ Consume(c)
  BY DEF HandleChannelJoin, Incoming, pages
<1>2. DirectoryTypeOK /\ QueuesOK /\ TreeInv
  BY DEF TreeInv, DirectoryInv
<1>3. /\ \A d \in Users : AsksWait(d) /\ (d \notin authed => toServer'[d] = toServer[d])
      /\ c \in authed
  BY <1>1, <1>2, AsksHandled DEF AsksWait
<1>4. /\ hub' = hub /\ chan' = chan
      /\ \A d \in Users, x \in Channels : d \in present'[x] => d \in present[x] \/ ~chan[x].private
  <2>1. CASE JoinChannel(c, ch)
    BY <1>2, <2>1 DEF JoinChannel, Enrol, tables, DirectoryTypeOK
  <2>2. CASE UNCHANGED tables
    BY <2>2 DEF tables
  <2> QED
    BY <2>1, <2>2 DEF HandleChannelJoin
<1>5. ASSUME NEW d \in Users, toClient'[d] = toClient[d]
      PROVE  PageSound(d)'
  BY <1>1, <1>3, <1>4, <1>5, PageUntold DEF SameMissed
<1>6. MissedIsThere' /\ NewcomersBlank'
  BY <1>1, <1>4 DEF MissedIsThere, NewcomersBlank
<1>7. CASE UNCHANGED toClient
  <2>1. ClosedIsEmpty'
    BY <1>1, <1>3, <1>7 DEF ClosedIsEmpty
  <2> QED
    BY <1>5, <1>6, <1>7, <2>1 DEF PagesStay
<1>8. CASE Reply(c, Failure(JoinRefusal(c, ch)))
  <2>1. PICK m \in Messages : m = Failure(JoinRefusal(c, ch))
    <3>1. JoinRefusal(c, ch) \in Codes
      BY DEF JoinRefusal, Codes
    <3> QED
      BY <3>1 DEF Failure, Messages
  <2>2. m.t = "error"
    BY <2>1 DEF Failure
  <2>3. /\ toClient'[c] = Append(toClient[c], m)
        /\ \A d \in Users : d # c => toClient'[d] = toClient[d]
    BY <1>2, <1>8, <2>1 DEF Reply, QueuesOK
  <2>4. SafeMessage(c, m)'
    BY <2>2 DEF SafeMessage
  <2>5. SafePage(c)' /\ Upcoming(c)' = Applied(chan, Upcoming(c), m)
    BY <1>1, <2>3, <2>4, PageReplied
  <2>6. Applied(chan, Upcoming(c), m) = Upcoming(c)
    BY <2>2 DEF Applied
  <2>7. Unnoticed(c)
    BY <1>1, <1>3, <1>4, <2>5, <2>6 DEF Unnoticed, SameMissed
  <2>8. Right(c)'
    BY <1>2, <2>7, RightUnnoticed DEF PageSound
  <2>9. ClosedIsEmpty'
    BY <1>1, <1>3, <2>3 DEF ClosedIsEmpty
  <2> QED
    BY <1>5, <1>6, <2>3, <2>5, <2>8, <2>9 DEF PagesStay, PageSound, SafePage
<1> QED
  BY <1>7, <1>8 DEF HandleChannelJoin

-----------------------------------------------------------------------------
(***************************************************************************)
(* The server tells the pages what it has changed.                         *)
(***************************************************************************)
IsTold(d, S, c) == d = c \/ d \in S \cap authed

\* What the telling does to the page of d.
Hears(d, S, c, m) ==
    /\ SafePage(d)' /\ SafeTreeOf(d, Upcoming(d))
    /\ IsTold(d, S, c) => IsAfter(chan, Upcoming(d)', Upcoming(d), m)
    /\ ~IsTold(d, S, c) => Upcoming(d)' = Upcoming(d)

LEMMA ToldPage ==
  ASSUME PagesInv, RowsKept, NEW c \in Users, NEW d \in Users, NEW m \in Events, NEW S,
         Tell(S, c, m), UNCHANGED tree, IsTold(d, S, c) => SafeMessage(d, m)'
  PROVE  Hears(d, S, c, m)
<1>1. TreeInv /\ DirectoryTypeOK /\ RowsLinked /\ PageSound(d)
  BY DEF PagesInv, TreeInv, DirectoryInv
<1>2. KnowledgeKept(d) /\ SafePage(d) /\ SafeTreeOf(d, Upcoming(d))
  BY <1>1, KnowledgeLasts, UpcomingSafe DEF PageSound, SafePage
<1>3. CASE d = c
  <2>1. PICK n \in Messages : /\ n = Answer(m) /\ n.t = m.t /\ n.id = m.id /\ n.name = m.name
                              /\ m.t \notin {"hub.list_result", "channel.list_result"}
    BY SameAnswer
  <2>2. toClient'[d] = Append(toClient[d], n)
    BY <1>3, <2>1 DEF Tell
  <2>3. SafeMessage(d, n)'
    BY <1>3, <2>1 DEF SafeMessage, IsTold
  <2>4. SafePage(d)' /\ Upcoming(d)' = Applied(chan, Upcoming(d), n)
    BY <1>1, <1>2, <2>2, <2>3, PageSent
  <2>5. IsAfter(chan, Applied(chan, Upcoming(d), n), Upcoming(d), m)
    BY <1>2, <2>1, AppliedAnswer DEF SafeTreeOf
  <2> QED
    BY <1>2, <1>3, <2>4, <2>5 DEF Hears, IsTold
<1>4. CASE d # c /\ d \in S \cap authed
  <2>1. toClient'[d] = Append(toClient[d], m) /\ m \in Messages
    BY <1>4, SameAnswer DEF Tell
  <2>2. SafeMessage(d, m)'
    BY <1>4 DEF IsTold
  <2>3. SafePage(d)' /\ IsAfter(chan, Upcoming(d)', Upcoming(d), m)
    BY <2>1, <2>2, PageReplied
  <2> QED
    BY <1>2, <1>4, <2>3 DEF Hears, IsTold
<1>5. CASE d # c /\ d \notin S \cap authed
  <2>1. toClient'[d] = toClient[d]
    BY <1>5 DEF Tell
  <2>2. SafePage(d)' /\ Upcoming(d)' = Upcoming(d)
    BY <1>1, <1>2, <2>1, PageLeft
  <2> QED
    BY <1>2, <1>5, <2>2 DEF Hears, IsTold
<1> QED
  BY <1>3, <1>4, <1>5

\* What is left to show of each page that hears.
StaysRight(d) ==
    /\ d \in authed => \A h \in Hubs : HubRight(d, h) => HubRight(d, h)'
    /\ d \in authed => \A ch \in Channels : ChannelKept(d, ch)
    /\ \A ch \in Channels : MissesRightly(d, ch)'

\* What the user asks for is handled when nothing his page sent is waiting.
AsksUntouched ==
    /\ authed' = authed
    /\ \A d \in Users : AsksWait(d)
    /\ \A d \in Users : d \notin authed => toServer'[d] = toServer[d]

LEMMA RequestBegins ==
  ASSUME NEW c \in Users, Requests(c)
  PROVE  c \in authed /\ tree' = tree /\ AsksUntouched
<1>1. c \in authed /\ authed' = authed /\ tree' = tree /\ toServer' = toServer
  BY DEF Requests, pages
<1>2. \A d \in Users : AsksWait(d)
  BY <1>1, AsksLeft
<1>3. \A d \in Users : d \notin authed => toServer'[d] = toServer[d]
  BY <1>1
<1>4. AsksUntouched
  BY <1>1, <1>2, <1>3 DEF AsksUntouched
<1> QED
  BY <1>1, <1>4

LEMMA TellKeeps ==
  ASSUME PagesInv, NEW c \in Users, NEW m, NEW S, Tell(S, c, m), c \in authed,
         UNCHANGED tree, AsksUntouched, MissedIsThere',
         \A d \in Users : Hears(d, S, c, m) /\ StaysRight(d)
  PROVE  PagesStay
<1>1. \A d \in Users : d \notin authed => toClient'[d] = toClient[d]
  BY DEF Tell
<1>2. ClosedIsEmpty'
  BY <1>1 DEF PagesInv, ClosedIsEmpty, AsksUntouched
<1>3. ASSUME NEW d \in Users
      PROVE  PageSound(d)'
  <2>1. Right(d) /\ AsksWait(d) /\ StaysRight(d) /\ SafePage(d)'
    BY DEF PagesInv, PageSound, Hears, AsksUntouched
  <2>2. Right(d)'
    BY <2>1 DEF Right, StaysRight, AsksWait, HubsWait, ChannelsWait, SteadyBefore,
                HubsAsked, ChannelsAsked, Steady, ChannelKept
  <2> QED
    BY <2>1, <2>2 DEF PageSound, SafePage
<1>4. NewcomersBlank'
  BY DEF PagesInv, NewcomersBlank, AsksUntouched
<1> QED
  BY <1>2, <1>3, <1>4 DEF PagesStay

LEMMA EventIs ==
  ASSUME NEW t, NEW id, NEW name \in Names \cup {None},
         \/ t \in {"hub.created", "hub.updated", "hub.deleted"} /\ id \in Hubs
         \/ t \in {"channel.created", "channel.updated", "channel.deleted", "channel.added"}
               /\ id \in Channels
  PROVE  \E m \in Events : m = Event(t, id, name) /\ m.t = t /\ m.id = id /\ m.name = name
<1>1. Event(t, id, name) \in Events
  BY DEF Event, Events, HubEvents, ChanEvents
<1> QED
  BY <1>1 DEF Event

NamesAreThere == \A name \in Names : name # None

LEMMA NamesExist == NamesAreThere
BY DirectoryAssumption DEF NamesAreThere

\* The facts that every step below starts from.
LEMMA PagesFacts ==
  ASSUME PagesInv
  PROVE  /\ TreeInv /\ DirectoryTypeOK /\ QueuesOK /\ PagesOK /\ RestOK
         /\ RowsLinked /\ ClosedIsEmpty /\ MissedIsThere /\ NewcomersBlank
         /\ \A d \in Users, ch \in Channels : MissesRightly(d, ch)
BY DEF PagesInv, TreeInv, DirectoryInv, PageSound, Right

LEMMA HubCreateKeeps ==
  ASSUME PagesInv, RowsKept, NEW c \in Users, HandleHubCreate(c)
  PROVE  PagesStay
<1>1. PICK h \in Hubs, name \in NewNames, restricted \in BOOLEAN :
          /\ Requests(c) /\ CreateHub(c, h, name, restricted)
          /\ Tell(HubAudience(h)', c, Event("hub.created", h, name)) /\ UNCHANGED missed
  BY DEF HandleHubCreate
<1>2. name \in Names /\ name # None
  BY NamesExist, ChannelTreeAssumption DEF NamesAreThere
<1>3. PICK m \in Events : /\ m = Event("hub.created", h, name)
                          /\ m.t = "hub.created" /\ m.id = h /\ m.name = name
  BY <1>2, EventIs
<1> DEFINE S == HubAudience(h)'
<1>4. Tell(S, c, m)
  BY <1>1, <1>3
<1>5. /\ hub[h] = None /\ chan' = chan /\ present' = present /\ role' = role
      /\ hub'[h] = [name |-> name, restricted |-> restricted, creator |-> c, live |-> TRUE]
      /\ \A g \in Hubs : g # h => hub'[g] = hub[g]
  BY <1>1, PagesFacts DEF CreateHub, DirectoryTypeOK
<1>6. hub'[h] # None /\ hub'[h].live /\ hub'[h].name = name /\ hub'[h].creator = c
  <2> DEFINE row == [name |-> name, restricted |-> restricted, creator |-> c, live |-> TRUE]
  <2>1. row \in HubRow
    BY <1>2 DEF HubRow
  <2>2. row.live /\ row.name = name /\ row.creator = c
    OBVIOUS
  <2>3. row # None
    BY <2>1, DirectoryAssumption
  <2>4. hub'[h] = row
    BY <1>5
  <2> HIDE DEF row
  <2> QED
    BY <2>2, <2>3, <2>4
<1>7. S = {u \in Users : CanAccessHub(u, h)'}
  BY DEF HubAudience
<1> HIDE DEF S
<1>8. c \in authed /\ tree' = tree /\ AsksUntouched
  <2>1. Requests(c)
    BY <1>1
  <2> QED
    BY <2>1, RequestBegins
<1>9. ASSUME NEW d \in Users
      PROVE  Hears(d, S, c, m) /\ StaysRight(d)
  <2>1. IsTold(d, S, c) => SafeMessage(d, m)'
    <3>1. ASSUME IsTold(d, S, c) PROVE KnowsHub(d, h)'
      <4>1. d = c \/ CanAccessHub(d, h)'
        BY <1>7, <3>1 DEF IsTold
      <4> QED
        BY <1>6, <4>1 DEF KnowsHub, CanAccessHub, InHub
    <3> QED
      BY <1>2, <1>3, <3>1 DEF SafeMessage
  <2>2. Hears(d, S, c, m)
    BY <1>4, <1>8, <2>1, ToldPage
  <2>3. Upcoming(d).hubs[h] = None
    BY <1>5, <2>2 DEF Hears, SafeTreeOf, SafeTree, KnowsHub
  <2>4. \A ch \in Channels : Upcoming(d)'.chans[ch] = Upcoming(d).chans[ch]
    BY <1>3, <2>2 DEF Hears, IsAfter, ChanAfter
  <2>5. \A g \in Hubs : g # h => Upcoming(d)'.hubs[g] = Upcoming(d).hubs[g]
    BY <1>3, <2>2 DEF Hears, IsAfter, HubAfter
  <2>6. IsTold(d, S, c) => Upcoming(d)'.hubs[h] = name
    BY <1>3, <2>2, <2>3 DEF Hears, IsAfter, HubAfter
  <2>7. ASSUME d \in authed
        PROVE  HubRight(d, h)'
    <3>1. CASE IsTold(d, S, c)
      BY <1>2, <1>6, <2>6, <3>1 DEF HubRight, Exists
    <3>2. CASE ~IsTold(d, S, c)
      <4>1. ~CanAccessHub(d, h)'
        BY <1>7, <2>7, <3>2 DEF IsTold
      <4>2. Upcoming(d)'.hubs[h] = None
        BY <2>2, <2>3, <3>2 DEF Hears
      <4> QED
        BY <4>1, <4>2 DEF HubRight, HubIsListed
    <3> QED
      BY <3>1, <3>2
  <2>8. \A g \in Hubs : g # h /\ HubRight(d, g) => HubRight(d, g)'
    BY <1>1, <1>5, <2>5, HubStaysRight DEF HubUntouched, SameMissed
  <2>9. \A ch \in Channels : ChannelKept(d, ch)
    BY <1>1, <1>5, <2>4, ChannelStaysRight, PagesFacts DEF ChanUntouched, SameMissed
  <2>10. \A ch \in Channels : MissesRightly(d, ch)'
    BY <1>1, <2>4, MissesStayRight, PagesFacts
  <2> QED
    BY <2>2, <2>7, <2>8, <2>9, <2>10 DEF StaysRight
<1>10. MissedIsThere'
  BY <1>1, <1>5, PagesFacts DEF MissedIsThere
<1> QED
  BY <1>4, <1>8, <1>9, <1>10, TellKeeps

LEMMA HubUpdateKeeps ==
  ASSUME PagesInv, RowsKept, NEW c \in Users, HandleHubUpdate(c)
  PROVE  PagesStay
<1>1. PICK h \in Hubs, name \in Names :
          /\ Requests(c) /\ UpdateHub(c, h, name)
          /\ Tell(HubAudience(h)', c, Event("hub.updated", h, name)) /\ UNCHANGED missed
  BY DEF HandleHubUpdate
<1>2. name # None
  BY NamesExist DEF NamesAreThere
<1>3. PICK m \in Events : /\ m = Event("hub.updated", h, name)
                          /\ m.t = "hub.updated" /\ m.id = h /\ m.name = name
  BY EventIs
<1> DEFINE S == HubAudience(h)'
<1>4. Tell(S, c, m)
  BY <1>1, <1>3
<1>5. /\ Exists(hub[h]) /\ hub[h] \in HubRow
      /\ c \in Admins \/ InHub(c, h)
      /\ hub'[h] = [hub[h] EXCEPT !.name = name]
      /\ chan' = chan /\ present' = present
      /\ \A g \in Hubs : g # h => hub'[g] = hub[g]
  BY <1>1, PagesFacts, DirectoryAssumption DEF UpdateHub, MayChangeHub, Exists, DirectoryTypeOK
<1>6. /\ hub'[h] # None /\ hub'[h].live /\ hub'[h].name = name
      /\ hub'[h].restricted = hub[h].restricted /\ hub'[h].creator = hub[h].creator
      /\ hub[h] # None /\ hub[h].live
  <2>1. hub'[h] \in HubRow
    BY <1>5 DEF HubRow
  <2>2. hub[h] # None /\ hub[h].live
    BY <1>5 DEF Exists
  <2>3. hub'[h].live = hub[h].live /\ hub'[h].name = name
        /\ hub'[h].restricted = hub[h].restricted /\ hub'[h].creator = hub[h].creator
    BY <1>5 DEF HubRow
  <2> QED
    BY <2>1, <2>2, <2>3, DirectoryAssumption
<1>7. S = {u \in Users : CanAccessHub(u, h)'}
  BY DEF HubAudience
<1> HIDE DEF S
<1>8. c \in authed /\ tree' = tree /\ AsksUntouched
  <2>1. Requests(c)
    BY <1>1
  <2> QED
    BY <2>1, RequestBegins
<1>9. ASSUME NEW d \in Users
      PROVE  Hears(d, S, c, m) /\ StaysRight(d)
  <2>1. IsTold(d, S, c) => SafeMessage(d, m)'
    <3>1. ASSUME IsTold(d, S, c) PROVE KnowsHub(d, h)'
      <4>1. d = c \/ CanAccessHub(d, h)'
        BY <1>7, <3>1 DEF IsTold
      <4> QED
        BY <1>5, <1>6, <4>1 DEF KnowsHub, CanAccessHub, InHub
    <3> QED
      BY <1>2, <1>3, <3>1 DEF SafeMessage
  <2>2. Hears(d, S, c, m)
    BY <1>4, <1>8, <2>1, ToldPage
  <2>3. \A ch \in Channels : Upcoming(d)'.chans[ch] = Upcoming(d).chans[ch]
    BY <1>3, <2>2 DEF Hears, IsAfter, ChanAfter
  <2>4. \A g \in Hubs : g # h => Upcoming(d)'.hubs[g] = Upcoming(d).hubs[g]
    BY <1>3, <2>2 DEF Hears, IsAfter, HubAfter
  <2>5. IsTold(d, S, c) =>
          Upcoming(d)'.hubs[h] = IF Upcoming(d).hubs[h] = None THEN None ELSE name
    BY <1>3, <2>2 DEF Hears, IsAfter, HubAfter
  <2>6. ASSUME d \in authed, HubRight(d, h)
        PROVE  HubRight(d, h)'
    <3>1. CASE IsTold(d, S, c)
      <4>1. HubIsListed(d, h)' => HubIsListed(d, h)
        BY <1>6 DEF HubIsListed, CanAccessHub, InHub, Exists
      <4>2. <<d, h>> \in missed' <=> <<d, h>> \in missed
        BY <1>1
      <4>3. HubIsListed(d, h)' /\ <<d, h>> \notin missed' => Upcoming(d)'.hubs[h] # None
        BY <1>2, <2>5, <2>6, <3>1, <4>1, <4>2 DEF HubRight
      <4>4. Upcoming(d)'.hubs[h] # None => Exists(hub[h])' /\ Upcoming(d)'.hubs[h] = hub'[h].name
        BY <1>6, <2>5, <3>1 DEF Exists
      <4> QED
        BY <4>3, <4>4 DEF HubRight
    <3>2. CASE ~IsTold(d, S, c)
      <4>1. ~CanAccessHub(d, h)'
        BY <1>7, <2>6, <3>2 DEF IsTold
      <4>2. ~KnowsHub(d, h)
        BY <1>6, <4>1 DEF CanAccessHub, KnowsHub, InHub, Exists
      <4>3. Upcoming(d)'.hubs[h] = None
        BY <2>2, <3>2, <4>2 DEF Hears, SafeTreeOf, SafeTree
      <4> QED
        BY <4>1, <4>3 DEF HubRight, HubIsListed
    <3> QED
      BY <3>1, <3>2
  <2>7. \A g \in Hubs : g # h /\ HubRight(d, g) => HubRight(d, g)'
    BY <1>1, <1>5, <2>4, HubStaysRight DEF HubUntouched, SameMissed
  <2>8. \A ch \in Channels : ChannelKept(d, ch)
    BY <1>1, <1>5, <2>3, ChannelStaysRight, PagesFacts DEF ChanUntouched, SameMissed
  <2>9. \A ch \in Channels : MissesRightly(d, ch)'
    BY <1>1, <2>3, MissesStayRight, PagesFacts
  <2> QED
    BY <2>2, <2>6, <2>7, <2>8, <2>9 DEF StaysRight
<1>10. MissedIsThere'
  BY <1>1, <1>5, PagesFacts DEF MissedIsThere
<1> QED
  BY <1>4, <1>8, <1>9, <1>10, TellKeeps

\* Whoever a hub is closed to knows of a channel in it only by his role there.
LEMMA ClosedHubRole ==
  ASSUME NEW d \in Users, NEW ch \in Channels, KnowsChannel(d, ch),
         d \notin Admins, hub[chan[ch].hub].restricted, ~InHub(d, chan[ch].hub)
  PROVE  role[ch][d] # "none"
BY DEF KnowsChannel

\* Whoever cannot read a channel that is there knows of it only as an outsider.
LEMMA UnreadOutside ==
  ASSUME NEW d \in Users, NEW ch \in Channels, KnowsChannel(d, ch), Exists(chan[ch]),
         ~CanAccessChannel(d, ch)
  PROVE  Outside(d, ch)
<1>1. d \notin Admins
  BY DEF CanAccessChannel
<1>2. CASE ~Exists(hub[chan[ch].hub])
  BY <1>1, <1>2 DEF KnowsChannel, IsOrphan, Outside
<1>3. CASE Exists(hub[chan[ch].hub]) /\ hub[chan[ch].hub].restricted /\ ~InHub(d, chan[ch].hub)
  BY <1>1, <1>3 DEF KnowsChannel, Outside
<1>4. CASE CanAccessHub(d, chan[ch].hub)
  <2>1. chan[ch].private
    BY <1>1, <1>4 DEF CanAccessChannel
  <2> QED
    BY <1>1, <2>1 DEF KnowsChannel, Outside
<1> QED
  BY <1>1, <1>2, <1>3, <1>4 DEF CanAccessHub

LEMMA HubDeleteKeeps ==
  ASSUME PagesInv, RowsKept, NEW c \in Users, HandleHubDelete(c)
  PROVE  PagesStay
<1>1. PICK h \in Hubs :
          /\ Requests(c) /\ DeleteHub(c, h)
          /\ Tell(HubAudience(h), c, Event("hub.deleted", h, None))
          /\ missed' = missed \cup Uninformed(HubAudience(h), c, ChannelsOf(h))
  BY DEF HandleHubDelete
<1>2. PICK m \in Events : /\ m = Event("hub.deleted", h, None)
                          /\ m.t = "hub.deleted" /\ m.id = h
  <2>1. None \in Names \cup {None}
    OBVIOUS
  <2> QED
    BY <2>1, EventIs
<1> DEFINE S == HubAudience(h)
           cut == ChannelsOf(h)
<1>3. Tell(S, c, m) /\ missed' = missed \cup ((authed \ (S \cup {c})) \X cut)
  BY <1>1, <1>2 DEF Uninformed
<1>4. /\ Exists(hub[h]) /\ ~Exists(hub'[h]) /\ present' = present /\ hub[h] \in HubRow
      /\ \A g \in Hubs : g # h => hub'[g] = hub[g]
      /\ \A ch \in Channels : ch \notin cut => chan'[ch] = chan[ch]
      /\ \A ch \in Channels : ch \in cut <=> Exists(chan[ch]) /\ chan[ch].hub = h
  <2>1. DeleteHub(c, h) /\ DirectoryTypeOK
    BY <1>1, PagesFacts
  <2>2. Exists(hub[h]) /\ hub[h] \in HubRow
    BY <2>1, DirectoryAssumption DEF DeleteHub, MayChangeHub, Exists, DirectoryTypeOK
  <2>3. hub'[h] = [hub[h] EXCEPT !.live = FALSE]
    BY <2>1 DEF DeleteHub, DirectoryTypeOK
  <2>4. ~Exists(hub'[h])
    BY <2>2, <2>3 DEF Exists, HubRow
  <2>5. \A g \in Hubs : g # h => hub'[g] = hub[g]
    BY <2>1 DEF DeleteHub, DirectoryTypeOK
  <2>6. \A ch \in Channels : ch \notin cut => chan'[ch] = chan[ch]
    BY <2>1 DEF DeleteHub
  <2>7. present' = present
    BY <2>1 DEF DeleteHub
  <2> QED
    BY <2>2, <2>4, <2>5, <2>6, <2>7 DEF ChannelsOf
<1>5. S = {u \in Users : CanAccessHub(u, h)} /\ cut \subseteq Channels
  BY DEF HubAudience, ChannelsOf
<1> HIDE DEF S, cut
<1>6. c \in authed /\ tree' = tree /\ AsksUntouched
  <2>1. Requests(c)
    BY <1>1
  <2> QED
    BY <2>1, RequestBegins
<1>7. ASSUME NEW d \in Users
      PROVE  Hears(d, S, c, m) /\ StaysRight(d)
  <2>1. SafeMessage(d, m)'
    BY <1>2 DEF SafeMessage
  <2>2. Hears(d, S, c, m)
    BY <1>3, <1>6, <2>1, ToldPage
  <2>3. IsTold(d, S, c) =>
          /\ \A g \in Hubs : Upcoming(d)'.hubs[g] = IF g = h THEN None ELSE Upcoming(d).hubs[g]
          /\ \A ch \in Channels : Upcoming(d)'.chans[ch] =
                IF chan[ch] # None /\ chan[ch].hub = h THEN None ELSE Upcoming(d).chans[ch]
    BY <1>2, <2>2 DEF Hears, IsAfter, HubAfter, ChanAfter
  <2>4. ~IsTold(d, S, c) => Upcoming(d)' = Upcoming(d)
    BY <2>2 DEF Hears
  <2>5. ~IsTold(d, S, c) /\ d \in authed =>
          d \notin Admins /\ hub[h].restricted /\ ~InHub(d, h) /\ ~KnowsHub(d, h)
    BY <1>4, <1>5 DEF IsTold, CanAccessHub, KnowsHub
  <2>6. \A g \in Hubs : SameMissed(d, g)
    BY <1>3, <1>5, ChannelTreeAssumption DEF SameMissed
  <2>7. d \in authed => Upcoming(d)'.hubs[h] = None
    BY <2>2, <2>3, <2>4, <2>5 DEF Hears, SafeTreeOf, SafeTree
  <2>8. d \in authed => HubRight(d, h)'
    BY <1>4, <2>7 DEF HubRight, HubIsListed, Exists
  <2>9. \A g \in Hubs : g # h => Upcoming(d)'.hubs[g] = Upcoming(d).hubs[g]
    BY <2>3, <2>4
  <2>10. \A g \in Hubs : g # h /\ HubRight(d, g) => HubRight(d, g)'
    BY <1>4, <2>6, <2>9, HubStaysRight DEF HubUntouched
  <2>11. ASSUME NEW ch \in Channels, ch \in cut
         PROVE  /\ d \in authed => ChannelShown(d, ch)' /\ ChannelFresh(d, ch)'
                /\ MissesRightly(d, ch)'
    <3>1. /\ Exists(chan[ch]) /\ chan[ch] # None /\ chan[ch].hub = h
          /\ chan'[ch] # None /\ chan'[ch].hub = h
      BY <1>4, <2>11 DEF RowsKept, ChansKept, Exists
    <3>2. ~Exists(hub'[chan'[ch].hub])
      BY <1>4, <3>1
    <3>3. CASE IsTold(d, S, c)
      <4>1. Upcoming(d)'.chans[ch] = None
        BY <2>3, <3>1, <3>3
      <4> QED
        BY <3>2, <4>1 DEF ChannelShown, ChannelFresh, MissesRightly, Exists
    <3>4. CASE ~IsTold(d, S, c) /\ d \in authed
      <4>1. <<d, ch>> \in missed'
        BY <1>3, <1>5, <2>11, <3>4 DEF IsTold
      <4>2. Upcoming(d)'.chans[ch] # None => KnowsChannel(d, ch)
        BY <2>2, <2>4, <3>4 DEF Hears, SafeTreeOf, SafeTree
      <4>3. KnowsChannel(d, ch) => role'[ch][d] # "none"
        BY <2>5, <3>1, <3>4, ClosedHubRole DEF RowsKept, RolesKept
      <4> QED
        BY <3>2, <4>1, <4>2, <4>3 DEF ChannelShown, ChannelFresh, MissesRightly, Outside, Exists
    <3>5. CASE ~IsTold(d, S, c) /\ d \notin authed
      <4>1. <<d, ch>> \in missed' => <<d, ch>> \in missed
        BY <1>3, <3>5
      <4>2. MissesRightly(d, ch)'
        BY <2>4, <3>5, <4>1, MissesStayRight, PagesFacts
      <4> QED
        BY <3>5, <4>2
    <3> QED
      BY <3>3, <3>4, <3>5
  <2>12. ASSUME NEW ch \in Channels, ch \notin cut
         PROVE  ChannelKept(d, ch) /\ MissesRightly(d, ch)'
    <3>1. SameMissed(d, ch) /\ chan'[ch] = chan[ch] /\ present'[ch] = present[ch]
      BY <1>3, <1>4, <2>12 DEF SameMissed
    <3>2. CASE Upcoming(d)'.chans[ch] = Upcoming(d).chans[ch]
      <4>1. ChanUntouched(d, ch)
        BY <3>1, <3>2 DEF ChanUntouched
      <4>2. ChannelKept(d, ch)
        BY <4>1, ChannelStaysRight, PagesFacts
      <4>3. MissesRightly(d, ch)'
        BY <3>1, <3>2, MissesStayRight, PagesFacts DEF SameMissed
      <4> QED
        BY <4>2, <4>3
    <3>3. CASE Upcoming(d)'.chans[ch] # Upcoming(d).chans[ch]
      <4>1. Upcoming(d)'.chans[ch] = None /\ ~Exists(chan'[ch])
        BY <1>4, <2>3, <2>4, <2>12, <3>1, <3>3
      <4> QED
        BY <4>1 DEF ChannelKept, ChannelShown, ChannelFresh, MissesRightly, Exists
    <3> QED
      BY <3>2, <3>3
  <2> QED
    BY <2>2, <2>8, <2>10, <2>11, <2>12 DEF StaysRight, ChannelKept
<1>8. MissedIsThere'
  <2>1. \A ch \in Channels : ch \in cut => chan[ch] # None
    BY <1>4 DEF Exists
  <2>2. \A ch \in Channels : chan[ch] # None => chan'[ch] # None
    BY DEF RowsKept, ChansKept
  <2> QED
    BY <1>3, <2>1, <2>2, PagesFacts DEF MissedIsThere
<1> QED
  BY <1>3, <1>6, <1>7, <1>8, TellKeeps

\* A hub that a step leaves alone, or makes without telling anybody.
HubLeft(g) ==
    \/ hub'[g] = hub[g] /\ \A d \in Users : SameMissed(d, g)
    \/ hub[g] = None /\ \A d \in authed : <<d, g>> \in missed'

LEMMA CreatedKeeps ==
  ASSUME PagesInv, RowsKept, RowsLinked', NEW c \in Users, NEW ch \in Channels, NEW h \in Hubs,
         NEW name \in Names, NEW private \in BOOLEAN, InsertChannel(c, ch, h, name, private),
         \A g \in Hubs : HubLeft(g),
         \A d \in Users, x \in Channels : SameMissed(d, x),
         Tell(ChannelAudience(ch)', c, Event("channel.created", ch, name)),
         c \in authed, tree' = tree, AsksUntouched
  PROVE  PagesStay
<1>1. name # None
  BY NamesExist DEF NamesAreThere
<1>2. PICK m \in Events : /\ m = Event("channel.created", ch, name)
                          /\ m.t = "channel.created" /\ m.id = ch /\ m.name = name
  BY EventIs
<1> DEFINE S == ChannelAudience(ch)'
<1>3. Tell(S, c, m)
  BY <1>2
<1>4. /\ chan[ch] = None /\ chan'[ch] # None /\ chan'[ch].hub = h /\ chan'[ch].live
      /\ chan'[ch].name = name /\ present'[ch] = {c} /\ role'[ch][c] = "owner"
      /\ \A x \in Channels : x # ch => chan'[x] = chan[x] /\ present'[x] = present[x]
  <2> DEFINE row == [hub |-> h, name |-> name, private |-> private, creator |-> c, live |-> TRUE]
  <2>1. row \in ChannelRow
    BY DEF ChannelRow
  <2>2. row # None /\ row.hub = h /\ row.live /\ row.name = name
    BY <2>1, DirectoryAssumption
  <2>3. chan[ch] = None /\ chan'[ch] = row /\ \A x \in Channels : x # ch => chan'[x] = chan[x]
    BY PagesFacts DEF InsertChannel, DirectoryTypeOK
  <2>4. present'[ch] = {c} /\ \A x \in Channels : x # ch => present'[x] = present[x]
    BY PagesFacts DEF InsertChannel, DirectoryTypeOK
  <2>5. role'[ch][c] = "owner"
    BY PagesFacts DEF InsertChannel, DirectoryTypeOK
  <2> HIDE DEF row
  <2> QED
    BY <2>2, <2>3, <2>4, <2>5
<1>5. S = {u \in Users : CanAccessChannel(u, ch)'}
  BY DEF ChannelAudience
<1> HIDE DEF S
<1>6. ASSUME NEW d \in Users
      PROVE  Hears(d, S, c, m) /\ StaysRight(d)
  <2>1. IsTold(d, S, c) => SafeMessage(d, m)'
    <3>1. ASSUME IsTold(d, S, c) PROVE KnowsChannel(d, ch)'
      <4>1. CASE d = c
        BY <1>4, <4>1 DEF KnowsChannel
      <4>2. CASE d # c
        <5>1. CanAccessChannel(d, ch)'
          BY <1>5, <3>1, <4>2 DEF IsTold
        <5>2. d \notin present'[ch]
          BY <1>4, <4>2
        <5>3. \/ d \in Admins
              \/ /\ ~chan'[ch].private /\ Exists(hub[h])'
                 /\ ~hub'[h].restricted \/ InHub(d, h)'
          BY <1>4, <5>1, <5>2 DEF CanAccessChannel, CanAccessHub
        <5> QED
          BY <1>4, <5>3 DEF KnowsChannel, IsOrphan, InHub
      <4> QED
        BY <4>1, <4>2
    <3> QED
      BY <1>1, <1>2, <3>1 DEF SafeMessage
  <2>2. Hears(d, S, c, m)
    BY <1>3, <2>1, ToldPage
  <2>3. Upcoming(d).chans[ch] = None
    BY <1>4, <2>2 DEF Hears, SafeTreeOf, SafeTree, KnowsChannel
  <2>4. \A g \in Hubs : Upcoming(d)'.hubs[g] = Upcoming(d).hubs[g]
    BY <1>2, <2>2 DEF Hears, IsAfter, HubAfter
  <2>5. \A x \in Channels : x # ch => Upcoming(d)'.chans[x] = Upcoming(d).chans[x]
    BY <1>2, <2>2 DEF Hears, IsAfter, ChanAfter
  <2>6. IsTold(d, S, c) => Upcoming(d)'.chans[ch] = name
    BY <1>2, <2>2, <2>3 DEF Hears, IsAfter, ChanAfter
  <2>7. ASSUME NEW g \in Hubs, d \in authed, HubRight(d, g)
        PROVE  HubRight(d, g)'
    <3>1. CASE hub'[g] = hub[g] /\ SameMissed(d, g)
      BY <2>4, <2>7, <3>1, HubStaysRight DEF HubUntouched
    <3>2. CASE hub[g] = None /\ <<d, g>> \in missed'
      <4>1. Upcoming(d)'.hubs[g] = None
        BY <2>2, <2>4, <3>2 DEF Hears, SafeTreeOf, SafeTree, KnowsHub
      <4> QED
        BY <3>2, <4>1 DEF HubRight
    <3>3. HubLeft(g)
      OBVIOUS
    <3> QED
      BY <2>7, <3>1, <3>2, <3>3 DEF HubLeft
  <2>8. ASSUME d \in authed
        PROVE  ChannelShown(d, ch)' /\ ChannelFresh(d, ch)'
    <3>1. CASE IsTold(d, S, c)
      BY <1>1, <1>4, <2>6, <3>1 DEF ChannelShown, ChannelFresh, Exists
    <3>2. CASE ~IsTold(d, S, c)
      <4>1. ~CanAccessChannel(d, ch)'
        BY <1>5, <2>8, <3>2 DEF IsTold
      <4>2. Upcoming(d)'.chans[ch] = None
        BY <2>2, <2>3, <3>2 DEF Hears
      <4> QED
        BY <4>1, <4>2 DEF ChannelShown, ChannelFresh
    <3> QED
      BY <3>1, <3>2
  <2>9. \A x \in Channels : x # ch => ChannelKept(d, x)
    BY <1>4, <2>5, ChannelStaysRight, PagesFacts DEF ChanUntouched
  <2>10. \A x \in Channels : x # ch => MissesRightly(d, x)'
    BY <2>5, MissesStayRight, PagesFacts DEF SameMissed
  <2>11. MissesRightly(d, ch)'
    <3>1. <<d, ch>> \notin missed
      BY <1>4, PagesFacts DEF MissedIsThere
    <3>2. SameMissed(d, ch)
      OBVIOUS
    <3> QED
      BY <3>1, <3>2 DEF MissesRightly, SameMissed
  <2> QED
    BY <2>2, <2>7, <2>8, <2>9, <2>10, <2>11 DEF StaysRight, ChannelKept
<1>7. MissedIsThere'
  BY PagesFacts DEF MissedIsThere, SameMissed, RowsKept, ChansKept
<1> QED
  BY <1>3, <1>6, <1>7, TellKeeps

LEMMA ChannelCreateKeeps ==
  ASSUME PagesInv, RowsKept, RowsLinked', NEW c \in Users, HandleChannelCreate(c)
  PROVE  PagesStay
<1>1. PICK ch \in Channels, h \in Hubs, name \in NewNames, private \in BOOLEAN :
          /\ Requests(c) /\ CreateChannel(c, ch, h, name, private)
          /\ Tell(ChannelAudience(ch)', c, Event("channel.created", ch, name)) /\ UNCHANGED missed
  BY DEF HandleChannelCreate
<1>2. name \in Names
  BY ChannelTreeAssumption
<1>3. hub' = hub /\ InsertChannel(c, ch, h, name, private) /\ missed' = missed
  BY <1>1 DEF CreateChannel
<1>4. Requests(c)
  BY <1>1
<1>5. c \in authed /\ tree' = tree /\ AsksUntouched
  BY <1>4, RequestBegins
<1>6. \A d \in Users : \A id : SameMissed(d, id)
  BY <1>3 DEF SameMissed
<1>7. \A g \in Hubs : HubLeft(g)
  BY <1>3, <1>6 DEF HubLeft
<1>8. Tell(ChannelAudience(ch)', c, Event("channel.created", ch, name))
  BY <1>1
<1> QED
  BY <1>2, <1>3, <1>5, <1>6, <1>7, <1>8, CreatedKeeps

LEMMA DefaultCreateKeeps ==
  ASSUME PagesInv, RowsKept, RowsLinked', NEW c \in Users, HandleDefaultCreate(c)
  PROVE  PagesStay
<1>1. /\ UNCHANGED authed /\ tree' = tree /\ toServer[c] # <<>>
      /\ Head(toServer[c]).t = "channel.create" /\ Consume(c)
  BY DEF HandleDefaultCreate, Incoming, pages
<1>2. PICK ch \in Channels, h \in Hubs :
          /\ CreateDefaultChannel(c, ch, h)
          /\ Tell(ChannelAudience(ch)', c, Event("channel.created", ch, DefaultName))
          /\ missed' = IF hub[h] = None THEN missed \cup (authed \X {h}) ELSE missed
  BY DEF HandleDefaultCreate
<1>3. /\ \A d \in Users : AsksWait(d)
      /\ \A d \in Users : d \notin authed => toServer'[d] = toServer[d]
      /\ c \in authed
  BY <1>1, AsksHandled, PagesFacts DEF AsksWait
<1>4. AsksUntouched
  BY <1>1, <1>3 DEF AsksUntouched
<1>5. InsertChannel(c, ch, h, DefaultName, FALSE) /\ DefaultName \in Names
  BY <1>2, DirectoryAssumption DEF CreateDefaultChannel
<1>6. \A g \in Hubs : hub'[g] = hub[g] \/ (g = h /\ hub[h] = None)
  BY <1>2, PagesFacts DEF CreateDefaultChannel, DirectoryTypeOK
<1>7. \A g \in Hubs : g = h /\ hub[h] = None => \A d \in authed : <<d, g>> \in missed'
  BY <1>2
<1>8. \A d \in Users : \A id : (id = h /\ hub[h] = None) \/ SameMissed(d, id)
  BY <1>2 DEF SameMissed
<1>9. \A g \in Hubs : HubLeft(g)
  BY <1>6, <1>7, <1>8 DEF HubLeft
<1>10. \A d \in Users, x \in Channels : SameMissed(d, x)
  BY <1>8, ChannelTreeAssumption
<1>11. Tell(ChannelAudience(ch)', c, Event("channel.created", ch, DefaultName))
  BY <1>2
<1> QED
  BY <1>1, <1>3, <1>4, <1>5, <1>9, <1>10, <1>11, CreatedKeeps

LEMMA AccessIsKnown ==
  ASSUME RowsLinked, NEW d \in Users, NEW ch \in Channels, chan[ch] # None, CanAccessChannel(d, ch)
  PROVE  KnowsChannel(d, ch)
<1>1. d \in present[ch] => role[ch][d] # "none"
  BY DEF RowsLinked
<1> QED
  BY <1>1 DEF CanAccessChannel, CanAccessHub, KnowsChannel, IsOrphan

LEMMA ChangerKnows ==
  ASSUME TreeInv, NEW c \in Users, NEW ch \in Channels, MayChangeChannel(c, ch)
  PROVE  KnowsChannel(c, ch)
<1>1. chan[ch] # None
  BY DEF MayChangeChannel, Exists
<1>2. CreatorIsOwner
  BY DEF TreeInv, DirectoryInv
<1>3. chan[ch].creator = c => role[ch][c] = "owner"
  BY <1>1, <1>2 DEF CreatorIsOwner
<1> QED
  BY <1>1, <1>3 DEF MayChangeChannel, KnowsChannel

\* A channel is renamed or deleted, and whoever can read it is told.
LEMMA ChangedKeeps ==
  ASSUME PagesInv, RowsKept, NEW c \in Users, NEW ch \in Channels, MayChangeChannel(c, ch),
         hub' = hub, role' = role, present' = present,
         \A x \in Channels : x # ch => chan'[x] = chan[x],
         NEW m \in Events, NEW S, S = ChannelAudience(ch), Tell(S, c, m), m.id = ch,
         \/ /\ m.t = "channel.updated" /\ m.name # None
            /\ Exists(chan'[ch]) /\ chan'[ch].name = m.name
         \/ m.t = "channel.deleted" /\ ~Exists(chan'[ch]),
         missed' = missed \cup Uninformed(S, c, {ch}),
         c \in authed, tree' = tree, AsksUntouched
  PROVE  PagesStay
<1>1. S = {u \in Users : CanAccessChannel(u, ch)}
  BY DEF ChannelAudience
<1>2. Exists(chan[ch]) /\ chan[ch] # None
  BY DEF MayChangeChannel, Exists
<1>3. /\ chan'[ch] # None /\ chan'[ch].hub = chan[ch].hub /\ chan'[ch].private = chan[ch].private
      /\ \A x \in Channels : chan[x] # None => chan'[x] # None
  BY <1>2 DEF RowsKept, ChansKept
<1>4. missed' = missed \cup ((authed \ (S \cup {c})) \X {ch})
  BY DEF Uninformed
<1>5. ASSUME NEW d \in Users
      PROVE  Hears(d, S, c, m) /\ StaysRight(d)
  <2>1. IsTold(d, S, c) => SafeMessage(d, m)'
    <3>1. ASSUME IsTold(d, S, c) PROVE KnowsChannel(d, ch)'
      <4>1. KnowsChannel(d, ch)
        BY <1>1, <1>2, <3>1, AccessIsKnown, ChangerKnows, PagesFacts DEF IsTold
      <4>2. KnowledgeKept(d)
        BY KnowledgeLasts, PagesFacts
      <4> QED
        BY <4>1, <4>2 DEF KnowledgeKept
    <3> QED
      BY <3>1 DEF SafeMessage
  <2>2. Hears(d, S, c, m)
    BY <2>1, ToldPage
  <2>3. \A g \in Hubs : Upcoming(d)'.hubs[g] = Upcoming(d).hubs[g]
    BY <2>2 DEF Hears, IsAfter, HubAfter
  <2>4. \A x \in Channels : x # ch => Upcoming(d)'.chans[x] = Upcoming(d).chans[x]
    BY <2>2 DEF Hears, IsAfter, ChanAfter
  <2>5. IsTold(d, S, c) =>
          Upcoming(d)'.chans[ch] = IF m.t = "channel.deleted" \/ Upcoming(d).chans[ch] = None
                                   THEN None ELSE m.name
    BY <2>2 DEF Hears, IsAfter, ChanAfter
  <2>6. \A g \in Hubs : SameMissed(d, g)
    BY <1>4, ChannelTreeAssumption DEF SameMissed
  <2>7. \A x \in Channels : x # ch => SameMissed(d, x)
    BY <1>4 DEF SameMissed
  <2>8. \A g \in Hubs : HubRight(d, g) => HubRight(d, g)'
    BY <2>3, <2>6, HubStaysRight DEF HubUntouched
  <2>9. \A x \in Channels : x # ch => ChannelKept(d, x)
    BY <2>4, <2>7, ChannelStaysRight, PagesFacts DEF ChanUntouched
  <2>10. \A x \in Channels : x # ch => MissesRightly(d, x)'
    BY <2>4, <2>7, MissesStayRight, PagesFacts DEF SameMissed
  <2>11. CanAccessChannel(d, ch)' => CanAccessChannel(d, ch)
    BY <1>2, <1>3 DEF CanAccessChannel, CanAccessHub, InHub
  <2>12. Exists(hub'[chan'[ch].hub]) = Exists(hub[chan[ch].hub])
    BY <1>3
  <2>13. CASE IsTold(d, S, c)
    <3>1. SameMissed(d, ch)
      BY <1>4, <2>13 DEF SameMissed, IsTold
    <3>2. MissesRightly(d, ch)'
      BY <2>5, <2>13, <3>1, MissesStayRight, PagesFacts DEF SameMissed
    <3>3. ChannelKept(d, ch)
      <4>1. CASE m.t = "channel.deleted" /\ ~Exists(chan'[ch])
        BY <2>5, <2>13, <4>1 DEF ChannelKept, ChannelShown, ChannelFresh, Exists
      <4>2. CASE /\ m.t = "channel.updated" /\ m.name # None
                 /\ Exists(chan'[ch]) /\ chan'[ch].name = m.name
        <5>1. ChannelShown(d, ch) /\ Exists(hub'[chan'[ch].hub]) /\ CanAccessChannel(d, ch)' =>
                Upcoming(d).chans[ch] # None
          BY <1>2, <2>11, <2>12 DEF ChannelShown
        <5>2. Upcoming(d).chans[ch] # None <=> Upcoming(d)'.chans[ch] # None
          BY <2>5, <2>13, <4>2
        <5>3. Upcoming(d)'.chans[ch] # None => Upcoming(d)'.chans[ch] = chan'[ch].name
          BY <2>5, <2>13, <4>2
        <5> QED
          BY <4>2, <5>1, <5>2, <5>3 DEF ChannelKept, ChannelShown, ChannelFresh, Exists
      <4> QED
        BY <4>1, <4>2
    <3> QED
      BY <2>2, <2>8, <2>9, <2>10, <3>2, <3>3 DEF StaysRight
  <2>14. CASE ~IsTold(d, S, c)
    <3>1. Upcoming(d)' = Upcoming(d)
      BY <2>2, <2>14 DEF Hears
    <3>2. CASE d \in authed
      <4>1. <<d, ch>> \in missed' /\ ~CanAccessChannel(d, ch)
        BY <1>1, <1>4, <2>14, <3>2 DEF IsTold
      <4>2. ChannelShown(d, ch)' /\ ChannelFresh(d, ch)'
        BY <2>11, <4>1 DEF ChannelShown, ChannelFresh
      <4>3. Upcoming(d)'.chans[ch] # None => KnowsChannel(d, ch)
        BY <2>2, <3>1 DEF Hears, SafeTreeOf, SafeTree
      <4>4. KnowsChannel(d, ch) => Outside(d, ch)
        BY <1>2, <4>1, UnreadOutside
      <4>5. Outside(d, ch) => Outside(d, ch)'
        BY <1>3 DEF Outside, InHub
      <4>6. MissesRightly(d, ch)'
        BY <4>3, <4>4, <4>5 DEF MissesRightly
      <4> QED
        BY <2>2, <2>8, <2>9, <2>10, <4>2, <4>6 DEF StaysRight, ChannelKept
    <3>3. CASE d \notin authed
      <4>1. SameMissed(d, ch)
        BY <1>4, <3>3 DEF SameMissed
      <4>2. MissesRightly(d, ch)'
        BY <3>1, <4>1, MissesStayRight, PagesFacts DEF SameMissed
      <4> QED
        BY <2>2, <2>10, <3>3, <4>2 DEF StaysRight
    <3> QED
      BY <3>2, <3>3
  <2> QED
    BY <2>13, <2>14
<1>6. MissedIsThere'
  BY <1>2, <1>3, <1>4, PagesFacts DEF MissedIsThere
<1> QED
  BY <1>5, <1>6, TellKeeps

LEMMA ChannelUpdateKeeps ==
  ASSUME PagesInv, RowsKept, NEW c \in Users, HandleChannelUpdate(c)
  PROVE  PagesStay
<1>1. PICK ch \in Channels, name \in Names :
          /\ Requests(c) /\ UpdateChannel(c, ch, name)
          /\ Tell(ChannelAudience(ch)', c, Event("channel.updated", ch, name))
          /\ missed' = missed \cup Uninformed(ChannelAudience(ch), c, {ch})
  BY DEF HandleChannelUpdate
<1>2. PICK m \in Events : /\ m = Event("channel.updated", ch, name)
                          /\ m.t = "channel.updated" /\ m.id = ch /\ m.name = name
  BY EventIs
<1>3. name # None
  BY NamesExist DEF NamesAreThere
<1>4. /\ MayChangeChannel(c, ch) /\ hub' = hub /\ role' = role /\ present' = present
      /\ chan[ch] \in ChannelRow /\ chan[ch].live
      /\ chan'[ch] = [chan[ch] EXCEPT !.name = name]
      /\ \A x \in Channels : x # ch => chan'[x] = chan[x]
  BY <1>1, PagesFacts DEF UpdateChannel, MayChangeChannel, Exists, DirectoryTypeOK
<1>5. /\ chan'[ch].live /\ chan'[ch].name = name /\ chan'[ch].hub = chan[ch].hub
      /\ chan'[ch].private = chan[ch].private /\ chan'[ch] # None /\ chan[ch] # None
  <2>1. /\ chan'[ch].live = chan[ch].live /\ chan'[ch].name = name
        /\ chan'[ch].hub = chan[ch].hub /\ chan'[ch].private = chan[ch].private
    BY <1>4 DEF ChannelRow
  <2>2. chan'[ch] \in ChannelRow
    BY <1>4 DEF ChannelRow
  <2> QED
    BY <1>4, <2>1, <2>2, DirectoryAssumption
<1>6. PICK S : S = ChannelAudience(ch)
  OBVIOUS
<1>7. \A d \in Users : CanAccessChannel(d, ch)' <=> CanAccessChannel(d, ch)
  BY <1>4, <1>5 DEF CanAccessChannel, CanAccessHub, InHub, Exists
<1>8. ChannelAudience(ch)' = S
  BY <1>6, <1>7 DEF ChannelAudience
<1>9. Tell(S, c, m) /\ missed' = missed \cup Uninformed(S, c, {ch})
  BY <1>1, <1>2, <1>6, <1>8
<1>10. c \in authed /\ tree' = tree /\ AsksUntouched
  <2>1. Requests(c)
    BY <1>1
  <2> QED
    BY <2>1, RequestBegins
<1>11. Exists(chan'[ch])
  BY <1>5 DEF Exists
<1> QED
  BY <1>2, <1>3, <1>4, <1>5, <1>6, <1>9, <1>10, <1>11, ChangedKeeps

LEMMA ChannelDeleteKeeps ==
  ASSUME PagesInv, RowsKept, NEW c \in Users, HandleChannelDelete(c)
  PROVE  PagesStay
<1>1. PICK ch \in Channels :
          /\ Requests(c) /\ DeleteChannel(c, ch)
          /\ Tell(ChannelAudience(ch), c, Event("channel.deleted", ch, None))
          /\ missed' = missed \cup Uninformed(ChannelAudience(ch), c, {ch})
  BY DEF HandleChannelDelete
<1>2. PICK m \in Events : /\ m = Event("channel.deleted", ch, None)
                          /\ m.t = "channel.deleted" /\ m.id = ch
  <2>1. None \in Names \cup {None}
    OBVIOUS
  <2> QED
    BY <2>1, EventIs
<1>3. /\ MayChangeChannel(c, ch) /\ hub' = hub /\ role' = role /\ present' = present
      /\ chan[ch] \in ChannelRow
      /\ chan'[ch] = [chan[ch] EXCEPT !.live = FALSE]
      /\ \A x \in Channels : x # ch => chan'[x] = chan[x]
  BY <1>1, PagesFacts DEF DeleteChannel, MayChangeChannel, Exists, DirectoryTypeOK
<1>4. ~Exists(chan'[ch])
  BY <1>3 DEF Exists, ChannelRow
<1>5. PICK S : S = ChannelAudience(ch)
  OBVIOUS
<1>6. Tell(S, c, m) /\ missed' = missed \cup Uninformed(S, c, {ch})
  BY <1>1, <1>2, <1>5
<1>7. c \in authed /\ tree' = tree /\ AsksUntouched
  <2>1. Requests(c)
    BY <1>1
  <2> QED
    BY <2>1, RequestBegins
<1> QED
  BY <1>2, <1>3, <1>4, <1>5, <1>6, <1>7, ChangedKeeps

LEMMA AddMemberKeeps ==
  ASSUME PagesInv, RowsKept, NEW c \in Users, HandleChannelAddMember(c)
  PROVE  PagesStay
<1>1. PICK ch \in Channels, target \in Users :
          /\ Requests(c) /\ AddMember(c, ch, target)
          /\ IF target \in authed
             THEN Reply(target, Event("channel.added", ch, chan[ch].name))
             ELSE UNCHANGED toClient
          /\ missed' = IF Exists(chan[ch]) THEN missed ELSE missed \cup {<<target, ch>>}
  BY DEF HandleChannelAddMember
<1>2. /\ hub' = hub /\ chan' = chan /\ chan[ch] # None /\ role'[ch][target] # "none"
      /\ \A d \in Users, x \in Channels : d # target \/ x # ch => (d \in present'[x] <=> d \in present[x])
  BY <1>1, PagesFacts DEF AddMember, Enrol, DirectoryTypeOK
<1>3. c \in authed /\ tree' = tree /\ AsksUntouched
  <2>1. Requests(c)
    BY <1>1
  <2> QED
    BY <2>1, RequestBegins
<1>4. \A d \in Users : \A id : (d = target /\ id = ch) \/ SameMissed(d, id)
  BY <1>1 DEF SameMissed
<1>5. MissedIsThere'
  <2>1. missed' \subseteq missed \cup {<<target, ch>>}
    BY <1>1
  <2> QED
    BY <1>2, <2>1, PagesFacts DEF MissedIsThere
<1>6. QueuesOK /\ ClosedIsEmpty
  BY PagesFacts
<1>7. \A d \in Users : d # target => toClient'[d] = toClient[d]
  BY <1>1, <1>6 DEF Reply, QueuesOK
<1>8. ASSUME NEW d \in Users, d # target
      PROVE  PageSound(d)'
  <2>1. \A x \in Channels : d \in present'[x] => d \in present[x]
    BY <1>2, <1>8
  <2>2. \A id : SameMissed(d, id)
    BY <1>4, <1>8
  <2>3. AsksWait(d) /\ toClient'[d] = toClient[d] /\ tree'[d] = tree[d]
    BY <1>3, <1>7, <1>8 DEF AsksUntouched
  <2> QED
    BY <1>2, <2>1, <2>2, <2>3, PageUntold
<1>9. \A x \in Channels : MissesRightly(target, x) => MissesRightly(target, x)'
        \/ Upcoming(target)'.chans[x] # Upcoming(target).chans[x]
  <2>1. SUFFICES ASSUME NEW x \in Channels, MissesRightly(target, x),
                        Upcoming(target)'.chans[x] = Upcoming(target).chans[x]
                 PROVE  MissesRightly(target, x)'
    OBVIOUS
  <2>2. CASE x = ch
    BY <1>2, <2>2 DEF MissesRightly, Outside
  <2>3. CASE x # ch
    BY <1>4, <2>1, <2>3, MissesStayRight, PagesFacts DEF SameMissed
  <2> QED
    BY <2>2, <2>3
<1>10. NewcomersBlank'
  BY <1>3, PagesFacts DEF NewcomersBlank, AsksUntouched
<1>11. CASE target \notin authed
  <2>1. toClient' = toClient
    BY <1>1, <1>11
  <2>2. KnowledgeKept(target) /\ SafePage(target)
    BY KnowledgeLasts, PagesFacts DEF PagesInv, PageSound, SafePage
  <2>3. SafePage(target)' /\ Upcoming(target)' = Upcoming(target)
    BY <1>3, <2>1, <2>2, PageLeft, PagesFacts
  <2>4. \A x \in Channels : MissesRightly(target, x)'
    BY <1>9, <2>3, PagesFacts
  <2>5. ~HubsAsked(target)' /\ ~ChannelsAsked(target)' /\ ~Steady(target)'
    BY <1>3, <1>11 DEF HubsAsked, ChannelsAsked, Steady, AsksUntouched
  <2>6. PageSound(target)'
    BY <2>3, <2>4, <2>5 DEF PageSound, SafePage, Right
  <2>7. ClosedIsEmpty'
    BY <1>3, <1>6, <2>1 DEF ClosedIsEmpty, AsksUntouched
  <2> QED
    BY <1>5, <1>8, <1>10, <2>6, <2>7 DEF PagesStay
<1>12. CASE target \in authed
  <2>1. PICK name \in Names : name = chan[ch].name
    BY <1>2, PagesFacts DEF DirectoryTypeOK, ChannelRow
  <2>2. name # None
    BY NamesExist DEF NamesAreThere
  <2>3. PICK m \in Events : /\ m = Event("channel.added", ch, name)
                            /\ m.t = "channel.added" /\ m.id = ch /\ m.name = name
    BY EventIs
  <2>4. toClient'[target] = Append(toClient[target], m) /\ m \in Messages
    BY <1>1, <1>6, <1>12, <2>1, <2>3, SameAnswer DEF Reply, QueuesOK
  <2>5. KnowsChannel(target, ch)'
    BY <1>2 DEF KnowsChannel
  <2>6. SafeMessage(target, m)'
    BY <2>2, <2>3, <2>5 DEF SafeMessage
  <2>7. SafePage(target)' /\ IsAfter(chan, Upcoming(target)', Upcoming(target), m)
    BY <1>3, <2>4, <2>6, PageReplied
  <2>8. /\ \A g \in Hubs : Upcoming(target)'.hubs[g] = Upcoming(target).hubs[g]
        /\ \A x \in Channels : x # ch => Upcoming(target)'.chans[x] = Upcoming(target).chans[x]
        /\ Upcoming(target)'.chans[ch] = IF Upcoming(target).chans[ch] = None
                                         THEN name ELSE Upcoming(target).chans[ch]
    BY <2>3, <2>7 DEF IsAfter, HubAfter, ChanAfter
  <2>9. \A g \in Hubs : SameMissed(target, g)
    BY <1>4, ChannelTreeAssumption
  <2>10. \A g \in Hubs : HubRight(target, g) => HubRight(target, g)'
    BY <1>2, <2>8, <2>9, HubStaysRight DEF HubUntouched
  <2>11. ASSUME NEW x \in Channels, x # ch
         PROVE  ChannelKept(target, x) /\ MissesRightly(target, x)'
    <3>1. ChanUntouched(target, x)
      BY <1>2, <1>4, <2>8, <2>11 DEF ChanUntouched
    <3> QED
      BY <1>9, <2>8, <2>11, <3>1, ChannelStaysRight, PagesFacts
  <2>12. ChannelKept(target, ch)
    <3>1. Upcoming(target)'.chans[ch] # None
      BY <2>2, <2>8
    <3>2. <<target, ch>> \notin missed' => Exists(chan[ch]) /\ <<target, ch>> \notin missed
      BY <1>1
    <3>3. ChannelFresh(target, ch) /\ <<target, ch>> \notin missed' =>
            Upcoming(target)'.chans[ch] = chan[ch].name
      BY <2>1, <2>8, <3>2 DEF ChannelFresh
    <3>4. Exists(chan'[ch]) = Exists(chan[ch]) /\ chan'[ch] = chan[ch]
      BY <1>2
    <3> QED
      BY <3>1, <3>2, <3>3, <3>4 DEF ChannelKept, ChannelShown, ChannelFresh, Exists
  <2>13. MissesRightly(target, ch)'
    BY <1>2 DEF MissesRightly, Outside
  <2>14. AsksWait(target) /\ Right(target)
    BY <1>3 DEF AsksUntouched, PagesInv, PageSound
  <2>15. Right(target)'
    BY <2>10, <2>11, <2>12, <2>13, <2>14 DEF Right, AsksWait, HubsWait, ChannelsWait,
          SteadyBefore, ChannelKept
  <2>16. PageSound(target)'
    BY <2>7, <2>15 DEF PageSound, SafePage
  <2>17. ClosedIsEmpty'
    BY <1>3, <1>6, <1>7, <1>12 DEF ClosedIsEmpty, AsksUntouched
  <2> QED
    BY <1>5, <1>8, <1>10, <2>16, <2>17 DEF PagesStay
<1> QED
  BY <1>11, <1>12

LEMMA LeaveKeeps ==
  ASSUME PagesInv, RowsKept, NEW c \in Users, HandleChannelLeave(c)
  PROVE  PagesStay
<1>1. PICK ch \in Channels : /\ Requests(c) /\ LeaveChannel(c, ch)
                             /\ UNCHANGED <<toClient, missed>>
  BY DEF HandleChannelLeave
<1>2. /\ hub' = hub /\ chan' = chan /\ toClient' = toClient /\ missed' = missed
      /\ \A d \in Users, x \in Channels : d \in present'[x] => d \in present[x]
  BY <1>1, PagesFacts DEF LeaveChannel, DirectoryTypeOK
<1>3. c \in authed /\ tree' = tree /\ AsksUntouched
  <2>1. Requests(c)
    BY <1>1
  <2> QED
    BY <2>1, RequestBegins
<1>4. \A d \in Users : \A id : SameMissed(d, id)
  BY <1>2 DEF SameMissed
<1>5. ASSUME NEW d \in Users
      PROVE  PageSound(d)'
  <2>1. AsksWait(d)
    BY <1>3 DEF AsksUntouched
  <2> QED
    BY <1>2, <1>3, <1>4, <2>1, PageUntold
<1>6. ClosedIsEmpty'
  BY <1>2, <1>3, PagesFacts DEF ClosedIsEmpty, AsksUntouched
<1>7. MissedIsThere' /\ NewcomersBlank'
  BY <1>2, <1>3, PagesFacts DEF MissedIsThere, NewcomersBlank, AsksUntouched
<1> QED
  BY <1>5, <1>6, <1>7 DEF PagesStay

-----------------------------------------------------------------------------
(***************************************************************************)
(* The whole system.                                                       *)
(***************************************************************************)
LEMMA InitPagesInv == Init => PagesInv
<1> SUFFICES ASSUME Init PROVE PagesInv
  OBVIOUS
<1>1. TreeInv
  BY InitTreeInv
<1>2. RowsLinked /\ ClosedIsEmpty /\ NewcomersBlank /\ MissedIsThere
  BY DEF Init, DirectoryInit, RowsLinked, ClosedIsEmpty, NewcomersBlank, MissedIsThere
<1>3. ASSUME NEW c \in Users
      PROVE  PageSound(c)
  <2>1. c \notin authed /\ missed = {} /\ tree[c] = NoTree /\ toClient[c] = <<>>
    BY DEF Init
  <2>2. SafeTree(c, tree[c])
    BY <2>1 DEF SafeTree, NoTree
  <2>3. SafeQueue(c, toClient[c])
    BY <2>1 DEF SafeQueue
  <2>4. Right(c)
    BY <2>1 DEF Right, HubsAsked, ChannelsAsked, Steady, MissesRightly
  <2> QED
    BY <2>2, <2>3, <2>4 DEF PageSound
<1> QED
  BY <1>1, <1>2, <1>3 DEF PagesInv

LEMMA NextPagesInv == PagesInv /\ [Next]_vars => PagesInv'
<1> SUFFICES ASSUME PagesInv, [Next]_vars PROVE PagesInv'
  OBVIOUS
<1>1. TreeInv' /\ [DirectoryNext]_tables
  BY NextTreeInv, NextOK DEF PagesInv, StepOK
<1>2. RowsKept /\ RowsLinked'
  BY <1>1, TablesKept, PagesFacts
<1>3. CASE UNCHANGED vars
  <2>1. /\ UNCHANGED tables /\ authed' = authed /\ missed' = missed
        /\ toServer' = toServer /\ toClient' = toClient /\ tree' = tree
    BY <1>3 DEF vars, pages
  <2>2. \A d \in Users : AsksWait(d)
    BY <2>1, AsksLeft
  <2>3. ClosedIsEmpty' /\ NewcomersBlank' /\ MissedIsThere'
    BY <2>1, PagesFacts DEF ClosedIsEmpty, NewcomersBlank, MissedIsThere, tables
  <2>4. ASSUME NEW d \in Users
        PROVE  PageSound(d)'
    BY <1>2, <2>1, <2>2, PageUntold DEF tables, SameMissed
  <2> QED
    BY <1>1, <1>2, <2>3, <2>4 DEF PagesInv
<1>4. ASSUME NEW c \in Users, ServerStep(c)
      PROVE  PagesStay
  BY <1>2, <1>4, HubListKeeps, ChannelListKeeps, ChannelJoinKeeps, DefaultCreateKeeps DEF ServerStep
<1>5. ASSUME NEW c \in Users, RequestStep(c)
      PROVE  PagesStay
  BY <1>2, <1>5, HubCreateKeeps, HubUpdateKeeps, HubDeleteKeeps, ChannelCreateKeeps,
     ChannelUpdateKeeps, ChannelDeleteKeeps, AddMemberKeeps, LeaveKeeps DEF RequestStep
<1>6. CASE Next
  <2>1. PagesStay
    BY <1>4, <1>5, <1>6, PageStepKeeps, SocketStepKeeps DEF Next
  <2> QED
    BY <1>1, <1>2, <2>1 DEF PagesInv, PagesStay
<1> QED
  BY <1>3, <1>6

LEMMA ResyncedAsked ==
  ASSUME PagesInv, NEW c \in Users, Resynced(c)
  PROVE  HubsAsked(c) /\ ChannelsAsked(c)
<1>1. toServer[c] \in Seq(Asks)
  BY PagesFacts DEF QueuesOK
<1>2. \A i \in 1..Len(toServer[c]) : toServer[c][i] \in ToSet(toServer[c])
  BY <1>1 DEF ToSet
<1> QED
  BY <1>2 DEF Resynced, HubsAsked, ChannelsAsked

\* For any number of users, hubs and channels: whatever crosses on the way, a page
\* that has asked for its lists will show all its user may read and enter, but for a
\* default hub made while he was connected.
THEOREM AccessibleAlwaysShown == Spec => []AccessibleIsShown
<1>1. PagesInv => AccessibleIsShown
  <2> SUFFICES ASSUME PagesInv, NEW c \in Users, Resynced(c)
               PROVE  /\ \A ch \in Channels :
                            Exists(chan[ch]) /\ Exists(hub[chan[ch].hub]) /\ CanAccessChannel(c, ch) =>
                               Upcoming(c).chans[ch] # None
                      /\ \A h \in Hubs :
                            HubIsListed(c, h) /\ <<c, h>> \notin missed => Upcoming(c).hubs[h] # None
    BY DEF AccessibleIsShown
  <2> QED
    BY ResyncedAsked DEF PagesInv, PageSound, Right, HubRight, ChannelShown, ChannelFresh
<1> QED
  BY <1>1, InitPagesInv, NextPagesInv, PTL DEF Spec

\* What such a page will show is there and carries its present name, unless the
\* server changed it without telling the page.
THEOREM ShownAlwaysCurrent == Spec => []ShownIsCurrent
<1>1. PagesInv => ShownIsCurrent
  <2> SUFFICES ASSUME PagesInv, NEW c \in Users, Resynced(c)
               PROVE  /\ \A ch \in Channels :
                            Upcoming(c).chans[ch] # None /\ <<c, ch>> \notin missed =>
                               Exists(chan[ch]) /\ Upcoming(c).chans[ch] = chan[ch].name
                      /\ \A h \in Hubs :
                            Upcoming(c).hubs[h] # None =>
                               Exists(hub[h]) /\ Upcoming(c).hubs[h] = hub[h].name
    BY DEF ShownIsCurrent
  <2> QED
    BY ResyncedAsked DEF PagesInv, PageSound, Right, HubRight, ChannelShown, ChannelFresh
<1> QED
  BY <1>1, InitPagesInv, NextPagesInv, PTL DEF Spec

\* The server leaves a connected page untold of a channel it shows only if the user
\* has a role in the channel or is merely its hub's creator.
THEOREM OnlyOutsidersEverMiss == Spec => []OnlyOutsidersMiss
<1>1. PagesInv => OnlyOutsidersMiss
  BY PagesFacts DEF OnlyOutsidersMiss, MissesRightly, Outside
<1> QED
  BY <1>1, InitPagesInv, NextPagesInv, PTL DEF Spec

\* No tree, no list and no event under way names a restricted hub or a private
\* channel that does not concern the page's user.
THEOREM NothingEverLeaks == Spec => []NothingLeaks
<1>1. PagesInv => NothingLeaks
  <2>1. SUFFICES ASSUME PagesInv, NEW c \in Users
                 PROVE  /\ \A h \in Hubs : Upcoming(c).hubs[h] # None =>
                              c \in Admins \/ ~hub[h].restricted \/ InHub(c, h)
                        /\ \A ch \in Channels : Upcoming(c).chans[ch] # None =>
                              \/ c \in Admins \/ role[ch][c] # "none"
                              \/ InHub(c, chan[ch].hub)
                              \/ ~chan[ch].private /\ ~hub[chan[ch].hub].restricted
    BY DEF NothingLeaks
  <2>2. SafePage(c)
    BY <2>1 DEF PagesInv, PageSound, SafePage
  <2>3. SafeTree(c, Upcoming(c))
    BY <2>1, <2>2, UpcomingSafe, PagesFacts DEF SafeTreeOf
  <2> QED
    BY <2>3 DEF SafeTree, KnowsHub, KnowsChannel
<1> QED
  BY <1>1, InitPagesInv, NextPagesInv, PTL DEF Spec

-----------------------------------------------------------------------------
(***************************************************************************)
(* What a page displays.  A page that keeps its socket gets one list of    *)
(* channels.  Until the server makes it the page displays nothing and its  *)
(* user has left no channel; after that the list has every channel that    *)
(* the page shows when it comes, but for those he was not told of.         *)
(***************************************************************************)
\* What comes before the i-th message of a queue.
Before(q, i) == [j \in 1..(i - 1) |-> q[j]]

NeverLeft(c) == \A ch \in Channels : role[ch][c] # "none" => chan[ch] # None /\ c \in present[ch]
ListsOnly(q) ==
    \A i \in 1..Len(q) :
        q[i].t \in {"hub.list", "channel.list"} /\ (q[i].t = "channel.list" => i = Len(q))
OpensNothing(m) == m.t # "channel.list_result" /\ ~(m.t = "channel.created" /\ m.mine)

Expecting(c) ==
    /\ cur[c] = None
    /\ NeverLeft(c)
    /\ ListsOnly(toServer[c])
    /\ \A i \in 1..Len(toClient[c]) : OpensNothing(toClient[c][i])

ListComplete(c) ==
    \A i \in 1..Len(toClient[c]) : toClient[c][i].t = "channel.list_result" =>
        \A ch \in Channels :
            /\ <<c, ch>> \notin missed
            /\ Shown(chan, tree[c], Before(toClient[c], i)).chans[ch] # None
            => toClient[c][i].chans[ch] # None

DisplaysShown(c) ==
    cur[c] # None /\ <<c, cur[c]>> \notin missed => tree[c].chans[cur[c]] # None

DisplaySound(c) ==
    /\ ~ChannelsAsked(c) => Expecting(c)
    /\ ListComplete(c)
    /\ DisplaysShown(c)

DisplayInv == \A c \in Users \ Unstable : DisplaySound(c)

LEMMA BeforeIs ==
  ASSUME NEW q \in Seq(Messages), NEW i \in 1..Len(q)
  PROVE  /\ Before(q, i) \in Seq(Messages) /\ Len(Before(q, i)) = i - 1
         /\ \A j \in 1..(i - 1) : Before(q, i)[j] = q[j]
<1>1. i - 1 \in Nat /\ \A j \in 1..(i - 1) : j \in 1..Len(q) /\ q[j] \in Messages
  OBVIOUS
<1>2. Before(q, i) \in [1..(i - 1) -> Messages]
  BY <1>1 DEF Before
<1>3. Before(q, i) \in Seq(Messages)
  BY <1>1, <1>2
<1>4. Len(Before(q, i)) = i - 1
  BY <1>1, <1>2, <1>3
<1> QED
  BY <1>3, <1>4 DEF Before

LEMMA BeforeAppend ==
  ASSUME NEW q \in Seq(Messages), NEW m \in Messages, NEW i \in 1..Len(q)
  PROVE  Before(Append(q, m), i) = Before(q, i) /\ Append(q, m)[i] = q[i]
<1>1. \A j \in 1..Len(q) : Append(q, m)[j] = q[j]
  OBVIOUS
<1>2. \A j \in 1..(i - 1) : Append(q, m)[j] = q[j]
  BY <1>1
<1> QED
  BY <1>1, <1>2 DEF Before

\* What comes before a message when the page has taken the first one.
LEMMA BeforeTail ==
  ASSUME NEW q \in Seq(Messages), q # <<>>, NEW i \in 1..Len(Tail(q)), NEW rows, NEW v
  PROVE  /\ i + 1 \in 1..Len(q) /\ Tail(q)[i] = q[i + 1]
         /\ Shown(rows, v, Before(q, i + 1)) =
               Shown(rows, Applied(rows, v, Head(q)), Before(Tail(q), i))
<1> DEFINE p == Before(q, i + 1)
           r == Before(Tail(q), i)
<1>1. /\ i + 1 \in 1..Len(q) /\ Tail(q) \in Seq(Messages)
      /\ \A j \in 1..Len(Tail(q)) : Tail(q)[j] = q[j + 1]
      /\ Head(q) = q[1] /\ (i + 1) - 1 = i
  OBVIOUS
<1>2. p \in Seq(Messages) /\ Len(p) = i /\ \A j \in 1..i : p[j] = q[j]
  BY <1>1, BeforeIs
<1>3. r \in Seq(Messages) /\ Len(r) = i - 1 /\ \A j \in 1..(i - 1) : r[j] = Tail(q)[j]
  BY <1>1, BeforeIs
<1> HIDE DEF p, r
<1>4. p # <<>> /\ Head(p) = Head(q) /\ Tail(p) \in Seq(Messages) /\ Len(Tail(p)) = i - 1
  BY <1>1, <1>2
<1>5. ASSUME NEW j \in 1..(i - 1)
      PROVE  Tail(p)[j] = r[j]
  <2>1. j + 1 \in 1..i /\ j \in 1..Len(Tail(q)) /\ j \in 1..Len(Tail(p))
    BY <1>4
  <2>2. Tail(p)[j] = p[j + 1]
    BY <1>2, <2>1
  <2> QED
    BY <1>1, <1>2, <1>3, <2>1, <2>2
<1>6. Tail(p) = r
  BY <1>3, <1>4, <1>5
<1>7. Shown(rows, v, p) = Shown(rows, Applied(rows, v, Head(p)), Tail(p))
  BY <1>2, <1>4, ShownTail
<1> QED
  BY <1>1, <1>4, <1>6, <1>7 DEF p, r

-----------------------------------------------------------------------------
(***************************************************************************)
(* Steps that a page does not take part in, but for what it is told.       *)
(***************************************************************************)
NotList(d)  == toClient'[d] = toClient[d]
               \/ \E m \in Messages : /\ toClient'[d] = Append(toClient[d], m)
                                      /\ m.t # "channel.list_result"
                                      /\ ChannelsAsked(d) \/ OpensNothing(m)
NotListed(d) == toServer'[d] = toServer[d]
                \/ /\ toServer[d] # <<>> /\ Head(toServer[d]).t # "channel.list"
                   /\ toServer'[d] = Tail(toServer[d])
StaysIn(d)  == ChannelsAsked(d) \/ \A ch \in Channels : chan[ch] # None /\ d \in present[ch] => d \in present'[ch]
MissesMore(d) == \A ch \in Channels : <<d, ch>> \in missed => <<d, ch>> \in missed'

Bystands(d) ==
    /\ tree'[d] = tree[d] /\ cur'[d] = cur[d] /\ (d \in authed' <=> d \in authed)
    /\ NotList(d) /\ NotListed(d) /\ StaysIn(d) /\ MissesMore(d)

\* What was on its way before is shown as it was.
LEMMA ShownBefore ==
  ASSUME PagesInv, RowsKept, NEW d \in Users, tree'[d] = tree[d], NEW i \in 1..Len(toClient[d])
  PROVE  Shown(chan', tree'[d], Before(toClient[d], i)) = Shown(chan, tree[d], Before(toClient[d], i))
<1>1. toClient[d] \in Seq(Messages) /\ SafeTreeOf(d, tree[d])
  BY PagesFacts DEF PagesInv, PageSound, SafeTreeOf, QueuesOK, PagesOK
<1>2. SafeQueue(d, toClient[d])
  BY DEF PagesInv, PageSound
<1>3. SafeQueue(d, Before(toClient[d], i)) /\ Before(toClient[d], i) \in Seq(Messages)
  <2>1. \A j \in 1..(i - 1) : j \in 1..Len(toClient[d])
    BY <1>1
  <2> QED
    BY <1>1, <1>2, <2>1, BeforeIs DEF SafeQueue
<1>4. KeepsHubs(chan')
  BY DEF RowsKept, ChansKept, KeepsHubs
<1> QED
  BY <1>1, <1>3, <1>4, ShownSafe

LEMMA ListStaysComplete ==
  ASSUME PagesInv, RowsKept, NEW d \in Users, ListComplete(d), Bystands(d)
  PROVE  ListComplete(d)'
<1>1. toClient[d] \in Seq(Messages)
  BY PagesFacts DEF QueuesOK
<1>2. ASSUME NEW i \in 1..Len(toClient'[d]), toClient'[d][i].t = "channel.list_result"
      PROVE  /\ i \in 1..Len(toClient[d]) /\ toClient'[d][i] = toClient[d][i]
             /\ Before(toClient'[d], i) = Before(toClient[d], i)
  <2>1. CASE toClient'[d] = toClient[d]
    BY <1>2, <2>1
  <2>2. ASSUME NEW m \in Messages, toClient'[d] = Append(toClient[d], m), m.t # "channel.list_result"
        PROVE  /\ i \in 1..Len(toClient[d]) /\ toClient'[d][i] = toClient[d][i]
               /\ Before(toClient'[d], i) = Before(toClient[d], i)
    <3>1. i \in 1..Len(toClient[d]) \/ (i = Len(toClient[d]) + 1 /\ toClient'[d][i] = m)
      BY <1>1, <1>2, <2>2
    <3>2. i \in 1..Len(toClient[d])
      BY <1>2, <2>2, <3>1
    <3> QED
      BY <1>1, <2>2, <3>2, BeforeAppend
  <2> QED
    BY <2>1, <2>2 DEF Bystands, NotList
<1>3. SUFFICES ASSUME NEW i \in 1..Len(toClient'[d]), toClient'[d][i].t = "channel.list_result",
                      NEW ch \in Channels, <<d, ch>> \notin missed',
                      Shown(chan', tree'[d], Before(toClient'[d], i)).chans[ch] # None
               PROVE  toClient'[d][i].chans[ch] # None
  BY DEF ListComplete
<1>4. /\ i \in 1..Len(toClient[d]) /\ toClient'[d][i] = toClient[d][i]
      /\ Before(toClient'[d], i) = Before(toClient[d], i)
  BY <1>2, <1>3
<1>5. Shown(chan', tree'[d], Before(toClient[d], i)) = Shown(chan, tree[d], Before(toClient[d], i))
  BY <1>4, ShownBefore DEF Bystands
<1>6. <<d, ch>> \notin missed
  BY <1>3 DEF Bystands, MissesMore
<1> HIDE DEF Shown, Before
<1> QED
  BY <1>3, <1>4, <1>5, <1>6 DEF ListComplete

\* Whoever never left a channel got his role by coming in.
LEMMA StillNeverLeft ==
  ASSUME DirectoryTypeOK, RowsKept, [DirectoryNext]_tables, NEW d \in Users, NeverLeft(d),
         \A ch \in Channels : chan[ch] # None /\ d \in present[ch] => d \in present'[ch]
  PROVE  NeverLeft(d)'
<1>1. ASSUME NEW ch \in Channels, role[ch][d] = "none", role'[ch][d] # "none"
      PROVE  chan'[ch] # None /\ d \in present'[ch]
  <2>1. DirectoryNext
    BY <1>1 DEF tables
  <2>2. ASSUME NEW u \in Users, NEW x \in Channels, NEW h \in Hubs, NEW name \in Names,
               NEW private \in BOOLEAN, InsertChannel(u, x, h, name, private)
        PROVE  chan'[ch] # None /\ d \in present'[ch]
    <3>1. x = ch /\ u = d
      BY <1>1, <2>2 DEF InsertChannel, DirectoryTypeOK
    <3>2. present'[ch] = {d}
      BY <2>2, <3>1 DEF InsertChannel, DirectoryTypeOK
    <3> DEFINE row == [hub |-> h, name |-> name, private |-> private, creator |-> u, live |-> TRUE]
    <3>3. chan'[ch] = row
      BY <2>2, <3>1 DEF InsertChannel, DirectoryTypeOK
    <3>4. row \in ChannelRow
      BY DEF ChannelRow
    <3> HIDE DEF row
    <3> QED
      BY <3>2, <3>3, <3>4, DirectoryAssumption
  <2>3. ASSUME NEW u \in Users, NEW x \in Channels, Enrol(u, x), chan[x] # None
        PROVE  chan'[ch] # None /\ d \in present'[ch]
    <3>1. x = ch /\ u = d
      BY <1>1, <2>3 DEF Enrol, DirectoryTypeOK
    <3> QED
      BY <2>3, <3>1 DEF Enrol, DirectoryTypeOK
  <2>4. PICK u \in Users :
          \/ \E h \in Hubs, x \in Channels, name \in Names, private \in BOOLEAN :
                InsertChannel(u, x, h, name, private)
          \/ \E x \in Channels, v \in Users : Enrol(v, x) /\ chan[x] # None
    <3>1. PICK u \in Users :
            \/ \E h \in Hubs : \E x \in Channels, b \in BOOLEAN, name \in Names : CreateChannel(u, x, h, name, b)
            \/ \E h \in Hubs, x \in Channels : CreateDefaultChannel(u, x, h)
            \/ \E x \in Channels : JoinChannel(u, x)
            \/ \E x \in Channels, v \in Users : AddMember(u, x, v)
            \/ UNCHANGED role
      BY <2>1 DEF DirectoryNext, UpdateHub, CreateHub, DeleteHub, UpdateChannel, DeleteChannel, LeaveChannel
    <3>2. role' # role
      BY <1>1
    <3>3. \A x \in Channels : JoinChannel(u, x) => Enrol(u, x) /\ chan[x] # None
      BY <3>2 DEF JoinChannel, JoinRefusal, Exists, tables
    <3>4. DefaultName \in Names /\ FALSE \in BOOLEAN
      BY DirectoryAssumption
    <3> QED
      BY <3>1, <3>2, <3>3, <3>4 DEF CreateChannel, CreateDefaultChannel, AddMember
  <2> QED
    BY <2>2, <2>3, <2>4
<1>2. ASSUME NEW ch \in Channels, role[ch][d] # "none"
      PROVE  chan'[ch] # None /\ d \in present'[ch]
  BY <1>2 DEF NeverLeft, RowsKept, ChansKept
<1> QED
  BY <1>1, <1>2 DEF NeverLeft

LEMMA StillExpecting ==
  ASSUME PagesInv, RowsKept, [DirectoryNext]_tables, NEW d \in Users, Expecting(d), Bystands(d),
         ~ChannelsAsked(d)
  PROVE  Expecting(d)'
<1>1. toClient[d] \in Seq(Messages) /\ toServer[d] \in Seq(Asks)
  BY PagesFacts DEF QueuesOK
<1>2. cur'[d] = None
  BY DEF Expecting, Bystands
<1>3. NeverLeft(d)'
  BY StillNeverLeft, PagesFacts DEF Expecting, Bystands, StaysIn
<1>4. \A i \in 1..Len(toClient'[d]) : OpensNothing(toClient'[d][i])
  <2>1. \A i \in 1..Len(toClient[d]) : OpensNothing(toClient[d][i])
    BY DEF Expecting
  <2>2. CASE toClient'[d] = toClient[d]
    BY <2>1, <2>2
  <2>3. ASSUME NEW m \in Messages, toClient'[d] = Append(toClient[d], m), OpensNothing(m)
        PROVE  \A i \in 1..Len(toClient'[d]) : OpensNothing(toClient'[d][i])
    BY <1>1, <2>1, <2>3
  <2> QED
    BY <2>2, <2>3 DEF Bystands, NotList
<1>5. ListsOnly(toServer'[d])
  <2>1. ListsOnly(toServer[d])
    BY DEF Expecting
  <2>2. CASE toServer'[d] = toServer[d]
    BY <2>1, <2>2
  <2>3. CASE toServer[d] # <<>> /\ toServer'[d] = Tail(toServer[d])
    <3> DEFINE q == toServer[d]
    <3>1. Len(Tail(q)) = Len(q) - 1 /\ \A i \in 1..Len(Tail(q)) : i + 1 \in 1..Len(q) /\ Tail(q)[i] = q[i + 1]
      BY <1>1, <2>3
    <3>2. ListsOnly(Tail(q))
      BY <1>1, <2>1, <3>1 DEF ListsOnly
    <3> QED
      BY <2>3, <3>2
  <2> QED
    BY <2>2, <2>3 DEF Bystands, NotListed
<1> QED
  BY <1>2, <1>3, <1>4, <1>5 DEF Expecting

LEMMA StillAsked ==
  ASSUME PagesInv, NEW d \in Users, Bystands(d), ChannelsAsked(d)
  PROVE  ChannelsAsked(d)'
<1>1. toServer[d] \in Seq(Asks)
  BY PagesFacts DEF QueuesOK
<1>2. CASE toServer'[d] = toServer[d]
  BY <1>2 DEF ChannelsAsked, Bystands
<1>3. CASE toServer[d] # <<>> /\ toServer'[d] = Tail(toServer[d])
  <2>1. \A i \in 1..Len(Tail(toServer[d])) :
          i + 1 \in 1..Len(toServer[d]) /\ Tail(toServer[d])[i] = toServer[d][i + 1]
    BY <1>1, <1>3
  <2> QED
    BY <1>3, <2>1 DEF ChannelsAsked, Bystands
<1> QED
  BY <1>2, <1>3 DEF Bystands, NotListed

LEMMA BystandsKeeps ==
  ASSUME PagesInv, RowsKept, [DirectoryNext]_tables, NEW d \in Users, DisplaySound(d), Bystands(d)
  PROVE  DisplaySound(d)'
<1>1. ~ChannelsAsked(d)' => Expecting(d)'
  BY StillAsked, StillExpecting DEF DisplaySound
<1>2. ListComplete(d)'
  BY ListStaysComplete DEF DisplaySound
<1>3. DisplaysShown(d)'
  <2>1. cur[d] # None => cur[d] \in Channels
    BY PagesFacts DEF PagesOK
  <2> QED
    BY <2>1 DEF DisplaySound, DisplaysShown, Bystands, MissesMore
<1> QED
  BY <1>1, <1>2, <1>3 DEF DisplaySound

-----------------------------------------------------------------------------
(***************************************************************************)
(* Who stands by at which step.                                            *)
(***************************************************************************)
LEMMA TellNotList ==
  ASSUME NEW c \in Users, NEW m \in Events, ~m.mine, NEW S, Tell(S, c, m),
         NEW d \in Users, d # c \/ ChannelsAsked(d)
  PROVE  NotList(d)
<1>1. /\ m \in Messages /\ Answer(m) \in Messages /\ Answer(m).t = m.t
      /\ m.t # "channel.list_result"
  BY SameAnswer
<1>2. OpensNothing(m)
  BY <1>1 DEF OpensNothing
<1>3. CASE d = c
  <2>1. toClient'[d] = Append(toClient[d], Answer(m))
    BY <1>3 DEF Tell
  <2> QED
    BY <1>1, <1>3, <2>1 DEF NotList
<1>4. CASE d # c
  BY <1>1, <1>2, <1>4 DEF NotList, Tell
<1> QED
  BY <1>3, <1>4

LEMMA EventNotMine ==
  ASSUME NEW t, NEW id, NEW name \in Names \cup {None},
         \/ t \in {"hub.created", "hub.updated", "hub.deleted"} /\ id \in Hubs
         \/ t \in {"channel.created", "channel.updated", "channel.deleted", "channel.added"}
               /\ id \in Channels
  PROVE  \E m \in Events : m = Event(t, id, name) /\ ~m.mine
<1>1. Event(t, id, name) \in Events
  BY DEF Event, Events, HubEvents, ChanEvents
<1> QED
  BY <1>1 DEF Event

LEMMA RequestsAsked ==
  ASSUME PagesInv, NEW c \in Users, Requests(c), NEW d \in Users
  PROVE  /\ ChannelsAsked(c) /\ NotListed(d) /\ tree'[d] = tree[d] /\ cur'[d] = cur[d]
         /\ d \in authed' <=> d \in authed
<1>1. c \in authed /\ toServer[c] = <<>> /\ UNCHANGED <<authed, toServer, tree, cur>>
  BY DEF Requests, pages
<1>2. \A i \in 1..Len(toServer[c]) : FALSE
  BY <1>1
<1> QED
  BY <1>1, <1>2 DEF ChannelsAsked, NotListed

LEMMA RequestBystands ==
  ASSUME PagesInv, NEW c \in Users, RequestStep(c), NEW d \in Users
  PROVE  Bystands(d)
<1>1. Requests(c)
  BY DEF RequestStep, HandleHubCreate, HandleHubUpdate, HandleHubDelete, HandleChannelCreate,
         HandleChannelUpdate, HandleChannelDelete, HandleChannelAddMember, HandleChannelLeave
<1>2. /\ ChannelsAsked(c) /\ NotListed(d) /\ tree'[d] = tree[d] /\ cur'[d] = cur[d]
      /\ d \in authed' <=> d \in authed
  BY <1>1, RequestsAsked
<1>3. DirectoryTypeOK /\ QueuesOK
  BY PagesFacts
<1>4. None \in Names \cup {None} /\ NewNames \subseteq Names
  BY ChannelTreeAssumption
<1>5. NotList(d)
  <2>1. ASSUME NEW t, NEW id, NEW name \in Names \cup {None}, NEW S,
               \/ t \in {"hub.created", "hub.updated", "hub.deleted"} /\ id \in Hubs
               \/ t \in {"channel.created", "channel.updated", "channel.deleted"} /\ id \in Channels,
               Tell(S, c, Event(t, id, name))
        PROVE  NotList(d)
    <3>1. PICK m \in Events : m = Event(t, id, name) /\ ~m.mine
      BY <2>1, EventNotMine
    <3>2. Tell(S, c, m)
      BY <2>1, <3>1
    <3> QED
      BY <1>2, <3>1, <3>2, TellNotList
  <2>2. CASE HandleHubCreate(c)
    <3>1. PICK h \in Hubs, name \in NewNames :
            \E restricted \in BOOLEAN : Tell(HubAudience(h)', c, Event("hub.created", h, name))
      BY <2>2 DEF HandleHubCreate
    <3> QED
      BY <1>4, <2>1, <3>1
  <2>3. CASE HandleHubUpdate(c)
    <3>1. PICK h \in Hubs, name \in Names : Tell(HubAudience(h)', c, Event("hub.updated", h, name))
      BY <2>3 DEF HandleHubUpdate
    <3> QED
      BY <1>4, <2>1, <3>1
  <2>4. CASE HandleHubDelete(c)
    <3>1. PICK h \in Hubs : Tell(HubAudience(h), c, Event("hub.deleted", h, None))
      BY <2>4 DEF HandleHubDelete
    <3> QED
      BY <1>4, <2>1, <3>1
  <2>5. CASE HandleChannelCreate(c)
    <3>1. PICK ch \in Channels, name \in NewNames :
            Tell(ChannelAudience(ch)', c, Event("channel.created", ch, name))
      BY <2>5 DEF HandleChannelCreate
    <3> QED
      BY <1>4, <2>1, <3>1
  <2>6. CASE HandleChannelUpdate(c)
    <3>1. PICK ch \in Channels, name \in Names :
            Tell(ChannelAudience(ch)', c, Event("channel.updated", ch, name))
      BY <2>6 DEF HandleChannelUpdate
    <3> QED
      BY <1>4, <2>1, <3>1
  <2>7. CASE HandleChannelDelete(c)
    <3>1. PICK ch \in Channels : Tell(ChannelAudience(ch), c, Event("channel.deleted", ch, None))
      BY <2>7 DEF HandleChannelDelete
    <3> QED
      BY <1>4, <2>1, <3>1
  <2>8. CASE HandleChannelAddMember(c)
    <3>1. PICK ch \in Channels, target \in Users :
            /\ chan[ch] # None
            /\ Reply(target, Event("channel.added", ch, chan[ch].name)) \/ UNCHANGED toClient
      BY <2>8 DEF HandleChannelAddMember, AddMember
    <3>2. chan[ch].name \in Names
      BY <1>3, <3>1 DEF DirectoryTypeOK, ChannelRow
    <3>3. PICK m \in Events : m = Event("channel.added", ch, chan[ch].name) /\ ~m.mine
      BY <3>2, EventNotMine
    <3>4. m \in Messages /\ m.t # "channel.list_result" /\ OpensNothing(m)
      BY <3>3, SameAnswer DEF OpensNothing
    <3>5. toClient'[d] = toClient[d] \/ toClient'[d] = Append(toClient[d], m)
      BY <1>3, <3>1, <3>3 DEF Reply, QueuesOK
    <3> QED
      BY <3>4, <3>5 DEF NotList
  <2>9. CASE HandleChannelLeave(c)
    BY <2>9 DEF HandleChannelLeave, NotList
  <2> QED
    BY <2>2, <2>3, <2>4, <2>5, <2>6, <2>7, <2>8, <2>9 DEF RequestStep
<1>6. StaysIn(d)
  <2>1. CASE HandleChannelLeave(c)
    <3>1. PICK ch \in Channels : LeaveChannel(c, ch)
      BY <2>1 DEF HandleChannelLeave
    <3>2. \A x \in Channels : present'[x] = present[x] \/ present'[x] = present[x] \ {c}
      BY <1>3, <3>1 DEF LeaveChannel, DirectoryTypeOK
    <3> QED
      BY <1>2, <3>2 DEF StaysIn
  <2>2. CASE HandleChannelCreate(c)
    <3>1. PICK ch \in Channels, h \in Hubs, name \in NewNames, private \in BOOLEAN :
            CreateChannel(c, ch, h, name, private)
      BY <2>2 DEF HandleChannelCreate
    <3> QED
      BY <1>3, <3>1 DEF CreateChannel, InsertChannel, DirectoryTypeOK, StaysIn
  <2>3. CASE HandleChannelAddMember(c)
    <3>1. PICK ch \in Channels, target \in Users : AddMember(c, ch, target)
      BY <2>3 DEF HandleChannelAddMember
    <3>2. \A x \in Channels : present[x] \subseteq present'[x]
      BY <1>3, <3>1 DEF AddMember, Enrol, DirectoryTypeOK
    <3> QED
      BY <3>2 DEF StaysIn
  <2>4. CASE \/ HandleHubCreate(c) \/ HandleHubUpdate(c) \/ HandleHubDelete(c)
             \/ HandleChannelUpdate(c) \/ HandleChannelDelete(c)
    <3>1. present' = present
      BY <2>4 DEF HandleHubCreate, HandleHubUpdate, HandleHubDelete, HandleChannelUpdate,
                  HandleChannelDelete, CreateHub, UpdateHub, DeleteHub, UpdateChannel, DeleteChannel
    <3> QED
      BY <3>1 DEF StaysIn
  <2> QED
    BY <2>1, <2>2, <2>3, <2>4 DEF RequestStep
<1>7. MissesMore(d)
  <2>1. missed \subseteq missed'
    BY DEF RequestStep, HandleHubCreate, HandleHubUpdate, HandleHubDelete, HandleChannelCreate,
           HandleChannelUpdate, HandleChannelDelete, HandleChannelAddMember, HandleChannelLeave
  <2> QED
    BY <2>1 DEF MissesMore
<1> QED
  BY <1>2, <1>5, <1>6, <1>7 DEF Bystands

LEMMA AskedNotList ==
  ASSUME PagesInv, NEW c \in Users, toServer[c] # <<>>, DisplaySound(c),
         Head(toServer[c]).t \notin {"hub.list", "channel.list"}
  PROVE  ChannelsAsked(c)
<1>1. toServer[c] \in Seq(Asks) /\ 1 \in 1..Len(toServer[c]) /\ Head(toServer[c]) = toServer[c][1]
  BY PagesFacts DEF QueuesOK
<1> QED
  BY <1>1 DEF DisplaySound, Expecting, ListsOnly


\* The server answers c, or tells of a channel that c's page made; the list of
\* channels concerns everybody else.
LEMMA ServerBystands ==
  ASSUME PagesInv, NEW c \in Users, ServerStep(c),
         NEW d \in Users, DisplaySound(d), d # c \/ ~HandleChannelList(c)
  PROVE  Bystands(d)
<1>1. DirectoryTypeOK /\ QueuesOK /\ DirectoryInv
  BY PagesFacts DEF TreeInv
<1>2. toServer[c] # <<>> /\ Consume(c) /\ UNCHANGED <<authed, tree, cur>>
  BY DEF ServerStep, HandleHubList, HandleChannelJoin, HandleDefaultCreate, HandleChannelList,
         Incoming, pages
<1>3. toServer'[d] = IF d = c THEN Tail(toServer[d]) ELSE toServer[d]
  BY <1>1, <1>2 DEF Consume, QueuesOK
<1>4. tree'[d] = tree[d] /\ cur'[d] = cur[d] /\ (d \in authed' <=> d \in authed)
  BY <1>2
<1>5. CASE HandleHubList(c)
  <2>1. UNCHANGED tables /\ missed' = missed \ ({c} \X Hubs) /\ Reply(c, HubList(c))
        /\ Head(toServer[c]).t = "hub.list"
    BY <1>5 DEF HandleHubList, Incoming
  <2>2. PICK m \in Messages : m = HubList(c)
    BY <1>1, ListsOK
  <2>3. m.t = "hub.list_result"
    BY <2>2 DEF HubList
  <2>4. NotList(d)
    <3>1. toClient'[d] = IF d = c THEN Append(toClient[d], m) ELSE toClient[d]
      BY <1>1, <2>1, <2>2 DEF Reply, QueuesOK
    <3> QED
      BY <2>3, <3>1 DEF NotList, OpensNothing
  <2>5. StaysIn(d)
    BY <2>1 DEF StaysIn, tables
  <2>6. MissesMore(d)
    BY <2>1, ChannelTreeAssumption DEF MissesMore
  <2>7. NotListed(d)
    BY <1>2, <1>3, <2>1 DEF NotListed
  <2> QED
    BY <1>4, <2>4, <2>5, <2>6, <2>7 DEF Bystands
<1>6. CASE HandleChannelJoin(c)
  <2> DEFINE ch == Head(toServer[c]).ch
  <2>1. UNCHANGED missed /\ Head(toServer[c]).t = "channel.join"
    BY <1>6 DEF HandleChannelJoin, Incoming
  <2>2. StaysIn(d)
    <3>1. CASE JoinChannel(c, ch)
      <4>1. \A x \in Channels : present[x] \subseteq present'[x]
        BY <1>1, <3>1 DEF JoinChannel, Enrol, tables, DirectoryTypeOK
      <4> QED
        BY <4>1 DEF StaysIn
    <3>2. CASE UNCHANGED tables
      BY <3>2 DEF StaysIn, tables
    <3> QED
      BY <1>6, <3>1, <3>2 DEF HandleChannelJoin
  <2>3. NotList(d)
    <3>1. CASE UNCHANGED toClient
      BY <3>1 DEF NotList
    <3>2. CASE Reply(c, Failure(JoinRefusal(c, ch)))
      <4>1. PICK m \in Messages : m = Failure(JoinRefusal(c, ch))
        <5>1. JoinRefusal(c, ch) \in Codes
          BY DEF JoinRefusal, Codes
        <5> QED
          BY <5>1 DEF Failure, Messages
      <4>2. m.t = "error"
        BY <4>1 DEF Failure
      <4>3. toClient'[d] = IF d = c THEN Append(toClient[d], m) ELSE toClient[d]
        BY <1>1, <3>2, <4>1 DEF Reply, QueuesOK
      <4> QED
        BY <4>2, <4>3 DEF NotList, OpensNothing
    <3> QED
      BY <1>6, <3>1, <3>2 DEF HandleChannelJoin
  <2>4. NotListed(d)
    BY <1>2, <1>3, <2>1 DEF NotListed
  <2> QED
    BY <1>4, <2>1, <2>2, <2>3, <2>4 DEF Bystands, MissesMore
<1>7. CASE HandleDefaultCreate(c)
  <2>1. Head(toServer[c]).t = "channel.create"
    BY <1>7 DEF HandleDefaultCreate, Incoming
  <2>2. PICK ch \in Channels, h \in Hubs :
          /\ CreateDefaultChannel(c, ch, h)
          /\ Tell(ChannelAudience(ch)', c, Event("channel.created", ch, DefaultName))
          /\ missed' = IF hub[h] = None THEN missed \cup (authed \X {h}) ELSE missed
    BY <1>7 DEF HandleDefaultCreate
  <2>3. StaysIn(d)
    <3>1. chan[ch] = None /\ \A x \in Channels : x # ch => present'[x] = present[x]
      BY <1>1, <2>2 DEF CreateDefaultChannel, InsertChannel, DirectoryTypeOK
    <3> QED
      BY <3>1 DEF StaysIn
  <2>4. d # c \/ ChannelsAsked(d)
    BY <1>2, <2>1, AskedNotList
  <2>5. NotList(d)
    <3>1. PICK m \in Events : m = Event("channel.created", ch, DefaultName) /\ ~m.mine
      BY DirectoryAssumption, EventNotMine
    <3>2. Tell(ChannelAudience(ch)', c, m)
      BY <2>2, <3>1
    <3> QED
      BY <2>4, <3>1, <3>2, TellNotList
  <2>6. NotListed(d)
    BY <1>2, <1>3, <2>1 DEF NotListed
  <2>7. MissesMore(d)
    BY <2>2 DEF MissesMore
  <2> QED
    BY <1>4, <2>3, <2>5, <2>6, <2>7 DEF Bystands
<1>8. CASE HandleChannelList(c) /\ d # c
  <2>1. /\ UNCHANGED tables /\ Reply(c, ChannelList(c))
        /\ missed' = (missed \ ({c} \X {ch \in Channels : Exists(chan[ch])}))
                        \cup ({c} \X {ch \in Channels : IsOrphan(ch)})
    BY <1>8 DEF HandleChannelList
  <2>2. toClient'[d] = toClient[d]
    BY <1>1, <1>8, <2>1 DEF Reply, QueuesOK
  <2>3. StaysIn(d)
    BY <2>1 DEF StaysIn, tables
  <2>4. MissesMore(d)
    BY <1>8, <2>1 DEF MissesMore
  <2> QED
    BY <1>3, <1>4, <1>8, <2>2, <2>3, <2>4 DEF Bystands, NotList, NotListed
<1> QED
  BY <1>5, <1>6, <1>7, <1>8 DEF ServerStep

LEMMA BeforeLast ==
  ASSUME NEW q \in Seq(Messages), NEW m \in Messages
  PROVE  Before(Append(q, m), Len(q) + 1) = q
<1> DEFINE a == Append(q, m)
<1>1. a \in Seq(Messages) /\ Len(a) = Len(q) + 1 /\ \A j \in 1..Len(q) : a[j] = q[j]
  OBVIOUS
<1> HIDE DEF a
<1>2. Len(q) + 1 \in 1..Len(a) /\ (Len(q) + 1) - 1 = Len(q)
  BY <1>1
<1>3. /\ Before(a, Len(q) + 1) \in Seq(Messages) /\ Len(Before(a, Len(q) + 1)) = Len(q)
      /\ \A j \in 1..Len(q) : Before(a, Len(q) + 1)[j] = a[j]
  BY <1>1, <1>2, BeforeIs
<1> HIDE DEF Before
<1>4. Before(a, Len(q) + 1) = q
  BY <1>1, <1>3
<1> QED
  BY <1>4 DEF a

\* The list that comes has every channel that the page is to show and that its user
\* was told of: he has left none, so that he may still read all he ever could.
LEMMA ListComes ==
  ASSUME PagesInv, NEW d \in Users \ Unstable, HandleChannelList(d), DisplaySound(d)
  PROVE  DisplaySound(d)'
<1> DEFINE q == toClient[d]
<1>1. DirectoryTypeOK /\ QueuesOK /\ DirectoryInv /\ RowsLinked /\ d \in Users
  BY PagesFacts DEF TreeInv
<1>2. /\ UNCHANGED tables /\ authed' = authed /\ tree' = tree /\ cur' = cur
      /\ toServer[d] # <<>> /\ Head(toServer[d]).t = "channel.list" /\ Consume(d)
      /\ Reply(d, ChannelList(d))
      /\ missed' = (missed \ ({d} \X {ch \in Channels : Exists(chan[ch])}))
                      \cup ({d} \X {ch \in Channels : IsOrphan(ch)})
  BY DEF HandleChannelList, Incoming, pages
<1>3. d \in authed
  BY <1>1, <1>2, PagesFacts DEF ClosedIsEmpty
<1>4. toServer[d] \in Seq(Asks) /\ 1 \in 1..Len(toServer[d]) /\ toServer[d][1] = Head(toServer[d])
  BY <1>1, <1>2 DEF QueuesOK
<1>5. Expecting(d)
  BY <1>2, <1>4 DEF DisplaySound, ChannelsAsked
<1>6. 1 = Len(toServer[d])
  BY <1>2, <1>4, <1>5 DEF Expecting, ListsOnly
<1>7. Len(toServer'[d]) = 0
  BY <1>1, <1>2, <1>4, <1>6 DEF Consume, QueuesOK
<1>8. ChannelsAsked(d)'
  BY <1>2, <1>3, <1>7 DEF ChannelsAsked
<1>9. PICK m \in Messages : m = ChannelList(d)
  BY <1>1, ListsOK
<1>10. toClient'[d] = Append(q, m) /\ q \in Seq(Messages)
  BY <1>1, <1>2, <1>9 DEF Reply, QueuesOK
<1>11. \A ch \in Channels : m.chans[ch] = IF ChannelIsListed(d, ch) THEN chan[ch].name ELSE None
  BY <1>9 DEF ChannelList
<1>12. ASSUME NEW ch \in Channels, <<d, ch>> \notin missed', Upcoming(d).chans[ch] # None
       PROVE  m.chans[ch] # None
  <2>1. KnowsChannel(d, ch)
    <3>1. SafePage(d)
      BY DEF PagesInv, PageSound, SafePage
    <3>2. SafeTreeOf(d, Upcoming(d))
      BY <3>1, PagesFacts, UpcomingSafe
    <3> HIDE DEF Upcoming
    <3> QED
      BY <1>12, <3>2 DEF SafeTreeOf, SafeTree
  <2>2. ~IsOrphan(ch)
    BY <1>2, <1>12
  <2>3. Exists(chan[ch])
    <3>1. SUFFICES ASSUME ~Exists(chan[ch]) PROVE FALSE
      OBVIOUS
    <3>2. <<d, ch>> \notin missed
      BY <1>2, <1>12, <3>1
    <3>3. ChannelFresh(d, ch)
      BY <1>3 DEF PagesInv, PageSound, Right, Steady
    <3> HIDE DEF Upcoming
    <3> QED
      BY <1>12, <3>1, <3>2, <3>3 DEF ChannelFresh
  <2>4. Exists(hub[chan[ch].hub])
    BY <2>2, <2>3 DEF IsOrphan
  <2>5. role[ch][d] # "none" => d \in present[ch]
    BY <1>5 DEF Expecting, NeverLeft
  <2>6. ChannelIsListed(d, ch)
    BY <2>1, <2>3, <2>4, <2>5 DEF ChannelIsListed, KnowsChannel
  <2>7. chan[ch].name # None
    BY <1>1, <2>3, DirectoryAssumption DEF DirectoryTypeOK, ChannelRow, Exists
  <2> QED
    BY <1>11, <2>6, <2>7
<1>13. ListComplete(d)'
  <2>1. SUFFICES ASSUME NEW i \in 1..Len(toClient'[d]), toClient'[d][i].t = "channel.list_result",
                        NEW ch \in Channels, <<d, ch>> \notin missed',
                        Shown(chan', tree'[d], Before(toClient'[d], i)).chans[ch] # None
                 PROVE  toClient'[d][i].chans[ch] # None
    BY DEF ListComplete
  <2>2. i \in 1..Len(q) => toClient'[d][i] = q[i] /\ OpensNothing(q[i])
    BY <1>5, <1>10 DEF Expecting
  <2>3. i = Len(q) + 1 /\ toClient'[d][i] = m
    BY <1>10, <2>1, <2>2 DEF OpensNothing
  <2>4. Before(toClient'[d], i) = q
    BY <1>10, <2>3, BeforeLast
  <2>5. Shown(chan', tree'[d], Before(toClient'[d], i)) = Upcoming(d)
    <3>1. chan' = chan /\ tree'[d] = tree[d]
      BY <1>2 DEF tables
    <3> QED
      BY <2>4, <3>1 DEF Upcoming
  <2> HIDE DEF Upcoming, Shown
  <2> QED
    BY <1>12, <2>1, <2>3, <2>5
<1>14. DisplaysShown(d)'
  BY <1>2, <1>5 DEF DisplaysShown, Expecting
<1> QED
  BY <1>8, <1>13, <1>14 DEF DisplaySound

\* The page and the socket of c are nothing to the others.
LEMMA OthersBystand ==
  ASSUME PagesInv, NEW c \in Users,
         \/ SignIn(c) \/ PageStep(c) \/ Drop(c) \/ Reload(c)
         \/ \E ch \in Channels : SwitchTo(c, ch),
         NEW d \in Users, d # c
  PROVE  Bystands(d)
<1>1. QueuesOK /\ PagesOK
  BY PagesFacts
<1>2. /\ UNCHANGED tables /\ (missed' = missed \/ missed' = {m \in missed : m[1] # c})
      /\ d \in authed' <=> d \in authed
  BY DEF SignIn, PageStep, ShowHubs, HandleChannelListResult, HandleChannelCreated,
         HandleChannelUpdated, HandleDeleted, HandleError, Takes, Drop, Reload, Cut, SwitchTo
<1>3. toServer'[d] = toServer[d]
  BY <1>1 DEF SignIn, PageStep, ShowHubs, HandleChannelListResult, HandleChannelCreated,
         HandleChannelUpdated, HandleDeleted, HandleError, Drop, Reload, Cut, SwitchTo, Stay,
         Activate, Sends, QueuesOK
<1>4. toClient'[d] = toClient[d]
  BY <1>1 DEF SignIn, PageStep, ShowHubs, HandleChannelListResult, HandleChannelCreated,
         HandleChannelUpdated, HandleDeleted, HandleError, Drop, Reload, Cut, SwitchTo, Takes,
         Taken, QueuesOK
<1>5. tree'[d] = tree[d]
  BY <1>1 DEF SignIn, PageStep, ShowHubs, HandleChannelListResult, HandleChannelCreated,
         HandleChannelUpdated, HandleDeleted, HandleError, Drop, Reload, Cut, SwitchTo, Takes,
         pages, PagesOK
<1>6. cur'[d] = cur[d]
  BY <1>1 DEF SignIn, PageStep, ShowHubs, HandleChannelListResult, HandleChannelCreated,
         HandleChannelUpdated, HandleDeleted, HandleError, Drop, Reload, Cut, SwitchTo, Stay,
         Activate, pages, PagesOK
<1>7. StaysIn(d)
  BY <1>2 DEF StaysIn, tables
<1>8. MissesMore(d)
  <2>1. \A ch \in Channels : <<d, ch>>[1] # c
    OBVIOUS
  <2> QED
    BY <1>2, <2>1 DEF MissesMore
<1> QED
  BY <1>2, <1>3, <1>4, <1>5, <1>6, <1>7, <1>8 DEF Bystands, NotList, NotListed

LEMMA StutterBystands ==
  ASSUME UNCHANGED vars, NEW d \in Users
  PROVE  Bystands(d)
BY DEF vars, tables, pages, Bystands, NotList, NotListed, StaysIn, MissesMore

\* A page that signs in begins empty.
LEMMA SignInDisplays ==
  ASSUME PagesInv, NEW d \in Users, SignIn(d), DisplaySound(d)
  PROVE  DisplaySound(d)'
<1> DEFINE s == <<Ask("hub.list", None), Ask("channel.list", None)>>
<1>1. d \notin authed /\ UNCHANGED <<tables, toClient, tree, cur, missed>>
      /\ toServer' = [toServer EXCEPT ![d] = s]
  BY DEF SignIn, pages
<1>2. toServer'[d] = s
  BY <1>1, PagesFacts DEF QueuesOK
<1>3. Expecting(d)
  BY <1>1 DEF DisplaySound, ChannelsAsked
<1>4. ListsOnly(s)
  <2>1. Len(s) = 2 /\ s[1].t = "hub.list" /\ s[2].t = "channel.list"
    BY DEF Ask
  <2> HIDE DEF s
  <2> QED
    BY <2>1 DEF ListsOnly
<1>5. Expecting(d)'
  BY <1>1, <1>2, <1>3, <1>4 DEF Expecting, NeverLeft, tables
<1>6. ListComplete(d)' /\ DisplaysShown(d)'
  <2>1. chan' = chan
    BY <1>1 DEF tables
  <2> QED
    BY <1>1, <2>1 DEF DisplaySound, ListComplete, DisplaysShown
<1> QED
  BY <1>5, <1>6 DEF DisplaySound

-----------------------------------------------------------------------------
(***************************************************************************)
(* The steps of the page itself.                                           *)
(***************************************************************************)
PageTakes(c) ==
    /\ UNCHANGED <<tables, authed, missed>> /\ toClient[c] # <<>>
    /\ toClient'[c] = Tail(toClient[c])
    /\ tree'[c] = Applied(chan, tree[c], Head(toClient[c]))

LEMMA PageStepTakes ==
  ASSUME PagesInv, NEW c \in Users, PageStep(c)
  PROVE  PageTakes(c)
<1>1. QueuesOK /\ PagesOK
  BY PagesFacts
<1>2. CASE HandleError(c)
  <2>1. Head(toClient[c]).t = "error" /\ tree' = tree
    BY <1>2 DEF HandleError, Arrived, pages
  <2>2. Applied(chan, tree[c], Head(toClient[c])) = tree[c]
    BY <2>1 DEF Applied
  <2> QED
    BY <1>1, <1>2, <2>1, <2>2 DEF HandleError, Arrived, Taken, PageTakes, QueuesOK
<1>3. ASSUME NEW T, Takes(c, T)
      PROVE  PageTakes(c)
  BY <1>1, <1>3 DEF Takes, Arrived, Taken, PageTakes, QueuesOK, PagesOK
<1> QED
  BY <1>2, <1>3 DEF PageStep, ShowHubs, HandleChannelListResult, HandleChannelCreated,
     HandleChannelUpdated, HandleDeleted

\* What the page sends by itself on a message is no request for a list.
LEMMA SentAsked ==
  ASSUME PagesInv, NEW c \in Users, NEW a \in Asks, a.t # "channel.list", Sends(c, <<a>>),
         authed' = authed, ChannelsAsked(c)
  PROVE  ChannelsAsked(c)'
<1> DEFINE q == toServer[c]
<1>1. q \in Seq(Asks) /\ c \in authed /\ \A i \in 1..Len(q) : q[i].t # "channel.list"
  BY PagesFacts DEF QueuesOK, ChannelsAsked
<1>2. toServer'[c] = q \o <<a>>
  BY <1>1, PagesFacts DEF Sends, QueuesOK
<1> HIDE DEF q
<1>3. \A i \in 1..Len(q \o <<a>>) : (q \o <<a>>)[i] = a \/ (i \in 1..Len(q) /\ (q \o <<a>>)[i] = q[i])
  BY <1>1
<1> QED
  BY <1>1, <1>2, <1>3 DEF ChannelsAsked

LEMMA StepStaysAsked ==
  ASSUME PagesInv, NEW c \in Users, ChannelsAsked(c),
         PageStep(c) \/ \E ch \in Channels : SwitchTo(c, ch)
  PROVE  ChannelsAsked(c)'
<1>1. authed' = authed
  BY DEF PageStep, ShowHubs, HandleChannelListResult, HandleChannelCreated,
     HandleChannelUpdated, HandleDeleted, HandleError, Takes, SwitchTo
<1>2. CASE toServer' = toServer
  BY <1>1, <1>2 DEF ChannelsAsked
<1>3. ASSUME NEW ch \in Channels, Sends(c, <<Ask("channel.join", ch)>>)
      PROVE  ChannelsAsked(c)'
  <2>1. Ask("channel.join", ch) \in Asks /\ Ask("channel.join", ch).t = "channel.join"
    BY DEF Ask, Asks
  <2> QED
    BY <1>1, <1>3, <2>1, SentAsked
<1>4. CASE Sends(c, <<Ask("channel.create", None)>>)
  <2>1. Ask("channel.create", None) \in Asks /\ Ask("channel.create", None).t = "channel.create"
    BY DEF Ask, Asks
  <2> QED
    BY <1>1, <1>4, <2>1, SentAsked
<1>5. \/ toServer' = toServer
      \/ \E ch \in Channels : Sends(c, <<Ask("channel.join", ch)>>)
      \/ Sends(c, <<Ask("channel.create", None)>>)
  <2>1. ASSUME NEW v, NEW ch \in ShownIn(v), Activate(c, ch)
        PROVE  \E x \in Channels : Sends(c, <<Ask("channel.join", x)>>)
    BY <2>1 DEF Activate, ShownIn
  <2>2. CASE ShowHubs(c) \/ HandleChannelUpdated(c)
    BY <2>2 DEF ShowHubs, HandleChannelUpdated, Stay
  <2>3. CASE HandleChannelListResult(c)
    BY <2>1, <2>3 DEF HandleChannelListResult, Stay
  <2>4. CASE HandleChannelCreated(c)
    <3>1. Head(toClient[c]).t = "channel.created" => Head(toClient[c]).id \in Channels
      <4>1. Head(toClient[c]) \in Messages
        BY <2>4, PagesFacts DEF HandleChannelCreated, Takes, Arrived, QueuesOK
      <4> QED
        BY <4>1 DEF Messages, Events, HubEvents, ChanEvents
    <3> QED
      BY <2>4, <3>1 DEF HandleChannelCreated, Stay, Activate
  <2>5. CASE HandleDeleted(c)
    BY <2>1, <2>5 DEF HandleDeleted, Stay
  <2>6. CASE HandleError(c)
    BY <2>6, PagesFacts DEF HandleError, PagesOK
  <2>7. ASSUME NEW ch \in Channels, SwitchTo(c, ch)
        PROVE  Sends(c, <<Ask("channel.join", ch)>>)
    BY <2>7 DEF SwitchTo, Activate
  <2> QED
    BY <2>2, <2>3, <2>4, <2>5, <2>6, <2>7 DEF PageStep
<1> QED
  BY <1>2, <1>3, <1>4, <1>5

LEMMA TakenHead ==
  ASSUME PagesInv, NEW c \in Users, PageTakes(c)
  PROVE  /\ toClient[c] \in Seq(Messages) /\ Head(toClient[c]) \in Messages
         /\ 1 \in 1..Len(toClient[c]) /\ toClient[c][1] = Head(toClient[c])
         /\ tree[c] \in PageTree /\ SafeMessage(c, Head(toClient[c]))
         /\ \A ch \in Channels : tree'[c].chans[ch] = ChanAfter(chan, tree[c], Head(toClient[c]), ch)
<1>1. toClient[c] \in Seq(Messages) /\ toClient[c] # <<>> /\ tree[c] \in PageTree
  BY PagesFacts DEF PageTakes, QueuesOK, PagesOK
<1>2. /\ Head(toClient[c]) \in Messages /\ 1 \in 1..Len(toClient[c])
      /\ toClient[c][1] = Head(toClient[c])
  BY <1>1
<1>3. SafeMessage(c, toClient[c][1])
  BY <1>2 DEF PagesInv, PageSound, SafeQueue
<1>4. tree'[c] = Applied(chan, tree[c], Head(toClient[c]))
  BY DEF PageTakes
<1>5. IsAfter(chan, tree'[c], tree[c], Head(toClient[c]))
  BY <1>1, <1>2, <1>4, AppliedIs
<1> HIDE DEF Applied, ChanAfter
<1> QED
  BY <1>1, <1>2, <1>3, <1>5 DEF IsAfter

\* A page that waits for its list sends nothing and opens nothing.
LEMMA TakesExpecting ==
  ASSUME PagesInv, NEW c \in Users, PageStep(c), Expecting(c)
  PROVE  Expecting(c)'
<1>1. PageTakes(c)
  BY PageStepTakes
<1> DEFINE m == Head(toClient[c])
<1>2. /\ toClient[c] \in Seq(Messages) /\ m \in Messages
      /\ 1 \in 1..Len(toClient[c]) /\ toClient[c][1] = m
  BY <1>1, TakenHead
<1>3. OpensNothing(m) /\ cur[c] = None
  BY <1>2 DEF Expecting
<1>4. None \notin Channels
  BY DirectoryAssumption
<1>5. m.t = "channel.deleted" => m.id # None
  <2>1. m.t = "channel.deleted" => m.id \in Channels
    BY <1>2 DEF Messages, Events, HubEvents, ChanEvents
  <2> QED
    BY <1>4, <2>1
<1>6. toServer' = toServer /\ cur' = cur
  <2>1. CASE ShowHubs(c) \/ HandleChannelUpdated(c)
    BY <2>1 DEF ShowHubs, HandleChannelUpdated, Stay
  <2>2. ~HandleChannelListResult(c)
    BY <1>3 DEF HandleChannelListResult, Takes, Arrived, OpensNothing
  <2>3. CASE HandleChannelCreated(c)
    BY <1>3, <2>3 DEF HandleChannelCreated, Stay, OpensNothing
  <2>4. CASE HandleDeleted(c)
    BY <1>3, <1>4, <1>5, <2>4 DEF HandleDeleted, Stay, ShownIn
  <2>5. CASE HandleError(c)
    BY <1>3, <2>5 DEF HandleError, pages
  <2> QED
    BY <2>1, <2>2, <2>3, <2>4, <2>5 DEF PageStep
<1>7. \A i \in 1..Len(toClient'[c]) : OpensNothing(toClient'[c][i])
  <2>1. toClient'[c] = Tail(toClient[c]) /\ toClient[c] # <<>>
    BY <1>1 DEF PageTakes
  <2>2. \A i \in 1..Len(Tail(toClient[c])) :
          i + 1 \in 1..Len(toClient[c]) /\ Tail(toClient[c])[i] = toClient[c][i + 1]
    BY <1>2, <2>1
  <2> QED
    BY <2>1, <2>2 DEF Expecting
<1> QED
  BY <1>1, <1>6, <1>7 DEF Expecting, NeverLeft, PageTakes, tables

LEMMA TakesComplete ==
  ASSUME PagesInv, NEW c \in Users, PageTakes(c), ListComplete(c)
  PROVE  ListComplete(c)'
<1>1. SUFFICES ASSUME NEW i \in 1..Len(toClient'[c]), toClient'[c][i].t = "channel.list_result",
                      NEW ch \in Channels, <<c, ch>> \notin missed',
                      Shown(chan', tree'[c], Before(toClient'[c], i)).chans[ch] # None
               PROVE  toClient'[c][i].chans[ch] # None
  BY DEF ListComplete
<1>2. /\ toClient[c] \in Seq(Messages) /\ toClient[c] # <<>> /\ toClient'[c] = Tail(toClient[c])
      /\ tree'[c] = Applied(chan, tree[c], Head(toClient[c]))
      /\ chan' = chan /\ missed' = missed
  BY PagesFacts DEF PageTakes, QueuesOK, tables
<1>3. /\ i + 1 \in 1..Len(toClient[c]) /\ toClient'[c][i] = toClient[c][i + 1]
      /\ Shown(chan, tree[c], Before(toClient[c], i + 1)) =
            Shown(chan', tree'[c], Before(toClient'[c], i))
  BY <1>1, <1>2, BeforeTail
<1> HIDE DEF Shown, Before, Applied
<1>4. Shown(chan, tree[c], Before(toClient[c], i + 1)).chans[ch] # None
  BY <1>1, <1>3
<1>5. toClient[c][i + 1].chans[ch] # None
  BY <1>1, <1>2, <1>3, <1>4 DEF ListComplete
<1> QED
  BY <1>3, <1>5

\* The list has what the page displays, a deleted channel is left, and what is opened
\* is shown.
LEMMA TakesDisplays ==
  ASSUME PagesInv, NEW c \in Users, PageStep(c), ListComplete(c), DisplaysShown(c)
  PROVE  DisplaysShown(c)'
<1> DEFINE m == Head(toClient[c])
           w == Applied(chan, tree[c], m)
<1>1. PageTakes(c)
  BY PageStepTakes
<1>2. /\ toClient[c] \in Seq(Messages) /\ m \in Messages
      /\ 1 \in 1..Len(toClient[c]) /\ toClient[c][1] = m
      /\ tree[c] \in PageTree /\ SafeMessage(c, m)
      /\ \A ch \in Channels : tree'[c].chans[ch] = ChanAfter(chan, tree[c], m, ch)
  BY <1>1, TakenHead
<1>3. missed' = missed /\ tree'[c] = w
  BY <1>1 DEF PageTakes
<1> HIDE DEF w
<1>4. cur \in [Users -> Channels \cup {None}] /\ None \notin Channels
  BY DirectoryAssumption, PagesFacts DEF PagesOK
    \* Whatever is opened is shown.
<1>5. ASSUME NEW ch \in ShownIn(w), Activate(c, ch)
      PROVE  DisplaysShown(c)'
  BY <1>3, <1>4, <1>5 DEF Activate, ShownIn, DisplaysShown
<1>6. ASSUME cur'[c] = cur[c],
             cur[c] # None /\ tree[c].chans[cur[c]] # None /\ <<c, cur[c]>> \notin missed =>
                tree'[c].chans[cur[c]] # None
      PROVE  DisplaysShown(c)'
  BY <1>3, <1>6 DEF DisplaysShown
<1>7. ASSUME m.t \notin {"channel.list_result", "hub.deleted", "channel.deleted"},
             NEW ch \in Channels, tree[c].chans[ch] # None
      PROVE  tree'[c].chans[ch] # None
  BY <1>2, <1>7 DEF ChanAfter, SafeMessage
<1>8. ASSUME cur'[c] = cur[c], m.t \notin {"channel.list_result", "hub.deleted", "channel.deleted"}
      PROVE  DisplaysShown(c)'
  BY <1>4, <1>6, <1>7, <1>8
<1>9. CASE ShowHubs(c) \/ HandleChannelUpdated(c)
  BY <1>8, <1>9 DEF ShowHubs, HandleChannelUpdated, Takes, Arrived, Stay
<1>10. CASE HandleError(c)
  BY <1>8, <1>10 DEF HandleError, Arrived, pages
<1>11. CASE HandleChannelListResult(c)
  <2>1. m.t = "channel.list_result"
    BY <1>11 DEF HandleChannelListResult, Takes, Arrived
  <2>2. \A ch \in Channels : tree'[c].chans[ch] = m.chans[ch]
    BY <1>2, <2>1 DEF ChanAfter
  <2>3. Shown(chan, tree[c], Before(toClient[c], 1)) = tree[c]
    <3>1. Before(toClient[c], 1) \in Seq(Messages) /\ Len(Before(toClient[c], 1)) = 0
      BY <1>2, BeforeIs
    <3>2. Before(toClient[c], 1) = <<>>
      BY <3>1
    <3> QED
      BY <3>2, ShownEmpty
  <2>4. \A ch \in Channels : <<c, ch>> \notin missed /\ tree[c].chans[ch] # None => m.chans[ch] # None
    <3> HIDE DEF Shown, Before
    <3> QED
      BY <1>2, <2>1, <2>3 DEF ListComplete
  <2>5. (\E ch \in ShownIn(w) : Activate(c, ch)) \/ cur'[c] = cur[c]
    BY <1>11 DEF HandleChannelListResult, Stay, w
  <2>6. CASE cur'[c] = cur[c]
    BY <1>4, <1>6, <2>2, <2>4, <2>6
  <2> QED
    BY <1>5, <2>5, <2>6
<1>12. CASE HandleChannelCreated(c)
  <2>1. m.t \in {"channel.created", "channel.added"}
    BY <1>12 DEF HandleChannelCreated, Takes, Arrived
  <2>2. CASE m.t = "channel.created" /\ m.mine /\ m.id \notin ShownIn(tree[c])
    <3>1. m.id \in Channels
      BY <1>2, <2>1 DEF Messages, Events, HubEvents, ChanEvents
    <3>2. tree'[c].chans[m.id] # None
      BY <1>2, <2>2, <3>1 DEF ChanAfter, SafeMessage, ShownIn
    <3>3. m.id \in ShownIn(w)
      BY <1>3, <3>1, <3>2 DEF ShownIn
    <3> QED
      BY <1>5, <1>12, <2>2, <3>3 DEF HandleChannelCreated
  <2>3. CASE ~(m.t = "channel.created" /\ m.mine /\ m.id \notin ShownIn(tree[c]))
    BY <1>8, <1>12, <2>1, <2>3 DEF HandleChannelCreated, Stay
  <2> QED
    BY <2>2, <2>3
<1>13. CASE HandleDeleted(c)
  <2>1. CASE \E ch \in ShownIn(w) : Activate(c, ch)
    BY <1>5, <2>1
  <2>2. CASE cur' = [cur EXCEPT ![c] = None]
    BY <1>4, <2>2 DEF DisplaysShown
  <2>3. CASE Stay /\ cur[c] \notin ShownIn(tree[c]) \ ShownIn(w)
    BY <1>3, <1>4, <1>6, <2>3 DEF Stay, ShownIn
  <2> QED
    BY <1>13, <2>1, <2>2, <2>3 DEF HandleDeleted, w
<1> QED
  BY <1>9, <1>10, <1>11, <1>12, <1>13 DEF PageStep

LEMMA PageStepDisplays ==
  ASSUME PagesInv, NEW c \in Users, PageStep(c), DisplaySound(c)
  PROVE  DisplaySound(c)'
<1>1. ChannelsAsked(c) => ChannelsAsked(c)'
  BY StepStaysAsked
<1>2. Expecting(c) => Expecting(c)'
  BY TakesExpecting
<1>3. ListComplete(c)'
  BY PageStepTakes, TakesComplete DEF DisplaySound
<1>4. DisplaysShown(c)'
  BY TakesDisplays DEF DisplaySound
<1> QED
  BY <1>1, <1>2, <1>3, <1>4 DEF DisplaySound

LEMMA SwitchDisplays ==
  ASSUME PagesInv, NEW c \in Users \ Unstable, NEW ch \in Channels, SwitchTo(c, ch), DisplaySound(c)
  PROVE  DisplaySound(c)'
<1>1. /\ ch \in ShownIn(tree[c]) /\ toServer[c] = <<>> /\ cur' = [cur EXCEPT ![c] = ch]
      /\ tree' = tree /\ toClient' = toClient /\ missed' = missed /\ chan' = chan
  BY DEF SwitchTo, Activate, tables
<1>2. c \in authed
  BY <1>1, PagesFacts DEF NewcomersBlank, NoTree, ShownIn
<1>3. ChannelsAsked(c)
  BY <1>1, <1>2 DEF ChannelsAsked
<1>4. ChannelsAsked(c)'
  BY <1>3, StepStaysAsked
<1>5. ListComplete(c)'
  BY <1>1 DEF DisplaySound, ListComplete
<1>6. DisplaysShown(c)'
  BY <1>1, PagesFacts DEF DisplaysShown, ShownIn, PagesOK
<1> QED
  BY <1>4, <1>5, <1>6 DEF DisplaySound

LEMMA InitDisplayInv == Init => DisplayInv
<1> SUFFICES ASSUME Init, NEW c \in Users \ Unstable PROVE DisplaySound(c)
  BY DEF DisplayInv
<1>1. /\ cur[c] = None /\ toServer[c] = <<>> /\ toClient[c] = <<>>
      /\ \A ch \in Channels : role[ch][c] = "none"
  BY DEF Init, DirectoryInit
<1>2. (\A i \in 1..Len(toServer[c]) : FALSE) /\ (\A i \in 1..Len(toClient[c]) : FALSE)
  BY <1>1
<1> QED
  BY <1>1, <1>2 DEF DisplaySound, Expecting, NeverLeft, ListsOnly, ListComplete, DisplaysShown

LEMMA NextDisplayInv == PagesInv /\ DisplayInv /\ [Next]_vars => DisplayInv'
<1> SUFFICES ASSUME PagesInv, DisplayInv, [Next]_vars, NEW d \in Users \ Unstable
             PROVE  DisplaySound(d)'
  BY DEF DisplayInv
<1>1. DisplaySound(d) /\ d \in Users
  BY DEF DisplayInv
<1>2. [DirectoryNext]_tables /\ RowsKept
  <2>1. [DirectoryNext]_tables
    BY NextOK DEF PagesInv, StepOK
  <2> QED
    BY <2>1, TablesKept, PagesFacts
<1>3. Bystands(d) => DisplaySound(d)'
  BY <1>1, <1>2, BystandsKeeps
<1>4. CASE UNCHANGED vars
  BY <1>1, <1>3, <1>4, StutterBystands
<1>5. ASSUME NEW c \in Users, ServerStep(c) PROVE DisplaySound(d)'
  <2>1. CASE d = c /\ HandleChannelList(c)
    BY <1>1, <2>1, ListComes
  <2>2. CASE d # c \/ ~HandleChannelList(c)
    BY <1>1, <1>3, <1>5, <2>2, ServerBystands
  <2> QED
    BY <2>1, <2>2
<1>6. ASSUME NEW c \in Users, RequestStep(c) PROVE DisplaySound(d)'
  BY <1>1, <1>3, <1>6, RequestBystands
<1>7. ASSUME NEW c \in Users,
             SignIn(c) \/ PageStep(c) \/ \E ch \in Channels : SwitchTo(c, ch)
      PROVE  DisplaySound(d)'
  <2>1. CASE d # c
    BY <1>1, <1>3, <1>7, <2>1, OthersBystand
  <2>2. CASE d = c
    BY <1>1, <1>7, <2>2, SignInDisplays, PageStepDisplays, SwitchDisplays
  <2> QED
    BY <2>1, <2>2
<1>8. ASSUME NEW c \in Unstable, Drop(c) \/ Reload(c) PROVE DisplaySound(d)'
  <2>1. c \in Users /\ d # c
    BY <1>8, ChannelTreeAssumption
  <2> QED
    BY <1>1, <1>3, <1>8, <2>1, OthersBystand
<1>9. CASE Next
  BY <1>5, <1>6, <1>7, <1>8, <1>9 DEF Next
<1> QED
  BY <1>4, <1>9

\* A page that has kept its socket displays a channel of its tree or none, unless the
\* server changed that channel without telling it: a list never takes away what the
\* page displays, and a deletion never leaves it displayed.
THEOREM CurrentAlwaysShown == Spec => []CurrentIsShown
<1> DEFINE Both == PagesInv /\ DisplayInv
<1>1. Init => Both
  BY InitPagesInv, InitDisplayInv
<1>2. Both /\ [Next]_vars => Both'
  BY NextPagesInv, NextDisplayInv
<1>3. Both => CurrentIsShown
  <2> SUFFICES ASSUME PagesInv, DisplayInv, NEW c \in Users \ Unstable,
                      cur[c] # None, <<c, cur[c]>> \notin missed
               PROVE  cur[c] \in ShownIn(tree[c])
    BY DEF CurrentIsShown
  <2>1. cur[c] \in Channels
    BY PagesFacts DEF PagesOK
  <2>2. tree[c].chans[cur[c]] # None
    BY DEF DisplayInv, DisplaySound, DisplaysShown
  <2> QED
    BY <2>1, <2>2 DEF ShownIn
<1> HIDE DEF Both
<1> QED
  BY <1>1, <1>2, <1>3, PTL DEF Spec
=============================================================================
