----------------------------- MODULE Directory -----------------------------
(***************************************************************************)
(* HubService and ChannelService: the tables hubs, hub_members, channels   *)
(* and channel_members, who may see and change what.                       *)
(*                                                                         *)
(* A row is never removed: hubs and channels carry deleted_at, a membership *)
(* carries left_at.  The server calls neither joinHub nor leaveHub, so the *)
(* only member of a hub is its creator.  Nothing sets banned_at and no role *)
(* but owner and member is given out.  Invites to a channel are left out:  *)
(* the server has no request that redeems one.                             *)
(*                                                                         *)
(* A definition Op_Variant is a fault: what Op would be with a plausible   *)
(* bug.                                                                    *)
(***************************************************************************)
EXTENDS Naturals

CONSTANTS
    Users,
    Admins,       \* users whose roles include admin
    Hubs,         \* bound: the ids newId may return for a hub
    Channels,     \* bound: the ids newId may return for a channel
    Names,
    DefaultName,  \* "Lobby" for a hub, "general" for a channel
    None

HubRow == [name : Names, restricted : BOOLEAN, creator : Users, live : BOOLEAN]
ChannelRow == [hub : Hubs, name : Names, private : BOOLEAN, creator : Users,
               live : BOOLEAN]

ASSUME DirectoryAssumption ==
    /\ Admins \subseteq Users
    /\ DefaultName \in Names
    /\ None \notin Users \cup Hubs \cup Channels \cup Names
    /\ None \notin HubRow \cup ChannelRow

VARIABLES
    hub,      \* hub[h]: the row of h, None while there is none
    chan,     \* chan[ch]: likewise
    role,     \* role[ch][u]: the role of u's row in channel_members
    present   \* present[ch]: the users whose row has no left_at

tables == <<hub, chan, role, present>>

DirectoryTypeOK ==
    /\ hub \in [Hubs -> HubRow \cup {None}]
    /\ chan \in [Channels -> ChannelRow \cup {None}]
    /\ role \in [Channels -> [Users -> {"none", "member", "owner"}]]
    /\ present \in [Channels -> SUBSET Users]

DirectoryInit ==
    /\ hub = [h \in Hubs |-> None]
    /\ chan = [ch \in Channels |-> None]
    /\ role = [ch \in Channels |-> [u \in Users |-> "none"]]
    /\ present = [ch \in Channels |-> {}]

-----------------------------------------------------------------------------
\* Whether a row was inserted and is not deleted.
Exists(row) == row # None /\ row.live

InHub(u, h) == hub[h].creator = u

\* An admin passes before the row is looked at, deleted or not.
CanAccessHub(u, h) ==
    \/ u \in Admins
    \/ Exists(hub[h]) /\ (~hub[h].restricted \/ InHub(u, h))

CanAccessChannel_AnyLive(u, ch) ==
    u \in Admins \/ (Exists(chan[ch]) /\ CanAccessHub(u, chan[ch].hub))
CanAccessChannel(u, ch) ==
    \/ u \in Admins
    \/ /\ Exists(chan[ch]) /\ CanAccessHub(u, chan[ch].hub)
       /\ chan[ch].private => u \in present[ch]

\* listHubs, and listChannels over all hubs.  The list of channels asks for a
\* membership of the channel or of the hub, the access above for both.
HubIsListed(u, h) == Exists(hub[h]) /\ CanAccessHub(u, h)

ChannelIsListed(u, ch) ==
    /\ Exists(chan[ch]) /\ Exists(hub[chan[ch].hub])
    /\ \/ u \in Admins
       \/ ~hub[chan[ch].hub].restricted /\ ~chan[ch].private
       \/ u \in present[ch]
       \/ InHub(u, chan[ch].hub)

-----------------------------------------------------------------------------
CreateHub(u, h, name, restricted) ==
    /\ hub[h] = None
    /\ hub' = [hub EXCEPT ![h] = [name |-> name, restricted |-> restricted,
                                  creator |-> u, live |-> TRUE]]
    /\ UNCHANGED <<chan, role, present>>

MayChangeHub(u, h) == Exists(hub[h]) /\ (u \in Admins \/ InHub(u, h))

UpdateHub(u, h, name) ==
    /\ MayChangeHub(u, h)
    /\ hub' = [hub EXCEPT ![h].name = name]
    /\ UNCHANGED <<chan, role, present>>

\* The channels of the hub that are not deleted yet are deleted with it.
DeleteHub_Alone(u, h) ==
    /\ MayChangeHub(u, h)
    /\ hub' = [hub EXCEPT ![h].live = FALSE]
    /\ UNCHANGED <<chan, role, present>>
ChannelsOf(h) == {ch \in Channels : Exists(chan[ch]) /\ chan[ch].hub = h}
DeleteHub(u, h) ==
    /\ MayChangeHub(u, h)
    /\ hub' = [hub EXCEPT ![h].live = FALSE]
    /\ chan' = [ch \in Channels |-> IF ch \in ChannelsOf(h)
                                    THEN [chan[ch] EXCEPT !.live = FALSE]
                                    ELSE chan[ch]]
    /\ UNCHANGED <<role, present>>

InsertChannel(u, ch, h, name, private) ==
    /\ chan[ch] = None
    /\ chan' = [chan EXCEPT ![ch] = [hub |-> h, name |-> name, private |-> private,
                                     creator |-> u, live |-> TRUE]]
    /\ role' = [role EXCEPT ![ch][u] = "owner"]
    /\ present' = [present EXCEPT ![ch] = {u}]

CreateChannel(u, ch, h, name, private) ==
    /\ hub[h] # None /\ CanAccessHub(u, h)
    /\ InsertChannel(u, ch, h, name, private)
    /\ UNCHANGED hub

\* ensureDefaultHub takes a hub that is called Lobby and not deleted, or makes a
\* public one; the channel of an empty directory is made in it.
DefaultHubs == {h \in Hubs : Exists(hub[h]) /\ hub[h].name = DefaultName}
CreateDefaultChannel(u, ch, h) ==
    /\ \/ /\ h \in DefaultHubs /\ CanAccessHub(u, h)
          /\ UNCHANGED hub
       \/ /\ DefaultHubs = {} /\ hub[h] = None
          /\ hub' = [hub EXCEPT ![h] = [name |-> DefaultName, restricted |-> FALSE,
                                        creator |-> u, live |-> TRUE]]
    /\ InsertChannel(u, ch, h, DefaultName, FALSE)

MayChangeChannel(u, ch) ==
    /\ Exists(chan[ch])
    /\ \/ u \in Admins \/ chan[ch].creator = u
       \/ role[ch][u] = "owner" /\ u \in present[ch]

UpdateChannel(u, ch, name) ==
    /\ MayChangeChannel(u, ch)
    /\ chan' = [chan EXCEPT ![ch].name = name]
    /\ UNCHANGED <<hub, role, present>>

DeleteChannel(u, ch) ==
    /\ MayChangeChannel(u, ch)
    /\ chan' = [chan EXCEPT ![ch].live = FALSE]
    /\ UNCHANGED <<hub, role, present>>

\* What joinChannel answers: an admin passes the hub, not the membership.
JoinRefusal(u, ch) ==
    CASE ~Exists(chan[ch])                              -> "NOT_FOUND"
      [] ~CanAccessHub(u, chan[ch].hub)                 -> "FORBIDDEN"
      [] chan[ch].private /\ u \notin present[ch]       -> "NOT_A_MEMBER"
      [] OTHER                                          -> "none"

\* INSERT ... ON CONFLICT DO UPDATE SET left_at = NULL: an old row keeps its role.
Enrol_Anew(u, ch) ==
    /\ role' = [role EXCEPT ![ch][u] = "member"]
    /\ present' = [present EXCEPT ![ch] = @ \cup {u}]
    /\ UNCHANGED <<hub, chan>>
Enrol(u, ch) ==
    /\ role' = [role EXCEPT ![ch][u] = IF @ = "none" THEN "member" ELSE @]
    /\ present' = [present EXCEPT ![ch] = @ \cup {u}]
    /\ UNCHANGED <<hub, chan>>

JoinChannel(u, ch) ==
    /\ JoinRefusal(u, ch) = "none"
    /\ IF chan[ch].private THEN UNCHANGED tables ELSE Enrol(u, ch)

LeaveChannel(u, ch) ==
    /\ present' = [present EXCEPT ![ch] = @ \ {u}]
    /\ UNCHANGED <<hub, chan, role>>

\* addMember looks at the adder's role, not at his left_at, and not at whether the
\* channel is deleted.
AddMember(u, ch, target) ==
    /\ chan[ch] # None /\ role[ch][u] = "owner"
    /\ target \notin present[ch]
    /\ Enrol(target, ch)

DirectoryNext == \E u \in Users :
    \/ \E h \in Hubs :
          \/ \E name \in Names :
                \/ UpdateHub(u, h, name)
                \/ \E b \in BOOLEAN : CreateHub(u, h, name, b)
                \/ \E b \in BOOLEAN, ch \in Channels : CreateChannel(u, ch, h, name, b)
          \/ DeleteHub(u, h)
          \/ \E ch \in Channels : CreateDefaultChannel(u, ch, h)
    \/ \E ch \in Channels :
          \/ \E name \in Names : UpdateChannel(u, ch, name)
          \/ DeleteChannel(u, ch)
          \/ JoinChannel(u, ch) \/ LeaveChannel(u, ch)
          \/ \E target \in Users : AddMember(u, ch, target)

DirectorySpec == DirectoryInit /\ [][DirectoryNext]_tables

-----------------------------------------------------------------------------
\* deleteHub leaves no channel behind, and afterwards only an admin can still make
\* one in the deleted hub, where nobody will list it.
NoOrphans ==
    \A ch \in Channels :
        Exists(chan[ch]) => Exists(hub[chan[ch].hub]) \/ chan[ch].creator \in Admins

\* Whoever made a channel stays its only owner, however often he leaves it and is
\* let in again: nobody is locked out of what he made and nobody is promoted.
CreatorIsOwner ==
    \A ch \in Channels, u \in Users :
        role[ch][u] = "owner" <=> chan[ch] # None /\ chan[ch].creator = u
=============================================================================
