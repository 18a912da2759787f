-------------------------- MODULE StreamHub_proofs --------------------------
(***************************************************************************)
(* Proofs about StreamHub, for any sockets, streams and clients.           *)
(*                                                                         *)
(* A handler composes operators from tables to tables.  So the proof is    *)
(* about tables first: what each statement changes, then what leaving and  *)
(* entering a stream preserve.  Between the two the connection under way   *)
(* has fields that no table agrees with: the invariant on tables is stated *)
(* connection by connection, and holds of every other connection there.    *)
(***************************************************************************)
EXTENDS StreamHub, TLAPS

Hearings == [state : {"idle", "live", None}, present : BOOLEAN \cup {None},
             peer : {"join", "leave", None}]

TableType ==
    [ctrl : [Ctrls -> Sessions], broadcaster : [Streams -> Ctrls \cup {None}],
     viewers : [Streams -> SUBSET Ctrls], byClient : [Clients -> Ctrls \cup {None}],
     state : [Streams -> {"idle", "live"}], heard : [Ctrls -> Hearings]]

-----------------------------------------------------------------------------
(***************************************************************************)
(* The parts of the invariant, of tables.                                  *)
(***************************************************************************)
\* The tables by stream name the connection c where its fields say.
Agrees(t, c) ==
    \A s \in Streams :
        /\ t.broadcaster[s] = c <=> t.ctrl[c].role = "broadcaster" /\ t.ctrl[c].stream = s
        /\ c \in t.viewers[s] <=> t.ctrl[c].role = "viewer" /\ t.ctrl[c].stream = s

\* What the control socket c was told last is the present state of its stream.
Informed(t, c) ==
    t.ctrl[c] # Unjoined =>
        LET s == t.ctrl[c].stream
        IN  /\ t.heard[c].state = t.state[s]
            /\ t.heard[c].present = Present(t, s)
            /\ t.heard[c].peer = "join" <=> Present(t, s)

LiveTable(t)   == \A s \in Streams : t.state[s] = "live" <=> Present(t, s)
ClientsLead(t) == \A x \in Clients : t.byClient[x] # None => t.ctrl[t.byClient[x]].client = x

InNoStream(t, c) == \A s \in Streams : t.broadcaster[s] # c /\ c \notin t.viewers[s]

\* The tables are right about everybody but c, who is in no stream.
GoodBut(t, c) ==
    /\ t \in TableType /\ LiveTable(t) /\ ClientsLead(t) /\ InNoStream(t, c)
    /\ \A d \in Ctrls \ {c} : Agrees(t, d) /\ Informed(t, d)

Good(t) ==
    /\ t \in TableType /\ LiveTable(t) /\ ClientsLead(t)
    /\ \A d \in Ctrls : Agrees(t, d) /\ Informed(t, d)

-----------------------------------------------------------------------------
(***************************************************************************)
(* What the statements change.                                             *)
(***************************************************************************)
\* u is t but for what the connections of C heard.
OnlyHeard(t, u, C) ==
    /\ u \in TableType
    /\ u.ctrl = t.ctrl /\ u.broadcaster = t.broadcaster /\ u.viewers = t.viewers
    /\ u.byClient = t.byClient /\ u.state = t.state
    /\ \A c \in Ctrls : c \notin C => u.heard[c] = t.heard[c]

ToldState(t, u, C, s) ==
    /\ OnlyHeard(t, u, C)
    /\ \A c \in Ctrls : c \in C =>
          /\ u.heard[c].state = t.state[s]
          /\ u.heard[c].present = Present(t, s)
          /\ u.heard[c].peer = t.heard[c].peer

ToldPeer(t, u, C, kind) ==
    /\ OnlyHeard(t, u, C)
    /\ \A c \in Ctrls : c \in C =>
          /\ u.heard[c].state = t.heard[c].state
          /\ u.heard[c].present = t.heard[c].present
          /\ u.heard[c].peer = kind

LEMMA TellStateEffect ==
    ASSUME NEW t \in TableType, NEW C, NEW s \in Streams, NEW u, u = TellState(t, C, s)
    PROVE  ToldState(t, u, C, s)
<1> DEFINE told(c) == [t.heard[c] EXCEPT !.state = t.state[s], !.present = Present(t, s)]
           heardAfter == [c \in Ctrls |-> IF c \in C THEN told(c) ELSE t.heard[c]]
<1>1. TellState(t, C, s) = [t EXCEPT !.heard = heardAfter]
  BY DEF TellState, TableType
<1>2. \A c \in Ctrls : t.heard[c] \in Hearings
  BY DEF TableType
<1>3. Present(t, s) \in BOOLEAN
  BY DEF Present
<1>4. t.state[s] \in {"idle", "live"}
  BY DEF TableType
<1>5. ASSUME NEW c \in Ctrls
      PROVE  /\ told(c) \in Hearings
             /\ told(c).state = t.state[s] /\ told(c).present = Present(t, s)
             /\ told(c).peer = t.heard[c].peer
  BY <1>2, <1>3, <1>4 DEF Hearings
<1> HIDE DEF told
<1>6. heardAfter \in [Ctrls -> Hearings]
  BY <1>2, <1>5
<1> QED  BY <1>1, <1>5, <1>6 DEF TableType, ToldState, OnlyHeard

LEMMA TellPeerEffect ==
    ASSUME NEW t \in TableType, NEW C, NEW kind \in {"join", "leave"},
           NEW u, u = TellPeer(t, C, kind)
    PROVE  ToldPeer(t, u, C, kind)
<1> DEFINE told(c) == [t.heard[c] EXCEPT !.peer = kind]
           heardAfter == [c \in Ctrls |-> IF c \in C THEN told(c) ELSE t.heard[c]]
<1>1. TellPeer(t, C, kind) = [t EXCEPT !.heard = heardAfter]
  BY DEF TellPeer, TableType
<1>2. \A c \in Ctrls : t.heard[c] \in Hearings
  BY DEF TableType
<1>3. ASSUME NEW c \in Ctrls
      PROVE  /\ told(c) \in Hearings
             /\ told(c).state = t.heard[c].state /\ told(c).present = t.heard[c].present
             /\ told(c).peer = kind
  BY <1>2 DEF Hearings
<1> HIDE DEF told
<1>4. heardAfter \in [Ctrls -> Hearings]
  BY <1>2, <1>3
<1> QED  BY <1>1, <1>3, <1>4 DEF TableType, ToldPeer, OnlyHeard

\* u is t after all of the stream s was told the new state and then of a peer.
Announced(t, u, s, next, kind) ==
    /\ u \in TableType
    /\ u.ctrl = t.ctrl /\ u.broadcaster = t.broadcaster /\ u.viewers = t.viewers
    /\ u.byClient = t.byClient
    /\ \A r \in Streams : u.state[r] = IF r = s THEN next ELSE t.state[r]
    /\ \A c \in Ctrls : t.broadcaster[s] # c /\ c \notin t.viewers[s] =>
          u.heard[c] = t.heard[c]
    /\ \A c \in Ctrls : t.broadcaster[s] = c \/ c \in t.viewers[s] =>
          /\ u.heard[c].state = next
          /\ u.heard[c].present = Present(t, s)
          /\ u.heard[c].peer = kind

\* updateStreamState and the peer event after it, told to all of the stream.
LEMMA AnnounceEffect ==
    ASSUME NEW t \in TableType, NEW s \in Streams,
           NEW next \in {"idle", "live"}, NEW kind \in {"join", "leave"},
           NEW v, v = UpdateState(t, s, next), NEW u, u = TellPeer(v, Audience(v, s), kind)
    PROVE  Announced(t, u, s, next, kind)
<1> DEFINE w == [t EXCEPT !.state[s] = next]
           A == Audience(t, s)
<1>1. /\ w \in TableType
      /\ w.ctrl = t.ctrl /\ w.broadcaster = t.broadcaster /\ w.viewers = t.viewers
      /\ w.byClient = t.byClient /\ w.heard = t.heard
      /\ \A r \in Streams : w.state[r] = IF r = s THEN next ELSE t.state[r]
  BY DEF TableType
<1>2. Audience(w, s) = A /\ Present(w, s) = Present(t, s)
  BY <1>1 DEF Audience, Present
<1>3. v = TellState(w, A, s)
  BY <1>2 DEF UpdateState
<1>4. Audience(v, s) = A
  <2> HIDE DEF w, A
  <2>1. v.broadcaster = t.broadcaster /\ v.viewers = t.viewers
    BY <1>1, <1>3, TellStateEffect DEF ToldState, OnlyHeard
  <2> QED  BY <2>1 DEF Audience, A
<1>5. \A c \in Ctrls : c \in A <=> t.broadcaster[s] = c \/ c \in t.viewers[s]
  BY DEF Audience
<1> HIDE DEF w, A
<1>6. /\ v \in TableType
      /\ v.ctrl = w.ctrl /\ v.broadcaster = w.broadcaster /\ v.viewers = w.viewers
      /\ v.byClient = w.byClient /\ v.state = w.state
      /\ \A c \in Ctrls : c \notin A => v.heard[c] = w.heard[c]
      /\ \A c \in Ctrls : c \in A =>
            v.heard[c].state = w.state[s] /\ v.heard[c].present = Present(w, s)
  <2>1. w \in TableType
    BY <1>1
  <2> QED  BY <2>1, <1>3, TellStateEffect DEF ToldState, OnlyHeard
<1>7. /\ u \in TableType
      /\ u.ctrl = v.ctrl /\ u.broadcaster = v.broadcaster /\ u.viewers = v.viewers
      /\ u.byClient = v.byClient /\ u.state = v.state
      /\ \A c \in Ctrls : c \notin A => u.heard[c] = v.heard[c]
      /\ \A c \in Ctrls : c \in A =>
            /\ u.heard[c].state = v.heard[c].state
            /\ u.heard[c].present = v.heard[c].present
            /\ u.heard[c].peer = kind
  BY <1>4, <1>6, TellPeerEffect DEF ToldPeer, OnlyHeard
<1> QED  BY <1>1, <1>2, <1>5, <1>6, <1>7 DEF Announced
-----------------------------------------------------------------------------
LEMMA IdleEffect ==
    ASSUME NEW t \in TableType, NEW s \in Streams, NEW u, u = StreamIdle(t, s)
    PROVE  Announced(t, u, s, "idle", "leave")
<1> DEFINE v == UpdateState(t, s, "idle")
<1>1. v = UpdateState(t, s, "idle") /\ u = TellPeer(v, Audience(v, s), "leave")
  BY DEF StreamIdle
<1>2. "idle" \in {"idle", "live"} /\ "leave" \in {"join", "leave"}
  OBVIOUS
<1> HIDE DEF v
<1> QED  BY <1>1, <1>2, AnnounceEffect

\* The entry of a client goes with the connection it leads to, no other.
LEMMA ForgetEffect ==
    ASSUME NEW t \in TableType, NEW c \in Ctrls, ClientsLead(t), NEW u, u = ForgetClient(t, c)
    PROVE  /\ u \in TableType
           /\ u.ctrl = t.ctrl /\ u.broadcaster = t.broadcaster /\ u.viewers = t.viewers
           /\ u.state = t.state /\ u.heard = t.heard
           /\ \A x \in Clients : u.byClient[x] = IF t.byClient[x] = c THEN None ELSE t.byClient[x]
<1> DEFINE x == t.ctrl[c].client
<1>1. \A y \in Clients : t.byClient[y] = c => y = x
  BY HubAssumption DEF ClientsLead
<1>2. CASE x # None /\ t.byClient[x] = c
  <2>1. x \in Clients
    <3>1. t.ctrl[c] \in Sessions
      BY DEF TableType
    <3> QED  BY <1>2, <3>1 DEF Sessions, Unjoined
  <2>2. u = [t EXCEPT !.byClient[x] = None]
    BY <1>2 DEF ForgetClient
  <2> HIDE DEF x
  <2> QED  BY <1>1, <1>2, <2>1, <2>2 DEF TableType
<1>3. CASE ~(x # None /\ t.byClient[x] = c)
  <2>1. u = t
    BY <1>3 DEF ForgetClient
  <2>2. \A y \in Clients : t.byClient[y] # c
    BY <1>1, <1>3, HubAssumption
  <2> QED  BY <2>1, <2>2
<1> QED  BY <1>2, <1>3

\* A connection that agrees with the tables is in no stream afterwards, and the
\* others are where they were.
LEMMA RemoveEffect ==
    ASSUME NEW t \in TableType, NEW c \in Ctrls, Agrees(t, c),
           NEW u, u = RemoveStreamMembership(t, c)
    PROVE  /\ u \in TableType
           /\ u.ctrl = t.ctrl /\ u.byClient = t.byClient
           /\ u.state = t.state /\ u.heard = t.heard
           /\ \A s \in Streams :
                 /\ u.broadcaster[s] = IF t.broadcaster[s] = c THEN None ELSE t.broadcaster[s]
                 /\ u.viewers[s] = t.viewers[s] \ {c}
<1> DEFINE s == t.ctrl[c].stream
<1>1. t.ctrl[c] \in Sessions
  BY DEF TableType
<1>2. CASE t.ctrl[c].role = "broadcaster"
  <2>1. s \in Streams
    BY <1>1, <1>2, HubAssumption DEF Sessions, Unjoined, Roles
  <2>2. t.broadcaster[s] = c
    BY <1>2, <2>1 DEF Agrees
  <2>3. \A r \in Streams : (t.broadcaster[r] = c <=> r = s) /\ c \notin t.viewers[r]
    BY <1>2 DEF Agrees
  <2>4. u = [t EXCEPT !.broadcaster[s] = None]
    BY <1>2, <2>2 DEF RemoveStreamMembership
  <2> HIDE DEF s
  <2> QED  BY <2>1, <2>3, <2>4 DEF TableType
<1>3. CASE t.ctrl[c].role = "viewer"
  <2>1. s \in Streams
    BY <1>1, <1>3, HubAssumption DEF Sessions, Unjoined, Roles
  <2>2. \A r \in Streams : t.broadcaster[r] # c /\ (c \in t.viewers[r] <=> r = s)
    BY <1>3 DEF Agrees
  <2>3. u = [t EXCEPT !.viewers[s] = @ \ {c}]
    BY <1>3 DEF RemoveStreamMembership
  <2> HIDE DEF s
  <2> QED  BY <2>1, <2>2, <2>3 DEF TableType
<1>4. CASE t.ctrl[c].role \notin Roles
  <2>1. \A r \in Streams : t.broadcaster[r] # c /\ c \notin t.viewers[r]
    BY <1>4 DEF Agrees, Roles
  <2>2. u = t
    BY <1>4 DEF RemoveStreamMembership, Roles
  <2> QED  BY <2>1, <2>2 DEF TableType
<1> QED  BY <1>2, <1>3, <1>4 DEF Roles
-----------------------------------------------------------------------------
(***************************************************************************)
(* What leaving and entering a stream preserve.                            *)
(***************************************************************************)
LEMMA JoinedFields ==
    ASSUME NEW e \in Sessions, e # Unjoined
    PROVE  e.role \in Roles /\ e.stream \in Streams /\ e.client \in Clients
BY DEF Sessions

\* m is t without the broadcaster d of s, whose own fields are left open.
Without(t, m, s, d) ==
    /\ t.broadcaster[s] = d /\ m.heard = t.heard /\ m.state = t.state
    /\ \A r \in Streams :
          /\ t.broadcaster[r] = d => r = s
          /\ m.broadcaster[r] = IF t.broadcaster[r] = d THEN None ELSE t.broadcaster[r]
          /\ m.viewers[r] = t.viewers[r] \ {d}

\* Once the stream that lost its broadcaster is told to be idle, the others are
\* right again.
LEMMA DepartureSafe ==
    ASSUME NEW t \in TableType, NEW m \in TableType, NEW s \in Streams, NEW d \in Ctrls,
           NEW e \in Ctrls, e # d, Agrees(t, e), Informed(t, e),
           Without(t, m, s, d), m.ctrl[e] = t.ctrl[e], NEW u, u = StreamIdle(m, s)
    PROVE  Agrees(u, e) /\ Informed(u, e)
<1> USE DEF Without
<1>2. /\ u.ctrl = m.ctrl /\ u.broadcaster = m.broadcaster /\ u.viewers = m.viewers
      /\ \A r \in Streams : u.state[r] = IF r = s THEN "idle" ELSE m.state[r]
      /\ \A c \in Ctrls : m.broadcaster[s] # c /\ c \notin m.viewers[s] =>
            u.heard[c] = m.heard[c]
      /\ \A c \in Ctrls : m.broadcaster[s] = c \/ c \in m.viewers[s] =>
            /\ u.heard[c].state = "idle"
            /\ u.heard[c].present = Present(m, s)
            /\ u.heard[c].peer = "leave"
  BY IdleEffect DEF Announced
<1>3. Agrees(u, e)
  BY <1>2, HubAssumption DEF Agrees
<1>4. Informed(u, e)
  <2> SUFFICES ASSUME t.ctrl[e] # Unjoined PROVE Informed(u, e)
    BY <1>2 DEF Informed
  <2>1. t.ctrl[e].role \in Roles /\ t.ctrl[e].stream \in Streams
    <3>1. t.ctrl[e] \in Sessions
      BY DEF TableType
    <3> QED  BY <3>1, JoinedFields
  <2>2. CASE t.ctrl[e].stream = s
    <3>1. e \in t.viewers[s]
      BY <2>1, <2>2 DEF Agrees, Roles
    <3>2. m.broadcaster[s] = None /\ ~Present(m, s) /\ ~Present(u, s)
      BY <1>2 DEF Present
    <3>3. /\ u.heard[e].state = "idle" /\ u.heard[e].present = Present(m, s)
          /\ u.heard[e].peer = "leave"
      BY <1>2, <3>1
    <3>4. u.state[s] = "idle"
      BY <1>2 DEF TableType
    <3> QED  BY <1>2, <2>2, <3>2, <3>3, <3>4 DEF Informed, Present
  <2>3. CASE t.ctrl[e].stream # s
    <3> DEFINE r == t.ctrl[e].stream
    <3>1. u.heard[e] = t.heard[e]
      <4>1. t.broadcaster[s] # e /\ e \notin t.viewers[s]
        BY <2>3 DEF Agrees
      <4> QED  BY <1>2, <4>1, HubAssumption
    <3>2. u.state[r] = t.state[r]
      BY <1>2, <2>1, <2>3 DEF TableType
    <3>3. u.broadcaster[r] = t.broadcaster[r]
      BY <1>2, <2>1, <2>3
    <3> QED  BY <1>2, <2>1, <3>1, <3>2, <3>3 DEF Informed, Present
  <2> QED  BY <2>2, <2>3
<1> QED  BY <1>3, <1>4

\* Leaving: everybody else is right, and nothing leads to c any more.
LEMMA LeaveSafe ==
    ASSUME NEW t, Good(t), NEW c \in Ctrls, NEW u, u = Leave(t, c)
    PROVE  /\ GoodBut(u, c) /\ u.ctrl = t.ctrl
           /\ \A x \in Clients : u.byClient[x] = IF t.byClient[x] = c THEN None ELSE t.byClient[x]
<1> DEFINE f == ForgetClient(t, c)
           m == RemoveStreamMembership(f, c)
           s == t.ctrl[c].stream
<1>1. t \in TableType /\ LiveTable(t) /\ ClientsLead(t) /\ \A d \in Ctrls : Agrees(t, d) /\ Informed(t, d)
  BY DEF Good
<1>2. /\ f \in TableType
      /\ f.ctrl = t.ctrl /\ f.broadcaster = t.broadcaster /\ f.viewers = t.viewers
      /\ f.state = t.state /\ f.heard = t.heard
      /\ \A x \in Clients : f.byClient[x] = IF t.byClient[x] = c THEN None ELSE t.byClient[x]
  BY <1>1, ForgetEffect
<1>3. Agrees(f, c)
  BY <1>1, <1>2 DEF Agrees
<1> HIDE DEF f
<1>4. /\ m \in TableType
      /\ m.ctrl = t.ctrl /\ m.byClient = f.byClient
      /\ m.state = t.state /\ m.heard = t.heard
      /\ \A r \in Streams :
            /\ m.broadcaster[r] = IF t.broadcaster[r] = c THEN None ELSE t.broadcaster[r]
            /\ m.viewers[r] = t.viewers[r] \ {c}
  BY <1>2, <1>3, RemoveEffect
<1>5. u = IF t.ctrl[c].role = "broadcaster" THEN StreamIdle(m, s) ELSE m
  BY DEF Leave, f
<1> HIDE DEF m
<1>6. InNoStream(m, c)
  BY <1>4, HubAssumption DEF InNoStream
<1>7. ClientsLead(m)
  BY <1>1, <1>2, <1>4 DEF ClientsLead
<1>8. CASE t.ctrl[c].role = "broadcaster"
  <2>1. s \in Streams
    <3>1. t.ctrl[c] \in Sessions /\ t.ctrl[c] # Unjoined
      BY <1>1, <1>8, HubAssumption DEF TableType, Unjoined, Roles
    <3> QED  BY <3>1, JoinedFields
  <2>2. t.broadcaster[s] = c /\ \A r \in Streams : t.broadcaster[r] = c => r = s
    BY <1>1, <1>8, <2>1 DEF Agrees
  <2>3. u = StreamIdle(m, s)
    BY <1>5, <1>8
  <2> HIDE DEF s
  <2>4. /\ u \in TableType
        /\ u.ctrl = m.ctrl /\ u.broadcaster = m.broadcaster /\ u.viewers = m.viewers
        /\ u.byClient = m.byClient
        /\ \A r \in Streams : u.state[r] = IF r = s THEN "idle" ELSE m.state[r]
    <3>1. m \in TableType
      BY <1>4
    <3> QED  BY <2>1, <2>3, <3>1, IdleEffect DEF Announced
  <2>5. ASSUME NEW d \in Ctrls \ {c} PROVE Agrees(u, d) /\ Informed(u, d)
    <3>1. d \in Ctrls /\ d # c /\ Agrees(t, d) /\ Informed(t, d) /\ m.ctrl[d] = t.ctrl[d]
      BY <1>1, <1>4
    <3>2. Without(t, m, s, c) /\ t \in TableType /\ m \in TableType
      BY <1>1, <1>4, <2>2 DEF Without
    <3> QED  BY <2>1, <2>3, <3>1, <3>2, DepartureSafe
  <2>6. LiveTable(u)
    <3>1. \A r \in Streams : u.state[r] = IF r = s THEN "idle" ELSE t.state[r]
      BY <1>4, <2>1, <2>4 DEF TableType
    <3> QED  BY <1>1, <1>4, <2>2, <2>4, <3>1 DEF LiveTable, Present
  <2>7. InNoStream(u, c) /\ ClientsLead(u)
    BY <1>6, <1>7, <2>4 DEF InNoStream, ClientsLead
  <2> QED  BY <1>2, <1>4, <2>4, <2>5, <2>6, <2>7 DEF GoodBut
<1>9. CASE t.ctrl[c].role # "broadcaster"
  <2>1. u = m
    BY <1>5, <1>9
  <2>2. \A r \in Streams : t.broadcaster[r] # c /\ m.broadcaster[r] = t.broadcaster[r]
    BY <1>1, <1>4, <1>9 DEF Agrees
  <2>3. LiveTable(m)
    BY <1>1, <1>4, <2>2 DEF LiveTable, Present
  <2>4. ASSUME NEW d \in Ctrls \ {c} PROVE Agrees(m, d) /\ Informed(m, d)
    <3>1. d \in Ctrls /\ d # c /\ Agrees(t, d) /\ Informed(t, d)
      BY <1>1
    <3>2. Agrees(m, d)
      BY <1>4, <2>2, <3>1 DEF Agrees
    <3>3. t.ctrl[d] # Unjoined => t.ctrl[d].stream \in Streams
      <4>1. t.ctrl[d] \in Sessions
        BY <1>1 DEF TableType
      <4> QED  BY <4>1, JoinedFields
    <3>4. Informed(m, d)
      BY <1>4, <2>2, <3>1, <3>3 DEF Informed, Present
    <3> QED  BY <3>2, <3>4
  <2> QED  BY <1>2, <1>4, <1>6, <1>7, <2>1, <2>3, <2>4 DEF GoodBut
<1> QED  BY <1>8, <1>9

\* The fields of the connections but c are kept or reset, and a client id
\* that leads nowhere any more led to a connection that was reset.
ClientsKept(t, u, c) ==
    /\ \A d \in Ctrls \ {c} : u.ctrl[d] \in {t.ctrl[d], Unjoined}
    /\ \A x \in Clients :
          \/ u.byClient[x] = t.byClient[x]
          \/ /\ u.byClient[x] = None /\ t.byClient[x] # c
             /\ t.byClient[x] \in Ctrls /\ u.ctrl[t.byClient[x]] = Unjoined

\* A displaced broadcaster is out of every table; the stream is free for c.
LEMMA DisplaceSafe ==
    ASSUME NEW t, NEW c \in Ctrls, GoodBut(t, c), NEW s \in Streams, NEW u, u = Displace(t, s, c)
    PROVE  /\ GoodBut(u, c) /\ u.ctrl[c] = t.ctrl[c]
           /\ u.broadcaster[s] = None /\ ClientsKept(t, u, c)
<1> DEFINE d == t.broadcaster[s]
           f == ForgetClient(t, d)
           m == RemoveStreamMembership(f, d)
           w == [m EXCEPT !.ctrl[d] = Unjoined]
<1>1. /\ t \in TableType /\ LiveTable(t) /\ ClientsLead(t) /\ InNoStream(t, c)
      /\ \A e \in Ctrls \ {c} : Agrees(t, e) /\ Informed(t, e)
  BY DEF GoodBut
<1>2. d # c
  BY <1>1 DEF InNoStream
<1>3. CASE d = None
  <2>1. u = t
    BY <1>3 DEF Displace
  <2> QED  BY <1>3, <2>1 DEF ClientsKept
<1>4. CASE d # None
  <2>1. d \in Ctrls \ {c} /\ Agrees(t, d)
    <3>1. d \in Ctrls
      BY <1>1, <1>4 DEF TableType
    <3> QED  BY <1>1, <1>2, <3>1
  <2>2. /\ f \in TableType
        /\ f.ctrl = t.ctrl /\ f.broadcaster = t.broadcaster /\ f.viewers = t.viewers
        /\ f.state = t.state /\ f.heard = t.heard
        /\ \A x \in Clients : f.byClient[x] = IF t.byClient[x] = d THEN None ELSE t.byClient[x]
    <3> HIDE DEF d
    <3> QED  BY <1>1, <2>1, ForgetEffect
  <2>3. u = StreamIdle(w, s)
    BY <1>2, <1>4 DEF Displace
  <2> HIDE DEF f
  <2>4. Agrees(f, d)
    BY <2>1, <2>2 DEF Agrees
  <2>5. /\ m \in TableType
        /\ m.ctrl = f.ctrl /\ m.byClient = f.byClient
        /\ m.state = f.state /\ m.heard = f.heard
        /\ \A r \in Streams :
              /\ m.broadcaster[r] = IF f.broadcaster[r] = d THEN None ELSE f.broadcaster[r]
              /\ m.viewers[r] = f.viewers[r] \ {d}
    <3> HIDE DEF d
    <3> QED  BY <2>1, <2>2, <2>4, RemoveEffect
  <2> HIDE DEF m
  <2>6. /\ w \in TableType
        /\ w.ctrl = [m.ctrl EXCEPT ![d] = Unjoined] /\ w.byClient = m.byClient
        /\ w.state = m.state /\ w.heard = m.heard
        /\ w.broadcaster = m.broadcaster /\ w.viewers = m.viewers
    <3>1. Unjoined \in Sessions
      BY DEF Sessions
    <3> QED  BY <2>1, <2>5, <3>1 DEF TableType
  <2>7. /\ w.ctrl[d] = Unjoined
        /\ \A e \in Ctrls \ {d} : w.ctrl[e] = t.ctrl[e]
    BY <2>1, <2>2, <2>5, <2>6 DEF TableType
  <2> HIDE DEF w
  <2>8. /\ u \in TableType
        /\ u.ctrl = w.ctrl /\ u.broadcaster = w.broadcaster /\ u.viewers = w.viewers
        /\ u.byClient = w.byClient
        /\ \A r \in Streams : u.state[r] = IF r = s THEN "idle" ELSE w.state[r]
    BY <2>3, <2>6, IdleEffect DEF Announced
  <2>9. \A r \in Streams : t.broadcaster[r] = d => r = s
    BY <2>1 DEF Agrees
  <2>10. \A r \in Streams :
            /\ w.broadcaster[r] = IF t.broadcaster[r] = d THEN None ELSE t.broadcaster[r]
            /\ w.viewers[r] = t.viewers[r] \ {d}
    BY <2>2, <2>5, <2>6
  <2>11. ASSUME NEW e \in Ctrls \ {c} PROVE Agrees(u, e) /\ Informed(u, e)
    <3>1. CASE e = d
      <4>1. u.ctrl[e] = Unjoined
        BY <2>7, <2>8, <3>1
      <4>2. \A r \in Streams : u.broadcaster[r] # e /\ e \notin u.viewers[r]
        BY <1>4, <2>8, <2>10, <3>1
      <4>3. Unjoined.role = None
        BY DEF Unjoined
      <4> QED  BY <4>1, <4>2, <4>3, HubAssumption DEF Agrees, Informed, Roles
    <3>2. CASE e # d
      <4>1. e \in Ctrls /\ Agrees(t, e) /\ Informed(t, e) /\ w.ctrl[e] = t.ctrl[e]
        BY <1>1, <2>7, <3>2
      <4>2. d \in Ctrls /\ Without(t, w, s, d) /\ t \in TableType /\ w \in TableType
        BY <1>1, <2>1, <2>2, <2>5, <2>6, <2>9, <2>10 DEF Without
      <4> HIDE DEF d
      <4> QED  BY <2>3, <3>2, <4>1, <4>2, DepartureSafe
    <3> QED  BY <3>1, <3>2
  <2>12. u.broadcaster[s] = None
    BY <2>8, <2>10
  <2>13. LiveTable(u)
    <3>1. \A r \in Streams : u.state[r] = IF r = s THEN "idle" ELSE t.state[r]
      BY <2>2, <2>5, <2>6, <2>8
    <3>2. \A r \in Streams \ {s} : u.broadcaster[r] = t.broadcaster[r]
      BY <2>8, <2>9, <2>10
    <3> QED  BY <1>1, <2>12, <3>1, <3>2 DEF LiveTable, Present
  <2>14. InNoStream(u, c)
    BY <1>1, <2>8, <2>10, HubAssumption DEF InNoStream
  <2>15. \A x \in Clients : u.byClient[x] = IF t.byClient[x] = d THEN None ELSE t.byClient[x]
    BY <2>2, <2>5, <2>6, <2>8
  <2>16. \A x \in Clients : t.byClient[x] \in Ctrls \cup {None}
    BY <1>1 DEF TableType
  <2>17. ClientsLead(u)
    BY <1>1, <2>7, <2>8, <2>15, <2>16 DEF ClientsLead
  <2>18. ClientsKept(t, u, c)
    BY <2>1, <2>7, <2>8, <2>15 DEF ClientsKept
  <2> QED  BY <2>1, <2>7, <2>8, <2>11, <2>12, <2>13, <2>14, <2>17, <2>18 DEF GoodBut
<1> QED  BY <1>3, <1>4

\* The last statement of a join: c hears the state of its stream.
LEMMA GreetingSafe ==
    ASSUME NEW t, t \in TableType, LiveTable(t), ClientsLead(t), NEW c \in Ctrls,
           \A d \in Ctrls : Agrees(t, d), \A d \in Ctrls \ {c} : Informed(t, d),
           NEW s \in Streams, t.ctrl[c].stream = s,
           t.heard[c].peer = "join" <=> Present(t, s), NEW u, u = TellState(t, {c}, s)
    PROVE  Good(u) /\ u.ctrl = t.ctrl /\ u.byClient = t.byClient
<1> DEFINE C == {c}
<1>1. c \in C /\ \A d \in Ctrls \ {c} : d \notin C
  OBVIOUS
<1>2. u = TellState(t, C, s)
  OBVIOUS
<1> HIDE DEF C
<1>3. /\ u \in TableType
      /\ u.ctrl = t.ctrl /\ u.broadcaster = t.broadcaster /\ u.viewers = t.viewers
      /\ u.byClient = t.byClient /\ u.state = t.state
      /\ \A d \in Ctrls : d \notin C => u.heard[d] = t.heard[d]
      /\ \A d \in Ctrls : d \in C =>
            /\ u.heard[d].state = t.state[s]
            /\ u.heard[d].present = Present(t, s)
            /\ u.heard[d].peer = t.heard[d].peer
  <2>1. ToldState(t, u, C, s)
    BY <1>2, TellStateEffect
  <2> QED  BY <2>1 DEF ToldState, OnlyHeard
<1>4. ASSUME NEW d \in Ctrls PROVE Agrees(u, d)
  <2>1. Agrees(t, d)
    OBVIOUS
  <2> QED  BY <1>3, <2>1 DEF Agrees
<1>5. ASSUME NEW d \in Ctrls PROVE Informed(u, d)
  <2>1. CASE d = c
    BY <1>1, <1>3, <2>1 DEF Informed, Present
  <2>2. CASE d # c
    <3>1. Informed(t, d) /\ d \notin C
      BY <1>1, <2>2
    <3> QED  BY <1>3, <3>1 DEF Informed, Present
  <2> QED  BY <2>1, <2>2
<1>6. LiveTable(u) /\ ClientsLead(u)
  <2>1. /\ u.broadcaster = t.broadcaster /\ u.state = t.state
        /\ u.ctrl = t.ctrl /\ u.byClient = t.byClient
    BY <1>3
  <2> QED  BY <2>1 DEF LiveTable, ClientsLead, Present
<1> QED  BY <1>3, <1>4, <1>5, <1>6 DEF Good

\* c takes over s, and everybody there hears of it.
LEMMA BroadcastSafe ==
    ASSUME NEW t, NEW c \in Ctrls, GoodBut(t, c), NEW s \in Streams,
           t.ctrl[c].role = "broadcaster", t.ctrl[c].stream = s,
           NEW u, u = TellState(Broadcast(t, s, c), {c}, s)
    PROVE  Good(u) /\ u.ctrl[c] = t.ctrl[c] /\ ClientsKept(t, u, c)
<1> DEFINE w == Displace(t, s, c)
           b == [w EXCEPT !.broadcaster[s] = c]
           v == UpdateState(b, s, "live")
           z == TellPeer(v, Audience(v, s), "join")
<1>1. Broadcast(t, s, c) = z
  BY DEF Broadcast
<1>2. /\ GoodBut(w, c) /\ w.ctrl[c] = t.ctrl[c]
      /\ w.broadcaster[s] = None /\ ClientsKept(t, w, c)
  <2>1. w = Displace(t, s, c)
    OBVIOUS
  <2> HIDE DEF w
  <2> QED  BY <2>1, DisplaceSafe
<1> HIDE DEF w
<1>3. /\ w \in TableType /\ LiveTable(w) /\ ClientsLead(w) /\ InNoStream(w, c)
      /\ \A d \in Ctrls \ {c} : Agrees(w, d) /\ Informed(w, d)
  BY <1>2 DEF GoodBut
<1>4. /\ b \in TableType
      /\ b.ctrl = w.ctrl /\ b.viewers = w.viewers /\ b.byClient = w.byClient
      /\ b.state = w.state /\ b.heard = w.heard
      /\ b.broadcaster[s] = c
      /\ \A r \in Streams \ {s} : b.broadcaster[r] = w.broadcaster[r]
  BY <1>3 DEF TableType
<1>5. v = UpdateState(b, s, "live") /\ z = TellPeer(v, Audience(v, s), "join")
  OBVIOUS
<1> HIDE DEF b, v, z
<1>6. Announced(b, z, s, "live", "join")
  <2>1. "live" \in {"idle", "live"} /\ "join" \in {"join", "leave"}
    OBVIOUS
  <2> QED  BY <1>4, <1>5, <2>1, AnnounceEffect
<1>7. /\ z \in TableType
      /\ z.ctrl = w.ctrl /\ z.broadcaster = b.broadcaster /\ z.viewers = w.viewers
      /\ z.byClient = w.byClient
      /\ \A r \in Streams : z.state[r] = IF r = s THEN "live" ELSE w.state[r]
      /\ \A d \in Ctrls : d # c /\ d \notin w.viewers[s] => z.heard[d] = w.heard[d]
      /\ \A d \in Ctrls : d = c \/ d \in w.viewers[s] =>
            /\ z.heard[d].state = "live"
            /\ z.heard[d].present = Present(b, s)
            /\ z.heard[d].peer = "join"
  BY <1>4, <1>6 DEF Announced
<1>8. Present(b, s) /\ Present(z, s)
  BY <1>4, <1>7, HubAssumption DEF Present
<1>9. Agrees(z, c)
  BY <1>2, <1>3, <1>4, <1>7, HubAssumption DEF Agrees, InNoStream, Roles
<1>10. ASSUME NEW d \in Ctrls \ {c} PROVE Agrees(z, d)
  <2>1. Agrees(w, d)
    BY <1>3
  <2>2. \A r \in Streams : z.broadcaster[r] = d <=> w.broadcaster[r] = d
    BY <1>2, <1>4, <1>7, HubAssumption
  <2> QED  BY <1>7, <2>1, <2>2 DEF Agrees
<1>11. ASSUME NEW d \in Ctrls \ {c} PROVE Informed(z, d)
  <2> SUFFICES ASSUME w.ctrl[d] # Unjoined PROVE Informed(z, d)
    BY <1>7 DEF Informed
  <2>1. w.ctrl[d].role \in Roles /\ w.ctrl[d].stream \in Streams
    <3>1. w.ctrl[d] \in Sessions
      BY <1>3 DEF TableType
    <3> QED  BY <3>1, JoinedFields
  <2>2. Agrees(w, d) /\ Informed(w, d)
    BY <1>3
  <2>3. CASE w.ctrl[d].stream = s
    <3>1. d \in w.viewers[s]
      <4>1. w.broadcaster[s] # d
        BY <1>2, HubAssumption
      <4> QED  BY <2>1, <2>2, <2>3, <4>1 DEF Agrees, Roles
    <3>2. z.state[s] = "live"
      BY <1>7
    <3> QED  BY <1>7, <1>8, <2>3, <3>1, <3>2 DEF Informed, Present
  <2>4. CASE w.ctrl[d].stream # s
    <3> DEFINE r == w.ctrl[d].stream
    <3>1. d \notin w.viewers[s]
      BY <2>2, <2>4 DEF Agrees
    <3>2. z.heard[d] = w.heard[d] /\ z.state[r] = w.state[r]
      BY <1>7, <2>1, <2>4, <3>1
    <3>3. z.broadcaster[r] = w.broadcaster[r]
      BY <1>4, <1>7, <2>1, <2>4
    <3> QED  BY <1>7, <2>2, <3>2, <3>3 DEF Informed, Present
  <2> QED  BY <2>3, <2>4
<1>12. LiveTable(z)
  BY <1>3, <1>4, <1>7, <1>8 DEF LiveTable, Present
<1>13. ClientsLead(z)
  BY <1>3, <1>7 DEF ClientsLead
<1>14. z.ctrl[c].stream = s /\ z.heard[c].peer = "join" /\ u = TellState(z, {c}, s)
  BY <1>1, <1>2, <1>7
<1>15. \A d \in Ctrls : Agrees(z, d)
  BY <1>9, <1>10
<1>16. Good(u) /\ u.ctrl = z.ctrl /\ u.byClient = z.byClient
  BY <1>7, <1>8, <1>11, <1>12, <1>13, <1>14, <1>15, GreetingSafe
<1>17. u.ctrl = w.ctrl /\ u.byClient = w.byClient
  BY <1>7, <1>16
<1> QED  BY <1>2, <1>16, <1>17 DEF ClientsKept

\* c joins the viewers of s and hears of the broadcaster if there is one.
LEMMA ViewSafe ==
    ASSUME NEW t, NEW c \in Ctrls, GoodBut(t, c), NEW s \in Streams,
           t.ctrl[c].role = "viewer", t.ctrl[c].stream = s, t.heard[c] = Unheard,
           NEW u, u = TellState(View(t, s, c), {c}, s)
    PROVE  Good(u) /\ u.ctrl = t.ctrl /\ u.byClient = t.byClient
<1> DEFINE w == [t EXCEPT !.viewers[s] = @ \cup {c}]
           C == {c}
           z == IF Present(w, s) THEN TellPeer(w, C, "join") ELSE w
<1>1. z = View(t, s, c)
  BY DEF View
<1>2. /\ t \in TableType /\ LiveTable(t) /\ ClientsLead(t) /\ InNoStream(t, c)
      /\ \A d \in Ctrls \ {c} : Agrees(t, d) /\ Informed(t, d)
  BY DEF GoodBut
<1>3. /\ w \in TableType
      /\ w.ctrl = t.ctrl /\ w.broadcaster = t.broadcaster /\ w.byClient = t.byClient
      /\ w.state = t.state /\ w.heard = t.heard
      /\ \A r \in Streams, d \in Ctrls :
            d \in w.viewers[r] <=> d \in t.viewers[r] \/ (r = s /\ d = c)
  BY <1>2 DEF TableType
<1>4. c \in C /\ (\A d \in Ctrls \ {c} : d \notin C) /\ "join" \in {"join", "leave"}
  OBVIOUS
<1>5. z = IF Present(w, s) THEN TellPeer(w, C, "join") ELSE w
  OBVIOUS
<1>6. Unheard.peer = None
  BY DEF Unheard
<1> HIDE DEF w, C, z
<1>7. /\ z \in TableType
      /\ z.ctrl = w.ctrl /\ z.broadcaster = w.broadcaster /\ z.viewers = w.viewers
      /\ z.byClient = w.byClient /\ z.state = w.state
      /\ \A d \in Ctrls \ {c} : z.heard[d] = w.heard[d]
      /\ z.heard[c].peer = IF Present(w, s) THEN "join" ELSE None
  <2>1. CASE Present(w, s)
    <3>1. z = TellPeer(w, C, "join")
      BY <1>5, <2>1
    <3>2. /\ z \in TableType
          /\ z.ctrl = w.ctrl /\ z.broadcaster = w.broadcaster /\ z.viewers = w.viewers
          /\ z.byClient = w.byClient /\ z.state = w.state
          /\ \A d \in Ctrls : d \notin C => z.heard[d] = w.heard[d]
          /\ \A d \in Ctrls : d \in C =>
                /\ z.heard[d].state = w.heard[d].state
                /\ z.heard[d].present = w.heard[d].present
                /\ z.heard[d].peer = "join"
      BY <1>3, <1>4, <3>1, TellPeerEffect DEF ToldPeer, OnlyHeard
    <3> QED  BY <1>4, <2>1, <3>2
  <2>2. CASE ~Present(w, s)
    BY <1>3, <1>5, <1>6, <2>2
  <2> QED  BY <2>1, <2>2
<1>8. Agrees(z, c)
  BY <1>2, <1>3, <1>7 DEF Agrees, InNoStream
<1>9. ASSUME NEW d \in Ctrls \ {c} PROVE Agrees(z, d) /\ Informed(z, d)
  <2>1. Agrees(t, d) /\ Informed(t, d)
    BY <1>2
  <2> QED  BY <1>3, <1>7, <2>1 DEF Agrees, Informed, Present
<1>10. LiveTable(z) /\ ClientsLead(z)
  <2>1. /\ z.broadcaster = t.broadcaster /\ z.state = t.state
        /\ z.ctrl = t.ctrl /\ z.byClient = t.byClient
    BY <1>3, <1>7
  <2> QED  BY <1>2, <2>1 DEF LiveTable, ClientsLead, Present
<1>11. z.heard[c].peer = "join" <=> Present(z, s)
  <2>1. None # "join"
    BY HubAssumption
  <2> QED  BY <1>7, <2>1 DEF Present
<1>12. z.ctrl[c].stream = s /\ u = TellState(z, {c}, s)
  BY <1>1, <1>3, <1>7
<1>13. \A d \in Ctrls : Agrees(z, d)
  BY <1>8, <1>9
<1>14. Good(u) /\ u.ctrl = z.ctrl /\ u.byClient = z.byClient
  BY <1>7, <1>9, <1>10, <1>11, <1>12, <1>13, GreetingSafe
<1> QED  BY <1>3, <1>7, <1>14

LEMMA EnterSafe ==
    ASSUME NEW t, NEW c \in Ctrls, GoodBut(t, c), \A y \in Clients : t.byClient[y] # c,
           NEW r \in Roles, NEW s \in Streams, NEW x \in Clients, NEW u, u = Enter(t, c, r, s, x)
    PROVE  /\ Good(u) /\ u.ctrl[c] = Joined(r, s, x) /\ u.byClient[x] = c
           /\ \A d \in Ctrls \ {c} : u.ctrl[d] \in {t.ctrl[d], Unjoined}
           /\ \A y \in Clients \ {x} :
                 \/ u.byClient[y] = t.byClient[y]
                 \/ t.byClient[y] \in Ctrls /\ u.ctrl[t.byClient[y]] = Unjoined
<1> DEFINE e == Joined(r, s, x)
           w == [t EXCEPT !.ctrl[c] = e, !.byClient[x] = c, !.heard[c] = Unheard]
<1>1. /\ t \in TableType /\ LiveTable(t) /\ ClientsLead(t) /\ InNoStream(t, c)
      /\ \A d \in Ctrls \ {c} : Agrees(t, d) /\ Informed(t, d)
  BY DEF GoodBut
<1>2. e \in Sessions /\ e.role = r /\ e.stream = s /\ e.client = x
  BY DEF Joined, Sessions
<1>3. Unheard \in Hearings
  BY DEF Unheard, Hearings
<1> HIDE DEF e
<1>4. /\ w \in TableType /\ w.ctrl[c] = e /\ w.heard[c] = Unheard /\ w.byClient[x] = c
      /\ w.broadcaster = t.broadcaster /\ w.viewers = t.viewers /\ w.state = t.state
      /\ \A d \in Ctrls \ {c} : w.ctrl[d] = t.ctrl[d] /\ w.heard[d] = t.heard[d]
      /\ \A y \in Clients \ {x} : w.byClient[y] = t.byClient[y]
  BY <1>1, <1>2, <1>3 DEF TableType
<1>5. u = TellState(IF r = "broadcaster" THEN Broadcast(w, s, c) ELSE View(w, s, c), {c}, s)
  BY DEF Enter, e
<1> HIDE DEF w
<1>6. GoodBut(w, c)
  <2>1. ASSUME NEW d \in Ctrls \ {c} PROVE Agrees(w, d) /\ Informed(w, d)
    <3>1. Agrees(t, d) /\ Informed(t, d)
      BY <1>1
    <3> QED  BY <1>4, <3>1 DEF Agrees, Informed, Present
  <2>2. LiveTable(w) /\ InNoStream(w, c)
    BY <1>1, <1>4 DEF LiveTable, InNoStream, Present
  <2>3. \A y \in Clients : t.byClient[y] \in Ctrls \cup {None}
    BY <1>1 DEF TableType
  <2>4. ClientsLead(w)
    BY <1>1, <1>2, <1>4, <2>3 DEF ClientsLead
  <2> QED  BY <1>4, <2>1, <2>2, <2>4 DEF GoodBut
<1>7. CASE r = "broadcaster"
  <2>1. u = TellState(Broadcast(w, s, c), {c}, s)
    BY <1>5, <1>7
  <2>2. w.ctrl[c].role = "broadcaster" /\ w.ctrl[c].stream = s
    BY <1>2, <1>4, <1>7
  <2>3. Good(u) /\ u.ctrl[c] = w.ctrl[c] /\ ClientsKept(w, u, c)
    BY <1>6, <2>1, <2>2, BroadcastSafe
  <2> QED  BY <1>4, <2>3 DEF ClientsKept, e
<1>8. CASE r # "broadcaster"
  <2>1. u = TellState(View(w, s, c), {c}, s)
    BY <1>5, <1>8
  <2>2. w.ctrl[c].role = "viewer" /\ w.ctrl[c].stream = s
    BY <1>2, <1>4, <1>8 DEF Roles
  <2>3. Good(u) /\ u.ctrl = w.ctrl /\ u.byClient = w.byClient
    BY <1>4, <1>6, <2>1, <2>2, ViewSafe
  <2> QED  BY <1>4, <2>3 DEF e
<1> QED  BY <1>7, <1>8

-----------------------------------------------------------------------------
(***************************************************************************)
(* The inductive invariant: the tables are right about every connection,   *)
(* closed connections are in none, and so for the media sockets.           *)
(***************************************************************************)
MediaAgree ==
    /\ \A s \in Streams, m \in Medias :
          m \in mediaViewers[s] <=> media[m].role = "viewer" /\ media[m].stream = s
    /\ \A m \in Medias \ open : media[m] = Unjoined

IInv ==
    /\ open \subseteq Ctrls \cup Medias
    /\ media \in [Medias -> Sessions] /\ mediaViewers \in [Streams -> SUBSET Medias]
    /\ Good(Tables)
    /\ \A c \in Ctrls \ open : ctrl[c] = Unjoined
    /\ MediaAgree
    /\ FramesFromBroadcasterToViewers

LEMMA TablesFields ==
    /\ Tables.ctrl = ctrl /\ Tables.broadcaster = broadcaster /\ Tables.viewers = viewers
    /\ Tables.byClient = byClient /\ Tables.state = state /\ Tables.heard = heard
BY DEF Tables

\* The tables after an assignment are the assigned ones.
LEMMA AssignSafe ==
    ASSUME NEW t, Good(t), Assign(t)
    PROVE  Good(Tables)'
<1>1. Tables' = t
  <2>1. t \in TableType
    BY DEF Good
  <2>2. t = [ctrl |-> t.ctrl, broadcaster |-> t.broadcaster, viewers |-> t.viewers,
             byClient |-> t.byClient, state |-> t.state, heard |-> t.heard]
    BY <2>1 DEF TableType
  <2> QED  BY <2>2 DEF Assign, Tables
<1>2. Good(t) <=> Good(Tables')
  BY <1>1
<1> QED  BY <1>2 DEF Good, LiveTable, ClientsLead, Agrees, Informed, Present

\* The tables after c left and is reset.
AfterClose(t, c) == [Leave(t, c) EXCEPT !.ctrl[c] = Unjoined, !.heard[c] = Unheard]

LEMMA CloseSafe ==
    ASSUME NEW t, Good(t), NEW c \in Ctrls, NEW u, u = AfterClose(t, c)
    PROVE  /\ Good(u) /\ u.ctrl[c] = Unjoined
           /\ \A d \in Ctrls \ {c} : u.ctrl[d] = t.ctrl[d]
           /\ \A x \in Clients : u.byClient[x] = IF t.byClient[x] = c THEN None ELSE t.byClient[x]
<1> DEFINE w == Leave(t, c)
           z == [w EXCEPT !.ctrl[c] = Unjoined, !.heard[c] = Unheard]
<1>1. w = Leave(t, c) /\ u = z
  BY DEF AfterClose
<1> HIDE DEF w
<1>2. /\ GoodBut(w, c) /\ w.ctrl = t.ctrl
      /\ \A x \in Clients : w.byClient[x] = IF t.byClient[x] = c THEN None ELSE t.byClient[x]
  BY <1>1, LeaveSafe
<1>3. /\ w \in TableType /\ LiveTable(w) /\ ClientsLead(w) /\ InNoStream(w, c)
      /\ \A d \in Ctrls \ {c} : Agrees(w, d) /\ Informed(w, d)
  BY <1>2 DEF GoodBut
<1>4. Unjoined \in Sessions /\ Unjoined.role = None /\ Unheard \in Hearings
  BY DEF Unjoined, Sessions, Unheard, Hearings
<1>5. /\ u \in TableType /\ u.ctrl[c] = Unjoined
      /\ u.broadcaster = w.broadcaster /\ u.viewers = w.viewers
      /\ u.state = w.state /\ u.byClient = w.byClient
      /\ \A d \in Ctrls \ {c} : u.ctrl[d] = w.ctrl[d] /\ u.heard[d] = w.heard[d]
  <2>1. w \in TableType
    BY <1>3
  <2>2. /\ z \in TableType /\ z.ctrl[c] = Unjoined
        /\ z.broadcaster = w.broadcaster /\ z.viewers = w.viewers
        /\ z.state = w.state /\ z.byClient = w.byClient
        /\ \A d \in Ctrls \ {c} : z.ctrl[d] = w.ctrl[d] /\ z.heard[d] = w.heard[d]
    BY <1>4, <2>1 DEF TableType
  <2> HIDE DEF z
  <2> QED  BY <1>1, <2>2
<1>6. Agrees(u, c) /\ Informed(u, c)
  BY <1>3, <1>4, <1>5, HubAssumption DEF Agrees, Informed, InNoStream, Roles
<1>7. ASSUME NEW d \in Ctrls \ {c} PROVE Agrees(u, d) /\ Informed(u, d)
  <2>1. Agrees(w, d) /\ Informed(w, d)
    BY <1>3
  <2> QED  BY <1>5, <2>1 DEF Agrees, Informed, Present
<1>8. LiveTable(u)
  BY <1>3, <1>5 DEF LiveTable, Present
<1>9. ClientsLead(u)
  <2>1. \A x \in Clients : w.byClient[x] # c /\ w.byClient[x] \in Ctrls \cup {None}
    BY <1>2, <1>3, HubAssumption DEF TableType
  <2> QED  BY <1>3, <1>5, <2>1 DEF ClientsLead
<1> QED  BY <1>2, <1>5, <1>6, <1>7, <1>8, <1>9 DEF Good

-----------------------------------------------------------------------------
LEMMA InitSafe == Init => IInv
<1> SUFFICES ASSUME Init PROVE IInv
  OBVIOUS
<1>1. Unjoined \in Sessions /\ Unjoined.role = None /\ Unjoined.stream = None /\ Unheard \in Hearings
  BY DEF Unjoined, Sessions, Unheard, Hearings
<1>2. /\ Tables \in TableType
      /\ \A c \in Ctrls : Tables.ctrl[c] = Unjoined
      /\ \A s \in Streams : /\ Tables.broadcaster[s] = None /\ Tables.viewers[s] = {}
                            /\ Tables.state[s] = "idle"
      /\ \A x \in Clients : Tables.byClient[x] = None
  BY <1>1 DEF Init, Tables, TableType
<1>3. Good(Tables)
  BY <1>1, <1>2, HubAssumption DEF Good, LiveTable, ClientsLead, Agrees, Informed, Present, Roles
<1>4. MediaAgree
  BY <1>1, HubAssumption DEF Init, MediaAgree, Roles
<1> QED  BY <1>1, <1>3, <1>4 DEF Init, IInv, FramesFromBroadcasterToViewers

LEMMA StreamJoinSafe ==
    ASSUME IInv, NEW c \in Ctrls, NEW r \in Roles, NEW s \in Streams, NEW x \in Clients,
           StreamJoin(c, r, s, x)
    PROVE  /\ IInv'
           /\ \A y \in Clients :
                 byClient[y] # None /\ ctrl'[byClient[y]].client = y => byClient'[y] # None
<1> DEFINE l == Leave(Tables, c)
           t == Enter(l, c, r, s, x)
<1>1. /\ l = Leave(Tables, c) /\ t = Enter(l, c, r, s, x) /\ Assign(t)
      /\ c \in open /\ frame' = NoFrame /\ UNCHANGED <<open, mediaVars>>
  BY DEF StreamJoin
<1> HIDE DEF l, t
<1>2. Good(Tables) /\ ClientsLead(Tables) /\ Tables \in TableType
  BY DEF IInv, Good
<1>3. /\ GoodBut(l, c) /\ l.ctrl = ctrl
      /\ \A y \in Clients : l.byClient[y] = IF byClient[y] = c THEN None ELSE byClient[y]
  BY <1>1, <1>2, LeaveSafe, TablesFields
<1>4. /\ Good(t) /\ t.ctrl[c] = Joined(r, s, x)
      /\ \A d \in Ctrls \ {c} : t.ctrl[d] \in {l.ctrl[d], Unjoined}
      /\ \A y \in Clients \ {x} :
            \/ t.byClient[y] = l.byClient[y]
            \/ l.byClient[y] \in Ctrls /\ t.ctrl[l.byClient[y]] = Unjoined
      /\ t.byClient[x] = c
  <2>1. \A y \in Clients : l.byClient[y] # c
    BY <1>3, HubAssumption
  <2> QED  BY <1>1, <1>3, <2>1, EnterSafe
<1>5. ctrl' = t.ctrl /\ byClient' = t.byClient
  BY <1>1 DEF Assign
<1>6. IInv'
  <2>1. Good(Tables)'
    BY <1>1, <1>4, AssignSafe
  <2>2. \A d \in Ctrls \ open : ctrl'[d] = Unjoined
    BY <1>1, <1>3, <1>4, <1>5 DEF IInv
  <2> QED  BY <1>1, <2>1, <2>2 DEF IInv, MediaAgree, mediaVars, FramesFromBroadcasterToViewers
<1>7. ASSUME NEW y \in Clients, byClient[y] # None, ctrl'[byClient[y]].client = y
      PROVE  byClient'[y] # None
  <2>1. CASE y = x
    BY <1>4, <1>5, <2>1, HubAssumption
  <2>2. CASE y # x
    <3>1. Unjoined.client = None /\ Joined(r, s, x).client = x
      BY DEF Unjoined, Joined
    <3>2. byClient[y] # c
      BY <1>4, <1>5, <1>7, <2>2, <3>1
    <3>3. l.byClient[y] = byClient[y]
      BY <1>3, <3>2
    <3> QED  BY <1>4, <1>5, <1>7, <2>2, <3>1, <3>3, HubAssumption
  <2> QED  BY <2>1, <2>2
<1> QED  BY <1>6, <1>7

LEMMA ControlCloseSafe ==
    ASSUME IInv, NEW c \in Ctrls, ControlClose(c)
    PROVE  /\ IInv'
           /\ \A y \in Clients :
                 byClient[y] # None /\ ctrl'[byClient[y]].client = y => byClient'[y] # None
<1> DEFINE t == AfterClose(Tables, c)
<1>1. /\ t = AfterClose(Tables, c) /\ Assign(t)
      /\ open' = open \ {c} /\ frame' = NoFrame /\ UNCHANGED mediaVars
  BY DEF ControlClose, AfterClose
<1> HIDE DEF t
<1>2. /\ Good(t) /\ t.ctrl[c] = Unjoined
      /\ \A d \in Ctrls \ {c} : t.ctrl[d] = ctrl[d]
      /\ \A y \in Clients : t.byClient[y] = IF byClient[y] = c THEN None ELSE byClient[y]
  <2>1. Good(Tables)
    BY DEF IInv
  <2>2. /\ Good(t) /\ t.ctrl[c] = Unjoined
        /\ \A d \in Ctrls \ {c} : t.ctrl[d] = Tables.ctrl[d]
        /\ \A y \in Clients :
              t.byClient[y] = IF Tables.byClient[y] = c THEN None ELSE Tables.byClient[y]
    BY <1>1, <2>1, CloseSafe
  <2> QED  BY <2>2, TablesFields
<1>3. ctrl' = t.ctrl /\ byClient' = t.byClient
  BY <1>1 DEF Assign
<1>4. Good(Tables)'
  BY <1>1, <1>2, AssignSafe
<1>5. \A d \in Ctrls \ open' : ctrl'[d] = Unjoined
  BY <1>1, <1>2, <1>3 DEF IInv
<1>6. MediaAgree'
  BY <1>1, HubAssumption DEF IInv, MediaAgree, mediaVars
<1>7. Unjoined.client = None
  BY DEF Unjoined
<1>8. \A y \in Clients :
         byClient[y] # None /\ ctrl'[byClient[y]].client = y => byClient'[y] # None
  BY <1>2, <1>3, <1>7, HubAssumption
<1> QED  BY <1>1, <1>4, <1>5, <1>6, <1>8 DEF IInv, mediaVars, FramesFromBroadcasterToViewers

\* The tables of the control sockets stay as they are.
LEMMA CtrlUnchanged ==
    ASSUME Good(Tables), UNCHANGED ctrlVars
    PROVE  Good(Tables)'
<1>1. Tables' = Tables
  BY DEF Tables, ctrlVars
<1> QED  BY <1>1 DEF Good, LiveTable, ClientsLead, Agrees, Informed, Present

LEMMA StreamBinarySafe ==
    ASSUME IInv, NEW m \in Medias, StreamBinary(m)
    PROVE  IInv'
<1>1. /\ m \in open /\ MayRelay(m) /\ UNCHANGED <<open, ctrlVars, mediaVars>>
      /\ frame' = [to |-> mediaViewers[media[m].stream] \cap open,
                   stream |-> media[m].stream, client |-> media[m].client]
  BY DEF StreamBinary
<1>2. Good(Tables)'
  BY <1>1, CtrlUnchanged DEF IInv
<1> DEFINE e == media[m]
           c == byClient[e.client]
<1>3. e \in Sessions /\ e # Unjoined
  BY <1>1, HubAssumption DEF IInv, MayRelay, Unjoined, Roles
<1>4. e.stream \in Streams /\ e.client \in Clients
  BY <1>3, JoinedFields
<1>5. c \in Ctrls /\ broadcaster[e.stream] = c
  <2>1. c = broadcaster[e.stream] /\ c # None
    BY <1>1 DEF MayRelay
  <2>2. broadcaster[e.stream] \in Ctrls \cup {None}
    BY <1>4, TablesFields DEF IInv, Good, TableType
  <2> QED  BY <2>1, <2>2
<1>6. ctrl[c].client = e.client
  BY <1>4, <1>5, HubAssumption, TablesFields DEF IInv, Good, ClientsLead
<1>7. c \in open
  <2>1. Agrees(Tables, c)
    BY <1>5 DEF IInv, Good
  <2>2. ctrl[c].role = "broadcaster"
    BY <1>4, <1>5, <2>1, TablesFields DEF Agrees
  <2>3. ctrl[c] # Unjoined
    BY <2>2, HubAssumption DEF Unjoined, Roles
  <2> QED  BY <1>5, <2>3 DEF IInv
<1>8. \A n \in Medias :
         n \in mediaViewers[e.stream] \cap open <=> media[n].role = "viewer" /\ media[n].stream = e.stream
  <2>1. \A n \in Medias : media[n].role = "viewer" => n \in open
    BY HubAssumption DEF IInv, MediaAgree, Unjoined, Roles
  <2> QED  BY <1>4, <2>1 DEF IInv, MediaAgree
<1>9. mediaViewers[e.stream] \subseteq Medias
  BY <1>4 DEF IInv
<1>10. frame'.to = {n \in Medias : media[n].role = "viewer" /\ media[n].stream = e.stream}
  BY <1>1, <1>8, <1>9
<1>11. frame'.stream = e.stream /\ frame'.client = e.client
  BY <1>1
<1>12. FramesFromBroadcasterToViewers'
  BY <1>1, <1>5, <1>6, <1>7, <1>10, <1>11 DEF FramesFromBroadcasterToViewers, ctrlVars, mediaVars
<1> QED  BY <1>1, <1>2, <1>12 DEF IInv, MediaAgree, ctrlVars, mediaVars

LEMMA MediaJoinSafe ==
    ASSUME IInv, NEW m \in Medias, NEW r \in Roles, NEW s \in Streams, NEW x \in Clients,
           MediaJoin(m, r, s, x)
    PROVE  IInv'
<1> DEFINE e == Joined(r, s, x)
<1>1. e \in Sessions /\ e.role = r /\ e.stream = s
  BY DEF Joined, Sessions
<1>2. /\ m \in open /\ frame' = NoFrame /\ UNCHANGED <<open, ctrlVars>>
      /\ media' = [media EXCEPT ![m] = e]
      /\ mediaViewers' = IF r = "viewer" THEN [WithoutMedia(m) EXCEPT ![s] = @ \cup {m}]
                                         ELSE WithoutMedia(m)
  BY DEF MediaJoin
<1> HIDE DEF e
<1>3. Good(Tables)'
  BY <1>2, CtrlUnchanged DEF IInv
<1>4. /\ WithoutMedia(m) \in [Streams -> SUBSET Medias]
      /\ \A q \in Streams : WithoutMedia(m)[q] = mediaViewers[q] \ {m}
  BY DEF IInv, WithoutMedia
<1>5. /\ mediaViewers' \in [Streams -> SUBSET Medias]
      /\ \A q \in Streams, n \in Medias \ {m} : n \in mediaViewers'[q] <=> n \in mediaViewers[q]
      /\ \A q \in Streams : m \in mediaViewers'[q] <=> r = "viewer" /\ q = s
  BY <1>2, <1>4
<1>6. /\ media' \in [Medias -> Sessions] /\ media'[m] = e
      /\ \A n \in Medias \ {m} : media'[n] = media[n]
  BY <1>1, <1>2 DEF IInv
<1>7. MediaAgree'
  BY <1>1, <1>2, <1>5, <1>6 DEF IInv, MediaAgree
<1> QED  BY <1>2, <1>3, <1>5, <1>6, <1>7 DEF IInv, ctrlVars, FramesFromBroadcasterToViewers

LEMMA MediaCloseSafe ==
    ASSUME IInv, NEW m \in Medias, MediaClose(m)
    PROVE  IInv'
<1>1. /\ open' = open \ {m} /\ frame' = NoFrame /\ UNCHANGED ctrlVars
      /\ media' = [media EXCEPT ![m] = Unjoined] /\ mediaViewers' = WithoutMedia(m)
  BY DEF MediaClose
<1>2. Good(Tables)'
  BY <1>1, CtrlUnchanged DEF IInv
<1>3. /\ mediaViewers' \in [Streams -> SUBSET Medias]
      /\ \A s \in Streams : mediaViewers'[s] = mediaViewers[s] \ {m}
  BY <1>1 DEF IInv, WithoutMedia
<1>4. Unjoined \in Sessions /\ Unjoined.role # "viewer"
  BY HubAssumption DEF Unjoined, Sessions, Roles
<1>5. /\ media' \in [Medias -> Sessions] /\ media'[m] = Unjoined
      /\ \A n \in Medias \ {m} : media'[n] = media[n]
  BY <1>1, <1>4 DEF IInv
<1>6. MediaAgree'
  BY <1>1, <1>3, <1>4, <1>5 DEF IInv, MediaAgree
<1>7. \A c \in Ctrls \ open' : ctrl'[c] = Unjoined
  BY <1>1, HubAssumption DEF IInv, ctrlVars
<1> QED  BY <1>1, <1>2, <1>3, <1>5, <1>6, <1>7 DEF IInv, FramesFromBroadcasterToViewers

LEMMA OpenSocketSafe ==
    ASSUME IInv, NEW c \in Ctrls \cup Medias, OpenSocket(c)
    PROVE  IInv'
<1>1. open' = open \cup {c} /\ frame' = NoFrame /\ UNCHANGED <<ctrlVars, mediaVars>>
  BY DEF OpenSocket
<1>2. Good(Tables)'
  BY <1>1, CtrlUnchanged DEF IInv
<1> QED  BY <1>1, <1>2 DEF IInv, MediaAgree, ctrlVars, mediaVars, FramesFromBroadcasterToViewers

LEMMA StepSafe ==
    ASSUME IInv, [Next]_vars
    PROVE  /\ IInv'
           /\ \A x \in Clients :
                 byClient[x] # None /\ ctrl'[byClient[x]].client = x => byClient'[x] # None
<1>1. ASSUME NEW c \in Ctrls \cup Medias, OpenSocket(c) PROVE IInv' /\ byClient' = byClient
  BY <1>1, OpenSocketSafe DEF OpenSocket, ctrlVars
<1>2. ASSUME NEW m \in Medias, MediaClose(m) PROVE IInv' /\ byClient' = byClient
  BY <1>2, MediaCloseSafe DEF MediaClose, ctrlVars
<1>3. ASSUME NEW m \in Medias, StreamBinary(m) PROVE IInv' /\ byClient' = byClient
  BY <1>3, StreamBinarySafe DEF StreamBinary, ctrlVars
<1>4. ASSUME NEW m \in Medias, NEW r \in Roles, NEW s \in Streams, NEW x \in Clients,
             MediaJoin(m, r, s, x)
      PROVE  IInv' /\ byClient' = byClient
  BY <1>4, MediaJoinSafe DEF MediaJoin, ctrlVars
<1>5. CASE UNCHANGED vars
  <2>1. Good(Tables)'
    BY <1>5, CtrlUnchanged DEF IInv, vars
  <2> QED  BY <1>5, <2>1
           DEF IInv, MediaAgree, vars, ctrlVars, mediaVars, FramesFromBroadcasterToViewers
<1> QED  BY <1>1, <1>2, <1>3, <1>4, <1>5, StreamJoinSafe, ControlCloseSafe DEF Next

\* The invariant of the tables says what the runs check.
LEMMA InvariantSays ==
    IInv => TypeOK /\ HubConsistent /\ LiveWhileBroadcast /\ WatchersUpToDate
<1> SUFFICES ASSUME IInv PROVE TypeOK /\ HubConsistent /\ LiveWhileBroadcast /\ WatchersUpToDate
  OBVIOUS
<1>1. /\ Tables \in TableType /\ LiveTable(Tables) /\ ClientsLead(Tables)
      /\ \A c \in Ctrls : Agrees(Tables, c) /\ Informed(Tables, c)
  BY DEF IInv, Good
<1>2. TypeOK
  BY <1>1, TablesFields DEF IInv, TypeOK, TableType
<1>3. HubConsistent
  BY <1>1, TablesFields DEF IInv, MediaAgree, HubConsistent, Agrees, ClientsLead
<1>4. LiveWhileBroadcast
  BY <1>1, TablesFields DEF LiveWhileBroadcast, LiveTable, Present
<1>5. WatchersUpToDate
  BY <1>1, TablesFields DEF WatchersUpToDate, Informed, Present
<1> QED  BY <1>2, <1>3, <1>4, <1>5

LEMMA Invariant == Spec => []IInv
<1>1. IInv /\ [Next]_vars => IInv'
  BY StepSafe
<1> QED  BY <1>1, InitSafe, PTL DEF Spec

-----------------------------------------------------------------------------
\* Sockets, sessions and the tables of the relay keep their types.
THEOREM RelayTypeCorrect == Spec => []TypeOK
BY Invariant, InvariantSays, PTL

\* The tables by stream and client agree with the fields of the connections, for
\* any number of sockets, after any joins, rejoins, displacements and closes.
THEOREM HubAlwaysConsistent == Spec => []HubConsistent
BY Invariant, InvariantSays, PTL

\* A stream is live exactly while it has a broadcaster.
THEOREM LiveExactlyWhileBroadcast == Spec => []LiveWhileBroadcast
BY Invariant, InvariantSays, PTL

\* What a control socket was told last is the present truth about its stream.
THEOREM WatchersAlwaysUpToDate == Spec => []WatchersUpToDate
BY Invariant, InvariantSays, PTL

\* A frame comes from the present broadcaster's client and goes to the open media
\* sockets that watch its stream, no others.
THEOREM FramesReachViewersOnly == Spec => []FramesFromBroadcasterToViewers
<1>1. IInv => FramesFromBroadcasterToViewers
  BY DEF IInv
<1> QED  BY <1>1, Invariant, PTL

\* No step unregisters a client whose control session goes on.
THEOREM ReplacementAlwaysFindable == Spec => ReplacementStaysFindable
<1> DEFINE Findable ==
      \A x \in Clients :
          byClient[x] # None /\ ctrl'[byClient[x]].client = x => byClient'[x] # None
<1>1. IInv /\ [Next]_vars => [Findable]_vars
  BY StepSafe
<1>2. Spec => [][Findable]_vars
  BY <1>1, Invariant, PTL DEF Spec
<1> QED  BY <1>2 DEF ReplacementStaysFindable
=============================================================================
