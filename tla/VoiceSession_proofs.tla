------------------------ MODULE VoiceSession_proofs ------------------------
(***************************************************************************)
(* Proofs about the voice sessions of pages, for any number of pages,      *)
(* users, rooms, calls, peers and clicks.                                  *)
(***************************************************************************)
EXTENDS VoiceSession, CallServer_proofs, WellFoundedInduction

(***************************************************************************)
(* Induction on the natural numbers, stated of a set.                      *)
(***************************************************************************)
LEMMA Least == \A T \in SUBSET Nat : T # {} => \E x \in T : \A y \in T : ~(y < x)
<1> DEFINE R == {s \in Nat \X Nat : s[1] < s[2]}
<1>1. IsWellFoundedOn(R, Nat)
  BY NatLessThanWellFounded DEF OpToRel
<1>2. \A x, y \in Nat : y < x => <<y, x>> \in R
  OBVIOUS
<1> HIDE DEF R
<1>3. SUFFICES ASSUME NEW T \in SUBSET Nat, T # {}
               PROVE  \E x \in T : \A y \in T : ~(y < x)
  OBVIOUS
<1>4. \E x \in T : \A y \in T : ~(<<y, x>> \in R)
  BY <1>1, <1>3, WFMin
<1> QED
  BY <1>2, <1>4

LEMMA NatSet == \A S \in SUBSET Nat : 0 \in S /\ (\A n \in S : n + 1 \in S) => S = Nat
<1> SUFFICES ASSUME NEW S \in SUBSET Nat, 0 \in S, \A n \in S : n + 1 \in S
             PROVE  S = Nat
  OBVIOUS
<1> DEFINE T == Nat \ S
<1>1. CASE T # {}
  <2>1. PICK x \in T : \A y \in T : ~(y < x)
    <3>1. T \in SUBSET Nat
      OBVIOUS
    <3> QED
      BY <1>1, <3>1, Least
  <2>2. x # 0 /\ x \in Nat
    OBVIOUS
  <2>3. x - 1 \in Nat /\ x - 1 < x /\ (x - 1) + 1 = x
    BY <2>2
  <2>4. x - 1 \in S
    BY <2>1, <2>3
  <2> QED
    BY <2>3, <2>4
<1> QED
  BY <1>1

-----------------------------------------------------------------------------
(***************************************************************************)
(* Heard, what the page notices of a list of messages.                     *)
(***************************************************************************)
HearsOne(h, m, request) == IF Noticed(m, request) THEN Append(h, m) ELSE h

IsHearing(f, s, n, request) ==
    f = [i \in 0..n |-> IF i = 0 THEN <<>> ELSE HearsOne(f[i - 1], s[i], request)]

LEMMA HearingExists ==
    ASSUME NEW M, NEW s \in Seq(M), NEW request
    PROVE  \E f : IsHearing(f, s, Len(s), request)
<1> DEFINE S == {n \in Nat : \E f : IsHearing(f, s, n, request)}
<1>1. 0 \in S
    <2> DEFINE f == [i \in 0..0 |-> <<>>]
    <2>1. IsHearing(f, s, 0, request)
        BY DEF IsHearing
    <2>2. QED
        BY <2>1
<1>2. ASSUME NEW n \in S PROVE n + 1 \in S
    <2>1. n \in Nat /\ \E f : IsHearing(f, s, n, request)
        OBVIOUS
    <2>2. PICK f : IsHearing(f, s, n, request)
        BY <2>1
    <2>3. \A i \in 0..n : f[i] = IF i = 0 THEN <<>> ELSE HearsOne(f[i - 1], s[i], request)
        BY <2>2 DEF IsHearing
    <2> DEFINE g == [i \in 0..(n + 1) |-> IF i = n + 1 THEN HearsOne(f[n], s[n + 1], request)
                                          ELSE f[i]]
               h == [i \in 0..(n + 1) |-> IF i = 0 THEN <<>> ELSE HearsOne(g[i - 1], s[i], request)]
    <2>4. ASSUME NEW i \in 0..(n + 1) PROVE g[i] = h[i]
        <3>1. CASE i = n + 1
            <4>1. g[i] = HearsOne(f[n], s[n + 1], request) /\ g[n] = f[n] /\ i # 0 /\ i - 1 = n
                BY <2>1, <3>1
            <4>2. QED
                BY <3>1, <4>1
        <3>2. CASE i # n + 1 /\ i # 0
            <4>1. i \in 0..n /\ i - 1 \in 0..(n + 1) /\ i - 1 # n + 1
                BY <2>1, <3>2
            <4>2. g[i] = f[i] /\ g[i - 1] = f[i - 1]
                BY <3>2, <4>1
            <4>3. QED
                BY <2>3, <3>2, <4>1, <4>2
        <3>3. CASE i = 0
            <4>1. 0 \in 0..n /\ 0 # n + 1
                BY <2>1
            <4>2. g[0] = f[0]
                BY <4>1
            <4>3. QED
                BY <2>3, <3>3, <4>1, <4>2
        <3>4. QED
            BY <3>1, <3>2, <3>3
    <2>5. g = h
        BY <2>4
    <2>6. IsHearing(g, s, n + 1, request)
        BY <2>5 DEF IsHearing
    <2> HIDE DEF g, h
    <2>7. QED
        BY <2>1, <2>6
<1>3. S = Nat
    <2> HIDE DEF S
    <2>1. S \in SUBSET Nat
        BY DEF S
    <2>2. QED
        BY <1>1, <1>2, <2>1, NatSet
<1>4. Len(s) \in Nat
    OBVIOUS
<1>5. Len(s) \in S
    <2> HIDE DEF S
    <2>1. QED
        BY <1>3, <1>4
<1>6. QED
    BY <1>5

\* The page hears exactly what it notices.
LEMMA HeardElements ==
    ASSUME NEW M, NEW s \in Seq(M), NEW request
    PROVE  /\ Heard(s, request) \in Seq(M)
           /\ Elements(Heard(s, request)) = {m \in Elements(s) : Noticed(m, request)}
<1> DEFINE f == CHOOSE f : IsHearing(f, s, Len(s), request)
<1>1. IsHearing(f, s, Len(s), request)
    BY HearingExists
<1>2. Heard(s, request) = f[Len(s)]
    BY DEF Heard, IsHearing, HearsOne
<1> HIDE DEF f
<1>3. /\ f[0] = <<>>
      /\ \A i \in 1..Len(s) : f[i] = HearsOne(f[i - 1], s[i], request)
    BY <1>1 DEF IsHearing
<1> DEFINE Some(n) == {m \in {s[i] : i \in 1..n} : Noticed(m, request)}
           S == {n \in Nat : n <= Len(s) => f[n] \in Seq(M) /\ Elements(f[n]) = Some(n)}
<1>4. 0 \in S
    <2>1. <<>> \in Seq(M) /\ Elements(<<>>) = {}
        BY DEF Elements
    <2>2. Some(0) = {}
        OBVIOUS
    <2>3. QED
        BY <1>3, <2>1, <2>2
<1>5. ASSUME NEW n \in S PROVE n + 1 \in S
    <2>1. n \in Nat /\ (n <= Len(s) => f[n] \in Seq(M) /\ Elements(f[n]) = Some(n))
        OBVIOUS
    <2>2. SUFFICES ASSUME n + 1 <= Len(s)
                   PROVE  f[n + 1] \in Seq(M) /\ Elements(f[n + 1]) = Some(n + 1)
        BY <2>1
    <2>3. n + 1 \in 1..Len(s) /\ (n + 1) - 1 = n /\ s[n + 1] \in M
        BY <2>1, <2>2
    <2>4. f[n] \in Seq(M) /\ Elements(f[n]) = Some(n)
        BY <2>1, <2>2
    <2>5. f[n + 1] = HearsOne(f[n], s[n + 1], request)
        BY <1>3, <2>3
    <2>6. {s[i] : i \in 1..(n + 1)} = {s[i] : i \in 1..n} \cup {s[n + 1]}
        <3>1. 1..(n + 1) = (1..n) \cup {n + 1}
            BY <2>1
        <3>2. QED
            BY <3>1
    <2>7. CASE Noticed(s[n + 1], request)
        <3> DEFINE g == f[n]
                   m == s[n + 1]
        <3>1. f[n + 1] = Append(g, m)
            BY <2>5, <2>7 DEF HearsOne
        <3>2. g \in Seq(M) /\ m \in M
            BY <2>3, <2>4
        <3> HIDE DEF g, m
        <3>3. Append(g, m) \in Seq(M) /\ Elements(Append(g, m)) = Elements(g) \cup {m}
            <4>1. /\ Append(g, m) \in Seq(M) /\ DOMAIN Append(g, m) = 1..(Len(g) + 1)
                  /\ Len(g) \in Nat /\ DOMAIN g = 1..Len(g)
                  /\ \A i \in 1..Len(g) : Append(g, m)[i] = g[i]
                  /\ Append(g, m)[Len(g) + 1] = m
                BY <3>2
            <4>2. 1..(Len(g) + 1) = (1..Len(g)) \cup {Len(g) + 1}
                BY <4>1
            <4>3. QED
                BY <4>1, <4>2 DEF Elements
        <3>4. Some(n + 1) = Some(n) \cup {m}
            BY <2>6, <2>7 DEF m
        <3>5. QED
            BY <2>4, <3>1, <3>3, <3>4 DEF g
    <2>8. CASE ~Noticed(s[n + 1], request)
        <3>1. f[n + 1] = f[n]
            BY <2>5, <2>8 DEF HearsOne
        <3>2. Some(n + 1) = Some(n)
            BY <2>6, <2>8
        <3>3. QED
            BY <2>4, <3>1, <3>2
    <2>9. QED
        BY <2>7, <2>8
<1>6. S = Nat
    <2> HIDE DEF S
    <2>1. S \in SUBSET Nat
        BY DEF S
    <2>2. QED
        BY <1>4, <1>5, <2>1, NatSet
<1>7. Len(s) \in Nat /\ DOMAIN s = 1..Len(s)
    OBVIOUS
<1>8. Len(s) \in S
    <2> HIDE DEF S
    <2>1. QED
        BY <1>6, <1>7
<1>9. Some(Len(s)) = {m \in Elements(s) : Noticed(m, request)}
    BY <1>7 DEF Elements
<1>10. QED
    BY <1>2, <1>7, <1>8, <1>9

-----------------------------------------------------------------------------
(***************************************************************************)
(* Queues.                                                                 *)
(***************************************************************************)
\* A queue with s behind it.
LEMMA Lengthened ==
    ASSUME NEW M, NEW q \in Seq(M), NEW s \in Seq(M)
    PROVE  /\ q \o s \in Seq(M)
           /\ Len(q \o s) = Len(q) + Len(s) /\ Len(q) \in Nat /\ Len(s) \in Nat
           /\ \A i \in 1..Len(q) : (q \o s)[i] = q[i]
           /\ \A i \in 1..Len(s) : (q \o s)[Len(q) + i] = s[i]
           /\ Elements(q \o s) = Elements(q) \cup Elements(s)
<1>1. Elements(q \o s) = Elements(q) \cup Elements(s)
    BY ElementsOfBoth
<1>2. QED
    BY <1>1

\* A queue whose head was taken.
LEMMA Shortened ==
    ASSUME NEW M, NEW q \in Seq(M), q # <<>>
    PROVE  /\ Tail(q) \in Seq(M) /\ Head(q) \in M
           /\ Head(q) = q[1] /\ 1 \in 1..Len(q)
           /\ Len(q) \in Nat /\ Len(Tail(q)) = Len(q) - 1
           /\ \A i \in 1..Len(Tail(q)) : Tail(q)[i] = q[i + 1]
           /\ Elements(q) = {Head(q)} \cup Elements(Tail(q))
<1> DEFINE p == Tail(q)
<1>1. /\ p \in Seq(M) /\ Head(q) \in M /\ Head(q) = q[1] /\ 1 \in 1..Len(q)
      /\ Len(q) \in Nat /\ Len(p) = Len(q) - 1 /\ DOMAIN p = 1..Len(p) /\ DOMAIN q = 1..Len(q)
      /\ \A i \in 1..Len(p) : p[i] = q[i + 1]
    OBVIOUS
<1> HIDE DEF p
<1>2. ASSUME NEW i \in DOMAIN q PROVE q[i] \in {Head(q)} \cup Elements(p)
    <2>1. CASE i = 1
        BY <1>1, <2>1
    <2>2. CASE i # 1
        <3>1. i - 1 \in DOMAIN p /\ p[i - 1] = q[i]
            BY <1>1, <2>2
        <3>2. QED
            BY <3>1 DEF Elements
    <2>3. QED
        BY <2>1, <2>2
<1>3. ASSUME NEW i \in DOMAIN p PROVE p[i] \in Elements(q)
    <2>1. i + 1 \in DOMAIN q /\ p[i] = q[i + 1]
        BY <1>1
    <2>2. QED
        BY <2>1 DEF Elements
<1>4. Head(q) \in Elements(q)
    BY <1>1 DEF Elements
<1>5. Elements(q) = {Head(q)} \cup Elements(p)
    BY <1>2, <1>3, <1>4 DEF Elements
<1>6. QED
    BY <1>1, <1>5 DEF p

-----------------------------------------------------------------------------
(***************************************************************************)
(* What the two queues hold.                                               *)
(***************************************************************************)
Noted ==
    [t : {"rtc.call", "rtc.call_event", "rtc.call_end"}, call : CallIds, room : Rooms]
    \cup [t : {"rtc.participants"}, call : CallIds, self : PeerIds, peers : SUBSET PeerIds]
    \cup [t : {"rtc.peer_event"}, kind : {"join", "leave"}, call : CallIds, peer : PeerIds]
    \cup [t : {"error"}, code : {"NOT_FOUND"}]

Requests ==
    [t : {"channel.join", "rtc.call_create"}, room : Rooms]
    \cup [t : {"rtc.join", "rtc.end_call"}, call : CallIds]
    \cup [t : {"rtc.leave"}, call : CallIds, peer : PeerIds]

SessionTypes ==
    /\ page \in [Conns -> Page]
    /\ toServer \in [Conns -> Seq(Requests)] /\ toClient \in [Conns -> Seq(Noted)]
    /\ \A c \in Conns : page[c].modal => page[c].cur # None
    /\ \A c \in Conns : Authed(c) \/ (connState[c] # "open" /\ toClient[c] = <<>>)

\* The messages that name a call and its room.
OfRoom == {"rtc.call", "rtc.call_event", "rtc.call_end"}
Naming == {"rtc.call", "rtc.call_event"}

LEMMA NotedFields ==
    ASSUME NEW m \in Noted
    PROVE  /\ m.t \in OfRoom \cup {"rtc.participants", "rtc.peer_event", "error"}
           /\ m.t \in OfRoom => m.call \in CallIds /\ m.room \in Rooms
           /\ m.t = "rtc.participants" =>
                 m.call \in CallIds /\ m.self \in PeerIds /\ m.peers \subseteq PeerIds
           /\ m.t = "rtc.peer_event" => m.kind \in {"join", "leave"} /\ m.peer \in PeerIds
BY DEF Noted, OfRoom

LEMMA RequestFields ==
    ASSUME NEW m \in Requests
    PROVE  /\ m.t \in {"channel.join", "rtc.call_create", "rtc.join", "rtc.end_call", "rtc.leave"}
           /\ m.t \in {"channel.join", "rtc.call_create"} => m.room \in Rooms
           /\ m.t \in {"rtc.join", "rtc.end_call", "rtc.leave"} => m.call \in CallIds
           /\ m.t = "rtc.leave" => m.peer \in PeerIds
BY DEF Requests

LEMMA NotedMessages ==
    /\ \A k \in CallIds, r \in Rooms :
          {CallReply(k, r), CallCreated(k, r), CallEnd(k, r)} \subseteq Noted
    /\ \A k \in CallIds, p \in PeerIds, ps \in SUBSET PeerIds : Participants(k, p, ps) \in Noted
    /\ \A k \in CallIds, p \in PeerIds : PeerEvent("join", k, p) \in Noted /\ PeerEvent("leave", k, p) \in Noted
    /\ Error("NOT_FOUND") \in Noted
BY DEF Noted, CallReply, CallCreated, CallEnd, Participants, PeerEvent, Error

LEMMA RequestMessages ==
    /\ \A r \in Rooms : {ChannelJoinMsg(r), CallCreateMsg(r)} \subseteq Requests
    /\ \A k \in CallIds : {JoinMsg(k), EndCallMsg(k)} \subseteq Requests
    /\ \A k \in CallIds, p \in PeerIds : LeaveMsg(k, p) \in Requests
BY DEF Requests, ChannelJoinMsg, CallCreateMsg, JoinMsg, EndCallMsg, LeaveMsg

-----------------------------------------------------------------------------
(***************************************************************************)
(* What a step of the server means to the page c that is told W of it.     *)
(***************************************************************************)
IsList(s) == \E M : s \in Seq(M)

Noticing(c, request) == {m \in Written(c) : Noticed(m, request)}

\* No room gets or loses a call, and none is spoken of.
NoCallMoves(W) ==
    /\ live' = live /\ roomOf' = roomOf
    /\ \A m \in W : m.t \notin OfRoom

\* All that happens to calls is about k, the only one of its room.
About(c, W, k) ==
    /\ k \in CallIds /\ k \in live \cup live' /\ roomOf'[k] \in Rooms
    /\ live' \cup {k} = live \cup {k}
    /\ \A j \in live : roomOf[j] = roomOf'[k] => j = k
    /\ \A m \in W : m.t \in OfRoom =>
          /\ m.call = k /\ m.room = roomOf'[k]
          /\ m.t = "rtc.call_end" <=> k \notin live'
          /\ m.t # "rtc.call_end" => connUser[c] \in member[m.room]
    /\ k \notin live' /\ connUser[c] \in member[roomOf'[k]] =>
          \E m \in W : m.t = "rtc.call_end" /\ m.call = k

TellsRight(c, W) == NoCallMoves(W) \/ \E k \in CallIds : About(c, W, k)

LeavesDead(W) ==
    \A m \in W : m.t = "rtc.peer_event" /\ m.kind = "leave" =>
        peerUser[m.peer] # None /\ \A k \in CallIds : m.peer \notin callPeers'[k]

\* Ids are used once, and members stay.
ServerGrows ==
    /\ \A k \in CallIds : roomOf[k] # None => roomOf'[k] = roomOf[k]
    /\ \A k \in live' \ live : roomOf[k] = None
    /\ \A r \in Rooms : member[r] \subseteq member'[r]
    /\ \A x \in PeerIds : peerUser[x] # None => peerUser'[x] # None
    /\ \A k \in CallIds : \A x \in callPeers'[k] \ callPeers[k] : peerUser[x] = None

\* What another page's request does to c: it is told of who comes and goes, and
\* it is put out of its call only when that ends.
Bystands(c, W) ==
    /\ \A m \in W : m.t \in {"rtc.call_event", "rtc.call_end", "rtc.peer_event"}
    /\ \/ connCall'[c] = connCall[c] /\ connPeer'[c] = connPeer[c]
       \/ connCall'[c] = None /\ connPeer'[c] = None /\ connCall[c] \notin live'
    /\ connCall[c] # None =>
          \A x \in callPeers'[connCall[c]] \ callPeers[connCall[c]] :
              \E m \in W : m.t = "rtc.peer_event" /\ m.kind = "join" /\ m.peer = x

Effect(c, d, request) ==
    LET W == Noticing(c, request)
    IN  /\ IsList(sent'[c])
        /\ W \subseteq Noted
        /\ connUser'[c] = connUser[c]
        /\ TellsRight(c, W)
        /\ LeavesDead(W)
        /\ c # d => Bystands(c, W)

LEMMA ListNothing ==
    ASSUME sent' = Nothing, NEW c \in Conns
    PROVE  IsList(sent'[c])
<1>1. sent'[c] = <<>> /\ <<>> \in Seq({})
    BY DEF Nothing
<1>2. QED
    BY <1>1 DEF IsList

LEMMA ListOne ==
    ASSUME NEW S, NEW m, sent' = ToAll(S, m), NEW c \in Conns
    PROVE  IsList(sent'[c])
<1>1. m \in {m}
    OBVIOUS
<1>2. sent'[c] \in Seq({m})
    BY <1>1, ElementsOfOne
<1>3. QED
    BY <1>2 DEF IsList

LEMMA ListTwo ==
    ASSUME NEW S1, NEW m1, NEW S2, NEW m2, sent' = Then(ToAll(S1, m1), ToAll(S2, m2)),
           NEW c \in Conns
    PROVE  IsList(sent'[c])
<1> DEFINE M == {m1, m2}
           a == ToAll(S1, m1)[c]
           b == ToAll(S2, m2)[c]
<1>1. m1 \in M /\ m2 \in M
    OBVIOUS
<1>2. sent'[c] = a \o b
    BY DEF Then
<1> HIDE DEF M
<1>3. a \in Seq(M) /\ b \in Seq(M)
    BY <1>1, ElementsOfOne
<1> HIDE DEF a, b
<1>4. QED
    BY <1>2, <1>3 DEF IsList

LEMMA ListFour ==
    ASSUME NEW S1, NEW m1, NEW S2, NEW m2, NEW S3, NEW m3, NEW S4, NEW m4,
           sent' = Then(Then(ToAll(S1, m1), ToAll(S2, m2)), Then(ToAll(S3, m3), ToAll(S4, m4))),
           NEW c \in Conns
    PROVE  IsList(sent'[c])
<1> DEFINE M == {m1, m2, m3, m4}
           a1 == ToAll(S1, m1)[c]
           a2 == ToAll(S2, m2)[c]
           a3 == ToAll(S3, m3)[c]
           a4 == ToAll(S4, m4)[c]
<1>1. m1 \in M /\ m2 \in M /\ m3 \in M /\ m4 \in M
    OBVIOUS
<1>2. sent'[c] = (a1 \o a2) \o (a3 \o a4)
    BY DEF Then
<1> HIDE DEF M
<1>3. a1 \in Seq(M) /\ a2 \in Seq(M) /\ a3 \in Seq(M) /\ a4 \in Seq(M)
    BY <1>1, ElementsOfOne
<1> HIDE DEF a1, a2, a3, a4
<1>4. a1 \o a2 \in Seq(M) /\ a3 \o a4 \in Seq(M)
    BY <1>3
<1>5. QED
    BY <1>2, <1>4 DEF IsList

\* A page's queue grows by what it notices.
LEMMA QueueHears ==
    ASSUME NEW c \in Conns, NEW request, IsList(sent'[c]), Noticing(c, request) \subseteq Noted,
           toClient'[c] = toClient[c] \o Heard(sent'[c], request)
    PROVE  \E s \in Seq(Noted) :
              toClient'[c] = toClient[c] \o s /\ Elements(s) = Noticing(c, request)
<1> DEFINE s == Heard(sent'[c], request)
<1>1. PICK M : sent'[c] \in Seq(M)
    BY DEF IsList
<1>2. s \in Seq(M) /\ Elements(s) = Noticing(c, request)
    BY <1>1, HeardElements, WrittenElements DEF Noticing
<1> HIDE DEF s
<1>3. s \in Seq(Noted)
    <2>1. s \in [1..Len(s) -> M] /\ Len(s) \in Nat /\ DOMAIN s = 1..Len(s)
        BY <1>2
    <2>2. \A i \in 1..Len(s) : s[i] \in Noted
        BY <1>2, <2>1 DEF Elements
    <2>3. s \in [1..Len(s) -> Noted]
        BY <2>1, <2>2
    <2>4. QED
        BY <2>1, <2>3
<1>4. QED
    BY <1>2, <1>3 DEF s

-----------------------------------------------------------------------------
(***************************************************************************)
(* The effect of each request, and of the end of a page.                   *)
(***************************************************************************)
\* Nobody signs in again on a page, so the index holds no stale entry.
IndexExact == \A u \in Users : \A c \in userConns[u] : connUser[c] = u

\* An answer to d alone, which says nothing of a call's end or beginning.
LEMMA ReplyEffect ==
    ASSUME IInv, NEW d \in Conns, NEW m, Reply(d, m), NEW c \in Conns, NEW request,
           Noticed(m, request) => m \in Noted /\ m.t \notin OfRoom /\ m.t # "rtc.peer_event"
    PROVE  ServerGrows /\ Effect(c, d, request)
<1> DEFINE W == Noticing(c, request)
<1>1. sent' = ToAll({d}, m) /\ UNCHANGED <<connVars, member, callVars>>
    BY DEF Reply, To
<1>2. IsList(sent'[c]) /\ Written(c) = Copy(c, {d}, m)
    BY <1>1, ListOne, WrittenOne
<1>3. W \subseteq Noted /\ \A n \in W : n = m /\ c = d /\ n.t \notin OfRoom /\ n.t # "rtc.peer_event"
    BY <1>2 DEF Noticing, Copy
<1> HIDE DEF W
<1>4. ServerGrows
    BY <1>1 DEF ServerGrows, connVars, callVars
<1>5. TellsRight(c, W) /\ LeavesDead(W)
    BY <1>1, <1>3 DEF TellsRight, NoCallMoves, LeavesDead, callVars
<1>6. c # d => Bystands(c, W)
    BY <1>1, <1>3 DEF Bystands, connVars, callVars
<1>7. QED
    BY <1>1, <1>2, <1>3, <1>4, <1>5, <1>6 DEF Effect, W, connVars

LEMMA JoinChannelEffect ==
    ASSUME IInv, NEW d \in Conns, NEW r \in Rooms, ChannelJoin(d, r), NEW c \in Conns
    PROVE  ServerGrows /\ Effect(c, d, "channel.join")
<1> DEFINE W == Noticing(c, "channel.join")
           m == MemberEvent("join", r)
<1>1. /\ sent' = ToAll({d}, m) /\ UNCHANGED <<connVars, callVars>>
      /\ member' = [member EXCEPT ![r] = member[r] \cup {connUser[d]}]
    BY DEF ChannelJoin, To
<1>2. IsList(sent'[c]) /\ Written(c) = Copy(c, {d}, m)
    BY <1>1, ListOne, WrittenOne
<1>3. m.t = "channel.member_event"
    BY DEF MemberEvent
<1>4. W = {}
    BY <1>2, <1>3 DEF Noticing, Copy, Noticed
<1> HIDE DEF W, m
<1>5. ServerGrows
    BY <1>1 DEF ServerGrows, callVars, IInv, TypeOK
<1>6. TellsRight(c, W) /\ LeavesDead(W) /\ Bystands(c, W)
    BY <1>1, <1>4 DEF TellsRight, NoCallMoves, LeavesDead, Bystands, connVars, callVars
<1>7. QED
    BY <1>1, <1>2, <1>4, <1>5, <1>6 DEF Effect, W, connVars

\* rtc.call_create that is allowed: k is the room's call, old or new.
Created(d, r, k) ==
    /\ k \in CallIds
    /\ \/ k \in live /\ roomOf[k] = r
       \/ roomOf[k] = None /\ k \notin live
    /\ live' = live \cup {k} /\ roomOf' = [roomOf EXCEPT ![k] = r]
    /\ \A j \in live : roomOf[j] = r => j = k
    /\ UNCHANGED <<connVars, member, callPeers, peerUser, peerConn>>
    /\ sent' = Then(ToAll({d}, CallReply(k, r)), ToAll(RoomAudience(r), CallCreated(k, r)))

LEMMA CreateIs ==
    ASSUME IInv, NEW d \in Conns, NEW r \in Rooms, RtcCallCreate(d, r), connUser[d] \in member[r]
    PROVE  \E k \in CallIds : Created(d, r, k)
<1>1. CASE \E k \in CallOfRoom(r) :
              /\ sent' = Then(To(d, CallReply(k, r)), ToAll(RoomAudience(r), CallCreated(k, r)))
              /\ UNCHANGED <<connVars, member, callVars>>
    <2>1. PICK k \in live :
              /\ roomOf[k] = r
              /\ sent' = Then(To(d, CallReply(k, r)), ToAll(RoomAudience(r), CallCreated(k, r)))
              /\ UNCHANGED <<connVars, member, callVars>>
        BY <1>1 DEF CallOfRoom
    <2>2. k \in CallIds /\ live \cup {k} = live
        BY DEF IInv, TypeOK
    <2>3. roomOf = [roomOf EXCEPT ![k] = r]
        BY <2>1, <2>2 DEF IInv, TypeOK
    <2>4. \A j \in live : roomOf[j] = r => j = k
        BY <2>1 DEF IInv, OneCallPerRoom
    <2>5. Created(d, r, k)
        BY <2>1, <2>2, <2>3, <2>4 DEF Created, callVars, To
    <2>6. QED
        BY <2>2, <2>5
<1>2. CASE /\ CallOfRoom(r) = {}
           /\ \E k \in CallIds :
                /\ FreshCall(k)
                /\ live' = live \cup {k}
                /\ roomOf' = [roomOf EXCEPT ![k] = r]
                /\ sent' = Then(To(d, CallReply(k, r)), ToAll(RoomAudience(r), CallCreated(k, r)))
           /\ UNCHANGED <<connVars, member, callPeers, peerUser, peerConn>>
    <2>1. PICK k \in CallIds :
                /\ FreshCall(k)
                /\ live' = live \cup {k}
                /\ roomOf' = [roomOf EXCEPT ![k] = r]
                /\ sent' = Then(To(d, CallReply(k, r)), ToAll(RoomAudience(r), CallCreated(k, r)))
        BY <1>2
    <2>2. roomOf[k] = None /\ k \notin live
        BY <2>1 DEF FreshCall, IInv, Tables, FreshIdsUnknown
    <2>3. \A j \in live : roomOf[j] # r
        BY <1>2 DEF CallOfRoom
    <2>4. Created(d, r, k)
        BY <1>2, <2>1, <2>2, <2>3 DEF Created, To
    <2>5. QED
        BY <2>4
<1>3. QED
    BY <1>1, <1>2 DEF RtcCallCreate

LEMMA CreateEffect ==
    ASSUME IInv, IndexExact, NEW d \in Conns, NEW r \in Rooms, NEW k \in CallIds, Created(d, r, k),
           NEW c \in Conns, connUser[d] \in member[r]
    PROVE  /\ ServerGrows /\ Effect(c, d, "rtc.call_create")
           /\ Noticing(c, "rtc.call_create") =
                 Copy(c, {d}, CallReply(k, r)) \cup Copy(c, RoomAudience(r), CallCreated(k, r))
<1> DEFINE W == Noticing(c, "rtc.call_create")
           m1 == CallReply(k, r)
           m2 == CallCreated(k, r)
           S2 == RoomAudience(r)
<1>1. sent' = Then(ToAll({d}, m1), ToAll(S2, m2))
    BY DEF Created
<1>2. /\ m1.t = "rtc.call" /\ m1.call = k /\ m1.room = r
      /\ m2.t = "rtc.call_event" /\ m2.call = k /\ m2.room = r
      /\ m1 \in Noted /\ m2 \in Noted
    BY NotedMessages DEF CallReply, CallCreated
<1>3. c \in S2 => connUser[c] \in member[r]
    <2>1. ASSUME c \in S2 PROVE connUser[c] \in member[r]
        <3>1. PICK u \in member[r] : c \in userConns[u]
            BY <2>1 DEF RoomAudience
        <3>2. u \in Users
            BY DEF IInv, TypeOK
        <3>3. QED
            BY <3>1, <3>2 DEF IndexExact
    <2>2. QED
        BY <2>1
<1> HIDE DEF m1, m2, S2
<1>4. IsList(sent'[c]) /\ Written(c) = Copy(c, {d}, m1) \cup Copy(c, S2, m2)
    BY <1>1, ListTwo, WrittenTwo
<1>5. W = Copy(c, {d}, m1) \cup Copy(c, S2, m2)
    BY <1>2, <1>4 DEF Noticing, Noticed, Copy
<1> HIDE DEF W
<1>6. \A m \in W : m \in Noted /\ m.t \in Naming /\ m.call = k /\ m.room = r /\ connUser[c] \in member[r]
    BY <1>2, <1>3, <1>5 DEF Copy, Naming
<1>7. /\ roomOf' = [roomOf EXCEPT ![k] = r] /\ roomOf \in [CallIds -> Rooms \cup {None}]
      /\ live' = live \cup {k} /\ roomOf[k] \in {None, r}
      /\ k \in live \/ roomOf[k] = None
      /\ callPeers' = callPeers /\ peerUser' = peerUser /\ member' = member /\ UNCHANGED connVars
    BY DEF Created, IInv, TypeOK
<1>8. ServerGrows
    BY <1>7 DEF ServerGrows
<1>9. About(c, W, k)
    <2>1. \A j \in live : roomOf[j] = r => j = k
        BY DEF Created
    <2>2. QED
        BY <1>6, <1>7, <2>1 DEF About, Naming
<1>10. LeavesDead(W)
    BY <1>6 DEF LeavesDead, Naming
<1>11. c # d => Bystands(c, W)
    <2>1. ASSUME c # d PROVE \A m \in W : m.t = "rtc.call_event"
        BY <1>2, <1>5, <2>1 DEF Copy
    <2>2. QED
        BY <1>7, <2>1 DEF Bystands, connVars
<1>12. QED
    BY <1>4, <1>5, <1>6, <1>7, <1>8, <1>9, <1>10, <1>11 DEF Effect, TellsRight, W, m1, m2, S2, connVars

\* The end of call k, for everybody in it and in its room.
Ended(k) ==
    /\ k \in live
    /\ LET out == CallAudience(callPeers[k], peerConn)
           end == CallEnd(k, roomOf[k])
       IN  /\ connPeer' = [e \in Conns |-> IF e \in out THEN None ELSE connPeer[e]]
           /\ connCall' = [e \in Conns |-> IF e \in out THEN None ELSE connCall[e]]
           /\ sent' = Then(ToAll(out, end), ToAll(RoomAudience(roomOf[k]), end))
    /\ callPeers' = [callPeers EXCEPT ![k] = {}]
    /\ live' = live \ {k}
    /\ UNCHANGED <<connState, connUser, userConns, member, roomOf, peerUser>>

LEMMA EndEffect ==
    ASSUME IInv, NEW d \in Conns, NEW k \in CallIds, Ended(k), NEW c \in Conns, Authed(c)
    PROVE  /\ ServerGrows /\ Effect(c, d, "rtc.end_call")
           /\ Bystands(c, Noticing(c, "rtc.end_call"))
<1> DEFINE W == Noticing(c, "rtc.end_call")
           m == CallEnd(k, roomOf[k])
           out == CallAudience(callPeers[k], peerConn)
           S == RoomAudience(roomOf[k])
<1>1. /\ sent' = Then(ToAll(out, m), ToAll(S, m)) /\ live' = live \ {k} /\ k \in live
      /\ connPeer' = [e \in Conns |-> IF e \in out THEN None ELSE connPeer[e]]
      /\ connCall' = [e \in Conns |-> IF e \in out THEN None ELSE connCall[e]]
      /\ callPeers' = [callPeers EXCEPT ![k] = {}]
      /\ UNCHANGED <<connState, connUser, userConns, member, roomOf, peerUser>>
    BY DEF Ended
<1>2. roomOf[k] \in Rooms
    BY <1>1 DEF IInv, TypeOK, Tables, FreshIdsUnknown
<1>3. m.t = "rtc.call_end" /\ m.call = k /\ m.room = roomOf[k] /\ m \in Noted
    BY <1>2, NotedMessages DEF CallEnd
<1>4. c \in out => connCall[c] = k
    <2>1. ASSUME c \in out PROVE connCall[c] = k
        <3>1. PICK q \in callPeers[k] : peerConn[q] = c
            BY <2>1 DEF CallAudience
        <3>2. QED
            BY <1>1, <3>1, PeerReachable
    <2>2. QED
        BY <2>1
<1>5. connUser[c] \in member[roomOf[k]] => c \in S \cap OpenConns
    BY <1>2, MemberReachable
<1> HIDE DEF m, out, S
<1>6. IsList(sent'[c]) /\ Written(c) = Copy(c, out, m) \cup Copy(c, S, m)
    BY <1>1, ListTwo, WrittenTwo
<1>7. W = Copy(c, out, m) \cup Copy(c, S, m)
    BY <1>3, <1>6 DEF Noticing, Noticed, Copy
<1> HIDE DEF W
<1>8. \A n \in W : n = m
    BY <1>7 DEF Copy
<1>9. connUser[c] \in member[roomOf[k]] => m \in W
    BY <1>5, <1>7 DEF Copy
<1>10. ServerGrows
    BY <1>1 DEF ServerGrows, IInv, TypeOK
<1>11. About(c, W, k)
    <2>1. \A j \in live : roomOf[j] = roomOf'[k] => j = k
        BY <1>1 DEF IInv, OneCallPerRoom
    <2>2. QED
        BY <1>1, <1>2, <1>3, <1>8, <1>9, <2>1 DEF About
<1>12. LeavesDead(W)
    BY <1>3, <1>8 DEF LeavesDead
<1>13. Bystands(c, W)
    <2>1. \A n \in W : n.t = "rtc.call_end"
        BY <1>3, <1>8
    <2>2. \/ connCall'[c] = connCall[c] /\ connPeer'[c] = connPeer[c]
          \/ connCall'[c] = None /\ connPeer'[c] = None /\ connCall[c] \notin live'
        BY <1>1, <1>4
    <2>3. connCall[c] # None => callPeers'[connCall[c]] \subseteq callPeers[connCall[c]]
        <3>1. callPeers \in [CallIds -> SUBSET PeerIds] /\ connCall[c] \in CallIds \cup {None}
            BY DEF IInv, TypeOK
        <3>2. QED
            BY <1>1, <3>1
    <2>4. QED
        BY <2>1, <2>2, <2>3 DEF Bystands
<1>14. QED
    BY <1>1, <1>3, <1>6, <1>8, <1>10, <1>11, <1>12, <1>13 DEF Effect, TellsRight, W

\* A peer of a call is of no other.
LEMMA PeerOfOneCall ==
    ASSUME IInv, NEW d \in Conns, InCall(d), NEW k \in CallIds, connPeer[d] \in callPeers[k]
    PROVE  k = connCall[d]
<1>1. k \in live
    BY DEF IInv, Tables, CallsConsistent, PeersAreConnected
<1>2. peerConn[connPeer[d]] = d
    BY OwnPeer
<1>3. QED
    BY <1>1, <1>2, PeerReachable

\* A departure, of a page that leaves or is closed.
LEMMA DepartEffect ==
    ASSUME IInv, NEW d \in Conns, InCall(d), Depart(d), member' = member,
           connPeer' = [connPeer EXCEPT ![d] = None], connCall' = [connCall EXCEPT ![d] = None],
           NEW c \in Conns, Authed(c), connUser'[c] = connUser[c], NEW request
    PROVE  /\ ServerGrows /\ Effect(c, d, request)
           /\ \A m \in Noticing(c, request) : m.t \in {"rtc.peer_event", "rtc.call_end"}
<1> DEFINE W == Noticing(c, request)
           k == connCall[d]
           p == connPeer[d]
           m1 == PeerEvent("leave", k, p)
           m2 == CallEnd(k, roomOf[k])
           S1 == CallAudience(Remaining(k, p), peerConn)
           S2 == IF Remaining(k, p) = {} THEN RoomAudience(roomOf[k]) ELSE {}
<1>1. sent' = Then(ToAll(S1, m1), ToAll(S2, m2))
    BY LeaveNoticesOf DEF Depart
<1>2. /\ k \in live /\ k \in CallIds /\ p \in PeerIds /\ p \in callPeers[k] /\ roomOf[k] \in Rooms
      /\ peerUser[p] # None
    <2>1. k \in live /\ k \in CallIds /\ p \in PeerIds /\ p \in callPeers[k] /\ peerConn[p] = d
        BY OwnPeer
    <2>2. QED
        BY <2>1, ConstantsAssumption DEF IInv, TypeOK, Tables, FreshIdsUnknown
<1>3. /\ m1.t = "rtc.peer_event" /\ m1.kind = "leave" /\ m1.peer = p /\ m1 \in Noted
      /\ m2.t = "rtc.call_end" /\ m2.call = k /\ m2.room = roomOf[k] /\ m2 \in Noted
    BY <1>2, NotedMessages DEF PeerEvent, CallEnd
<1>4. /\ callPeers' = [callPeers EXCEPT ![k] = callPeers[k] \ {p}]
      /\ live' = IF Remaining(k, p) = {} THEN live \ {k} ELSE live
      /\ roomOf' = roomOf /\ peerUser' = peerUser
    BY DEF Depart, LiveAfterLeave
<1>5. Remaining(k, p) = {} /\ connUser[c] \in member[roomOf[k]] => c \in S2 \cap OpenConns
    BY <1>2, MemberReachable
<1>6. Remaining(k, p) # {} => S2 = {}
    OBVIOUS
<1>7. \A j \in CallIds : p \in callPeers[j] => j = k
    BY PeerOfOneCall
<1>8. callPeers \in [CallIds -> SUBSET PeerIds]
    BY DEF IInv, TypeOK
<1>9. connCall \in [Conns -> CallIds \cup {None}] /\ connPeer \in [Conns -> PeerIds \cup {None}]
    BY DEF IInv, TypeOK
<1>10. \A j \in live : roomOf[j] = roomOf[k] => j = k
    BY <1>2 DEF IInv, OneCallPerRoom
<1>11. k \in live' <=> Remaining(k, p) # {}
    BY <1>2, <1>4
<1> DEFINE ends == Remaining(k, p) = {}
<1> HIDE DEF m1, m2, S1, S2, k, p, ends
<1>12. IsList(sent'[c]) /\ Written(c) = Copy(c, S1, m1) \cup Copy(c, S2, m2)
    BY <1>1, ListTwo, WrittenTwo
<1>13. W = Copy(c, S1, m1) \cup Copy(c, S2, m2)
    BY <1>3, <1>12 DEF Noticing, Noticed, Copy
<1> HIDE DEF W
<1>14. /\ \A n \in W : n = m1 \/ n = m2
       /\ ends /\ connUser[c] \in member[roomOf[k]] => m2 \in W
       /\ m2 \in W => ends
    BY <1>3, <1>5, <1>6, <1>13 DEF Copy, ends
<1>15. live' = (IF ends THEN live \ {k} ELSE live) /\ (k \in live' <=> ~ends)
    BY <1>4, <1>11 DEF ends
<1>16. ServerGrows
    <2>1. \A j \in CallIds : callPeers'[j] \subseteq callPeers[j]
        BY <1>4, <1>8
    <2>2. QED
        BY <1>4, <2>1 DEF ServerGrows
<1>17. TellsRight(c, W)
    <2>1. \A n \in W : n.t \in OfRoom => n = m2
        BY <1>3, <1>14 DEF OfRoom
    <2>2. About(c, W, k)
        BY <1>2, <1>3, <1>4, <1>10, <1>14, <1>15, <2>1 DEF About, OfRoom
    <2>3. QED
        BY <1>2, <2>2 DEF TellsRight
<1>18. LeavesDead(W)
    <2>1. \A j \in CallIds : p \notin callPeers'[j]
        BY <1>4, <1>7, <1>8
    <2>2. QED
        BY <1>2, <1>3, <1>4, <1>14, <2>1 DEF LeavesDead
<1>19. c # d => Bystands(c, W)
    <2>1. \A n \in W : n.t \in {"rtc.call_end", "rtc.peer_event"}
        BY <1>3, <1>14
    <2>2. c # d => connCall'[c] = connCall[c] /\ connPeer'[c] = connPeer[c]
        BY <1>9
    <2>3. connCall[c] # None => callPeers'[connCall[c]] \subseteq callPeers[connCall[c]]
        BY <1>4, <1>8, <1>9
    <2>4. QED
        BY <2>1, <2>2, <2>3 DEF Bystands
<1>20. \A n \in W : n \in Noted /\ n.t \in {"rtc.peer_event", "rtc.call_end"}
    BY <1>3, <1>14
<1>21. QED
    BY <1>12, <1>16, <1>17, <1>18, <1>19, <1>20 DEF Effect, W

\* The page d has the peer p in the call k and is sent the roster.
Seated(d, k, p, W) ==
    /\ connCall'[d] = k /\ connPeer'[d] = p
    /\ callPeers'[k] = callPeers[k] \cup {p}
    /\ Participants(k, p, callPeers'[k]) \in W
    /\ \A m \in W : \/ m = Participants(k, p, callPeers'[k])
                    \/ m.t = "rtc.peer_event"
                    \/ m.t = "rtc.call_end" /\ m.call # k

\* Who is in the call and stays there hears of the one who joins.
LEMMA JoinHeard ==
    ASSUME IInv, NEW k \in live, NEW p \in PeerIds, FreshPeer(p), NEW c \in Conns, InCall(c), connCall[c] = k,
           callPeers'[k] = callPeers[k] \cup {p},
           \A q \in callPeers[k] : peerConn[q] = c => peerConn'[q] = c
    PROVE  c \in CallAudience(callPeers'[k], peerConn') \cap OpenConns
<1>1. /\ connPeer[c] \in callPeers[k] /\ peerConn[connPeer[c]] = c /\ connState[c] = "open"
    BY OwnPeer
<1>2. peerConn'[connPeer[c]] = c /\ connPeer[c] \in callPeers'[k]
    BY <1>1
<1>3. QED
    BY <1>1, <1>2 DEF CallAudience, OpenConns

LEMMA FirstEffect ==
    ASSUME IInv, NEW d \in Conns, NEW k \in CallIds, k \in live, Authed(d), JoinFirst(d, k),
           NEW c \in Conns, Authed(c)
    PROVE  /\ ServerGrows /\ Effect(c, d, "rtc.join")
           /\ c = d => \E p \in PeerIds : Seated(d, k, p, Noticing(c, "rtc.join"))
<1>1. PICK p :
        /\ p \in PeerIds /\ FreshPeer(p)
        /\ callPeers' = [callPeers EXCEPT ![k] = callPeers[k] \cup {p}]
        /\ peerUser' = [peerUser EXCEPT ![p] = connUser[d]]
        /\ peerConn' = Register(peerConn, p, d)
        /\ connPeer' = [connPeer EXCEPT ![d] = p]
        /\ connCall' = [connCall EXCEPT ![d] = k]
        /\ sent' = Then(To(d, Participants(k, p, callPeers[k] \cup {p})),
                        ToAll(CallAudience(callPeers[k] \cup {p}, Register(peerConn, p, d)),
                              PeerEvent("join", k, p)))
    BY DEF JoinFirst
<1>2. UNCHANGED <<connState, connUser, userConns, member, live, roomOf>>
    BY DEF JoinFirst
<1> DEFINE W == Noticing(c, "rtc.join")
           peers == callPeers[k] \cup {p}
           m1 == Participants(k, p, peers)
           m2 == PeerEvent("join", k, p)
           S2 == CallAudience(peers, Register(peerConn, p, d))
<1>3. callPeers \in [CallIds -> SUBSET PeerIds] /\ peerUser \in [PeerIds -> Users \cup {None}]
      /\ peerConn \in [PeerIds -> Conns \cup {None}]
      /\ connCall \in [Conns -> CallIds \cup {None}] /\ connPeer \in [Conns -> PeerIds \cup {None}]
    BY DEF IInv, TypeOK
<1>4. /\ callPeers'[k] = callPeers[k] \cup {p} /\ callPeers'[k] \in SUBSET PeerIds
      /\ connCall'[d] = k /\ connPeer'[d] = p
      /\ \A q \in PeerIds : q # p => peerConn'[q] = peerConn[q]
    BY <1>1, <1>3 DEF Register
<1>5. sent' = Then(ToAll({d}, m1), ToAll(S2, m2))
    BY <1>1 DEF To
<1>6. /\ m1.t = "rtc.participants" /\ m1 \in Noted
      /\ m2.t = "rtc.peer_event" /\ m2.kind = "join" /\ m2.peer = p /\ m2 \in Noted
    BY <1>1, <1>4, NotedMessages DEF Participants, PeerEvent
<1>7. d \in OpenConns
    BY DEF Authed, OpenConns
<1>8. ASSUME c # d, connCall[c] = k PROVE c \in S2 \cap OpenConns
    <2>1. InCall(c)
        BY <1>8, ConstantsAssumption DEF IInv, Tables, CallsConsistent, ConnectionsAreInLiveCalls, InCall
    <2>2. \A q \in callPeers[k] : peerConn'[q] = peerConn[q]
        <3>1. p \notin callPeers[k]
            BY <1>1, FreshPeerUnknown
        <3>2. QED
            BY <1>3, <1>4, <3>1
    <2>3. p \in PeerIds /\ FreshPeer(p) /\ callPeers'[k] = callPeers[k] \cup {p}
        BY <1>1, <1>4
    <2>4. c \in CallAudience(callPeers'[k], peerConn') \cap OpenConns
        BY <1>8, <2>1, <2>2, <2>3, JoinHeard
    <2>5. QED
        BY <1>1, <1>4, <2>4
<1> HIDE DEF m1, m2, S2
<1>9. IsList(sent'[c]) /\ Written(c) = Copy(c, {d}, m1) \cup Copy(c, S2, m2)
    BY <1>5, ListTwo, WrittenTwo
<1>10. W = Copy(c, {d}, m1) \cup Copy(c, S2, m2)
    BY <1>6, <1>9 DEF Noticing, Noticed, Copy
<1> HIDE DEF W
<1>11. /\ \A n \in W : n = m1 \/ n = m2
       /\ c # d => m1 \notin W
       /\ c = d => m1 \in W
       /\ c # d /\ connCall[c] = k => m2 \in W
    BY <1>6, <1>7, <1>8, <1>10 DEF Copy
<1>12. peerUser[p] = None
    BY <1>1 DEF FreshPeer
<1>13. ServerGrows
    <2>1. \A x \in PeerIds : peerUser[x] # None => peerUser'[x] # None
        BY <1>1, <1>3, <1>12
    <2>2. \A j \in CallIds : \A x \in callPeers'[j] \ callPeers[j] : x = p
        BY <1>1, <1>3
    <2>3. QED
        BY <1>2, <1>12, <2>1, <2>2 DEF ServerGrows
<1>14. TellsRight(c, W)
    BY <1>2, <1>6, <1>11 DEF TellsRight, NoCallMoves, OfRoom
<1>15. LeavesDead(W)
    BY <1>6, <1>11 DEF LeavesDead
<1>16. c # d => Bystands(c, W)
    <2>1. SUFFICES ASSUME c # d PROVE Bystands(c, W)
        OBVIOUS
    <2>2. \A n \in W : n.t = "rtc.peer_event"
        BY <1>6, <1>11, <2>1
    <2>3. connCall'[c] = connCall[c] /\ connPeer'[c] = connPeer[c]
        BY <1>1, <1>3, <2>1
    <2>4. ASSUME connCall[c] # None, NEW x \in callPeers'[connCall[c]] \ callPeers[connCall[c]]
          PROVE  x = p /\ connCall[c] = k
        BY <1>1, <1>3, <2>4
    <2>5. QED
        BY <1>6, <1>11, <2>1, <2>2, <2>3, <2>4 DEF Bystands
<1>17. W \subseteq Noted
    BY <1>6, <1>11
<1>18. c = d => Seated(d, k, p, W)
    BY <1>4, <1>6, <1>11 DEF Seated, m1
<1>19. QED
    BY <1>1, <1>2, <1>9, <1>13, <1>14, <1>15, <1>16, <1>17, <1>18 DEF Effect, W

\* The tables and the messages of a switch.
Moved(d, k, p) ==
    /\ p \in PeerIds
    /\ Switched(d, k, p)
    /\ callPeers' = [callPeers EXCEPT ![connCall[d]] = callPeers[connCall[d]] \ {connPeer[d]},
                                      ![k] = callPeers[k] \cup {p}]
    /\ peerUser' = [peerUser EXCEPT ![p] = connUser[d]]
    /\ connPeer' = [connPeer EXCEPT ![d] = p] /\ connCall' = [connCall EXCEPT ![d] = k]
    /\ UNCHANGED <<connState, connUser, userConns, member, roomOf>>

LEMMA SwitchMoves ==
    ASSUME IInv, NEW d \in Conns, NEW k \in CallIds, k \in live, JoinSwitch(d, k)
    PROVE  InCall(d) /\ connCall[d] # k /\ \E p : Moved(d, k, p)
<1> DEFINE old == connPeer[d]
           was == connCall[d]
           left == [callPeers EXCEPT ![was] = callPeers[was] \ {old}]
<1>1. InCall(d) /\ was # k
    BY SwitchTables
<1>2. PICK p \in PeerIds :
        LET peers    == left[k] \cup {p}
            registry == Register([peerConn EXCEPT ![old] = None], p, d)
        IN  /\ FreshPeer(p)
            /\ live' = LiveAfterLeave(was, old)
            /\ callPeers' = [left EXCEPT ![k] = peers]
            /\ peerUser' = [peerUser EXCEPT ![p] = connUser[d]]
            /\ peerConn' = registry
            /\ connPeer' = [connPeer EXCEPT ![d] = p]
            /\ connCall' = [connCall EXCEPT ![d] = k]
            /\ sent' = Then(LeaveNotices(was, old),
                            Then(To(d, Participants(k, p, peers)),
                                 ToAll(CallAudience(peers, registry), PeerEvent("join", k, p))))
    BY DEF JoinSwitch
<1>3. UNCHANGED <<connState, connUser, userConns, member, roomOf>>
    BY DEF JoinSwitch
<1>4. PICK p2 \in PeerIds : Switched(d, k, p2)
    BY SwitchTables
<1>5. connPeer \in [Conns -> PeerIds \cup {None}] /\ callPeers \in [CallIds -> SUBSET PeerIds]
    BY DEF IInv, TypeOK
<1>6. p2 = p
    BY <1>2, <1>4, <1>5 DEF Switched
<1>7. was \in CallIds /\ left[k] = callPeers[k]
    BY <1>1, <1>5, OwnPeer
<1>8. callPeers' = [callPeers EXCEPT ![was] = callPeers[was] \ {old}, ![k] = callPeers[k] \cup {p}]
    <2>1. callPeers' = [left EXCEPT ![k] = left[k] \cup {p}]
        BY <1>2
    <2>2. QED
        BY <1>7, <2>1
<1>9. Moved(d, k, p)
    BY <1>2, <1>3, <1>4, <1>6, <1>8 DEF Moved
<1>10. QED
    BY <1>1, <1>9

\* WrittenFour and ListFour in one.
WritesFour(c, S1, m1, S2, m2, S3, m3, S4, m4) ==
    /\ IsList(sent'[c])
    /\ Written(c) = Copy(c, S1, m1) \cup Copy(c, S2, m2) \cup Copy(c, S3, m3) \cup Copy(c, S4, m4)

LEMMA FourWritten ==
    ASSUME NEW S1, NEW m1, NEW S2, NEW m2, NEW S3, NEW m3, NEW S4, NEW m4,
           sent' = Then(Then(ToAll(S1, m1), ToAll(S2, m2)), Then(ToAll(S3, m3), ToAll(S4, m4))),
           NEW c \in Conns
    PROVE  WritesFour(c, S1, m1, S2, m2, S3, m3, S4, m4)
<1>1. IsList(sent'[c])
    BY ListFour
<1>2. Written(c) = Copy(c, S1, m1) \cup Copy(c, S2, m2) \cup Copy(c, S3, m3) \cup Copy(c, S4, m4)
    BY WrittenFour
<1>3. QED
    BY <1>1, <1>2 DEF WritesFour

LEMMA SwitchEffect ==
    ASSUME IInv, NEW d \in Conns, NEW k \in CallIds, k \in live, Authed(d), JoinSwitch(d, k),
           NEW c \in Conns, Authed(c)
    PROVE  /\ ServerGrows /\ Effect(c, d, "rtc.join")
           /\ k \in live'
           /\ c = d => \E p \in PeerIds : Seated(d, k, p, Noticing(c, "rtc.join"))
<1>1. InCall(d) /\ connCall[d] # k
    BY SwitchMoves
<1>2. PICK p : Moved(d, k, p)
    BY SwitchMoves
<1> DEFINE W == Noticing(c, "rtc.join")
           old == connPeer[d]
           was == connCall[d]
           ends == Remaining(was, old) = {}
           m1 == PeerEvent("leave", was, old)
           S1 == CallAudience(Remaining(was, old), peerConn)
           m2 == CallEnd(was, roomOf[was])
           S2 == IF ends THEN RoomAudience(roomOf[was]) ELSE {}
           peers == callPeers[k] \cup {p}
           m3 == Participants(k, p, peers)
           m4 == PeerEvent("join", k, p)
<1>3. PICK registry : registry = peerConn'
    OBVIOUS
<1> DEFINE S4 == CallAudience(peers, registry)
<1>4. /\ p \in PeerIds /\ FreshPeer(p) /\ peerUser[p] = None
      /\ live' = (IF ends THEN live \ {was} ELSE live)
      /\ callPeers'[k] = peers
      /\ \A q \in PeerIds \ {p, old} : registry[q] = peerConn[q]
      /\ sent' = Then(LeaveNotices(was, old), Then(ToAll({d}, m3), ToAll(S4, m4)))
      /\ callPeers' = [callPeers EXCEPT ![was] = callPeers[was] \ {old}, ![k] = peers]
      /\ peerUser' = [peerUser EXCEPT ![p] = connUser[d]]
      /\ connPeer' = [connPeer EXCEPT ![d] = p] /\ connCall' = [connCall EXCEPT ![d] = k]
      /\ UNCHANGED <<connState, connUser, userConns, member, roomOf>>
    BY <1>2, <1>3 DEF Moved, Switched, FreshPeer, To, LiveAfterLeave
<1>5. sent' = Then(Then(ToAll(S1, m1), ToAll(S2, m2)), Then(ToAll({d}, m3), ToAll(S4, m4)))
    <2>1. LeaveNotices(was, old) = Then(ToAll(S1, m1), ToAll(S2, m2))
        BY <1>1, LeaveNoticesOf
    <2>2. QED
        BY <1>4, <2>1
<1>6. /\ callPeers \in [CallIds -> SUBSET PeerIds] /\ peerUser \in [PeerIds -> Users \cup {None}]
      /\ peerConn \in [PeerIds -> Conns \cup {None}]
      /\ connCall \in [Conns -> CallIds \cup {None}] /\ connPeer \in [Conns -> PeerIds \cup {None}]
    BY DEF IInv, TypeOK
<1>7. /\ was \in live /\ was \in CallIds /\ old \in PeerIds /\ old \in callPeers[was]
      /\ peerConn[old] = d /\ roomOf[was] \in Rooms /\ peerUser[old] # None
    <2>1. was \in live /\ was \in CallIds /\ old \in PeerIds /\ old \in callPeers[was] /\ peerConn[old] = d
        BY <1>1, OwnPeer
    <2>2. QED
        BY <2>1, ConstantsAssumption DEF IInv, TypeOK, Tables, FreshIdsUnknown
<1>8. /\ m1.t = "rtc.peer_event" /\ m1.kind = "leave" /\ m1.peer = old /\ m1 \in Noted
      /\ m2.t = "rtc.call_end" /\ m2.call = was /\ m2.room = roomOf[was] /\ m2 \in Noted
      /\ m3.t = "rtc.participants" /\ m3 \in Noted
      /\ m4.t = "rtc.peer_event" /\ m4.kind = "join" /\ m4.peer = p /\ m4 \in Noted
    <2>1. peers \in SUBSET PeerIds
        BY <1>4, <1>6
    <2>2. QED
        BY <1>4, <1>7, <2>1, NotedMessages DEF PeerEvent, CallEnd, Participants
<1>9. d \in OpenConns
    BY DEF Authed, OpenConns
<1>10. ends /\ connUser[c] \in member[roomOf[was]] => c \in S2 \cap OpenConns
    BY <1>7, MemberReachable
<1>11. ~ends => S2 = {}
    OBVIOUS
<1>12. ASSUME c # d, connCall[c] = k PROVE c \in S4 \cap OpenConns
    <2>1. InCall(c)
        BY <1>12, ConstantsAssumption DEF IInv, Tables, CallsConsistent, ConnectionsAreInLiveCalls, InCall
    <2>2. ASSUME NEW q \in callPeers[k], peerConn[q] = c PROVE peerConn'[q] = c
        <3>1. q # p
            BY <1>4, FreshPeerUnknown
        <3>2. q # old
            BY <1>7, <1>12, <2>2
        <3>3. q \in PeerIds
            BY <1>6
        <3>4. QED
            BY <1>3, <1>4, <2>2, <3>1, <3>2, <3>3
    <2>3. p \in PeerIds /\ FreshPeer(p) /\ callPeers'[k] = callPeers[k] \cup {p}
        BY <1>4
    <2>4. c \in CallAudience(callPeers'[k], peerConn') \cap OpenConns
        BY <1>12, <2>1, <2>2, <2>3, JoinHeard
    <2>5. QED
        BY <1>3, <1>4, <2>4
<1>13. \A j \in CallIds : old \in callPeers[j] => j = was
    BY <1>1, PeerOfOneCall
<1>14. \A j \in live : roomOf[j] = roomOf[was] => j = was
    BY <1>7 DEF IInv, OneCallPerRoom
<1>15. old # p
    BY <1>4, <1>7
<1> HIDE DEF m1, m2, m3, m4, S1, S2, S4, old, was, ends, peers
<1>17. IsList(sent'[c])
       /\ Written(c) = Copy(c, S1, m1) \cup Copy(c, S2, m2) \cup Copy(c, {d}, m3) \cup Copy(c, S4, m4)
    <2>1. WritesFour(c, S1, m1, S2, m2, {d}, m3, S4, m4)
        BY <1>5, FourWritten
    <2>2. QED
        BY <2>1 DEF WritesFour
<1>18. W = Copy(c, S1, m1) \cup Copy(c, S2, m2) \cup Copy(c, {d}, m3) \cup Copy(c, S4, m4)
    BY <1>8, <1>17 DEF Noticing, Noticed, Copy
<1> HIDE DEF W
<1>19. /\ \A n \in W : n = m1 \/ n = m2 \/ n = m3 \/ n = m4
       /\ m2 \in W => ends
       /\ ends /\ connUser[c] \in member[roomOf[was]] => m2 \in W
       /\ c = d => m3 \in W
       /\ c # d /\ connCall[c] = k => m4 \in W
    BY <1>8, <1>9, <1>10, <1>11, <1>12, <1>18 DEF Copy
<1>20. c # d => m3 \notin W
    BY <1>8, <1>18 DEF Copy
<1>21. ServerGrows
    <2>1. \A x \in PeerIds : peerUser[x] # None => peerUser'[x] # None
        BY <1>4, <1>6
    <2>2. \A j \in CallIds : \A x \in callPeers'[j] \ callPeers[j] : x = p
        BY <1>4, <1>6 DEF peers
    <2>3. QED
        BY <1>4, <2>1, <2>2 DEF ServerGrows
<1>22. TellsRight(c, W)
    <2>1. \A n \in W : n.t \in OfRoom => n = m2
        BY <1>8, <1>19 DEF OfRoom
    <2>2. About(c, W, was)
        BY <1>4, <1>7, <1>8, <1>14, <1>19, <2>1 DEF About
    <2>3. QED
        BY <1>7, <2>2 DEF TellsRight
<1>23. LeavesDead(W)
    <2>1. \A j \in CallIds : old \notin callPeers'[j]
        BY <1>1, <1>4, <1>6, <1>7, <1>13, <1>15 DEF peers, was
    <2>2. peerUser'[old] # None
        BY <1>4, <1>6, <1>7, <1>15
    <2>3. QED
        BY <1>7, <1>8, <1>19, <2>1, <2>2 DEF LeavesDead
<1>24. c # d => Bystands(c, W)
    <2>1. SUFFICES ASSUME c # d PROVE Bystands(c, W)
        OBVIOUS
    <2>2. \A n \in W : n.t \in {"rtc.call_end", "rtc.peer_event"}
        BY <1>8, <1>19, <1>20, <2>1
    <2>3. connCall'[c] = connCall[c] /\ connPeer'[c] = connPeer[c]
        BY <1>4, <1>6, <2>1
    <2>4. ASSUME connCall[c] # None, NEW x \in callPeers'[connCall[c]] \ callPeers[connCall[c]]
          PROVE  x = p /\ connCall[c] = k
        BY <1>4, <1>6, <2>4 DEF peers
    <2>5. QED
        BY <1>8, <1>19, <2>1, <2>2, <2>3, <2>4 DEF Bystands
<1>25. W \subseteq Noted
    BY <1>8, <1>19
<1>26. c = d => Seated(d, k, p, W)
    <2>1. connCall'[d] = k /\ connPeer'[d] = p
        BY <1>4, <1>6
    <2>2. m3 = Participants(k, p, callPeers'[k])
        BY <1>4 DEF m3
    <2>3. was # k
        BY <1>1 DEF was
    <2>4. QED
        BY <1>4, <1>8, <1>19, <2>1, <2>2, <2>3 DEF Seated, peers
<1>27. k \in live'
    BY <1>1, <1>4 DEF was
<1>28. QED
    BY <1>4, <1>17, <1>21, <1>22, <1>23, <1>24, <1>25, <1>26, <1>27 DEF Effect, W

\* rtc.end_call, as a call that ends or an error.
LEMMA EndIs ==
    ASSUME NEW d \in Conns, NEW k \in CallIds, RtcEndCall(d, k)
    PROVE  Ended(k) \/ Reply(d, Error("NOT_FOUND")) \/ Reply(d, Error("FORBIDDEN"))
BY DEF RtcEndCall, Ended

LEMMA ErrorFields == \A code : Error(code).t = "error" /\ Error(code).code = code
BY DEF Error

\* What the server does with the first message of d, to every page c.
LEMMA ServeEffect ==
    ASSUME IInv, IndexExact, SessionTypes, NEW d \in Conns, Serve(d), NEW c \in Conns, Authed(c)
    PROVE  ServerGrows /\ Effect(c, d, Head(toServer[d]).t)
<1> DEFINE m == Head(toServer[d])
<1> SUFFICES ServerGrows /\ Effect(c, d, m.t)
    BY DEF m
<1>1. m \in Requests /\ Authed(d)
    <2>1. toServer[d] \in Seq(Requests) /\ toServer[d] # <<>> /\ Authed(d)
        BY DEF SessionTypes, Serve
    <2>2. QED
        BY <2>1, Shortened
<1>2. \/ m.t = "channel.join" /\ ChannelJoin(d, m.room)
      \/ m.t = "rtc.call_create" /\ RtcCallCreate(d, m.room)
      \/ m.t = "rtc.join" /\ RtcJoin(d, m.call)
      \/ m.t = "rtc.leave" /\ PeerMatch(d, m.call, m.peer) /\ RtcLeave(d, m.call, m.peer)
      \/ m.t = "rtc.leave" /\ ~PeerMatch(d, m.call, m.peer) /\ PeerMismatch(d)
      \/ m.t = "rtc.end_call" /\ RtcEndCall(d, m.call)
    BY DEF Serve
<1> HIDE DEF m
<1>3. ASSUME NEW code, Reply(d, Error(code)), code = "NOT_FOUND" \/ m.t # "rtc.join" \/ code = "FORBIDDEN"
      PROVE  ServerGrows /\ Effect(c, d, m.t)
    <2>1. Noticed(Error(code), m.t) => code = "NOT_FOUND"
        BY ErrorFields DEF Noticed
    <2>2. Noticed(Error(code), m.t) =>
              Error(code) \in Noted /\ Error(code).t \notin OfRoom /\ Error(code).t # "rtc.peer_event"
        BY <2>1, ErrorFields, NotedMessages DEF OfRoom
    <2>3. QED
        BY <1>3, <2>2, ReplyEffect
<1>4. CASE m.t = "channel.join" /\ ChannelJoin(d, m.room)
    <2>1. m.room \in Rooms
        BY <1>1, <1>4, RequestFields
    <2>2. QED
        BY <1>4, <2>1, JoinChannelEffect
<1>5. CASE m.t = "rtc.call_create" /\ RtcCallCreate(d, m.room)
    <2>1. m.room \in Rooms
        BY <1>1, <1>5, RequestFields
    <2>2. CASE connUser[d] \in member[m.room]
        <3>1. PICK k \in CallIds : Created(d, m.room, k)
            BY <1>5, <2>1, <2>2, CreateIs
        <3>2. QED
            BY <1>5, <2>1, <2>2, <3>1, CreateEffect
    <2>3. CASE connUser[d] \notin member[m.room]
        <3>1. Reply(d, Error("FORBIDDEN"))
            BY <1>5, <2>3 DEF RtcCallCreate
        <3>2. QED
            BY <1>3, <3>1
    <2>4. QED
        BY <2>2, <2>3
<1>6. CASE m.t = "rtc.join" /\ RtcJoin(d, m.call)
    <2>1. m.call \in CallIds
        BY <1>1, <1>6, RequestFields
    <2>2. CASE Reply(d, Error("NOT_FOUND")) \/ Reply(d, Error("FORBIDDEN"))
        BY <1>3, <2>2
    <2>3. CASE m.call \in live /\ JoinFirst(d, m.call)
        BY <1>1, <1>6, <2>1, <2>3, FirstEffect
    <2>4. CASE m.call \in live /\ JoinAgain(d, m.call)
        <3> DEFINE n == Participants(m.call, connPeer[d], callPeers[m.call])
        <3>1. Reply(d, n)
            BY <2>4 DEF JoinAgain
        <3>2. n \in Noted /\ n.t = "rtc.participants"
            <4>1. connPeer[d] \in PeerIds
                BY <2>4, OwnPeer DEF JoinAgain
            <4>2. callPeers[m.call] \in SUBSET PeerIds
                BY <2>1 DEF IInv, TypeOK
            <4>3. QED
                BY <2>1, <4>1, <4>2, NotedMessages DEF Participants
        <3> HIDE DEF n
        <3>3. QED
            BY <3>1, <3>2, ReplyEffect DEF OfRoom
    <2>5. CASE m.call \in live /\ JoinSwitch(d, m.call)
        BY <1>1, <1>6, <2>1, <2>5, SwitchEffect
    <2>6. QED
        BY <1>6, <2>2, <2>3, <2>4, <2>5 DEF RtcJoin
<1>7. CASE m.t = "rtc.leave" /\ RtcLeave(d, m.call, m.peer)
    <2>1. InCall(d)
        <3>1. m.call \in CallIds /\ m.peer \in PeerIds
            BY <1>1, <1>7, RequestFields
        <3>2. QED
            BY <1>7, <3>1, ConstantsAssumption DEF RtcLeave, PeerMatch, InCall
    <2>2. /\ Depart(d) /\ member' = member /\ connUser'[c] = connUser[c]
          /\ connPeer' = [connPeer EXCEPT ![d] = None] /\ connCall' = [connCall EXCEPT ![d] = None]
        BY <1>7 DEF RtcLeave
    <2>3. QED
        BY <2>1, <2>2, DepartEffect
<1>8. CASE m.t = "rtc.leave" /\ PeerMismatch(d)
    BY <1>3, <1>8 DEF PeerMismatch
<1>9. CASE m.t = "rtc.end_call" /\ RtcEndCall(d, m.call)
    <2>1. m.call \in CallIds
        BY <1>1, <1>9, RequestFields
    <2>2. CASE Ended(m.call)
        BY <1>9, <2>1, <2>2, EndEffect
    <2>3. QED
        BY <1>3, <1>9, <2>1, <2>2, EndIs
<1>10. QED
    BY <1>2, <1>4, <1>5, <1>6, <1>7, <1>8, <1>9

\* What the end of the page d does to every other page c.
LEMMA CloseEffect ==
    ASSUME IInv, NEW d \in Conns, Close(d), NEW c \in Conns, Authed(c), c # d
    PROVE  ServerGrows /\ Effect(c, d, "close")
<1>1. /\ connUser' = [connUser EXCEPT ![d] = None] /\ member' = member
      /\ connPeer' = [connPeer EXCEPT ![d] = None] /\ connCall' = [connCall EXCEPT ![d] = None]
      /\ connUser'[c] = connUser[c] /\ connCall'[c] = connCall[c] /\ connPeer'[c] = connPeer[c]
    BY DEF Close, IInv, TypeOK
<1>2. CASE InCall(d) /\ Depart(d)
    BY <1>1, <1>2, DepartEffect
<1>3. CASE sent' = Nothing /\ UNCHANGED callVars
    <2>1. IsList(sent'[c]) /\ Noticing(c, "close") = {}
        BY <1>3, ListNothing, WrittenNothing DEF Noticing
    <2>2. ServerGrows
        BY <1>1, <1>3 DEF ServerGrows, callVars
    <2>3. QED
        BY <1>1, <1>3, <2>1, <2>2 DEF Effect, TellsRight, NoCallMoves, LeavesDead, Bystands, callVars
<1>4. QED
    BY <1>2, <1>3 DEF Close

-----------------------------------------------------------------------------
(***************************************************************************)
(* The server's own invariant, with pages that drive it.                   *)
(***************************************************************************)
LEMMA RequestKeepsServer ==
    ASSUME IInv, SessionTypes, NEW d \in Conns, Serve(d)
    PROVE  IInv'
<1> DEFINE m == Head(toServer[d])
<1>1. m \in Requests /\ Authed(d)
    <2>1. toServer[d] \in Seq(Requests) /\ toServer[d] # <<>> /\ Authed(d)
        BY DEF SessionTypes, Serve
    <2>2. QED
        BY <2>1, Shortened
<1>2. \/ m.t = "channel.join" /\ ChannelJoin(d, m.room)
      \/ m.t = "rtc.call_create" /\ RtcCallCreate(d, m.room)
      \/ m.t = "rtc.join" /\ RtcJoin(d, m.call)
      \/ m.t = "rtc.leave" /\ PeerMatch(d, m.call, m.peer) /\ RtcLeave(d, m.call, m.peer)
      \/ m.t = "rtc.leave" /\ ~PeerMatch(d, m.call, m.peer) /\ PeerMismatch(d)
      \/ m.t = "rtc.end_call" /\ RtcEndCall(d, m.call)
    BY DEF Serve
<1> HIDE DEF m
<1>3. ASSUME NEW n, Reply(d, n) PROVE IInv'
    BY <1>3, QuietStep DEF Reply, IInv, TypeOK
<1>4. CASE m.t = "channel.join" /\ ChannelJoin(d, m.room)
    <2>1. m.room \in Rooms /\ connUser[d] \in Users
        BY <1>1, <1>4, RequestFields DEF Authed, IInv, TypeOK
    <2>2. member' \in [Rooms -> SUBSET Users]
        BY <1>4, <2>1 DEF ChannelJoin, IInv, TypeOK
    <2>3. QED
        BY <1>4, <2>2, QuietStep DEF ChannelJoin
<1>5. CASE m.t = "rtc.call_create" /\ RtcCallCreate(d, m.room)
    BY <1>1, <1>5, RequestFields, CallCreateStep
<1>6. CASE m.t = "rtc.join" /\ RtcJoin(d, m.call)
    <2>1. m.call \in CallIds
        BY <1>1, <1>6, RequestFields
    <2>2. QED
        BY <1>1, <1>3, <1>6, <2>1, JoinFirstStep, JoinSwitchStep DEF RtcJoin, JoinAgain
<1>7. CASE m.t = "rtc.leave" /\ RtcLeave(d, m.call, m.peer)
    BY <1>1, <1>7, RequestFields, LeaveStep
<1>8. CASE m.t = "rtc.leave" /\ PeerMismatch(d)
    BY <1>3, <1>8 DEF PeerMismatch
<1>9. CASE m.t = "rtc.end_call" /\ RtcEndCall(d, m.call)
    BY <1>1, <1>9, RequestFields, EndCallStep
<1>10. QED
    BY <1>2, <1>4, <1>5, <1>6, <1>7, <1>8, <1>9


-----------------------------------------------------------------------------
(***************************************************************************)
(* What the page does, in full.                                            *)
(***************************************************************************)
\* What the page says when it leaves its call, and how it asks for the one of r.
Farewell(p) == IF p.callId # None /\ p.self # None THEN <<LeaveMsg(p.callId, p.self)>> ELSE <<>>
Ask(p, r)   == IF p.calls[r] # None THEN JoinMsg(p.calls[r]) ELSE CallCreateMsg(r)

LEMMA ResultFields == \A p, out : Result(p, out).page = p /\ Result(p, out).out = out
BY DEF Result

LEMMA ResultIs ==
    ASSUME NEW x, NEW p, NEW out, x = Result(p, out)
    PROVE  x.page = p /\ x.out = out
BY ResultFields

LEMMA TornDownIs ==
    ASSUME NEW p \in Page
    PROVE  /\ TornDown(p) \in Page
           /\ TornDown(p).cur = p.cur /\ TornDown(p).modal = p.modal /\ TornDown(p).calls = p.calls
           /\ TornDown(p).callId = None /\ TornDown(p).room = None /\ TornDown(p).self = None
           /\ TornDown(p).peers = {} /\ TornDown(p).voice = FALSE
BY DEF TornDown, Page

LEMMA FarewellTypes ==
    ASSUME NEW p \in Page
    PROVE  /\ Farewell(p) \in Seq(Requests)
           /\ Farewell(p) = <<>> \/ Farewell(p) = <<LeaveMsg(p.callId, p.self)>>
<1>1. CASE p.callId # None /\ p.self # None
    <2>1. p.callId \in CallIds /\ p.self \in PeerIds
        BY <1>1 DEF Page
    <2>2. LeaveMsg(p.callId, p.self) \in Requests
        BY <2>1, RequestMessages
    <2>3. Farewell(p) = <<LeaveMsg(p.callId, p.self)>>
        BY <1>1 DEF Farewell
    <2>4. QED
        BY <2>2, <2>3
<1>2. CASE ~(p.callId # None /\ p.self # None)
    BY <1>2 DEF Farewell
<1>3. QED
    BY <1>1, <1>2

\* leaveCurrentVoiceCall in a call.
LEMMA LeftIs ==
    ASSUME NEW p \in Page, p.callId # None
    PROVE  Left(p).page = TornDown(p) /\ Left(p).out = Farewell(p)
BY ResultFields DEF Left, Farewell

\* joinVoiceChannel of the room whose call the page is in.
LEMMA JoinedSame ==
    ASSUME NEW p \in Page, NEW r \in Rooms, InThisCall(p, r)
    PROVE  /\ Joined(p, r).out = <<>>
           /\ Joined(p, r).page = [p EXCEPT !.voice = TRUE, !.modal = FALSE]
           /\ Joined(p, r).page \in Page
<1>1. Joined(p, r) = Result([p EXCEPT !.voice = TRUE, !.modal = FALSE], <<>>)
    BY DEF Joined, InThisCall
<1>2. [p EXCEPT !.voice = TRUE, !.modal = FALSE] \in Page
    BY DEF Page
<1>3. QED
    BY <1>1, <1>2, ResultFields

\* joinVoiceChannel of another room: the page is the room's from now on.
LEMMA JoinedOther ==
    ASSUME NEW p \in Page, NEW r \in Rooms, ~InThisCall(p, r)
    PROVE  LET q == Joined(p, r).page IN
           /\ Joined(p, r).out = Append(Farewell(p), Ask(p, r))
           /\ Joined(p, r).out \in Seq(Requests) /\ Ask(p, r) \in Requests
           /\ q \in Page
           /\ q.cur = p.cur /\ q.calls = p.calls /\ q.room = r /\ q.callId = p.calls[r]
           /\ q.voice = TRUE /\ q.modal = FALSE
           /\ p.callId # None => q.self = None /\ q.peers = {}
           /\ p.callId = None => q.self = p.self /\ q.peers = p.peers
<1> DEFINE before == IF p.callId # None THEN Left(p) ELSE Result(p, <<>>)
           b == before.page
           q == [b EXCEPT !.voice = TRUE, !.modal = FALSE, !.room = r]
           known == p.calls[r]
<1>1. Joined(p, r) = IF known # None
                     THEN Result([q EXCEPT !.callId = known], Append(before.out, JoinMsg(known)))
                     ELSE Result(q, Append(before.out, CallCreateMsg(r)))
    BY DEF Joined, InThisCall
<1>2. /\ before.out = Farewell(p)
      /\ b \in Page /\ b.callId = None /\ b.cur = p.cur /\ b.calls = p.calls
      /\ p.callId # None => b.self = None /\ b.peers = {}
      /\ p.callId = None => b = p
    <2>1. CASE p.callId # None
        BY <2>1, LeftIs, TornDownIs
    <2>2. CASE p.callId = None
        BY <2>2, ResultFields DEF Farewell
    <2>3. QED
        BY <2>1, <2>2
<1>3. known \in CallIds \cup {None}
    BY DEF Page
<1> HIDE DEF before
<1> DEFINE s == [q EXCEPT !.callId = known]
           f == before.out
<1>4. /\ Joined(p, r).page = s
      /\ Joined(p, r).out = Append(f, Ask(p, r))
    <2>1. CASE known # None
        <3>1. Joined(p, r) = Result(s, Append(f, JoinMsg(known)))
            BY <1>1, <2>1
        <3>2. Ask(p, r) = JoinMsg(known)
            BY <2>1 DEF Ask
        <3> HIDE DEF s, f
        <3>3. QED
            BY <3>1, <3>2, ResultIs
    <2>2. CASE known = None
        <3>1. s = q
            BY <1>2, <2>2 DEF Page
        <3>2. Joined(p, r) = Result(q, Append(f, CallCreateMsg(r)))
            BY <1>1, <2>2
        <3>3. Ask(p, r) = CallCreateMsg(r)
            BY <2>2 DEF Ask
        <3> HIDE DEF s, f, q
        <3>4. QED
            BY <3>1, <3>2, <3>3, ResultIs
    <2>3. QED
        BY <2>1, <2>2
<1>5. /\ s \in Page
      /\ s.cur = b.cur /\ s.calls = b.calls /\ s.room = r /\ s.callId = known
      /\ s.voice = TRUE /\ s.modal = FALSE /\ s.self = b.self /\ s.peers = b.peers
    BY <1>2, <1>3 DEF Page
<1>6. Ask(p, r) \in Requests /\ Farewell(p) \in Seq(Requests)
    BY <1>3, RequestMessages, FarewellTypes DEF Ask
<1>7. Append(Farewell(p), Ask(p, r)) \in Seq(Requests)
    BY <1>6
<1>8. QED
    BY <1>2, <1>4, <1>5, <1>6, <1>7 DEF f, known

LEMMA JoinedTypes ==
    ASSUME NEW p \in Page, NEW r \in Rooms
    PROVE  /\ Joined(p, r).page \in Page /\ Joined(p, r).out \in Seq(Requests)
           /\ Joined(p, r).page.modal = FALSE
<1>1. CASE InThisCall(p, r)
    <2>1. [p EXCEPT !.voice = TRUE, !.modal = FALSE].modal = FALSE
        BY DEF Page
    <2>2. <<>> \in Seq(Requests)
        OBVIOUS
    <2>3. QED
        BY <1>1, <2>1, <2>2, JoinedSame
<1>2. CASE ~InThisCall(p, r)
    BY <1>2, JoinedOther
<1>3. QED
    BY <1>1, <1>2

LEMMA EnsuredTypes ==
    ASSUME NEW p \in Page, NEW r \in Rooms, p.modal => p.cur # None
    PROVE  /\ Ensured(p, r).page \in Page /\ Ensured(p, r).out \in Seq(Requests)
           /\ Ensured(p, r).page.modal => Ensured(p, r).page.cur # None
<1>1. CASE p.voice /\ ~InThisCall(p, r)
    <2>1. Ensured(p, r) = Joined(p, r)
        BY <1>1, ConstantsAssumption DEF Ensured
    <2>2. QED
        BY <2>1, JoinedTypes
<1>2. CASE ~(p.voice /\ ~InThisCall(p, r))
    <2>1. Ensured(p, r) = Result(p, <<>>)
        BY <1>2 DEF Ensured
    <2>2. <<>> \in Seq(Requests)
        OBVIOUS
    <2>3. Ensured(p, r).page = p /\ Ensured(p, r).out = <<>>
        BY <2>1, ResultIs
    <2>4. QED
        BY <2>2, <2>3
<1>3. QED
    BY <1>1, <1>2

-----------------------------------------------------------------------------
(***************************************************************************)
(* What the page does with each message.                                   *)
(***************************************************************************)
LEMMA HandledCallEvent ==
    ASSUME NEW p \in Page, NEW m \in Noted, m.t = "rtc.call_event"
    PROVE  /\ m.call \in CallIds /\ m.room \in Rooms
           /\ Handled(p, m).page = [p EXCEPT !.calls[m.room] = m.call]
           /\ Handled(p, m).out = <<>> /\ Handled(p, m).page \in Page
<1>1. m.call \in CallIds /\ m.room \in Rooms
    BY NotedFields DEF OfRoom
<1>2. Handled(p, m).page = [p EXCEPT !.calls[m.room] = m.call] /\ Handled(p, m).out = <<>>
    BY ResultFields DEF Handled
<1>3. [p EXCEPT !.calls[m.room] = m.call] \in Page
    BY <1>1 DEF Page
<1>4. QED
    BY <1>1, <1>2, <1>3

LEMMA HandledCall ==
    ASSUME NEW p \in Page, NEW m \in Noted, m.t = "rtc.call"
    PROVE  /\ m.call \in CallIds /\ m.room \in Rooms
           /\ Handled(p, m).page = [p EXCEPT !.callId = m.call, !.room = m.room]
           /\ Handled(p, m).out = <<JoinMsg(m.call)>> /\ JoinMsg(m.call) \in Requests
           /\ Handled(p, m).page \in Page
<1>1. m.call \in CallIds /\ m.room \in Rooms
    BY NotedFields DEF OfRoom
<1>2. Handled(p, m) = Result([p EXCEPT !.callId = m.call, !.room = m.room], <<JoinMsg(m.call)>>)
    BY DEF Handled
<1>3. [p EXCEPT !.callId = m.call, !.room = m.room] \in Page
    BY <1>1 DEF Page
<1>4. JoinMsg(m.call) \in Requests
    BY <1>1, RequestMessages
<1>5. QED
    BY <1>1, <1>2, <1>3, <1>4, ResultIs

\* ensurePeers, of a page whose peer id is known.
LEMMA WithPeersIs ==
    ASSUME NEW p \in Page, NEW ps \in SUBSET PeerIds
    PROVE  /\ WithPeers(p, ps) = [p EXCEPT !.peers = p.peers \cup (ps \ {p.self})]
           /\ WithPeers(p, ps) \in Page
BY DEF WithPeers, Page

LEMMA HandledParticipants ==
    ASSUME NEW p \in Page, NEW m \in Noted, m.t = "rtc.participants"
    PROVE  /\ m.call \in CallIds /\ m.self \in PeerIds /\ m.peers \subseteq PeerIds
           /\ Handled(p, m).page =
                 [p EXCEPT !.self = m.self, !.peers = p.peers \cup (m.peers \ {m.self})]
           /\ Handled(p, m).out = <<>> /\ Handled(p, m).page \in Page
<1>1. m.call \in CallIds /\ m.self \in PeerIds /\ m.peers \subseteq PeerIds
    BY NotedFields
<1> DEFINE q == [p EXCEPT !.self = m.self]
<1>2. Handled(p, m) = Result(WithPeers(q, m.peers), <<>>)
    BY DEF Handled
<1>3. q \in Page /\ q.self = m.self /\ q.peers = p.peers
    BY <1>1 DEF Page
<1>4. [q EXCEPT !.peers = p.peers \cup (m.peers \ {m.self})] =
      [p EXCEPT !.self = m.self, !.peers = p.peers \cup (m.peers \ {m.self})]
    BY <1>1 DEF Page
<1> HIDE DEF q
<1>5. /\ WithPeers(q, m.peers) = [q EXCEPT !.peers = p.peers \cup (m.peers \ {m.self})]
      /\ WithPeers(q, m.peers) \in Page
    BY <1>1, <1>3, WithPeersIs
<1>6. Handled(p, m).page = WithPeers(q, m.peers) /\ Handled(p, m).out = <<>>
    BY <1>2, ResultIs
<1>7. QED
    BY <1>1, <1>4, <1>5, <1>6

LEMMA HandledPeerEvent ==
    ASSUME NEW p \in Page, NEW m \in Noted, m.t = "rtc.peer_event"
    PROVE  /\ m.kind \in {"join", "leave"} /\ m.peer \in PeerIds
           /\ \E ps \in SUBSET PeerIds :
                 /\ Handled(p, m).page = [p EXCEPT !.peers = ps]
                 /\ ps \ {m.peer} = p.peers \ {m.peer}
                 /\ m.kind = "join" => p.peers \subseteq ps
                 /\ m.kind = "join" /\ m.peer # p.self => m.peer \in ps
           /\ Handled(p, m).out = <<>> /\ Handled(p, m).page \in Page
<1>1. m.kind \in {"join", "leave"} /\ m.peer \in PeerIds
    BY NotedFields
<1>2. Handled(p, m).page = PeerEventHandled(p, m) /\ Handled(p, m).out = <<>>
    BY ResultFields DEF Handled
<1> DEFINE ps == IF m.kind = "join" THEN p.peers \cup ({m.peer} \ {p.self})
                 ELSE p.peers \ {m.peer}
<1>3. ps \in SUBSET PeerIds
    BY <1>1 DEF Page
<1>4. PeerEventHandled(p, m) = [p EXCEPT !.peers = ps]
    <2>1. {m.peer} \in SUBSET PeerIds
        BY <1>1
    <2>2. CASE m.kind = "join"
        BY <2>1, <2>2, WithPeersIs DEF PeerEventHandled
    <2>3. CASE m.kind # "join"
        BY <2>3 DEF PeerEventHandled
    <2>4. QED
        BY <2>2, <2>3
<1>5. [p EXCEPT !.peers = ps] \in Page
    BY <1>3 DEF Page
<1>6. /\ ps \ {m.peer} = p.peers \ {m.peer}
      /\ m.kind = "join" => p.peers \subseteq ps
      /\ m.kind = "join" /\ m.peer # p.self => m.peer \in ps
    OBVIOUS
<1> HIDE DEF ps
<1>7. QED
    BY <1>1, <1>2, <1>3, <1>4, <1>5, <1>6

LEMMA HandledCallEnd ==
    ASSUME NEW p \in Page, NEW m \in Noted, m.t = "rtc.call_end"
    PROVE  LET q == Handled(p, m).page IN
           /\ m.call \in CallIds /\ m.room \in Rooms
           /\ Handled(p, m).out = <<>> /\ q \in Page
           /\ q.cur = p.cur /\ q.modal = p.modal
           /\ q.calls = [p.calls EXCEPT ![m.room] = None]
           /\ (m.call = p.callId \/ m.room = p.room) =>
                 /\ q.callId = None /\ q.room = None /\ q.self = None
                 /\ q.peers = {} /\ q.voice = FALSE
           /\ ~(m.call = p.callId \/ m.room = p.room) =>
                 /\ q.callId = p.callId /\ q.room = p.room /\ q.self = p.self
                 /\ q.peers = p.peers /\ q.voice = p.voice
<1>1. m.call \in CallIds /\ m.room \in Rooms
    BY NotedFields DEF OfRoom
<1> DEFINE s == [p EXCEPT !.calls[m.room] = None]
<1>2. Handled(p, m).page = CallEnded(p, m) /\ Handled(p, m).out = <<>>
    BY ResultFields DEF Handled
<1>3. CallEnded(p, m) = IF m.call = p.callId \/ m.room = p.room THEN TornDown(s) ELSE s
    BY DEF CallEnded
<1>4. /\ s \in Page /\ s.cur = p.cur /\ s.modal = p.modal
      /\ s.calls = [p.calls EXCEPT ![m.room] = None]
      /\ s.callId = p.callId /\ s.room = p.room /\ s.self = p.self
      /\ s.peers = p.peers /\ s.voice = p.voice
    BY <1>1 DEF Page
<1> HIDE DEF s
<1>5. CASE m.call = p.callId \/ m.room = p.room
    <2>1. Handled(p, m).page = TornDown(s)
        BY <1>2, <1>3, <1>5
    <2>2. QED
        BY <1>1, <1>2, <1>4, <1>5, <2>1, TornDownIs
<1>6. CASE ~(m.call = p.callId \/ m.room = p.room)
    <2>1. Handled(p, m).page = s
        BY <1>2, <1>3, <1>6
    <2>2. QED
        BY <1>1, <1>2, <1>4, <1>6, <2>1
<1>7. QED
    BY <1>5, <1>6

LEMMA HandledError ==
    ASSUME NEW p \in Page, NEW m \in Noted, m.t = "error"
    PROVE  \/ /\ p.cur \in Rooms
              /\ Handled(p, m) = Ensured([p EXCEPT !.calls[p.cur] = None], p.cur)
           \/ p.cur = None /\ Handled(p, m) = Result(p, <<>>)
<1>1. p.cur \in Rooms \cup {None}
    BY DEF Page
<1>2. QED
    BY <1>1 DEF Handled

\* The page after the refusal knows no call of the room it shows.
LEMMA WithoutCall ==
    ASSUME NEW p \in Page, NEW r \in Rooms
    PROVE  LET q == [p EXCEPT !.calls[r] = None] IN
           /\ q \in Page /\ q.cur = p.cur /\ q.modal = p.modal
           /\ q.calls = [p.calls EXCEPT ![r] = None]
           /\ q.callId = p.callId /\ q.room = p.room /\ q.self = p.self
           /\ q.peers = p.peers /\ q.voice = p.voice
BY DEF Page

LEMMA EnsuredIs ==
    ASSUME NEW p, NEW r \in Rooms
    PROVE  \/ p.voice /\ ~InThisCall(p, r) /\ Ensured(p, r) = Joined(p, r)
           \/ (~p.voice \/ InThisCall(p, r)) /\ Ensured(p, r) = Result(p, <<>>)
BY ConstantsAssumption DEF Ensured

LEMMA HandledTypes ==
    ASSUME NEW p \in Page, NEW m \in Noted, p.modal => p.cur # None
    PROVE  LET q == Handled(p, m).page IN
           q \in Page /\ Handled(p, m).out \in Seq(Requests) /\ (q.modal => q.cur # None)
<1>1. CASE m.t = "rtc.call_event"
    <2>1. [p EXCEPT !.calls[m.room] = m.call].modal = p.modal
          /\ [p EXCEPT !.calls[m.room] = m.call].cur = p.cur
        BY DEF Page
    <2>2. <<>> \in Seq(Requests)
        OBVIOUS
    <2>3. QED
        BY <1>1, <2>1, <2>2, HandledCallEvent
<1>2. CASE m.t = "rtc.call"
    <2> DEFINE q == [p EXCEPT !.callId = m.call, !.room = m.room]
    <2>1. q.modal = p.modal /\ q.cur = p.cur
        BY DEF Page
    <2> HIDE DEF q
    <2>2. /\ Handled(p, m).page = q /\ q \in Page
          /\ Handled(p, m).out = <<JoinMsg(m.call)>> /\ JoinMsg(m.call) \in Requests
        BY <1>2, HandledCall DEF q
    <2>3. <<JoinMsg(m.call)>> \in Seq(Requests)
        BY <2>2
    <2>4. QED
        BY <2>1, <2>2, <2>3
<1>3. CASE m.t = "rtc.participants"
    <2> DEFINE q == [p EXCEPT !.self = m.self, !.peers = p.peers \cup (m.peers \ {m.self})]
    <2>1. q.modal = p.modal /\ q.cur = p.cur
        BY DEF Page
    <2>2. <<>> \in Seq(Requests)
        OBVIOUS
    <2>3. QED
        BY <1>3, <2>1, <2>2, HandledParticipants
<1>4. CASE m.t = "rtc.peer_event"
    <2>1. PICK ps \in SUBSET PeerIds : Handled(p, m).page = [p EXCEPT !.peers = ps]
        BY <1>4, HandledPeerEvent
    <2>2. [p EXCEPT !.peers = ps].modal = p.modal /\ [p EXCEPT !.peers = ps].cur = p.cur
        BY DEF Page
    <2>3. <<>> \in Seq(Requests)
        OBVIOUS
    <2>4. QED
        BY <1>4, <2>1, <2>2, <2>3, HandledPeerEvent
<1>5. CASE m.t = "rtc.call_end"
    <2>1. <<>> \in Seq(Requests)
        OBVIOUS
    <2> DEFINE q == Handled(p, m).page
    <2>2. q \in Page /\ q.cur = p.cur /\ q.modal = p.modal /\ Handled(p, m).out = <<>>
        BY <1>5, HandledCallEnd
    <2> HIDE DEF q
    <2>3. q \in Page /\ Handled(p, m).out \in Seq(Requests) /\ (q.modal => q.cur # None)
        BY <2>1, <2>2
    <2>4. QED
        BY <2>3 DEF q
<1>6. CASE m.t = "error"
    <2>1. CASE p.cur = None /\ Handled(p, m) = Result(p, <<>>)
        <3>1. <<>> \in Seq(Requests)
            OBVIOUS
        <3>2. Handled(p, m).page = p /\ Handled(p, m).out = <<>>
            BY <2>1, ResultIs
        <3>3. QED
            BY <3>1, <3>2
    <2>2. CASE p.cur \in Rooms /\ Handled(p, m) = Ensured([p EXCEPT !.calls[p.cur] = None], p.cur)
        <3> DEFINE q == [p EXCEPT !.calls[p.cur] = None]
        <3>1. q \in Page /\ (q.modal => q.cur # None)
            BY <2>2, WithoutCall
        <3>2. Handled(p, m) = Ensured(q, p.cur)
            BY <2>2
        <3> HIDE DEF q
        <3>3. QED
            BY <2>2, <3>1, <3>2, EnsuredTypes
    <2>3. QED
        BY <1>6, <2>1, <2>2, HandledError
<1>7. QED
    BY <1>1, <1>2, <1>3, <1>4, <1>5, <1>6, NotedFields DEF OfRoom

-----------------------------------------------------------------------------
(***************************************************************************)
(* The server's invariant and the types of the session, of every step.     *)
(***************************************************************************)
SessionInv == IInv /\ IndexExact /\ SessionTypes

LEMMA SessionInit == VoiceInit => SessionInv
<1> SUFFICES ASSUME VoiceInit PROVE SessionInv
    OBVIOUS
<1>1. UserOf \in [Conns -> Users]
    BY VoiceAssumption
<1>2. TypeOK
    BY <1>1, ConstantsAssumption DEF VoiceInit, TypeOK
<1>3. Tables
    BY <1>1, ConstantsAssumption DEF VoiceInit, Tables, CallsConsistent, RegistryMatchesConnections,
        ConnectionsAreInLiveCalls, PeersAreConnected, InCall, OnlyOpenConnections, FreshIdsUnknown
<1>4. OneCallPerRoom /\ IndexComplete /\ IndexExact
    BY <1>1 DEF VoiceInit, OneCallPerRoom, IndexComplete, Authed, IndexExact
<1>5. SessionTypes
    <2>1. EmptyPage \in Page /\ EmptyPage.modal = FALSE
        BY DEF EmptyPage, Page
    <2>2. <<>> \in Seq(Requests) /\ <<>> \in Seq(Noted)
        OBVIOUS
    <2>3. QED
        BY <1>1, <2>1, <2>2, ConstantsAssumption DEF SessionTypes, VoiceInit, Authed
<1>6. QED
    BY <1>2, <1>3, <1>4, <1>5 DEF SessionInv, IInv

\* A served request leaves the sockets and their users alone.
LEMMA ServeKeepsUsers ==
    ASSUME NEW d \in Conns, Serve(d)
    PROVE  UNCHANGED connState /\ UNCHANGED connUser /\ UNCHANGED userConns
BY DEF Serve, ChannelJoin, RtcCallCreate, RtcJoin, JoinFirst, JoinAgain, JoinSwitch, RtcLeave,
       PeerMismatch, RtcEndCall, Reply, connVars

\* What is appended to the queue of every page.
LEMMA ServeHeard ==
    ASSUME SessionInv, NEW d \in Conns, Serve(d), NEW c \in Conns, Authed(c)
    PROVE  \E s \in Seq(Noted) :
              /\ toClient'[c] = toClient[c] \o s
              /\ Elements(s) = Noticing(c, Head(toServer[d]).t)
<1> DEFINE request == Head(toServer[d]).t
<1>1. toClient'[c] = toClient[c] \o Heard(sent'[c], request)
    BY DEF Serve, Deliver
<1> HIDE DEF request
<1>2. Effect(c, d, request)
    BY ServeEffect DEF SessionInv, request
<1>3. IsList(sent'[c]) /\ Noticing(c, request) \subseteq Noted
    BY <1>2 DEF Effect
<1>4. QED
    BY <1>1, <1>3, QueueHears DEF request

LEMMA CloseHeard ==
    ASSUME SessionInv, NEW d \in Conns, ClosePage(d), NEW c \in Conns, Authed(c), c # d
    PROVE  \E s \in Seq(Noted) :
              /\ toClient'[c] = toClient[c] \o s
              /\ Elements(s) = Noticing(c, "close")
<1>1. toClient'[c] = toClient[c] \o Heard(sent'[c], "close") /\ Close(d)
    BY DEF ClosePage
<1>2. Effect(c, d, "close")
    BY <1>1, CloseEffect DEF SessionInv
<1>3. IsList(sent'[c]) /\ Noticing(c, "close") \subseteq Noted
    BY <1>2 DEF Effect
<1>4. QED
    BY <1>1, <1>3, QueueHears

\* Nothing is written to a socket that is gone.
LEMMA NothingToAll ==
    ASSUME NEW c \in Conns, connState[c] # "open"
    PROVE  /\ \A S, m : ToAll(S, m)[c] = <<>>
           /\ \A a, b : a[c] = <<>> /\ b[c] = <<>> => Then(a, b)[c] = <<>>
<1>1. \A S, m : ToAll(S, m)[c] = <<>>
    BY DEF ToAll, OpenConns
<1>2. ASSUME NEW a, NEW b, a[c] = <<>>, b[c] = <<>> PROVE Then(a, b)[c] = <<>>
    <2>1. Then(a, b)[c] = <<>> \o <<>>
        BY <1>2 DEF Then
    <2>2. <<>> \o <<>> = <<>>
        OBVIOUS
    <2>3. QED
        BY <2>1, <2>2
<1>3. QED
    BY <1>1, <1>2

LEMMA GoneUntold ==
    ASSUME NEW c \in Conns, connState[c] # "open", NEW d \in Conns, Serve(d) \/ Close(d)
    PROVE  sent'[c] = <<>>
<1> USE NothingToAll
<1>1. \A k, p : LeaveNotices(k, p)[c] = <<>>
    BY DEF LeaveNotices
<1>2. ASSUME NEW m, Reply(d, m) PROVE sent'[c] = <<>>
    BY <1>2 DEF Reply, To
<1>3. CASE Depart(d)
    BY <1>1, <1>3 DEF Depart
<1>4. CASE Close(d)
    BY <1>3, <1>4 DEF Close, Nothing
<1>5. ASSUME NEW k, RtcJoin(d, k) PROVE sent'[c] = <<>>
    <2>1. CASE JoinFirst(d, k)
        BY <2>1 DEF JoinFirst, To
    <2>2. CASE JoinSwitch(d, k)
        BY <1>1, <2>2 DEF JoinSwitch, To
    <2>3. QED
        BY <1>2, <1>5, <2>1, <2>2 DEF RtcJoin, JoinAgain
<1>6. ASSUME NEW r, RtcCallCreate(d, r) PROVE sent'[c] = <<>>
    BY <1>2, <1>6 DEF RtcCallCreate, To
<1>7. ASSUME NEW k, RtcEndCall(d, k) PROVE sent'[c] = <<>>
    BY <1>2, <1>7 DEF RtcEndCall
<1>8. ASSUME NEW r, ChannelJoin(d, r) PROVE sent'[c] = <<>>
    BY <1>8 DEF ChannelJoin, To
<1>9. ASSUME NEW k, NEW p, RtcLeave(d, k, p) PROVE sent'[c] = <<>>
    BY <1>3, <1>9 DEF RtcLeave
<1>10. ASSUME PeerMismatch(d) PROVE sent'[c] = <<>>
    BY <1>2, <1>10 DEF PeerMismatch
<1>11. QED
    BY <1>4, <1>5, <1>6, <1>7, <1>8, <1>9, <1>10 DEF Serve

LEMMA SilentQueue ==
    ASSUME NEW c \in Conns, NEW request, sent'[c] = <<>>, toClient[c] = <<>>,
           toClient'[c] = toClient[c] \o Heard(sent'[c], request)
    PROVE  toClient'[c] = <<>>
<1> DEFINE h == Heard(sent'[c], request)
<1>1. <<>> \in Seq({})
    OBVIOUS
<1>2. h \in Seq({})
    BY <1>1, HeardElements
<1> HIDE DEF h
<1>3. h = <<>>
    BY <1>2
<1>4. <<>> \o <<>> = <<>>
    OBVIOUS
<1>5. QED
    BY <1>3, <1>4 DEF h

LEMMA ServeKeepsTypes ==
    ASSUME SessionInv, NEW d \in Conns, Serve(d)
    PROVE  SessionInv'
<1>1. IInv'
    BY RequestKeepsServer DEF SessionInv
<1>2. UNCHANGED connState /\ UNCHANGED connUser /\ UNCHANGED userConns
    BY ServeKeepsUsers
<1>3. IndexExact'
    BY <1>2 DEF IndexExact, SessionInv
<1>4. page' \in [Conns -> Page] /\ \A c \in Conns : page'[c].modal => page'[c].cur # None
    BY DEF Serve, SessionInv, SessionTypes
<1>5. toServer' \in [Conns -> Seq(Requests)]
    <2>1. toServer' = [toServer EXCEPT ![d] = Tail(toServer[d])] /\ toServer[d] # <<>>
        BY DEF Serve
    <2>2. toServer \in [Conns -> Seq(Requests)]
        BY DEF SessionInv, SessionTypes
    <2>3. Tail(toServer[d]) \in Seq(Requests)
        BY <2>1, <2>2, Shortened
    <2>4. QED
        BY <2>1, <2>2, <2>3
<1>6. ASSUME NEW c \in Conns
      PROVE  /\ toClient'[c] \in Seq(Noted)
             /\ Authed(c)' \/ (connState'[c] # "open" /\ toClient'[c] = <<>>)
    <2>1. CASE Authed(c)
        <3>1. PICK s \in Seq(Noted) : toClient'[c] = toClient[c] \o s
            BY <2>1, ServeHeard
        <3>2. toClient[c] \in Seq(Noted)
            BY DEF SessionInv, SessionTypes
        <3>3. toClient'[c] \in Seq(Noted)
            BY <3>1, <3>2, Lengthened
        <3>4. QED
            BY <1>2, <2>1, <3>3 DEF Authed
    <2>2. CASE ~Authed(c)
        <3>1. connState[c] # "open" /\ toClient[c] = <<>>
            BY <2>2 DEF SessionInv, SessionTypes
        <3>2. sent'[c] = <<>>
            BY <3>1, GoneUntold
        <3>3. toClient'[c] = toClient[c] \o Heard(sent'[c], Head(toServer[d]).t)
            BY DEF Serve, Deliver
        <3>4. toClient'[c] = <<>>
            BY <3>1, <3>2, <3>3, SilentQueue
        <3>5. <<>> \in Seq(Noted)
            OBVIOUS
        <3>6. QED
            BY <1>2, <3>1, <3>4, <3>5
    <2>3. QED
        BY <2>1, <2>2
<1>7. toClient' \in [Conns -> Seq(Noted)]
    <2>1. toClient' = [e \in Conns |-> toClient'[e]]
        BY DEF Serve, Deliver
    <2>2. QED
        BY <1>6, <2>1
<1>8. QED
    BY <1>1, <1>3, <1>4, <1>5, <1>6, <1>7 DEF SessionInv, SessionTypes

LEMMA CloseKeepsTypes ==
    ASSUME SessionInv, NEW d \in Conns, ClosePage(d)
    PROVE  SessionInv'
<1>1. Close(d)
    BY DEF ClosePage
<1>2. IInv'
    BY <1>1, CloseStep DEF SessionInv
<1>3. /\ connState' = [connState EXCEPT ![d] = "closed"]
      /\ connUser' = [connUser EXCEPT ![d] = None]
      /\ userConns' = RemoveUserConnection(connUser[d], d)
      /\ connState \in [Conns -> {"new", "open", "closed"}]
      /\ connUser \in [Conns -> Users \cup {None}]
    BY <1>1 DEF Close, SessionInv, IInv, TypeOK
<1>4. IndexExact'
    BY <1>3 DEF IndexExact, SessionInv, RemoveUserConnection
<1>5. page' \in [Conns -> Page] /\ \A c \in Conns : page'[c].modal => page'[c].cur # None
    <2>1. EmptyPage \in Page /\ EmptyPage.modal = FALSE
        BY DEF EmptyPage, Page
    <2>2. QED
        BY <2>1 DEF ClosePage, SessionInv, SessionTypes
<1>6. toServer' \in [Conns -> Seq(Requests)]
    <2>1. <<>> \in Seq(Requests)
        OBVIOUS
    <2>2. QED
        BY <2>1 DEF ClosePage, SessionInv, SessionTypes
<1>7. ASSUME NEW c \in Conns
      PROVE  /\ toClient'[c] \in Seq(Noted)
             /\ Authed(c)' \/ (connState'[c] # "open" /\ toClient'[c] = <<>>)
    <2>1. CASE c = d
        <3>1. toClient'[c] = <<>> /\ connState'[c] # "open"
            BY <1>3, <2>1 DEF ClosePage
        <3>2. <<>> \in Seq(Noted)
            OBVIOUS
        <3>3. QED
            BY <3>1, <3>2
    <2>2. CASE c # d /\ Authed(c)
        <3>1. PICK s \in Seq(Noted) : toClient'[c] = toClient[c] \o s
            BY <2>2, CloseHeard
        <3>2. toClient[c] \in Seq(Noted)
            BY DEF SessionInv, SessionTypes
        <3>3. toClient'[c] \in Seq(Noted)
            BY <3>1, <3>2, Lengthened
        <3>4. QED
            BY <1>3, <2>2, <3>3 DEF Authed
    <2>3. CASE c # d /\ ~Authed(c)
        <3>1. connState[c] # "open" /\ toClient[c] = <<>>
            BY <2>3 DEF SessionInv, SessionTypes
        <3>2. sent'[c] = <<>>
            BY <1>1, <3>1, GoneUntold
        <3>3. toClient'[c] = toClient[c] \o Heard(sent'[c], "close")
            BY <2>3 DEF ClosePage
        <3>4. toClient'[c] = <<>>
            BY <3>1, <3>2, <3>3, SilentQueue
        <3>5. <<>> \in Seq(Noted)
            OBVIOUS
        <3>6. QED
            BY <1>3, <2>3, <3>1, <3>4, <3>5
    <2>4. QED
        BY <2>1, <2>2, <2>3
<1>8. toClient' \in [Conns -> Seq(Noted)]
    <2>1. toClient' = [e \in Conns |-> toClient'[e]]
        BY DEF ClosePage
    <2>2. QED
        BY <1>7, <2>1
<1>9. QED
    BY <1>2, <1>4, <1>5, <1>6, <1>7, <1>8 DEF SessionInv, SessionTypes

-----------------------------------------------------------------------------
(***************************************************************************)
(* What the user does.                                                     *)
(***************************************************************************)
LEMMA ShownIs ==
    ASSUME NEW p \in Page, NEW r \in Rooms
    PROVE  LET q == [p EXCEPT !.cur = r] IN
           /\ q \in Page /\ q.cur = r /\ q.modal = p.modal /\ q.calls = p.calls
           /\ q.callId = p.callId /\ q.room = p.room /\ q.self = p.self
           /\ q.peers = p.peers /\ q.voice = p.voice
BY DEF Page

\* setActiveChannel: the dialog opens, or the session goes on.
LEMMA SelectedIs ==
    ASSUME NEW p \in Page, NEW r \in Rooms
    PROVE  LET q == [p EXCEPT !.cur = r] IN
           \/ /\ ~InThisCall(p, r)
              /\ Selected(p, r).page = [q EXCEPT !.modal = TRUE]
              /\ Selected(p, r).out = <<ChannelJoinMsg(r)>>
           \/ /\ InThisCall(p, r)
              /\ Selected(p, r).page = q
              /\ Selected(p, r).out = <<ChannelJoinMsg(r)>> \o <<>>
           \/ /\ p.callId = None /\ p.voice /\ p.room = r
              /\ Selected(p, r).page = Joined(q, r).page
              /\ Selected(p, r).out = <<ChannelJoinMsg(r)>> \o Joined(q, r).out
<1> DEFINE q == [p EXCEPT !.cur = r]
<1>1. q.voice = p.voice /\ (InThisCall(q, r) <=> InThisCall(p, r))
    BY ShownIs DEF InThisCall
<1>2. CASE ~InThisCall(p, r) /\ (~p.voice \/ p.room # r)
    <2>1. Selected(p, r) = Result([q EXCEPT !.modal = TRUE], <<ChannelJoinMsg(r)>>)
        BY <1>2 DEF Selected
    <2>2. QED
        BY <1>2, <2>1, ResultIs
<1>3. CASE ~(~InThisCall(p, r) /\ (~p.voice \/ p.room # r))
    <2>1. Selected(p, r) = Result(Ensured(q, r).page, <<ChannelJoinMsg(r)>> \o Ensured(q, r).out)
        BY <1>3 DEF Selected
    <2> HIDE DEF q
    <2>2. /\ Selected(p, r).page = Ensured(q, r).page
          /\ Selected(p, r).out = <<ChannelJoinMsg(r)>> \o Ensured(q, r).out
        BY <2>1, ResultIs
    <2>3. CASE InThisCall(p, r)
        <3>1. Ensured(q, r) = Result(q, <<>>)
            BY <1>1, <2>3, EnsuredIs
        <3>2. Ensured(q, r).page = q /\ Ensured(q, r).out = <<>>
            BY <3>1, ResultIs
        <3>3. QED
            BY <2>2, <2>3, <3>2 DEF q
    <2>4. CASE ~InThisCall(p, r)
        <3>1. p.voice /\ p.room = r /\ p.callId = None
            BY <1>3, <2>4 DEF InThisCall
        <3>2. Ensured(q, r) = Joined(q, r)
            BY <1>1, <2>4, <3>1, EnsuredIs
        <3>3. QED
            BY <2>2, <3>1, <3>2 DEF q
    <2>5. QED
        BY <2>3, <2>4
<1>4. QED
    BY <1>2, <1>3

LEMMA SelectedTypes ==
    ASSUME NEW p \in Page, NEW r \in Rooms
    PROVE  LET q == Selected(p, r).page IN
           q \in Page /\ Selected(p, r).out \in Seq(Requests) /\ (q.modal => q.cur # None)
<1> DEFINE s == [p EXCEPT !.cur = r]
           j == <<ChannelJoinMsg(r)>>
<1>1. s \in Page /\ s.cur = r /\ r # None
    BY ShownIs, ConstantsAssumption
<1>2. j \in Seq(Requests) /\ j \o <<>> \in Seq(Requests)
    <2>1. ChannelJoinMsg(r) \in Requests
        BY RequestMessages
    <2>2. QED
        BY <2>1
<1>3. [s EXCEPT !.modal = TRUE] \in Page /\ [s EXCEPT !.modal = TRUE].cur = r
    BY <1>1 DEF Page
<1>4. Joined(s, r).page \in Page /\ Joined(s, r).page.modal = FALSE /\ Joined(s, r).out \in Seq(Requests)
    BY <1>1, JoinedTypes
<1>5. j \o Joined(s, r).out \in Seq(Requests)
    BY <1>2, <1>4, Lengthened
<1>6. \/ Selected(p, r).page = [s EXCEPT !.modal = TRUE] /\ Selected(p, r).out = j
      \/ Selected(p, r).page = s /\ Selected(p, r).out = j \o <<>>
      \/ Selected(p, r).page = Joined(s, r).page /\ Selected(p, r).out = j \o Joined(s, r).out
    BY SelectedIs
<1> HIDE DEF s, j
<1>7. QED
    BY <1>1, <1>2, <1>3, <1>4, <1>5, <1>6

\* The user is not waiting for an answer, or does not care.
Free(c) == c \in Hasty \/ (toServer[c] = <<>> /\ \A m \in ToSet(toClient[c]) : m.t \notin Answers)

\* What an action of the page c comes to: it was p, it becomes x.page and sends x.out.
\* Only a channel that is renamed makes it act on its own.
Clicked(c, x) ==
    /\ Authed(c)
    /\ LET p == page[c] IN
       \/ p.cur # None /\ x = Ensured(p, p.cur)
       \/ Free(c) /\ p.modal /\ x = Joined(p, p.cur)
       \/ Free(c) /\ x = Result([p EXCEPT !.modal = FALSE], <<>>)
       \/ Free(c) /\ p.callId # None /\ x = Left(p)
       \/ Free(c) /\ p.callId # None /\ x = Result(p, <<EndCallMsg(p.callId)>>)
       \/ \E r \in Rooms : Free(c) /\ ~p.modal /\ x = Selected(p, r)

LEMMA ClickTypes ==
    ASSUME SessionInv, NEW c \in Conns, NEW x, Clicked(c, x)
    PROVE  x.page \in Page /\ x.out \in Seq(Requests) /\ (x.page.modal => x.page.cur # None)
<1> DEFINE p == page[c]
<1>1. p \in Page /\ (p.modal => p.cur # None) /\ <<>> \in Seq(Requests)
    BY DEF SessionInv, SessionTypes
<1>2. p.cur # None => p.cur \in Rooms
    BY <1>1 DEF Page
<1> HIDE DEF p
<1>3. CASE p.cur # None /\ x = Ensured(p, p.cur)
    BY <1>1, <1>2, <1>3, EnsuredTypes
<1>4. CASE p.modal /\ x = Joined(p, p.cur)
    BY <1>1, <1>2, <1>4, JoinedTypes
<1>5. CASE x = Result([p EXCEPT !.modal = FALSE], <<>>)
    <2>1. x.page = [p EXCEPT !.modal = FALSE] /\ x.out = <<>>
        BY <1>5, ResultIs
    <2>2. [p EXCEPT !.modal = FALSE] \in Page /\ [p EXCEPT !.modal = FALSE].modal = FALSE
        BY <1>1 DEF Page
    <2>3. QED
        BY <1>1, <2>1, <2>2
<1>6. CASE p.callId # None /\ x = Left(p)
    <2>1. x.page = TornDown(p) /\ x.out = Farewell(p)
        BY <1>1, <1>6, LeftIs
    <2>2. TornDown(p) \in Page /\ TornDown(p).modal = p.modal /\ TornDown(p).cur = p.cur
        BY <1>1, TornDownIs
    <2>3. TornDown(p).modal => TornDown(p).cur # None
        BY <1>1, <2>2
    <2>4. QED
        BY <1>1, <2>1, <2>2, <2>3, FarewellTypes
<1>7. CASE p.callId # None /\ x = Result(p, <<EndCallMsg(p.callId)>>)
    <2>1. x.page = p /\ x.out = <<EndCallMsg(p.callId)>>
        BY <1>7, ResultIs
    <2>2. p.callId \in CallIds
        BY <1>1, <1>7 DEF Page
    <2>3. EndCallMsg(p.callId) \in Requests
        BY <2>2, RequestMessages
    <2>4. <<EndCallMsg(p.callId)>> \in Seq(Requests)
        BY <2>3
    <2>5. QED
        BY <1>1, <2>1, <2>4
<1>8. ASSUME NEW r \in Rooms, x = Selected(p, r)
      PROVE  x.page \in Page /\ x.out \in Seq(Requests) /\ (x.page.modal => x.page.cur # None)
    BY <1>1, <1>8, SelectedTypes
<1>9. QED
    BY <1>3, <1>4, <1>5, <1>6, <1>7, <1>8 DEF Clicked, p

\* A step is the server's, or the page's own: a message it takes or a click.
LEMMA StepIs ==
    ASSUME SessionInv, VoiceNext
    PROVE  \E c \in Conns :
              \/ Serve(c)
              \/ ClosePage(c)
              \/ Receive(c)
              \/ \E x : Clicked(c, x) /\ Does(c, x) /\ toClient' = toClient
<1>1. PICK c \in Conns :
          \/ Serve(c) \/ Receive(c) \/ ChannelUpdated(c) \/ ClosePage(c)
          \/ Join(c) \/ Cancel(c) \/ LeaveCall(c) \/ EndCall(c)
          \/ \E r \in Rooms : Select(c, r)
    BY DEF VoiceNext
<1> DEFINE p == page[c]
           Good == \E x : Clicked(c, x) /\ Does(c, x) /\ toClient' = toClient
<1>2. CASE ChannelUpdated(c)
    <2> DEFINE x == Ensured(p, p.cur)
    <2>1. Clicked(c, x) /\ Does(c, x) /\ toClient' = toClient
        BY <1>2 DEF ChannelUpdated, Clicked
    <2> HIDE DEF x
    <2>2. QED
        BY <2>1
<1>3. CASE Join(c)
    <2> DEFINE x == Joined(p, p.cur)
    <2>1. Clicked(c, x) /\ Does(c, x) /\ toClient' = toClient
        BY <1>3 DEF Join, Clicks, Clicked, Free
    <2> HIDE DEF x
    <2>2. QED
        BY <2>1
<1>4. CASE Cancel(c)
    <2> DEFINE x == Result([p EXCEPT !.modal = FALSE], <<>>)
    <2>1. Clicked(c, x) /\ Does(c, x) /\ toClient' = toClient
        BY <1>4 DEF Cancel, Clicks, Clicked, Free
    <2> HIDE DEF x
    <2>2. QED
        BY <2>1
<1>5. CASE LeaveCall(c)
    <2> DEFINE x == Left(p)
    <2>1. Clicked(c, x) /\ Does(c, x) /\ toClient' = toClient
        BY <1>5 DEF LeaveCall, Clicks, Clicked, Free
    <2> HIDE DEF x
    <2>2. QED
        BY <2>1
<1>6. CASE EndCall(c)
    <2> DEFINE x == Result(p, <<EndCallMsg(p.callId)>>)
    <2>1. Clicked(c, x) /\ Does(c, x) /\ toClient' = toClient
        BY <1>6 DEF EndCall, Clicks, Clicked, Free
    <2> HIDE DEF x
    <2>2. QED
        BY <2>1
<1>7. ASSUME NEW r \in Rooms, Select(c, r) PROVE Good
    <2> DEFINE x == Selected(p, r)
    <2>1. Clicked(c, x) /\ Does(c, x) /\ toClient' = toClient
        BY <1>7 DEF Select, Clicks, Clicked, Free
    <2> HIDE DEF x
    <2>2. QED
        BY <2>1
<1>8. QED
    BY <1>1, <1>2, <1>3, <1>4, <1>5, <1>6, <1>7

LEMMA DoesKeepsTypes ==
    ASSUME SessionInv, NEW c \in Conns, NEW x, Does(c, x), Authed(c),
           x.page \in Page, x.out \in Seq(Requests), x.page.modal => x.page.cur # None,
           NEW q \in Seq(Noted), toClient' = [toClient EXCEPT ![c] = q]
    PROVE  SessionInv'
<1>1. /\ page' = [page EXCEPT ![c] = x.page]
      /\ toServer' = [toServer EXCEPT ![c] = toServer[c] \o x.out]
      /\ UNCHANGED <<connVars, member, callVars>>
    BY DEF Does
<1>2. IInv'
    BY <1>1, QuietStep DEF SessionInv, IInv, TypeOK
<1>3. IndexExact'
    BY <1>1 DEF IndexExact, SessionInv, connVars
<1>4. page' \in [Conns -> Page] /\ \A e \in Conns : page'[e].modal => page'[e].cur # None
    BY <1>1 DEF SessionInv, SessionTypes
<1>5. toServer' \in [Conns -> Seq(Requests)]
    <2>1. toServer \in [Conns -> Seq(Requests)]
        BY DEF SessionInv, SessionTypes
    <2>2. toServer[c] \o x.out \in Seq(Requests)
        BY <2>1, Lengthened
    <2>3. QED
        BY <1>1, <2>1, <2>2
<1>6. toClient' \in [Conns -> Seq(Noted)]
    BY DEF SessionInv, SessionTypes
<1>7. \A e \in Conns : (Authed(e) \/ (connState[e] # "open" /\ toClient[e] = <<>>))'
    BY <1>1 DEF SessionInv, SessionTypes, Authed, connVars
<1>8. QED
    BY <1>2, <1>3, <1>4, <1>5, <1>6, <1>7 DEF SessionInv, SessionTypes

\* The page that takes a message is signed in.
LEMMA ReceiveIs ==
    ASSUME SessionInv, NEW c \in Conns, Receive(c)
    PROVE  LET m == Head(toClient[c])
               x == Handled(page[c], m)
           IN  /\ Authed(c) /\ toClient[c] # <<>> /\ m \in Noted
               /\ Does(c, x) /\ toClient' = [toClient EXCEPT ![c] = Tail(toClient[c])]
               /\ Tail(toClient[c]) \in Seq(Noted)
               /\ x.page \in Page /\ x.out \in Seq(Requests) /\ (x.page.modal => x.page.cur # None)
<1> DEFINE m == Head(toClient[c])
           x == Handled(page[c], m)
<1>1. toClient[c] # <<>> /\ Does(c, x) /\ toClient' = [toClient EXCEPT ![c] = Tail(toClient[c])]
    BY DEF Receive
<1>2. toClient[c] \in Seq(Noted) /\ Authed(c) /\ page[c] \in Page /\ (page[c].modal => page[c].cur # None)
    BY <1>1 DEF SessionInv, SessionTypes
<1>3. m \in Noted /\ Tail(toClient[c]) \in Seq(Noted)
    BY <1>1, <1>2, Shortened
<1> HIDE DEF m
<1>4. x.page \in Page /\ x.out \in Seq(Requests) /\ (x.page.modal => x.page.cur # None)
    BY <1>2, <1>3, HandledTypes
<1>5. QED
    BY <1>1, <1>2, <1>3, <1>4 DEF m

LEMMA SessionStep == SessionInv /\ [VoiceNext]_voiceVars => SessionInv'
<1>1. ASSUME SessionInv, UNCHANGED voiceVars PROVE SessionInv'
    <2>1. UNCHANGED <<connVars, member, callVars>> /\ UNCHANGED <<page, toServer, toClient>>
        BY <1>1 DEF voiceVars, serverVars
    <2>2. IInv'
        BY <1>1, <2>1, QuietStep DEF SessionInv, IInv, TypeOK
    <2>3. IndexExact' /\ SessionTypes'
        BY <1>1, <2>1 DEF SessionInv, IndexExact, SessionTypes, Authed, connVars
    <2>4. QED
        BY <2>2, <2>3 DEF SessionInv
<1>2. ASSUME SessionInv, VoiceNext PROVE SessionInv'
    <2>1. PICK c \in Conns :
              \/ Serve(c) \/ ClosePage(c) \/ Receive(c)
              \/ \E x : Clicked(c, x) /\ Does(c, x) /\ toClient' = toClient
        BY <1>2, StepIs
    <2>2. CASE Serve(c)
        BY <1>2, <2>2, ServeKeepsTypes
    <2>3. CASE ClosePage(c)
        BY <1>2, <2>3, CloseKeepsTypes
    <2>4. CASE Receive(c)
        <3> DEFINE x == Handled(page[c], Head(toClient[c]))
        <3>1. /\ Authed(c) /\ Does(c, x)
              /\ toClient' = [toClient EXCEPT ![c] = Tail(toClient[c])]
              /\ Tail(toClient[c]) \in Seq(Noted)
              /\ x.page \in Page /\ x.out \in Seq(Requests) /\ (x.page.modal => x.page.cur # None)
            BY <1>2, <2>4, ReceiveIs
        <3> HIDE DEF x
        <3>2. QED
            BY <1>2, <3>1, DoesKeepsTypes
    <2>5. ASSUME NEW x, Clicked(c, x), Does(c, x), toClient' = toClient PROVE SessionInv'
        <3>1. toClient[c] \in Seq(Noted) /\ toClient' = [toClient EXCEPT ![c] = toClient[c]]
            BY <1>2, <2>5 DEF SessionInv, SessionTypes
        <3>2. x.page \in Page /\ x.out \in Seq(Requests) /\ (x.page.modal => x.page.cur # None)
            BY <1>2, <2>5, ClickTypes
        <3>3. Authed(c)
            BY <2>5 DEF Clicked
        <3>4. QED
            BY <1>2, <2>5, <3>1, <3>2, <3>3, DoesKeepsTypes
    <2>6. QED
        BY <2>1, <2>2, <2>3, <2>4, <2>5
<1>3. QED
    BY <1>1, <1>2

-----------------------------------------------------------------------------
(***************************************************************************)
(* What a page knows of calls: those it holds, and those the messages on   *)
(* their way to it name as going on.                                       *)
(***************************************************************************)
PageNames(p)     == ({p.callId} \cup {p.calls[r] : r \in Rooms}) \ {None}
NamedBy(m)       == IF m.t \in Naming THEN {m.call} ELSE {}
\* Place 0 of the queue is the page.
NamedAt(K, q, i) == IF i = 0 THEN K ELSE NamedBy(q[i])

Ends(m, k)   == m.t = "rtc.call_end" /\ m.call = k
InRoom(m, r) == m.t \in OfRoom /\ m.room = r

\* Between a call and the next call of its room comes its end ...
EndsInOrder(K, q) ==
    \A i \in 0..Len(q) : \A k \in NamedAt(K, q, i) : \A j \in (i + 1)..Len(q) :
        InRoom(q[j], roomOf[k]) /\ q[j].call # k => \E l \in (i + 1)..j : Ends(q[l], k)

\* ... and nobody waits for the end of a call that is over.
EndsComing(K, q) ==
    \A i \in 0..Len(q) : \A k \in NamedAt(K, q, i) \ live : \E l \in (i + 1)..Len(q) : Ends(q[l], k)

\* Calls are named to members of their room.
NamedToMember(K, q, c) ==
    \A i \in 0..Len(q) : \A k \in NamedAt(K, q, i) :
        k \in CallIds /\ roomOf[k] \in Rooms /\ connUser[c] \in member[roomOf[k]]

PageRight(p) ==
    /\ p.callId # None => p.room \in Rooms /\ roomOf[p.callId] = p.room
    /\ \A r \in Rooms : p.calls[r] # None => roomOf[p.calls[r]] = r

QueueRight(q) ==
    \A i \in 1..Len(q) :
        /\ q[i].t \in OfRoom => roomOf[q[i].call] = q[i].room
        /\ q[i].t = "rtc.call_end" => q[i].call \notin live

KnownAt(p, q, c) ==
    /\ PageRight(p) /\ QueueRight(q)
    /\ NamedToMember(PageNames(p), q, c)
    /\ EndsInOrder(PageNames(p), q) /\ EndsComing(PageNames(p), q)

\* The server tells the page c of s.
LEMMA KnownGrows ==
    ASSUME NEW c \in Conns, NEW p \in Page, NEW q \in Seq(Noted), NEW s \in Seq(Noted),
           TypeOK, KnownAt(p, q, c), ServerGrows, TellsRight(c, Elements(s)),
           connUser'[c] = connUser[c]
    PROVE  KnownAt(p, q \o s, c)'
<1> DEFINE K == PageNames(p)
           z == q \o s
           n == Len(q)
           W == Elements(s)
<1>1. /\ z \in Seq(Noted) /\ n \in Nat /\ Len(s) \in Nat /\ Len(z) = n + Len(s)
      /\ \A i \in 1..n : z[i] = q[i] /\ q[i] \in Noted
      /\ \A i \in 1..Len(s) : z[n + i] = s[i] /\ s[i] \in W
    BY Lengthened DEF Elements
<1>2. \A i \in (n + 1)..Len(z) : z[i] \in W /\ z[i] \in Noted
    <2>1. ASSUME NEW i \in (n + 1)..Len(z) PROVE z[i] \in W /\ z[i] \in Noted
        <3> HIDE DEF W, z, n
        <3>1. i \in 1..Len(z) /\ \E x \in 1..Len(s) : n + x = i
            <4>1. i - n \in 1..Len(s) /\ n + (i - n) = i /\ i \in 1..Len(z)
                BY <1>1
            <4>2. QED
                BY <4>1
        <3>2. PICK x \in 1..Len(s) : n + x = i
            BY <3>1
        <3>3. z[n + x] = s[x] /\ s[x] \in W
            BY <1>1
        <3>4. z[i] \in W
            BY <3>2, <3>3
        <3>5. z[i] \in Noted
            BY <1>1, <3>1
        <3>6. QED
            BY <3>4, <3>5
    <2>2. QED
        BY <2>1
<1>3. \A m \in W : \E x \in 1..Len(s) : z[n + x] = m
    BY <1>1 DEF Elements
<1> HIDE DEF z, W, n
<1>4. /\ PageRight(p) /\ QueueRight(q) /\ NamedToMember(K, q, c)
      /\ EndsInOrder(K, q) /\ EndsComing(K, q)
    BY DEF KnownAt
<1>5. \A i \in 0..n : NamedAt(K, z, i) = NamedAt(K, q, i)
    BY <1>1 DEF NamedAt
<1> HIDE DEF K
<1>6. /\ \A k \in CallIds : roomOf[k] # None => roomOf'[k] = roomOf[k]
      /\ \A k \in live' \ live : roomOf[k] = None
      /\ \A r \in Rooms : member[r] \subseteq member'[r]
    BY DEF ServerGrows
<1>7. \A i \in (n + 1)..Len(z) : z[i].t \in OfRoom => \E b \in CallIds : About(c, W, b)
    BY <1>2 DEF TellsRight, NoCallMoves, W
<1>8. \A k \in live \ live' : \E b \in CallIds : About(c, W, b)
    BY DEF TellsRight, NoCallMoves, W
<1>9. ASSUME NEW i \in 0..n, NEW k \in NamedAt(K, z, i)
      PROVE  /\ k \in NamedAt(K, q, i) /\ k \in CallIds /\ roomOf'[k] = roomOf[k] /\ roomOf[k] \in Rooms
             /\ connUser'[c] \in member[roomOf[k]] /\ connUser'[c] \in member'[roomOf[k]]
    BY <1>4, <1>5, <1>6, <1>9, ConstantsAssumption DEF NamedToMember, n
<1>10. ASSUME NEW i \in (n + 1)..Len(z), NEW k \in NamedAt(K, z, i)
       PROVE  z[i] \in W /\ z[i].t \in Naming /\ z[i].call = k /\ z[i].t \in OfRoom /\ z[i].t # "rtc.call_end"
    <2>1. i # 0
        BY <1>1
    <2>2. QED
        BY <1>2, <1>10, <2>1 DEF NamedAt, NamedBy, Naming, OfRoom
<1>11. PageRight(p)'
    <2>1. /\ p.callId # None => p.callId \in CallIds /\ roomOf[p.callId] # None
          /\ \A r \in Rooms : p.calls[r] # None => p.calls[r] \in CallIds /\ roomOf[p.calls[r]] # None
        BY <1>4, ConstantsAssumption DEF PageRight, Page
    <2>2. QED
        BY <1>4, <1>6, <2>1 DEF PageRight
<1>12. QueueRight(z)'
    <2>1. ASSUME NEW i \in 1..Len(z)
          PROVE  /\ z[i].t \in OfRoom => roomOf'[z[i].call] = z[i].room
                 /\ z[i].t = "rtc.call_end" => z[i].call \notin live'
        <3>1. CASE i \in 1..n
            <4>1. z[i] = q[i] /\ q[i] \in Noted
                BY <1>1, <3>1
            <4>2. CASE q[i].t \in OfRoom
                <5>1. q[i].call \in CallIds /\ q[i].room \in Rooms /\ roomOf[q[i].call] = q[i].room
                    BY <1>4, <3>1, <4>1, <4>2, NotedFields DEF QueueRight, n
                <5>2. q[i].t = "rtc.call_end" => q[i].call \notin live
                    BY <1>4, <3>1 DEF QueueRight, n
                <5>3. QED
                    BY <1>6, <4>1, <5>1, <5>2, ConstantsAssumption
            <4>3. CASE q[i].t \notin OfRoom
                BY <4>1, <4>3 DEF OfRoom
            <4>4. QED
                BY <4>2, <4>3
        <3>2. CASE i \in (n + 1)..Len(z) /\ z[i].t \in OfRoom
            <4>1. PICK b \in CallIds : About(c, W, b)
                BY <1>7, <3>2
            <4>2. z[i] \in W
                BY <1>2, <3>2
            <4>3. QED
                BY <3>2, <4>1, <4>2 DEF About
        <3>3. QED
            BY <1>1, <3>1, <3>2 DEF OfRoom
    <2>2. QED
        BY <2>1 DEF QueueRight
<1>13. NamedToMember(K, z, c)'
    <2>1. ASSUME NEW i \in 0..Len(z), NEW k \in NamedAt(K, z, i)
          PROVE  k \in CallIds /\ roomOf'[k] \in Rooms /\ connUser'[c] \in member'[roomOf'[k]]
        <3>1. CASE i \in 0..n
            BY <1>9, <2>1, <3>1
        <3>2. CASE i \in (n + 1)..Len(z)
            <4>1. z[i] \in W /\ z[i].call = k /\ z[i].t \in OfRoom /\ z[i].t # "rtc.call_end"
                BY <1>10, <2>1, <3>2
            <4>2. PICK b \in CallIds : About(c, W, b)
                BY <1>7, <3>2, <4>1
            <4>3. k = b /\ z[i].room = roomOf'[b] /\ connUser[c] \in member[z[i].room] /\ roomOf'[b] \in Rooms
                BY <4>1, <4>2 DEF About
            <4>4. QED
                BY <1>6, <4>3
        <3>3. QED
            BY <1>1, <3>1, <3>2
    <2>2. QED
        BY <2>1 DEF NamedToMember, NamedAt, NamedBy
<1>14. EndsInOrder(K, z)'
    <2>1. ASSUME NEW i \in 0..Len(z), NEW k \in NamedAt(K, z, i), NEW j \in (i + 1)..Len(z),
                 InRoom(z[j], roomOf'[k]), z[j].call # k
          PROVE  \E l \in (i + 1)..j : Ends(z[l], k)
        <3>1. CASE j \in 1..n
            <4>1. i \in 0..n /\ i \in 0..Len(q) /\ j \in (i + 1)..Len(q) /\ z[j] = q[j]
                BY <1>1, <2>1, <3>1 DEF n
            <4>2. k \in NamedAt(K, q, i) /\ roomOf'[k] = roomOf[k]
                BY <1>9, <2>1, <4>1
            <4>3. PICK l \in (i + 1)..j : Ends(q[l], k)
                BY <1>4, <2>1, <4>1, <4>2 DEF EndsInOrder
            <4>4. z[l] = q[l]
                BY <1>1, <3>1, <4>1, <4>3
            <4>5. QED
                BY <4>3, <4>4
        <3>2. CASE j \in (n + 1)..Len(z)
            <4>1. z[j] \in W /\ z[j].t \in OfRoom
                BY <1>2, <2>1, <3>2 DEF InRoom
            <4>2. PICK b \in CallIds : About(c, W, b)
                BY <1>7, <3>2, <4>1
            <4>3. z[j].call = b /\ roomOf'[k] = roomOf'[b] /\ k # b
                BY <2>1, <4>1, <4>2 DEF About, InRoom
            <4>4. CASE i \in 0..n
                <5>1. k \in NamedAt(K, q, i) /\ k \in CallIds /\ roomOf'[k] = roomOf[k]
                    BY <1>9, <2>1, <4>4
                <5>2. k \notin live
                    BY <4>2, <4>3, <5>1 DEF About
                <5>3. PICK l \in (i + 1)..Len(q) : Ends(q[l], k)
                    BY <1>4, <4>4, <5>1, <5>2 DEF EndsComing, n
                <5>4. l \in 1..n /\ l \in (i + 1)..j
                    BY <1>1, <3>2, <4>4, <5>3 DEF n
                <5>5. QED
                    BY <1>1, <5>3, <5>4
            <4>5. CASE i \in (n + 1)..Len(z)
                <5>1. z[i] \in W /\ z[i].call = k /\ z[i].t \in OfRoom
                    BY <1>10, <2>1, <4>5
                <5>2. k = b
                    BY <4>2, <5>1 DEF About
                <5>3. QED
                    BY <4>3, <5>2
            <4>6. QED
                BY <1>1, <4>4, <4>5
        <3>3. QED
            BY <1>1, <3>1, <3>2
    <2>2. QED
        BY <2>1 DEF EndsInOrder, NamedAt, NamedBy
<1>15. EndsComing(K, z)'
    <2>1. ASSUME NEW i \in 0..Len(z), NEW k \in NamedAt(K, z, i), k \notin live'
          PROVE  \E l \in (i + 1)..Len(z) : Ends(z[l], k)
        <3>1. CASE i \in 0..n /\ k \notin live
            <4>1. k \in NamedAt(K, q, i)
                BY <1>9, <2>1, <3>1
            <4>2. PICK l \in (i + 1)..Len(q) : Ends(q[l], k)
                BY <1>4, <3>1, <4>1 DEF EndsComing, n
            <4>3. l \in 1..n /\ l \in (i + 1)..Len(z)
                BY <1>1, <3>1, <4>2 DEF n
            <4>4. QED
                BY <1>1, <4>2, <4>3
        <3>2. CASE i \in 0..n /\ k \in live
            <4>1. PICK b \in CallIds : About(c, W, b)
                BY <1>8, <2>1, <3>2
            <4>2. k = b
                BY <2>1, <3>2, <4>1 DEF About
            <4>3. connUser[c] \in member[roomOf'[k]]
                BY <1>9, <2>1, <3>2
            <4>4. PICK m \in W : m.t = "rtc.call_end" /\ m.call = k
                BY <2>1, <4>1, <4>2, <4>3 DEF About
            <4>5. PICK x \in 1..Len(s) : z[n + x] = m
                BY <1>3
            <4>6. n + x \in (i + 1)..Len(z)
                BY <1>1, <3>2
            <4>7. QED
                BY <4>4, <4>5, <4>6 DEF Ends
        <3>3. CASE i \in (n + 1)..Len(z)
            <4>1. z[i] \in W /\ z[i].call = k /\ z[i].t \in OfRoom /\ z[i].t # "rtc.call_end"
                BY <1>10, <2>1, <3>3
            <4>2. PICK b \in CallIds : About(c, W, b)
                BY <1>7, <3>3, <4>1
            <4>3. k \in live'
                BY <4>1, <4>2 DEF About
            <4>4. QED
                BY <2>1, <4>3
        <3>4. QED
            BY <1>1, <3>1, <3>2, <3>3
    <2>2. QED
        BY <2>1 DEF EndsComing, NamedAt, NamedBy
<1>16. QED
    BY <1>11, <1>12, <1>13, <1>14, <1>15 DEF KnownAt, K, z

\* The page takes the first message and becomes p2.
LEMMA KnownTail ==
    ASSUME NEW c \in Conns, NEW p, NEW p2, NEW q \in Seq(Noted), q # <<>>, KnownAt(p, q, c),
           PageRight(p2),
           PageNames(p2) \subseteq PageNames(p) \cup NamedBy(Head(q)),
           \A k \in PageNames(p2) : ~Ends(Head(q), k)
    PROVE  KnownAt(p2, Tail(q), c)
<1> DEFINE K == PageNames(p)
           K2 == PageNames(p2)
           z == Tail(q)
<1>1. /\ z \in Seq(Noted) /\ Len(q) \in Nat /\ Len(z) \in Nat /\ Len(z) = Len(q) - 1 /\ Head(q) = q[1]
      /\ 1 \in 1..Len(q) /\ \A i \in 1..Len(z) : z[i] = q[i + 1]
    BY Shortened
<1> HIDE DEF z
<1>2. /\ QueueRight(q) /\ NamedToMember(K, q, c) /\ EndsInOrder(K, q) /\ EndsComing(K, q)
    BY DEF KnownAt
<1> HIDE DEF K
\* What is named in the shorter queue was named in the longer one, before the end of k.
<1>3. ASSUME NEW i \in 0..Len(z), NEW k \in NamedAt(K2, z, i)
      PROVE  \E h \in 0..Len(q) :
                /\ k \in NamedAt(K, q, h)
                /\ h = i + 1 \/ (h = 0 /\ i = 0 /\ ~Ends(q[1], k))
    <2>1. CASE i # 0
        <3>1. i + 1 \in 0..Len(q) /\ z[i] = q[i + 1] /\ i + 1 # 0
            BY <1>1, <2>1
        <3>2. k \in NamedAt(K, q, i + 1)
            BY <1>3, <2>1, <3>1 DEF NamedAt
        <3>3. QED
            BY <3>1, <3>2
    <2>2. CASE i = 0 /\ k \in K
        <3>1. k \in K2 /\ ~Ends(q[1], k)
            BY <1>1, <1>3, <2>2 DEF NamedAt
        <3>2. k \in NamedAt(K, q, 0) /\ 0 \in 0..Len(q)
            BY <1>1, <2>2 DEF NamedAt
        <3>3. QED
            BY <2>2, <3>1, <3>2
    <2>3. CASE i = 0 /\ k \notin K
        <3>1. k \in NamedBy(q[1])
            BY <1>1, <1>3, <2>3 DEF NamedAt, K
        <3>2. k \in NamedAt(K, q, 1) /\ 1 \in 0..Len(q)
            BY <1>1, <3>1 DEF NamedAt
        <3>3. QED
            BY <2>3, <3>2
    <2>4. QED
        BY <2>1, <2>2, <2>3
<1> HIDE DEF K2
<1>4. QueueRight(z)
    <2>1. ASSUME NEW i \in 1..Len(z)
          PROVE  /\ z[i].t \in OfRoom => roomOf[z[i].call] = z[i].room
                 /\ z[i].t = "rtc.call_end" => z[i].call \notin live
        <3>1. i + 1 \in 1..Len(q) /\ z[i] = q[i + 1]
            BY <1>1
        <3>2. QED
            BY <1>2, <3>1 DEF QueueRight
    <2>2. QED
        BY <2>1 DEF QueueRight
<1>5. NamedToMember(K2, z, c)
    BY <1>2, <1>3 DEF NamedToMember
<1>6. ASSUME NEW i \in 0..Len(z), NEW k \in NamedAt(K2, z, i), NEW h \in 0..Len(q),
             h = i + 1 \/ (h = 0 /\ i = 0 /\ ~Ends(q[1], k)), NEW l \in (h + 1)..Len(q), Ends(q[l], k)
      PROVE  l - 1 \in (i + 1)..Len(z) /\ Ends(z[l - 1], k)
    <2>1. l > i + 1
        BY <1>1, <1>6
    <2>2. l - 1 \in (i + 1)..Len(z) /\ l - 1 \in 1..Len(z) /\ (l - 1) + 1 = l
        BY <1>1, <2>1
    <2>3. QED
        BY <1>1, <1>6, <2>2
<1>7. EndsInOrder(K2, z)
    <2>1. ASSUME NEW i \in 0..Len(z), NEW k \in NamedAt(K2, z, i), NEW j \in (i + 1)..Len(z),
                 InRoom(z[j], roomOf[k]), z[j].call # k
          PROVE  \E l \in (i + 1)..j : Ends(z[l], k)
        <3>1. PICK h \in 0..Len(q) : /\ k \in NamedAt(K, q, h)
                                     /\ h = i + 1 \/ (h = 0 /\ i = 0 /\ ~Ends(q[1], k))
            BY <1>3, <2>1
        <3>2. z[j] = q[j + 1] /\ j + 1 \in (h + 1)..Len(q)
            BY <1>1, <2>1, <3>1
        <3>3. PICK l \in (h + 1)..(j + 1) : Ends(q[l], k)
            BY <1>2, <2>1, <3>1, <3>2 DEF EndsInOrder
        <3>4. l \in (h + 1)..Len(q)
            BY <1>1, <3>2, <3>3
        <3>5. l - 1 \in (i + 1)..Len(z) /\ Ends(z[l - 1], k)
            BY <1>6, <2>1, <3>1, <3>3, <3>4
        <3>6. l - 1 \in (i + 1)..j
            BY <1>1, <3>3, <3>5
        <3>7. QED
            BY <3>5, <3>6
    <2>2. QED
        BY <2>1 DEF EndsInOrder
<1>8. EndsComing(K2, z)
    <2>1. ASSUME NEW i \in 0..Len(z), NEW k \in NamedAt(K2, z, i), k \notin live
          PROVE  \E l \in (i + 1)..Len(z) : Ends(z[l], k)
        <3>1. PICK h \in 0..Len(q) : /\ k \in NamedAt(K, q, h)
                                     /\ h = i + 1 \/ (h = 0 /\ i = 0 /\ ~Ends(q[1], k))
            BY <1>3, <2>1
        <3>2. PICK l \in (h + 1)..Len(q) : Ends(q[l], k)
            BY <1>2, <2>1, <3>1 DEF EndsComing
        <3>3. l - 1 \in (i + 1)..Len(z) /\ Ends(z[l - 1], k)
            BY <1>6, <2>1, <3>1, <3>2
        <3>4. QED
            BY <3>3
    <2>2. QED
        BY <2>1 DEF EndsComing
<1>9. QED
    BY <1>4, <1>5, <1>7, <1>8 DEF KnownAt, K2, z

\* The page becomes p2 and knows no new call.
LEMMA KnownClick ==
    ASSUME NEW c \in Conns, NEW p, NEW p2, NEW q \in Seq(Noted), KnownAt(p, q, c),
           PageRight(p2), PageNames(p2) \subseteq PageNames(p)
    PROVE  KnownAt(p2, q, c)
<1> DEFINE K == PageNames(p)
           K2 == PageNames(p2)
<1>1. \A i \in 0..Len(q) : NamedAt(K2, q, i) \subseteq NamedAt(K, q, i)
    BY DEF NamedAt
<1> HIDE DEF K, K2
<1>2. /\ QueueRight(q) /\ NamedToMember(K, q, c) /\ EndsInOrder(K, q) /\ EndsComing(K, q)
    BY DEF KnownAt, K
<1>3. NamedToMember(K2, q, c)
    BY <1>1, <1>2 DEF NamedToMember
<1>4. EndsInOrder(K2, q)
    BY <1>1, <1>2 DEF EndsInOrder
<1>5. EndsComing(K2, q)
    BY <1>1, <1>2 DEF EndsComing
<1>6. QED
    BY <1>2, <1>3, <1>4, <1>5 DEF KnownAt, K2

\* A step that leaves the server alone changes nothing of what is right.
LEMMA KnownStays ==
    ASSUME NEW c \in Conns, NEW p, NEW q, KnownAt(p, q, c), UNCHANGED <<connVars, member, callVars>>
    PROVE  KnownAt(p, q, c)'
<1>1. live' = live /\ roomOf' = roomOf /\ member' = member /\ connUser' = connUser
    BY DEF connVars, callVars
<1>2. QED
    BY <1>1 DEF KnownAt, PageRight, QueueRight, NamedToMember, EndsInOrder, EndsComing,
        PageNames, NamedAt, NamedBy, InRoom, Ends

\* joinVoiceChannel goes to the call it knows.
LEMMA JoinedKnown ==
    ASSUME NEW p \in Page, NEW r \in Rooms, PageRight(p)
    PROVE  PageRight(Joined(p, r).page) /\ PageNames(Joined(p, r).page) \subseteq PageNames(p)
<1> DEFINE q == Joined(p, r).page
<1>1. CASE InThisCall(p, r)
    <2>1. q = [p EXCEPT !.voice = TRUE, !.modal = FALSE]
        BY <1>1, JoinedSame
    <2>2. q.callId = p.callId /\ q.room = p.room /\ q.calls = p.calls
        BY <2>1 DEF Page
    <2> HIDE DEF q
    <2>3. PageRight(q) /\ PageNames(q) \subseteq PageNames(p)
        BY <2>2 DEF PageRight, PageNames
    <2>4. QED
        BY <2>3 DEF q
<1>2. CASE ~InThisCall(p, r)
    <2>1. q.calls = p.calls /\ q.room = r /\ q.callId = p.calls[r]
        BY <1>2, JoinedOther
    <2> HIDE DEF q
    <2>2. PageRight(q) /\ PageNames(q) \subseteq PageNames(p)
        BY <2>1 DEF PageRight, PageNames
    <2>3. QED
        BY <2>2 DEF q
<1>3. QED
    BY <1>1, <1>2

LEMMA EnsuredKnown ==
    ASSUME NEW p \in Page, NEW r \in Rooms, PageRight(p)
    PROVE  PageRight(Ensured(p, r).page) /\ PageNames(Ensured(p, r).page) \subseteq PageNames(p)
<1>1. CASE Ensured(p, r) = Joined(p, r)
    BY <1>1, JoinedKnown
<1>2. CASE Ensured(p, r) = Result(p, <<>>)
    <2>1. Ensured(p, r).page = p
        BY <1>2, ResultIs
    <2>2. QED
        BY <2>1
<1>3. QED
    BY <1>1, <1>2, EnsuredIs

LEMMA TornDownKnown ==
    ASSUME NEW p \in Page, PageRight(p)
    PROVE  PageRight(TornDown(p)) /\ PageNames(TornDown(p)) \subseteq PageNames(p)
BY TornDownIs DEF PageRight, PageNames

LEMMA ClickKnown ==
    ASSUME SessionInv, NEW c \in Conns, NEW x, Clicked(c, x), PageRight(page[c])
    PROVE  PageRight(x.page) /\ PageNames(x.page) \subseteq PageNames(page[c])
<1> DEFINE p == page[c]
<1>1. p \in Page /\ (p.modal => p.cur # None) /\ PageRight(p)
    BY DEF SessionInv, SessionTypes
<1>2. p.cur # None => p.cur \in Rooms
    BY <1>1 DEF Page
<1> HIDE DEF p
<1>3. CASE p.cur # None /\ x = Ensured(p, p.cur)
    BY <1>1, <1>2, <1>3, EnsuredKnown DEF p
<1>4. CASE p.modal /\ x = Joined(p, p.cur)
    BY <1>1, <1>2, <1>4, JoinedKnown DEF p
<1>5. CASE x = Result([p EXCEPT !.modal = FALSE], <<>>)
    <2> DEFINE q == [p EXCEPT !.modal = FALSE]
    <2>1. q.callId = p.callId /\ q.room = p.room /\ q.calls = p.calls
        BY <1>1 DEF Page
    <2> HIDE DEF q
    <2>2. x.page = q
        BY <1>5, ResultIs DEF q
    <2>3. PageRight(q) /\ PageNames(q) \subseteq PageNames(p)
        BY <1>1, <2>1 DEF PageRight, PageNames
    <2>4. QED
        BY <2>2, <2>3 DEF p
<1>6. CASE p.callId # None /\ x = Left(p)
    BY <1>1, <1>6, LeftIs, TornDownKnown DEF p
<1>7. CASE x = Result(p, <<EndCallMsg(p.callId)>>)
    <2>1. x.page = p
        BY <1>7, ResultIs
    <2>2. QED
        BY <1>1, <2>1 DEF p
<1>8. ASSUME NEW r \in Rooms, x = Selected(p, r)
      PROVE  PageRight(x.page) /\ PageNames(x.page) \subseteq PageNames(page[c])
    <2> DEFINE s == [p EXCEPT !.cur = r]
               d == [s EXCEPT !.modal = TRUE]
    <2>1. s \in Page /\ s.callId = p.callId /\ s.room = p.room /\ s.calls = p.calls
        BY <1>1, ShownIs
    <2>2. d.callId = p.callId /\ d.room = p.room /\ d.calls = p.calls
        BY <2>1 DEF Page
    <2>3. x.page = d \/ x.page = s \/ x.page = Joined(s, r).page
        BY <1>1, <1>8, SelectedIs
    <2> HIDE DEF s, d
    <2>4. PageRight(s) /\ PageNames(s) = PageNames(p) /\ PageRight(d) /\ PageNames(d) = PageNames(p)
        BY <1>1, <2>1, <2>2 DEF PageRight, PageNames
    <2>5. PageRight(Joined(s, r).page) /\ PageNames(Joined(s, r).page) \subseteq PageNames(s)
        BY <2>1, <2>4, JoinedKnown
    <2>6. QED
        BY <2>3, <2>4, <2>5 DEF p
<1>9. QED
    BY <1>3, <1>4, <1>5, <1>6, <1>7, <1>8 DEF Clicked, p

LEMMA HandledKnown ==
    ASSUME NEW p \in Page, NEW m \in Noted, PageRight(p),
           m.t \in OfRoom => roomOf[m.call] = m.room
    PROVE  LET q == Handled(p, m).page IN
           /\ PageRight(q) /\ PageNames(q) \subseteq PageNames(p) \cup NamedBy(m)
           /\ \A k \in PageNames(q) : ~Ends(m, k)
<1> DEFINE q == Handled(p, m).page
           Good == /\ PageRight(q) /\ PageNames(q) \subseteq PageNames(p) \cup NamedBy(m)
                   /\ \A k \in PageNames(q) : ~Ends(m, k)
<1>1. CASE m.t = "rtc.call_event"
    <2>1. /\ m.call \in CallIds /\ m.room \in Rooms
          /\ q = [p EXCEPT !.calls[m.room] = m.call]
        BY <1>1, HandledCallEvent
    <2>2. /\ q.callId = p.callId /\ q.room = p.room
          /\ \A r \in Rooms : q.calls[r] = IF r = m.room THEN m.call ELSE p.calls[r]
        BY <2>1 DEF Page
    <2> HIDE DEF q
    <2>3. PageRight(q) /\ PageNames(q) \subseteq PageNames(p) \cup {m.call}
        BY <1>1, <2>2 DEF PageRight, PageNames, OfRoom
    <2>4. QED
        BY <1>1, <2>3 DEF q, NamedBy, Naming, Ends
<1>2. CASE m.t = "rtc.call"
    <2>1. /\ m.call \in CallIds /\ m.room \in Rooms
          /\ q = [p EXCEPT !.callId = m.call, !.room = m.room]
        BY <1>2, HandledCall
    <2>2. q.callId = m.call /\ q.room = m.room /\ q.calls = p.calls
        BY <2>1 DEF Page
    <2> HIDE DEF q
    <2>3. PageRight(q) /\ PageNames(q) \subseteq PageNames(p) \cup {m.call}
        BY <1>2, <2>1, <2>2 DEF PageRight, PageNames, OfRoom
    <2>4. QED
        BY <1>2, <2>3 DEF q, NamedBy, Naming, Ends
<1>3. CASE m.t \in {"rtc.participants", "rtc.peer_event"}
    <2>1. q.callId = p.callId /\ q.room = p.room /\ q.calls = p.calls
        <3>1. CASE m.t = "rtc.participants"
            <4>1. q = [p EXCEPT !.self = m.self, !.peers = p.peers \cup (m.peers \ {m.self})]
                BY <3>1, HandledParticipants
            <4>2. QED
                BY <4>1 DEF Page
        <3>2. CASE m.t = "rtc.peer_event"
            <4>1. PICK ps \in SUBSET PeerIds : q = [p EXCEPT !.peers = ps]
                BY <3>2, HandledPeerEvent
            <4>2. QED
                BY <4>1 DEF Page
        <3>3. QED
            BY <1>3, <3>1, <3>2
    <2> HIDE DEF q
    <2>2. PageRight(q) /\ PageNames(q) = PageNames(p)
        BY <2>1 DEF PageRight, PageNames
    <2>3. QED
        BY <1>3, <2>2 DEF q, Ends
<1>4. CASE m.t = "rtc.call_end"
    <2>1. /\ m.call \in CallIds /\ m.room \in Rooms /\ q.calls = [p.calls EXCEPT ![m.room] = None]
          /\ (m.call = p.callId \/ m.room = p.room) => q.callId = None
          /\ ~(m.call = p.callId \/ m.room = p.room) => q.callId = p.callId /\ q.room = p.room
        BY <1>4, HandledCallEnd
    <2> HIDE DEF q
    <2>2. \A r \in Rooms : q.calls[r] = IF r = m.room THEN None ELSE p.calls[r]
        BY <2>1 DEF Page
    <2>3. PageRight(q) /\ PageNames(q) \subseteq PageNames(p)
        <3>1. q.callId = None \/ (q.callId = p.callId /\ q.room = p.room)
            BY <2>1
        <3>2. QED
            BY <2>2, <3>1 DEF PageRight, PageNames
    <2>4. m.call # None /\ roomOf[m.call] = m.room
        BY <1>4, <2>1, ConstantsAssumption DEF OfRoom
    <2>5. m.call \notin PageNames(q)
        <3>1. q.callId # m.call
            BY <2>1, <2>4
        <3>2. \A r \in Rooms : q.calls[r] # m.call
            BY <2>2, <2>4 DEF PageRight
        <3>3. QED
            BY <3>1, <3>2 DEF PageNames
    <2>6. QED
        BY <2>3, <2>5 DEF q, Ends
<1>5. CASE m.t = "error"
    <2>1. PageRight(q) /\ PageNames(q) \subseteq PageNames(p)
        <3>1. CASE p.cur = None /\ Handled(p, m) = Result(p, <<>>)
            <4>1. Handled(p, m).page = p
                BY <3>1, ResultIs
            <4>2. QED
                BY <4>1
        <3>2. CASE p.cur \in Rooms /\ Handled(p, m) = Ensured([p EXCEPT !.calls[p.cur] = None], p.cur)
            <4> DEFINE w == [p EXCEPT !.calls[p.cur] = None]
            <4>1. /\ w \in Page /\ w.callId = p.callId /\ w.room = p.room
                  /\ \A r \in Rooms : w.calls[r] = IF r = p.cur THEN None ELSE p.calls[r]
                BY <3>2 DEF Page
            <4>2. q = Ensured(w, p.cur).page
                BY <3>2
            <4> HIDE DEF w, q
            <4>3. PageRight(w) /\ PageNames(w) \subseteq PageNames(p)
                BY <4>1 DEF PageRight, PageNames
            <4>4. PageRight(Ensured(w, p.cur).page) /\ PageNames(Ensured(w, p.cur).page) \subseteq PageNames(w)
                BY <3>2, <4>1, <4>3, EnsuredKnown
            <4>5. QED
                BY <4>2, <4>3, <4>4
        <3>3. QED
            BY <1>5, <3>1, <3>2, HandledError
    <2>2. QED
        BY <1>5, <2>1 DEF Ends
<1>6. QED
    BY <1>1, <1>2, <1>3, <1>4, <1>5, NotedFields DEF OfRoom

-----------------------------------------------------------------------------
(***************************************************************************)
(* What pages know of calls stays right.                                   *)
(***************************************************************************)
Known    == \A c \in Conns : Authed(c) => KnownAt(page[c], toClient[c], c)
KnownInv == SessionInv /\ Known

LEMMA KnownInit == VoiceInit => KnownInv
<1> SUFFICES ASSUME VoiceInit PROVE KnownInv
    OBVIOUS
<1>1. ASSUME NEW c \in Conns PROVE KnownAt(page[c], toClient[c], c)
    <2>1. page[c] = EmptyPage /\ toClient[c] = <<>>
        BY DEF VoiceInit
    <2>2. EmptyPage.callId = None /\ \A r \in Rooms : EmptyPage.calls[r] = None
        BY DEF EmptyPage
    <2>3. PageNames(EmptyPage) = {} /\ PageRight(EmptyPage)
        BY <2>2 DEF PageNames, PageRight
    <2>4. Len(<<>>) = 0
        OBVIOUS
    <2>5. QueueRight(<<>>)
        BY <2>4 DEF QueueRight
    <2>6. \A i \in 0..Len(<<>>) : NamedAt({}, <<>>, i) = {}
        BY <2>4 DEF NamedAt
    <2>7. NamedToMember({}, <<>>, c) /\ EndsInOrder({}, <<>>) /\ EndsComing({}, <<>>)
        BY <2>6 DEF NamedToMember, EndsInOrder, EndsComing
    <2>8. QED
        BY <2>1, <2>3, <2>5, <2>7 DEF KnownAt
<1>2. QED
    BY <1>1, SessionInit DEF KnownInv, Known

\* A page that is told something: by a request of d, or by its end.
LEMMA KnownTold ==
    ASSUME KnownInv, NEW c \in Conns, NEW d \in Conns, NEW request, Authed(c),
           ServerGrows, Effect(c, d, request), NEW s \in Seq(Noted),
           toClient'[c] = toClient[c] \o s, Elements(s) = Noticing(c, request), page'[c] = page[c]
    PROVE  KnownAt(page[c], toClient[c], c)'
<1>1. PICK p \in Page : p = page[c]
    BY DEF KnownInv, SessionInv, SessionTypes
<1>2. PICK q \in Seq(Noted) : q = toClient[c]
    BY DEF KnownInv, SessionInv, SessionTypes
<1>3. KnownAt(p, q, c) /\ TypeOK /\ TellsRight(c, Elements(s)) /\ connUser'[c] = connUser[c]
    BY <1>1, <1>2 DEF KnownInv, Known, SessionInv, IInv, Effect
<1>4. KnownAt(p, q \o s, c)'
    BY <1>3, KnownGrows
<1>5. page'[c] = p /\ toClient'[c] = q \o s
    BY <1>1, <1>2
<1>6. QED
    BY <1>4, <1>5

\* A page that acts: it is p2 with the queue q2 afterwards.
LEMMA KnownActed ==
    ASSUME NEW c \in Conns, NEW p2, NEW q2, KnownAt(p2, q2, c),
           UNCHANGED <<connVars, member, callVars>>, page'[c] = p2, toClient'[c] = q2
    PROVE  KnownAt(page[c], toClient[c], c)'
<1>1. KnownAt(p2, q2, c)'
    BY KnownStays
<1>2. QED
    BY <1>1

LEMMA KnownStep == KnownInv /\ [VoiceNext]_voiceVars => KnownInv'
<1> SUFFICES ASSUME KnownInv, [VoiceNext]_voiceVars, NEW e \in Conns, Authed(e)'
             PROVE  KnownAt(page[e], toClient[e], e)'
    BY SessionStep DEF KnownInv, Known
<1>1. SessionInv /\ (Authed(e) => KnownAt(page[e], toClient[e], e))
    BY DEF KnownInv, Known
<1>2. ASSUME Authed(e), UNCHANGED <<connVars, member, callVars>>, page'[e] = page[e], toClient'[e] = toClient[e]
      PROVE  KnownAt(page[e], toClient[e], e)'
    <2>1. PICK p2 : p2 = page[e]
        OBVIOUS
    <2>2. PICK q2 : q2 = toClient[e]
        OBVIOUS
    <2>3. QED
        BY <1>1, <1>2, <2>1, <2>2, KnownActed
<1>3. CASE UNCHANGED voiceVars
    <2>1. Authed(e) /\ UNCHANGED <<connVars, member, callVars>> /\ page'[e] = page[e] /\ toClient'[e] = toClient[e]
        BY <1>3 DEF voiceVars, serverVars, connVars, Authed
    <2>2. QED
        BY <1>2, <2>1
<1>4. CASE VoiceNext
    <2>1. PICK c \in Conns :
              \/ Serve(c) \/ ClosePage(c) \/ Receive(c)
              \/ \E x : Clicked(c, x) /\ Does(c, x) /\ toClient' = toClient
        BY <1>1, <1>4, StepIs
    <2>2. CASE Serve(c)
        <3>1. Authed(e) /\ page'[e] = page[e]
            BY <2>2, ServeKeepsUsers DEF Authed, Serve
        <3>2. PICK request : request = Head(toServer[c]).t
            OBVIOUS
        <3>3. ServerGrows /\ Effect(e, c, request)
            BY <1>1, <2>2, <3>1, <3>2, ServeEffect DEF SessionInv
        <3>4. PICK s \in Seq(Noted) : toClient'[e] = toClient[e] \o s /\ Elements(s) = Noticing(e, request)
            BY <1>1, <2>2, <3>1, <3>2, ServeHeard
        <3>5. QED
            BY <3>1, <3>3, <3>4, KnownTold
    <2>3. CASE ClosePage(c)
        <3>1. Close(c)
            BY <2>3 DEF ClosePage
        <3>2. e # c /\ Authed(e)
            BY <1>1, <3>1 DEF Close, Authed, SessionInv, IInv, TypeOK
        <3>3. page'[e] = page[e]
            BY <1>1, <2>3, <3>2 DEF ClosePage, SessionInv, SessionTypes
        <3>4. ServerGrows /\ Effect(e, c, "close")
            BY <1>1, <3>1, <3>2, CloseEffect DEF SessionInv
        <3>5. PICK s \in Seq(Noted) : toClient'[e] = toClient[e] \o s /\ Elements(s) = Noticing(e, "close")
            BY <1>1, <2>3, <3>2, CloseHeard
        <3>6. QED
            BY <3>2, <3>3, <3>4, <3>5, KnownTold
    <2>4. CASE Receive(c)
        <3> DEFINE x == Handled(page[c], Head(toClient[c]))
        <3>1. /\ Authed(c) /\ Does(c, x) /\ toClient[c] # <<>> /\ Head(toClient[c]) \in Noted
              /\ toClient' = [toClient EXCEPT ![c] = Tail(toClient[c])]
            BY <1>1, <2>4, ReceiveIs
        <3>2. /\ UNCHANGED <<connVars, member, callVars>>
              /\ page' = [page EXCEPT ![c] = x.page]
            BY <3>1 DEF Does
        <3>3. Authed(e)
            BY <3>2 DEF connVars, Authed
        <3>4. CASE e # c
            BY <1>1, <1>2, <3>1, <3>2, <3>3, <3>4 DEF SessionInv, SessionTypes
        <3>5. CASE e = c
            <4>1. PICK p : p \in Page /\ p = page[c]
                BY <1>1 DEF SessionInv, SessionTypes
            <4>2. PICK q \in Seq(Noted) : q = toClient[c]
                BY <1>1 DEF SessionInv, SessionTypes
            <4>3. PICK m : m \in Noted /\ m = Head(q)
                BY <3>1, <4>2
            <4>4. PICK p2 : p2 = Handled(p, m).page
                OBVIOUS
            <4>5. KnownAt(p, q, c) /\ q # <<>>
                BY <1>1, <3>1, <3>5, <4>1, <4>2
            <4>6. PageRight(p) /\ (m.t \in OfRoom => roomOf[m.call] = m.room)
                BY <4>2, <4>3, <4>5, Shortened DEF KnownAt, QueueRight
            <4>7. /\ PageRight(p2) /\ PageNames(p2) \subseteq PageNames(p) \cup NamedBy(m)
                  /\ \A k \in PageNames(p2) : ~Ends(m, k)
                BY <4>1, <4>3, <4>4, <4>6, HandledKnown
            <4>8. KnownAt(p2, Tail(q), c)
                BY <4>2, <4>3, <4>5, <4>7, KnownTail
            <4>9. page'[c] = p2 /\ toClient'[c] = Tail(q)
                BY <1>1, <3>1, <3>2, <4>1, <4>2, <4>3, <4>4 DEF SessionInv, SessionTypes
            <4>10. PICK z : z = Tail(q)
                OBVIOUS
            <4>11. QED
                BY <3>2, <3>5, <4>8, <4>9, <4>10, KnownActed
        <3>6. QED
            BY <3>4, <3>5
    <2>5. ASSUME NEW x, Clicked(c, x), Does(c, x), toClient' = toClient
          PROVE  KnownAt(page[e], toClient[e], e)'
        <3>1. /\ UNCHANGED <<connVars, member, callVars>>
              /\ page' = [page EXCEPT ![c] = x.page]
            BY <2>5 DEF Does
        <3>2. Authed(e)
            BY <3>1 DEF connVars, Authed
        <3>3. CASE e # c
            BY <1>1, <1>2, <2>5, <3>1, <3>2, <3>3 DEF SessionInv, SessionTypes
        <3>4. CASE e = c
            <4>1. PICK p : p = page[c]
                OBVIOUS
            <4>2. PICK q \in Seq(Noted) : q = toClient[c]
                BY <1>1 DEF SessionInv, SessionTypes
            <4>3. PICK p2 : p2 = x.page
                OBVIOUS
            <4>4. KnownAt(p, q, c)
                BY <1>1, <3>2, <3>4, <4>1, <4>2
            <4>5. PageRight(p)
                BY <4>4 DEF KnownAt
            <4>6. PageRight(p2) /\ PageNames(p2) \subseteq PageNames(p)
                BY <1>1, <2>5, <4>1, <4>3, <4>5, ClickKnown
            <4>7. KnownAt(p2, q, c)
                BY <4>4, <4>6, KnownClick
            <4>8. page'[c] = p2 /\ toClient'[c] = q
                BY <1>1, <2>5, <3>1, <4>2, <4>3 DEF SessionInv, SessionTypes
            <4>9. QED
                BY <3>1, <3>4, <4>7, <4>8, KnownActed
        <3>5. QED
            BY <3>3, <3>4
    <2>6. QED
        BY <2>1, <2>2, <2>3, <2>4, <2>5
<1>5. QED
    BY <1>3, <1>4

LEMMA SpecKnown == VoiceSpec => []KnownInv
<1>1. QED
    BY KnownInit, KnownStep, PTL DEF VoiceSpec

\* The call that a page with nothing under way would join in a room is the one
\* that is going on there, whoever created, ended or left what meanwhile.
THEOREM KnownCallsAlwaysLive == VoiceSpec => []KnownCallsAreLive
<1>1. KnownInv => KnownCallsAreLive
    <2> SUFFICES ASSUME KnownInv, NEW c \in Conns, Idle(c), NEW r \in Rooms, page[c].calls[r] # None
                 PROVE  page[c].calls[r] \in CallOfRoom(r)
        BY DEF KnownCallsAreLive
    <2> DEFINE p == page[c]
               k == p.calls[r]
    <2>1. KnownAt(p, <<>>, c)
        BY DEF KnownInv, Known, Idle
    <2>2. k \in PageNames(p) /\ roomOf[k] = r
        BY <2>1 DEF PageNames, KnownAt, PageRight
    <2>3. Len(<<>>) = 0
        OBVIOUS
    <2>4. k \in live
        <3>1. 0 \in 0..Len(<<>>) /\ (0 + 1)..Len(<<>>) = {}
            BY <2>3
        <3>2. k \in NamedAt(PageNames(p), <<>>, 0)
            BY <2>2 DEF NamedAt
        <3>3. EndsComing(PageNames(p), <<>>)
            BY <2>1 DEF KnownAt
        <3> HIDE DEF p, k
        <3>4. QED
            BY <3>1, <3>2, <3>3 DEF EndsComing
    <2>5. QED
        BY <2>2, <2>4 DEF CallOfRoom
<1>2. QED
    BY <1>1, SpecKnown, PTL

-----------------------------------------------------------------------------
(***************************************************************************)
(* What holds of a page whose user waits for answers: p is the page, T and *)
(* Q are its two queues, A and B what is in them.                          *)
(***************************************************************************)
Asking == {"rtc.call_create", "rtc.join"}

JoinsCall(m, k) == m.t = "rtc.join" /\ m.call = k
Leaves(m, k, x) == m.t = "rtc.leave" /\ m.call = k /\ m.peer = x
Creates(m, r)   == m.t = "rtc.call_create" /\ m.room = r
Roster(m)       == m.t = "rtc.participants"

NoAsk(A)    == \A m \in A : m.t \notin Asking
NoAnswer(B) == \A m \in B : m.t \notin Answers
Quiet(A, B) == NoAsk(A) /\ (\A m \in A : m.t # "rtc.leave") /\ NoAnswer(B)

\* While something is under way the page is in the room it shows, or in none.
RoomShown(p, A, B) == Quiet(A, B) \/ p.room \in {None, p.cur}

\* The page asks for calls of the room it shows, and for a live call only if it
\* is the page's; it leaves calls of other rooms, or has left for good.
GoneOut(p, A, B) == ~p.voice /\ p.room = None /\ p.callId = None /\ NoAsk(A) /\ NoAnswer(B)
RequestRight(m, p, A, B, c) ==
    /\ m.t = "rtc.call_create" => m.room = p.cur
    /\ m.t = "rtc.join" =>
          /\ p.cur # None /\ roomOf[m.call] = p.cur /\ connUser[c] \in member[p.cur]
          /\ m.call \in live => m.call = p.callId
    /\ m.t = "rtc.leave" =>
          /\ roomOf[m.call] # None
          /\ roomOf[m.call] = p.cur => GoneOut(p, A, B)

\* A roster is of the page's call and seat, and whoever is said to leave is gone.
AnswerRight(m, p, c) ==
    /\ m.t = "rtc.call" => m.room = p.cur
    /\ Roster(m) =>
          /\ m.call = p.callId
          /\ p.callId \in live => connCall[c] = p.callId /\ connPeer[c] = m.self
    /\ m.t = "rtc.peer_event" /\ m.kind = "leave" =>
          /\ peerUser[m.peer] # None
          /\ \A k \in CallIds : m.peer \notin callPeers[k]

\* A live call of the page has its connection, or is being joined.
CallJoined(p, A, c) ==
    p.callId \in live =>
        /\ connCall[c] = p.callId \/ \E m \in A : JoinsCall(m, p.callId)
        /\ p.self # None => connCall[c] = p.callId /\ connPeer[c] = p.self

\* The call of the connection is the page's, or is being left.
SeatKnown(p, A, c) ==
    connCall[c] # None =>
        p.callId = connCall[c] \/ \E m \in A : Leaves(m, connCall[c], connPeer[c])

\* The page knows its seat and everybody in its call, or is about to be told.
Told(x, p, B) ==
    \/ x \in p.peers
    \/ \E m \in B : Roster(m) /\ x \in m.peers
    \/ \E m \in B : m.t = "rtc.peer_event" /\ m.kind = "join" /\ m.peer = x
RosterKnown(p, B, c) ==
    connCall[c] # None /\ p.callId = connCall[c] =>
        /\ p.self = connPeer[c] \/ \E m \in B : Roster(m)
        /\ \A x \in callPeers[p.callId] \ {connPeer[c]} : Told(x, p, B)

\* A page without a call that is in a room has asked for the call.
CallAsked(p, A, B) ==
    p.callId = None /\ p.room # None =>
        (\E m \in A : Creates(m, p.room)) \/ (\E m \in B : m.t = "rtc.call")

\* No roster comes after the end of its call ...
RosterFirst(p, Q) ==
    \A i \in 1..Len(Q) : Roster(Q[i]) => \A j \in 1..i : ~Ends(Q[j], p.callId)

\* ... and no request for a call before the user is made a member.
MemberFirst(p, T, c) ==
    p.cur # None =>
        \/ connUser[c] \in member[p.cur]
        \/ \E i \in 1..Len(T) : /\ T[i] = ChannelJoinMsg(p.cur)
                                /\ \A j \in 1..i : T[j].t \notin Asking

Fields(p, A, B, c) ==
    /\ p.callId = None => p.self = None
    /\ RoomShown(p, A, B)
    /\ \A m \in A : RequestRight(m, p, A, B, c)
    /\ \A m \in B : AnswerRight(m, p, c)
    /\ CallJoined(p, A, c) /\ SeatKnown(p, A, c) /\ RosterKnown(p, B, c) /\ CallAsked(p, A, B)

PatientAt(p, T, Q, c) ==
    Fields(p, Elements(T), Elements(Q), c) /\ RosterFirst(p, Q) /\ MemberFirst(p, T, c)

-----------------------------------------------------------------------------
LEMMA ElementsTyped ==
    ASSUME NEW M, NEW q \in Seq(M)
    PROVE  Elements(q) \subseteq M /\ Elements(q) = {q[i] : i \in 1..Len(q)}
<1>1. DOMAIN q = 1..Len(q) /\ \A i \in 1..Len(q) : q[i] \in M
    OBVIOUS
<1>2. QED
    BY <1>1 DEF Elements

\* What the invariant of the server says of one connection.
LEMMA SeatFacts ==
    ASSUME IInv, NEW c \in Conns
    PROVE  /\ connCall[c] = None <=> connPeer[c] = None
           /\ connCall[c] \in CallIds \cup {None} /\ connPeer[c] \in PeerIds \cup {None}
           /\ connCall[c] # None => connCall[c] \in live /\ connPeer[c] \in callPeers[connCall[c]]
           /\ live \subseteq CallIds /\ None \notin live
           /\ \A k \in CallIds : callPeers[k] \subseteq PeerIds
           /\ \A j, k \in live : roomOf[j] = roomOf[k] => j = k
BY ConstantsAssumption DEF IInv, TypeOK, Tables, CallsConsistent, ConnectionsAreInLiveCalls, InCall, OneCallPerRoom

\* What is on its way to the page, and the request that the server has answered,
\* do not bear on an end that is not in s.
LEMMA RosterFirstGrows ==
    ASSUME NEW p, NEW Q \in Seq(Noted), NEW s \in Seq(Noted), RosterFirst(p, Q),
           \A i \in 1..Len(s) : Roster(s[i]) =>
              /\ \A j \in 1..i : ~Ends(s[j], p.callId)
              /\ \A j \in 1..Len(Q) : ~Ends(Q[j], p.callId)
    PROVE  RosterFirst(p, Q \o s)
<1> DEFINE z == Q \o s
           n == Len(Q)
<1>1. /\ n \in Nat /\ Len(s) \in Nat /\ Len(z) = n + Len(s)
      /\ \A i \in 1..n : z[i] = Q[i]
      /\ \A i \in 1..Len(s) : z[n + i] = s[i]
    BY Lengthened
<1> HIDE DEF z
<1>2. \A i \in (n + 1)..Len(z) : \E h \in 1..Len(s) : n + h = i
    <2>1. ASSUME NEW i \in (n + 1)..Len(z) PROVE \E h \in 1..Len(s) : n + h = i
        <3>1. i - n \in 1..Len(s) /\ n + (i - n) = i
            BY <1>1
        <3>2. QED
            BY <3>1
    <2>2. QED
        BY <2>1
<1>3. ASSUME NEW i \in 1..Len(z), Roster(z[i]), NEW j \in 1..i PROVE ~Ends(z[j], p.callId)
    <2>1. CASE i \in 1..n
        <3>1. j \in 1..n /\ z[j] = Q[j] /\ z[i] = Q[i]
            BY <1>1, <1>3, <2>1
        <3>2. QED
            BY <1>3, <2>1, <3>1 DEF RosterFirst
    <2>2. CASE i \in (n + 1)..Len(z)
        <3>1. PICK h \in 1..Len(s) : n + h = i
            BY <1>2, <2>2
        <3>2. Roster(s[h])
            BY <1>1, <1>3, <3>1
        <3>3. CASE j \in 1..n
            BY <1>1, <3>2, <3>3
        <3>4. CASE j \in (n + 1)..Len(z)
            <4>1. PICK g \in 1..Len(s) : n + g = j
                BY <1>2, <3>4
            <4>2. g \in 1..h
                BY <1>1, <1>3, <3>1, <4>1
            <4>3. QED
                BY <1>1, <3>2, <4>1, <4>2
        <3>5. QED
            BY <1>1, <1>3, <3>3, <3>4
    <2>3. QED
        BY <1>1, <1>3, <2>1, <2>2
<1>4. QED
    BY <1>3 DEF RosterFirst, z

LEMMA RosterFirstTail ==
    ASSUME NEW p, NEW p2, NEW Q \in Seq(Noted), Q # <<>>, RosterFirst(p, Q), p2.callId = p.callId
    PROVE  RosterFirst(p2, Tail(Q))
<1> DEFINE z == Tail(Q)
<1>1. /\ Len(Q) \in Nat /\ Len(z) = Len(Q) - 1 /\ \A i \in 1..Len(z) : z[i] = Q[i + 1]
    BY Shortened
<1> HIDE DEF z
<1>2. ASSUME NEW i \in 1..Len(z), Roster(z[i]), NEW j \in 1..i PROVE ~Ends(z[j], p2.callId)
    <2>1. i + 1 \in 1..Len(Q) /\ j + 1 \in 1..(i + 1) /\ j \in 1..Len(z)
        BY <1>1
    <2>2. z[i] = Q[i + 1] /\ z[j] = Q[j + 1]
        BY <1>1, <2>1
    <2>3. QED
        BY <1>2, <2>1, <2>2 DEF RosterFirst
<1>3. QED
    BY <1>2 DEF RosterFirst, z

\* The first request was served, and the user is a member if it was to make him one.
LEMMA MemberFirstTail ==
    ASSUME NEW p, NEW T \in Seq(Requests), T # <<>>, NEW c \in Conns, MemberFirst(p, T, c),
           connUser'[c] = connUser[c], p.cur # None => member[p.cur] \subseteq member'[p.cur],
           Head(T) = ChannelJoinMsg(p.cur) => connUser[c] \in member'[p.cur]
    PROVE  MemberFirst(p, Tail(T), c)'
<1> DEFINE z == Tail(T)
<1>1. /\ Len(T) \in Nat /\ Len(z) = Len(T) - 1 /\ \A i \in 1..Len(z) : z[i] = T[i + 1]
      /\ Head(T) = T[1]
    BY Shortened
<1> HIDE DEF z
<1>2. SUFFICES ASSUME p.cur # None, connUser[c] \notin member'[p.cur]
               PROVE  \E i \in 1..Len(z) : z[i] = ChannelJoinMsg(p.cur) /\ \A j \in 1..i : z[j].t \notin Asking
    BY DEF MemberFirst, ChannelJoinMsg, z
<1>3. PICK i \in 1..Len(T) : T[i] = ChannelJoinMsg(p.cur) /\ \A j \in 1..i : T[j].t \notin Asking
    BY <1>2 DEF MemberFirst
<1>4. i # 1
    BY <1>1, <1>2, <1>3
<1>5. i - 1 \in 1..Len(z) /\ z[i - 1] = T[i]
    BY <1>1, <1>4
<1>6. \A j \in 1..(i - 1) : z[j].t \notin Asking
    <2>1. ASSUME NEW j \in 1..(i - 1) PROVE z[j].t \notin Asking
        <3>1. j + 1 \in 1..i /\ j \in 1..Len(z)
            BY <1>1, <1>4
        <3>2. z[j] = T[j + 1]
            BY <1>1, <3>1
        <3>3. QED
            BY <1>3, <3>1, <3>2
    <2>2. QED
        BY <2>1
<1>7. QED
    BY <1>3, <1>5, <1>6

\* Requests behind the others change nothing.
LEMMA MemberFirstGrows ==
    ASSUME NEW p, NEW p2, NEW T \in Seq(Requests), NEW out \in Seq(Requests), NEW c \in Conns,
           MemberFirst(p, T, c), p2.cur = p.cur
    PROVE  MemberFirst(p2, T \o out, c)
<1> DEFINE z == T \o out
<1>1. /\ Len(T) \in Nat /\ Len(out) \in Nat /\ Len(z) = Len(T) + Len(out) /\ \A i \in 1..Len(T) : z[i] = T[i]
    BY Lengthened
<1> HIDE DEF z
<1>2. SUFFICES ASSUME p.cur # None, connUser[c] \notin member[p.cur]
               PROVE  \E i \in 1..Len(z) : z[i] = ChannelJoinMsg(p.cur) /\ \A j \in 1..i : z[j].t \notin Asking
    BY DEF MemberFirst, z
<1>3. PICK i \in 1..Len(T) : T[i] = ChannelJoinMsg(p.cur) /\ \A j \in 1..i : T[j].t \notin Asking
    BY <1>2 DEF MemberFirst
<1>4. i \in 1..Len(z) /\ \A j \in 1..i : z[j] = T[j] /\ j \in 1..Len(T)
    BY <1>1
<1>5. QED
    BY <1>3, <1>4

-----------------------------------------------------------------------------
(***************************************************************************)
(* What the server does, to the page p whose user waits.                   *)
(***************************************************************************)
\* The call of the page, and its seat, when ids are used once.
LEMMA CallsGrow ==
    ASSUME live' \subseteq CallIds, NEW p \in Page, PageRight(p), ServerGrows
    PROVE  /\ p.callId \in CallIds \cup {None} /\ None \notin CallIds /\ None \notin Rooms
           /\ p.callId \in live' => p.callId \in live
           /\ \A k \in CallIds : roomOf[k] # None => roomOf'[k] = roomOf[k] /\ (k \in live' => k \in live)
           /\ p.cur \in Rooms \cup {None} /\ \A r \in Rooms : member[r] \subseteq member'[r]
<1>1. p.callId \in CallIds \cup {None} /\ p.cur \in Rooms \cup {None}
    BY DEF Page
<1>2. None \notin CallIds /\ None \notin Rooms
    BY ConstantsAssumption
<1>3. \A k \in CallIds : roomOf[k] # None => roomOf'[k] = roomOf[k] /\ (k \in live' => k \in live)
    BY DEF ServerGrows
<1>4. p.callId # None => roomOf[p.callId] # None
    BY <1>2 DEF PageRight
<1>5. None \notin live'
    BY <1>2
<1>6. QED
    BY <1>1, <1>2, <1>3, <1>4, <1>5 DEF ServerGrows

\* What the server may do to the page: it keeps its seat unless its call is over, it
\* is answered only if it has asked, and it hears of everybody who comes.
Served(p, A, A2, W, c) ==
    /\ A2 \subseteq A /\ W \subseteq Noted
    /\ \A m \in A \ A2 :
          /\ m.t = "rtc.call_create" => \E n \in W : n.t = "rtc.call"
          /\ m.t = "rtc.join" => m.call \notin live'
          /\ connCall'[c] # None => ~Leaves(m, connCall'[c], connPeer'[c])
    /\ connUser'[c] = connUser[c]
    /\ \/ connCall'[c] = connCall[c] /\ connPeer'[c] = connPeer[c]
       \/ connCall'[c] = None /\ connPeer'[c] = None /\ (p.callId = connCall[c] => p.callId \notin live')
    /\ connCall'[c] # None =>
          \A x \in callPeers'[connCall'[c]] \ callPeers[connCall'[c]] :
              \E m \in W : m.t = "rtc.peer_event" /\ m.kind = "join" /\ m.peer = x
    /\ \A m \in W :
          /\ m.t \in Answers => ~NoAsk(A)
          /\ m.t = "rtc.call" => m.room = p.cur
          /\ ~Roster(m)
    /\ LeavesDead(W)

\* Everything in the page's queues stays right.
LEMMA RequestsServed ==
    ASSUME live' \subseteq CallIds, NEW p \in Page, PageRight(p), ServerGrows, NEW c \in Conns,
           NEW A \in SUBSET Requests, NEW A2 \in SUBSET A, NEW B \in SUBSET Noted, NEW W \in SUBSET Noted,
           connUser'[c] = connUser[c], \A m \in W : m.t \in Answers => ~NoAsk(A),
           RoomShown(p, A, B), \A m \in A : RequestRight(m, p, A, B, c)
    PROVE  /\ RoomShown(p, A2, B \cup W)
           /\ \A m \in A2 : RequestRight(m, p, A2, B \cup W, c)'
<1>0. /\ \A k \in CallIds : roomOf[k] # None => roomOf'[k] = roomOf[k] /\ (k \in live' => k \in live)
      /\ p.cur \in Rooms \cup {None} /\ \A r \in Rooms : member[r] \subseteq member'[r]
    BY CallsGrow
<1>1. NoAsk(A) => NoAsk(A2) /\ (NoAnswer(B) => NoAnswer(B \cup W))
    BY DEF NoAsk, NoAnswer
<1>2. RoomShown(p, A2, B \cup W)
    BY <1>1 DEF RoomShown, Quiet
<1>3. ASSUME NEW m \in A2 PROVE RequestRight(m, p, A2, B \cup W, c)'
    <2>1. RequestRight(m, p, A, B, c) /\ m \in Requests
        OBVIOUS
    <2>2. m.t \in {"rtc.join", "rtc.leave"} => m.call \in CallIds
        BY <2>1, RequestFields
    <2>3. GoneOut(p, A, B) => GoneOut(p, A2, B \cup W)
        BY <1>1 DEF GoneOut
    <2>4. m.t = "rtc.call_create" => m.room = p.cur
        BY <2>1 DEF RequestRight
    <2>5. m.t = "rtc.join" => /\ p.cur # None /\ roomOf'[m.call] = p.cur /\ connUser'[c] \in member'[p.cur]
                              /\ m.call \in live' => m.call = p.callId
        BY <1>0, <2>1, <2>2 DEF RequestRight
    <2>6. m.t = "rtc.leave" => /\ roomOf'[m.call] # None
                               /\ roomOf'[m.call] = p.cur => GoneOut(p, A2, B \cup W)
        BY <1>0, <2>1, <2>2, <2>3 DEF RequestRight
    <2>7. QED
        BY <2>4, <2>5, <2>6 DEF RequestRight, GoneOut
<1>4. QED
    BY <1>2, <1>3

\* What is on its way to the page, when the page has its seat or has lost its call.
LEMMA AnswersServed ==
    ASSUME live' \subseteq CallIds, NEW p \in Page, PageRight(p), ServerGrows, NEW c \in Conns,
           NEW B \in SUBSET Noted, \A m \in B : AnswerRight(m, p, c),
           p.callId \in live' /\ connCall[c] = p.callId =>
              connCall'[c] = connCall[c] /\ connPeer'[c] = connPeer[c],
           NEW m \in B
    PROVE  AnswerRight(m, p, c)'
<1>1. p.callId \in live' => p.callId \in live
    BY CallsGrow
<1>2. AnswerRight(m, p, c)
    OBVIOUS
<1>3. m.t = "rtc.call" => m.room = p.cur
    BY <1>2 DEF AnswerRight
<1>4. Roster(m) => /\ m.call = p.callId
                   /\ p.callId \in live' => connCall'[c] = p.callId /\ connPeer'[c] = m.self
    BY <1>1, <1>2 DEF AnswerRight
<1>5. m.t = "rtc.peer_event" /\ m.kind = "leave" =>
          /\ peerUser'[m.peer] # None
          /\ \A k \in CallIds : m.peer \notin callPeers'[k]
    <2>1. m.t = "rtc.peer_event" => m.peer \in PeerIds
        BY NotedFields
    <2>2. QED
        BY <1>2, <2>1 DEF AnswerRight, ServerGrows
<1>6. QED
    BY <1>3, <1>4, <1>5 DEF AnswerRight

LEMMA FieldsServed ==
    ASSUME live' \subseteq CallIds, NEW p \in Page, PageRight(p), ServerGrows, NEW c \in Conns,
           NEW A \in SUBSET Requests, NEW A2, NEW B \in SUBSET Noted, NEW W,
           Fields(p, A, B, c), Served(p, A, A2, W, c), None \notin live
    PROVE  Fields(p, A2, B \cup W, c)'
<1>1. /\ A2 \in SUBSET A /\ W \in SUBSET Noted /\ connUser'[c] = connUser[c]
      /\ \A m \in W : /\ m.t \in Answers => ~NoAsk(A)
                      /\ m.t = "rtc.call" => m.room = p.cur
                      /\ ~Roster(m)
      /\ LeavesDead(W)
    BY DEF Served
<1>2. \A m \in A \ A2 :
          /\ m.t = "rtc.call_create" => \E n \in W : n.t = "rtc.call"
          /\ m.t = "rtc.join" => m.call \notin live'
          /\ connCall'[c] # None => ~Leaves(m, connCall'[c], connPeer'[c])
    BY DEF Served
<1>3. \/ connCall'[c] = connCall[c] /\ connPeer'[c] = connPeer[c]
      \/ connCall'[c] = None /\ connPeer'[c] = None /\ (p.callId = connCall[c] => p.callId \notin live')
    BY DEF Served
<1>4. /\ p.callId = None => p.self = None
      /\ RoomShown(p, A, B)
      /\ \A m \in A : RequestRight(m, p, A, B, c)
      /\ \A m \in B : AnswerRight(m, p, c)
      /\ CallJoined(p, A, c) /\ SeatKnown(p, A, c) /\ RosterKnown(p, B, c) /\ CallAsked(p, A, B)
    BY DEF Fields
<1>5. p.callId \in live' => p.callId \in live
    BY CallsGrow
<1>6. /\ RoomShown(p, A2, B \cup W)
      /\ \A m \in A2 : RequestRight(m, p, A2, B \cup W, c)'
    BY <1>1, <1>4, RequestsServed
<1>7. ASSUME NEW m \in B \cup W PROVE AnswerRight(m, p, c)'
    <2>1. CASE m \in B
        BY <1>3, <1>4, <2>1, AnswersServed
    <2>2. CASE m \in W
        <3>1. m.t = "rtc.peer_event" /\ m.kind = "leave" => peerUser'[m.peer] # None
            <4>1. m.t = "rtc.peer_event" => m.peer \in PeerIds
                BY <1>1, <2>2, NotedFields
            <4>2. QED
                BY <1>1, <2>2, <4>1 DEF LeavesDead, ServerGrows
        <3>2. QED
            BY <1>1, <2>2, <3>1 DEF AnswerRight, LeavesDead
    <2>3. QED
        BY <2>1, <2>2
<1>8. CallJoined(p, A2, c)'
    <2>1. SUFFICES ASSUME p.callId \in live'
                   PROVE  /\ connCall'[c] = p.callId \/ \E m \in A2 : JoinsCall(m, p.callId)
                          /\ p.self # None => connCall'[c] = p.callId /\ connPeer'[c] = p.self
        BY DEF CallJoined
    <2>2. /\ connCall[c] = p.callId \/ \E m \in A : JoinsCall(m, p.callId)
          /\ p.self # None => connCall[c] = p.callId /\ connPeer[c] = p.self
        BY <1>4, <1>5, <2>1 DEF CallJoined
    <2>3. \A m \in A : JoinsCall(m, p.callId) => m \in A2
        BY <1>2, <2>1 DEF JoinsCall
    <2>4. QED
        BY <1>3, <2>1, <2>2, <2>3
<1>9. SeatKnown(p, A2, c)'
    <2>1. SUFFICES ASSUME connCall'[c] # None
                   PROVE  p.callId = connCall'[c] \/ \E m \in A2 : Leaves(m, connCall'[c], connPeer'[c])
        BY DEF SeatKnown
    <2>2. connCall'[c] = connCall[c] /\ connPeer'[c] = connPeer[c]
        BY <1>3, <2>1
    <2>3. p.callId = connCall[c] \/ \E m \in A : Leaves(m, connCall[c], connPeer[c])
        BY <1>4, <2>1, <2>2 DEF SeatKnown
    <2>4. QED
        BY <1>2, <2>1, <2>2, <2>3
<1>10. RosterKnown(p, B \cup W, c)'
    <2>1. SUFFICES ASSUME connCall'[c] # None, p.callId = connCall'[c]
                   PROVE  /\ p.self = connPeer'[c] \/ \E m \in B \cup W : Roster(m)
                          /\ \A x \in callPeers'[p.callId] \ {connPeer'[c]} : Told(x, p, B \cup W)
        BY DEF RosterKnown
    <2>2. connCall'[c] = connCall[c] /\ connPeer'[c] = connPeer[c]
        BY <1>3, <2>1
    <2>3. /\ p.self = connPeer[c] \/ \E m \in B : Roster(m)
          /\ \A x \in callPeers[p.callId] \ {connPeer[c]} : Told(x, p, B)
        BY <1>4, <2>1, <2>2 DEF RosterKnown
    <2>4. ASSUME NEW x \in callPeers'[p.callId] \ {connPeer'[c]} PROVE Told(x, p, B \cup W)
        <3>1. CASE x \in callPeers[p.callId]
            BY <2>2, <2>3, <2>4, <3>1 DEF Told
        <3>2. CASE x \notin callPeers[p.callId]
            <4>1. \E m \in W : m.t = "rtc.peer_event" /\ m.kind = "join" /\ m.peer = x
                BY <2>1, <2>4, <3>2 DEF Served
            <4>2. QED
                BY <4>1 DEF Told
        <3>3. QED
            BY <3>1, <3>2
    <2>5. QED
        BY <2>2, <2>3, <2>4
<1>11. CallAsked(p, A2, B \cup W)
    <2>1. SUFFICES ASSUME p.callId = None, p.room # None
                   PROVE  (\E m \in A2 : Creates(m, p.room)) \/ (\E m \in B \cup W : m.t = "rtc.call")
        BY DEF CallAsked
    <2>2. (\E m \in A : Creates(m, p.room)) \/ (\E m \in B : m.t = "rtc.call")
        BY <1>4, <2>1 DEF CallAsked
    <2>3. QED
        BY <1>2, <2>2 DEF Creates
<1>12. QED
    BY <1>4, <1>6, <1>7, <1>8, <1>9, <1>10, <1>11 DEF Fields, RoomShown, Quiet, NoAsk, NoAnswer, CallAsked, Creates

\* The page has joined its call k, under the peer id x.
LEMMA FieldsSeated ==
    ASSUME live' \subseteq CallIds, NEW p \in Page, PageRight(p), ServerGrows, NEW c \in Conns,
           NEW A \in SUBSET Requests, NEW A2 \in SUBSET A, NEW B \in SUBSET Noted, NEW W \in SUBSET Noted,
           Fields(p, A, B, c), p.callId \in live, NEW x, Seated(c, p.callId, x, W),
           NEW m0 \in A, m0.t = "rtc.join", connCall[c] = p.callId => connPeer'[c] = connPeer[c],
           connUser'[c] = connUser[c], LeavesDead(W), p.callId # None
    PROVE  Fields(p, A2, B \cup W, c)'
<1>1. /\ p.callId = None => p.self = None
      /\ RoomShown(p, A, B)
      /\ \A m \in A : RequestRight(m, p, A, B, c)
      /\ \A m \in B : AnswerRight(m, p, c)
      /\ CallJoined(p, A, c)
    BY DEF Fields
<1>2. PICK ps : ps = callPeers'[p.callId]
    OBVIOUS
<1> DEFINE n == Participants(p.callId, x, ps)
<1>3. /\ connCall'[c] = p.callId /\ connPeer'[c] = x /\ n \in W
      /\ \A m \in W : \/ m = n
                      \/ m.t = "rtc.peer_event"
                      \/ m.t = "rtc.call_end"
    BY <1>2 DEF Seated
<1>4. Roster(n) /\ n.call = p.callId /\ n.self = x /\ n.peers = ps
    BY DEF Participants, Roster
<1> HIDE DEF n
<1>5. ~NoAsk(A)
    BY DEF NoAsk, Asking
<1>6. /\ RoomShown(p, A2, B \cup W)
      /\ \A m \in A2 : RequestRight(m, p, A2, B \cup W, c)'
    BY <1>1, <1>5, RequestsServed
<1>7. ASSUME NEW m \in B \cup W PROVE AnswerRight(m, p, c)'
    <2>1. CASE m \in B
        BY <1>1, <1>3, <2>1, AnswersServed
    <2>2. CASE m \in W
        <3>1. m.t = "rtc.peer_event" /\ m.kind = "leave" => peerUser'[m.peer] # None
            <4>1. m.t = "rtc.peer_event" => m.peer \in PeerIds
                BY <2>2, NotedFields
            <4>2. QED
                BY <2>2, <4>1 DEF LeavesDead, ServerGrows
        <3>2. m.t # "rtc.call" /\ (Roster(m) => m = n)
            BY <1>3, <1>4, <2>2 DEF Roster
        <3>3. QED
            BY <1>3, <1>4, <2>2, <3>1, <3>2 DEF AnswerRight, LeavesDead
    <2>3. QED
        BY <2>1, <2>2
<1>8. CallJoined(p, A2, c)'
    <2>1. p.self # None => connPeer'[c] = p.self
        BY <1>1 DEF CallJoined
    <2>2. QED
        BY <1>3, <2>1 DEF CallJoined
<1>9. SeatKnown(p, A2, c)'
    BY <1>3 DEF SeatKnown
<1>10. RosterKnown(p, B \cup W, c)'
    BY <1>2, <1>3, <1>4 DEF RosterKnown, Told
<1>11. CallAsked(p, A2, B \cup W)
    BY DEF CallAsked
<1>12. QED
    BY <1>1, <1>6, <1>7, <1>8, <1>9, <1>10, <1>11 DEF Fields, RoomShown, Quiet, NoAsk, NoAnswer, CallAsked, Creates

\* The same of the queues.
LEMMA PatientServed ==
    ASSUME live' \subseteq CallIds, None \notin live, NEW p \in Page, PageRight(p), ServerGrows, NEW c \in Conns,
           NEW T \in Seq(Requests), NEW T2, NEW Q \in Seq(Noted), NEW s \in Seq(Noted),
           PatientAt(p, T, Q, c), MemberFirst(p, T2, c)',
           Served(p, Elements(T), Elements(T2), Elements(s), c)
    PROVE  PatientAt(p, T2, Q \o s, c)'
<1> DEFINE A == Elements(T)
           A2 == Elements(T2)
           B == Elements(Q)
           W == Elements(s)
           z == Q \o s
<1>1. A \in SUBSET Requests /\ B \in SUBSET Noted /\ W \in SUBSET Noted /\ Elements(z) = B \cup W
    BY ElementsTyped, Lengthened
<1>2. \A i \in 1..Len(s) : ~Roster(s[i])
    <2>1. \A i \in 1..Len(s) : s[i] \in W
        BY ElementsTyped
    <2>2. QED
        BY <2>1 DEF Served
<1>3. Fields(p, A, B, c) /\ RosterFirst(p, Q) /\ Served(p, A, A2, W, c)
    BY DEF PatientAt
<1>4. RosterFirst(p, z)
    BY <1>2, <1>3, RosterFirstGrows
<1> HIDE DEF A, A2, B, W, z
<1>5. Fields(p, A2, B \cup W, c)'
    BY <1>1, <1>3, FieldsServed
<1>6. QED
    BY <1>1, <1>4, <1>5 DEF PatientAt, RosterFirst, A2, z

\* The same of a page that has joined its call.
LEMMA PatientSeated ==
    ASSUME live' \subseteq CallIds, None \notin live, NEW p \in Page, PageRight(p), ServerGrows, NEW c \in Conns,
           NEW T \in Seq(Requests), NEW T2, Elements(T2) \subseteq Elements(T),
           NEW Q \in Seq(Noted), NEW s \in Seq(Noted), QueueRight(Q),
           PatientAt(p, T, Q, c), MemberFirst(p, T2, c)',
           p.callId \in live, NEW x, Seated(c, p.callId, x, Elements(s)),
           NEW m0 \in Elements(T), m0.t = "rtc.join", connCall[c] = p.callId => connPeer'[c] = connPeer[c],
           connUser'[c] = connUser[c], LeavesDead(Elements(s))
    PROVE  PatientAt(p, T2, Q \o s, c)'
<1> DEFINE A == Elements(T)
           A2 == Elements(T2)
           B == Elements(Q)
           W == Elements(s)
           z == Q \o s
<1>1. A \in SUBSET Requests /\ B \in SUBSET Noted /\ W \in SUBSET Noted /\ Elements(z) = B \cup W
    BY ElementsTyped, Lengthened
<1>2. \A i \in 1..Len(s) : ~Ends(s[i], p.callId)
    <2>1. \A i \in 1..Len(s) : s[i] \in W
        BY ElementsTyped
    <2>2. \A m \in W : ~Ends(m, p.callId)
        BY DEF Seated, Ends, Participants
    <2>3. QED
        BY <2>1, <2>2
<1>3. \A j \in 1..Len(Q) : ~Ends(Q[j], p.callId)
    BY DEF QueueRight, Ends
<1>4. Fields(p, A, B, c) /\ RosterFirst(p, Q)
    BY DEF PatientAt
<1>5. RosterFirst(p, z)
    <2>1. \A i \in 1..Len(s) : Roster(s[i]) =>
              /\ \A j \in 1..i : ~Ends(s[j], p.callId)
              /\ \A j \in 1..Len(Q) : ~Ends(Q[j], p.callId)
        BY <1>2, <1>3
    <2>2. QED
        BY <1>4, <2>1, RosterFirstGrows
<1> HIDE DEF A, A2, B, W, z
<1>6. p.callId # None /\ A2 \in SUBSET A
    BY DEF A, A2
<1>7. Fields(p, A2, B \cup W, c)'
    BY <1>1, <1>4, <1>6, FieldsSeated DEF A, W
<1>8. QED
    BY <1>1, <1>5, <1>7 DEF PatientAt, RosterFirst, A2, z

\* A request of the page that is answered without effect.
LEMMA OwnReply ==
    ASSUME NEW p \in Page, NEW c \in Conns, NEW m, NEW A2, NEW n, Reply(c, n),
           Noticed(n, m.t) => n \in Noted /\ n.t = "error" /\ m.t \in Asking,
           m.t # "rtc.call_create", m.t = "rtc.join" => m.call \notin live,
           m.t = "rtc.leave" => ~PeerMatch(c, m.call, m.peer)
    PROVE  Served(p, {m} \cup A2, A2, Noticing(c, m.t), c)
<1> DEFINE W == Noticing(c, m.t)
<1>1. sent' = ToAll({c}, n) /\ UNCHANGED <<connVars, member, callVars>>
    BY DEF Reply, To
<1>2. Written(c) = Copy(c, {c}, n)
    BY <1>1, WrittenOne
<1>3. \A e \in W : e \in Noted /\ e.t = "error" /\ m.t \in Asking
    BY <1>2 DEF Noticing, Copy
<1> HIDE DEF W
<1>4. /\ connCall' = connCall /\ connPeer' = connPeer /\ connUser' = connUser
      /\ callPeers' = callPeers /\ live' = live
    BY <1>1 DEF connVars, callVars
<1>5. \A e \in W : /\ e.t \in Answers => ~NoAsk({m} \cup A2)
                   /\ e.t # "rtc.call" /\ ~Roster(e)
    BY <1>3 DEF NoAsk, Roster
<1>6. LeavesDead(W)
    BY <1>3 DEF LeavesDead
<1>7. \A e \in ({m} \cup A2) \ A2 :
          /\ e.t # "rtc.call_create"
          /\ e.t = "rtc.join" => e.call \notin live'
          /\ ~Leaves(e, connCall'[c], connPeer'[c])
    BY <1>4 DEF Leaves, PeerMatch
<1>8. W \subseteq Noted
    BY <1>3
<1>9. QED
    BY <1>4, <1>5, <1>6, <1>7, <1>8 DEF Served, W

LEMMA OwnChannelJoin ==
    ASSUME NEW p \in Page, NEW c \in Conns, NEW r, ChannelJoin(c, r), NEW m, m.t = "channel.join", NEW A2
    PROVE  Served(p, {m} \cup A2, A2, Noticing(c, m.t), c)
<1> DEFINE W == Noticing(c, m.t)
           n == MemberEvent("join", r)
<1>1. sent' = ToAll({c}, n) /\ UNCHANGED <<connVars, callVars>>
    BY DEF ChannelJoin, To
<1>2. n.t = "channel.member_event"
    BY DEF MemberEvent
<1> HIDE DEF n
<1>3. W = {}
    BY <1>1, <1>2, WrittenOne DEF Noticing, Copy, Noticed
<1> HIDE DEF W
<1>4. connCall' = connCall /\ connPeer' = connPeer /\ connUser' = connUser /\ callPeers' = callPeers
    BY <1>1 DEF connVars, callVars
<1>5. QED
    BY <1>3, <1>4 DEF Served, W, LeavesDead, Leaves

\* What others do, or an end of the call, serves the page as well.
LEMMA BystandsServed ==
    ASSUME NEW p \in Page, NEW c \in Conns, NEW A, NEW A2 \in SUBSET A, NEW W \in SUBSET Noted,
           Bystands(c, W), LeavesDead(W), connUser'[c] = connUser[c],
           \A m \in A \ A2 : m.t = "rtc.end_call"
    PROVE  Served(p, A, A2, W, c)
<1>1. \A m \in W : m.t \notin Answers /\ m.t # "rtc.call" /\ ~Roster(m)
    BY DEF Bystands, Answers, Roster
<1>2. \/ connCall'[c] = connCall[c] /\ connPeer'[c] = connPeer[c]
      \/ connCall'[c] = None /\ connPeer'[c] = None /\ (p.callId = connCall[c] => p.callId \notin live')
    BY DEF Bystands
<1>3. connCall'[c] # None =>
          \A x \in callPeers'[connCall'[c]] \ callPeers[connCall'[c]] :
              \E m \in W : m.t = "rtc.peer_event" /\ m.kind = "join" /\ m.peer = x
    BY DEF Bystands
<1>4. \A m \in A \ A2 : m.t # "rtc.call_create" /\ m.t # "rtc.join" /\ m.t # "rtc.leave"
    OBVIOUS
<1>5. QED
    BY <1>1, <1>2, <1>3, <1>4 DEF Served, Leaves

LEMMA OwnCreate ==
    ASSUME IInv, IndexExact, NEW p \in Page, NEW c \in Conns, Authed(c), NEW r \in Rooms, p.cur = r,
           connUser[c] \in member[r], RtcCallCreate(c, r), NEW m, m.t = "rtc.call_create", NEW A2
    PROVE  Served(p, {m} \cup A2, A2, Noticing(c, m.t), c)
<1> DEFINE W == Noticing(c, m.t)
<1>1. PICK k \in CallIds : Created(c, r, k)
    BY CreateIs
<1> DEFINE n1 == CallReply(k, r)
           n2 == CallCreated(k, r)
           S2 == RoomAudience(r)
<1>2. /\ ServerGrows /\ Effect(c, c, m.t) /\ W = Copy(c, {c}, n1) \cup Copy(c, S2, n2)
    BY <1>1, CreateEffect
<1>3. n1.t = "rtc.call" /\ n1.room = r /\ n2.t = "rtc.call_event"
    BY DEF CallReply, CallCreated
<1>4. c \in {c} \cap OpenConns
    BY DEF Authed, OpenConns
<1>5. /\ LeavesDead(W) /\ W \subseteq Noted /\ connUser'[c] = connUser[c]
    BY <1>2 DEF Effect
<1>6. connCall' = connCall /\ connPeer' = connPeer /\ callPeers' = callPeers
    BY <1>1 DEF Created, connVars
<1> HIDE DEF n1, n2, S2
<1>7. n1 \in W /\ \A n \in W : n = n1 \/ n = n2
    BY <1>2, <1>4 DEF Copy
<1> HIDE DEF W
<1>8. ~NoAsk({m} \cup A2)
    BY DEF NoAsk, Asking
<1>9. \A n \in W : (n.t = "rtc.call" => n.room = p.cur) /\ ~Roster(n)
    BY <1>3, <1>7 DEF Roster
<1>10. \E n \in W : n.t = "rtc.call"
    BY <1>3, <1>7
<1>11. QED
    BY <1>5, <1>6, <1>8, <1>9, <1>10 DEF Served, W, Leaves

LEMMA OwnLeave ==
    ASSUME IInv, NEW p \in Page, NEW c \in Conns, Authed(c), NEW m, m.t = "rtc.leave", NEW A2,
           m.call \in CallIds, m.peer \in PeerIds, RtcLeave(c, m.call, m.peer), p.callId # m.call
    PROVE  Served(p, {m} \cup A2, A2, Noticing(c, m.t), c)
<1> DEFINE W == Noticing(c, m.t)
<1>1. InCall(c) /\ connCall[c] = m.call
    BY ConstantsAssumption DEF RtcLeave, PeerMatch, InCall
<1>2. /\ Depart(c) /\ member' = member /\ connUser'[c] = connUser[c]
      /\ connPeer' = [connPeer EXCEPT ![c] = None] /\ connCall' = [connCall EXCEPT ![c] = None]
    BY DEF RtcLeave
<1>3. Effect(c, c, m.t) /\ \A n \in W : n.t \in {"rtc.peer_event", "rtc.call_end"}
    BY <1>1, <1>2, DepartEffect
<1> HIDE DEF W
<1>4. LeavesDead(W) /\ W \subseteq Noted
    BY <1>3 DEF Effect, W
<1>5. connPeer'[c] = None /\ connCall'[c] = None
    BY <1>2 DEF IInv, TypeOK
<1>6. \A n \in W : n.t \notin Answers /\ n.t # "rtc.call" /\ ~Roster(n)
    BY <1>3 DEF Answers, Roster
<1>7. QED
    BY <1>1, <1>2, <1>4, <1>5, <1>6 DEF Served, W

LEMMA OwnEnd ==
    ASSUME IInv, NEW p \in Page, NEW c \in Conns, Authed(c), NEW m, m.t = "rtc.end_call", NEW A2,
           m.call \in CallIds, RtcEndCall(c, m.call)
    PROVE  Served(p, {m} \cup A2, A2, Noticing(c, m.t), c)
<1>1. CASE Ended(m.call)
    <2> DEFINE W == Noticing(c, m.t)
    <2>1. Effect(c, c, m.t) /\ Bystands(c, W)
        BY <1>1, EndEffect
    <2>2. W \in SUBSET Noted /\ LeavesDead(W) /\ connUser'[c] = connUser[c]
        BY <2>1 DEF Effect
    <2> HIDE DEF W
    <2>3. A2 \in SUBSET ({m} \cup A2) /\ \A e \in ({m} \cup A2) \ A2 : e.t = "rtc.end_call"
        OBVIOUS
    <2>4. Served(p, {m} \cup A2, A2, W, c)
        BY <2>1, <2>2, <2>3, BystandsServed
    <2>5. QED
        BY <2>4 DEF W
<1>2. ASSUME NEW code, Reply(c, Error(code)) PROVE Served(p, {m} \cup A2, A2, Noticing(c, m.t), c)
    <2>1. ~Noticed(Error(code), m.t)
        BY ErrorFields DEF Noticed
    <2>2. QED
        BY <1>2, <2>1, OwnReply
<1>3. QED
    BY <1>1, <1>2, EndIs

LEMMA OwnJoin ==
    ASSUME IInv, NEW p \in Page, NEW c \in Conns, Authed(c), NEW m, m.t = "rtc.join", NEW A2,
           m.call \in CallIds, RtcJoin(c, m.call), connUser[c] \in member[roomOf[m.call]]
    PROVE  \/ Served(p, {m} \cup A2, A2, Noticing(c, m.t), c)
           \/ /\ m.call \in live
              /\ \E x : Seated(c, m.call, x, Noticing(c, m.t))
              /\ connCall[c] = m.call => connPeer'[c] = connPeer[c]
<1>1. CASE m.call \notin live /\ Reply(c, Error("NOT_FOUND"))
    <2> DEFINE n == Error("NOT_FOUND")
    <2>1. Noticed(n, m.t) => n \in Noted /\ n.t = "error" /\ m.t \in Asking
        BY NotedMessages, ErrorFields DEF Asking
    <2> HIDE DEF n
    <2>2. QED
        BY <1>1, <2>1, OwnReply DEF n
<1>2. CASE m.call \in live /\ JoinFirst(c, m.call)
    <2>1. connCall[c] # m.call
        BY <1>2, ConstantsAssumption DEF JoinFirst, InCall, IInv, Tables, CallsConsistent, ConnectionsAreInLiveCalls
    <2>2. QED
        BY <1>2, <2>1, FirstEffect
<1>3. CASE m.call \in live /\ JoinSwitch(c, m.call)
    BY <1>3, SwitchMoves, SwitchEffect
<1>4. CASE m.call \in live /\ JoinAgain(c, m.call)
    <2> DEFINE x == connPeer[c]
               ps == callPeers[m.call]
               n == Participants(m.call, x, ps)
               W == Noticing(c, m.t)
    <2>1. InCall(c) /\ connCall[c] = m.call /\ x \in ps /\ Reply(c, n)
        BY <1>4 DEF JoinAgain
    <2>2. n.t = "rtc.participants"
        BY DEF Participants
    <2>3. sent' = ToAll({c}, n) /\ connCall' = connCall /\ connPeer' = connPeer /\ callPeers' = callPeers
        BY <2>1 DEF Reply, To, connVars, callVars
    <2>4. c \in {c} \cap OpenConns
        BY DEF Authed, OpenConns
    <2>5. n = Participants(m.call, x, callPeers'[m.call])
        BY <2>3
    <2>6. ps \cup {x} = ps
        BY <2>1
    <2> HIDE DEF n
    <2>7. W = {n}
        BY <2>2, <2>3, <2>4, WrittenOne DEF Noticing, Noticed, Copy
    <2>8. Seated(c, m.call, x, W)
        BY <2>1, <2>3, <2>5, <2>6, <2>7 DEF Seated
    <2>9. QED
        BY <1>4, <2>3, <2>8
<1>5. QED
    BY <1>1, <1>2, <1>3, <1>4 DEF RtcJoin

\* The first request of a page, which is one of those it may have sent.
LEMMA OwnServed ==
    ASSUME IInv, IndexExact, NEW p \in Page, PageRight(p), NEW c \in Conns, Authed(c), NEW T \in Seq(Requests), T # <<>>,
           NEW B, Fields(p, Elements(T), B, c), MemberFirst(p, T, c),
           NEW m, m = Head(T), NEW A2, A2 = Elements(Tail(T)),
           \/ m.t = "channel.join" /\ ChannelJoin(c, m.room)
           \/ m.t = "rtc.call_create" /\ RtcCallCreate(c, m.room)
           \/ m.t = "rtc.join" /\ RtcJoin(c, m.call)
           \/ m.t = "rtc.leave" /\ PeerMatch(c, m.call, m.peer) /\ RtcLeave(c, m.call, m.peer)
           \/ m.t = "rtc.leave" /\ ~PeerMatch(c, m.call, m.peer) /\ PeerMismatch(c)
           \/ m.t = "rtc.end_call" /\ RtcEndCall(c, m.call)
    PROVE  \/ Served(p, Elements(T), A2, Noticing(c, m.t), c)
           \/ /\ m.t = "rtc.join" /\ p.callId \in live
              /\ \E x : Seated(c, p.callId, x, Noticing(c, m.t))
              /\ connCall[c] = p.callId => connPeer'[c] = connPeer[c]
<1> DEFINE A == Elements(T)
           W == Noticing(c, m.t)
<1>1. A = {m} \cup A2 /\ m \in Requests /\ m = T[1] /\ 1 \in 1..Len(T)
    BY Shortened
<1>2. RequestRight(m, p, A, B, c) /\ RoomShown(p, A, B)
    BY <1>1 DEF Fields
<1>3. p.cur \in Rooms \cup {None} /\ None \notin Rooms /\ p.callId \in CallIds \cup {None}
    BY ConstantsAssumption DEF Page
<1> HIDE DEF A
<1>4. CASE m.t = "channel.join" /\ ChannelJoin(c, m.room)
    <2>1. Served(p, {m} \cup A2, A2, W, c)
        BY <1>4, OwnChannelJoin
    <2>2. QED
        BY <1>1, <2>1 DEF A
<1>5. CASE m.t = "rtc.call_create" /\ RtcCallCreate(c, m.room)
    <2>1. m.room = p.cur /\ m.room \in Rooms
        BY <1>1, <1>2, <1>5, RequestFields DEF RequestRight
    <2>2. connUser[c] \in member[p.cur]
        <3>1. p.cur # None
            BY <1>3, <2>1
        <3>2. SUFFICES ASSUME NEW i \in 1..Len(T), \A j \in 1..i : T[j].t \notin Asking
                       PROVE  FALSE
            BY <3>1 DEF MemberFirst
        <3>3. 1 \in 1..i
            OBVIOUS
        <3>4. QED
            BY <1>1, <1>5, <3>2, <3>3 DEF Asking
    <2>3. RtcCallCreate(c, p.cur) /\ p.cur \in Rooms
        BY <1>5, <2>1
    <2>4. Served(p, {m} \cup A2, A2, W, c)
        BY <1>5, <2>2, <2>3, OwnCreate
    <2>5. QED
        BY <1>1, <2>4 DEF A
<1>6. CASE m.t = "rtc.join" /\ RtcJoin(c, m.call)
    <2>1. m.call \in CallIds
        BY <1>1, <1>6, RequestFields
    <2>2. /\ roomOf[m.call] = p.cur /\ connUser[c] \in member[p.cur]
          /\ m.call \in live => m.call = p.callId
        BY <1>2, <1>6 DEF RequestRight
    <2>3. connUser[c] \in member[roomOf[m.call]]
        BY <2>2
    <2>4. \/ Served(p, {m} \cup A2, A2, W, c)
          \/ /\ m.call \in live
             /\ \E x : Seated(c, m.call, x, W)
             /\ connCall[c] = m.call => connPeer'[c] = connPeer[c]
        BY <1>6, <2>1, <2>3, OwnJoin
    <2> HIDE DEF W
    <2>5. CASE Served(p, {m} \cup A2, A2, W, c)
        BY <1>1, <2>5 DEF A, W
    <2>6. CASE /\ m.call \in live
               /\ \E x : Seated(c, m.call, x, W)
               /\ connCall[c] = m.call => connPeer'[c] = connPeer[c]
        BY <1>6, <2>2, <2>6 DEF W
    <2>7. QED
        BY <2>4, <2>5, <2>6
<1>7. CASE m.t = "rtc.leave" /\ PeerMatch(c, m.call, m.peer) /\ RtcLeave(c, m.call, m.peer)
    <2>1. m.call \in CallIds /\ m.peer \in PeerIds
        BY <1>1, <1>7, RequestFields
    <2>2. p.callId # m.call
        <3>1. SUFFICES ASSUME p.callId = m.call PROVE FALSE
            OBVIOUS
        <3>2. p.callId # None
            BY <2>1, <3>1, ConstantsAssumption
        <3>3. roomOf[m.call] = p.room /\ p.room \in Rooms
            BY <3>1, <3>2 DEF PageRight
        <3>4. p.room # p.cur
            BY <1>2, <1>7, <3>2, <3>3 DEF RequestRight, GoneOut
        <3>5. ~Quiet(A, B)
            BY <1>1, <1>7 DEF Quiet
        <3>6. QED
            BY <1>2, <1>3, <3>3, <3>4, <3>5 DEF RoomShown
    <2>3. Served(p, {m} \cup A2, A2, W, c)
        BY <1>7, <2>1, <2>2, OwnLeave
    <2>4. QED
        BY <1>1, <2>3 DEF A
<1>8. CASE m.t = "rtc.leave" /\ ~PeerMatch(c, m.call, m.peer) /\ PeerMismatch(c)
    <2>1. PICK n : n = Error("FORBIDDEN") /\ Reply(c, n)
        BY <1>8 DEF PeerMismatch
    <2>2. ~Noticed(n, m.t)
        BY <1>8, <2>1, ErrorFields DEF Noticed
    <2>3. Served(p, {m} \cup A2, A2, W, c)
        BY <1>8, <2>1, <2>2, OwnReply
    <2>4. QED
        BY <1>1, <2>3 DEF A
<1>9. CASE m.t = "rtc.end_call" /\ RtcEndCall(c, m.call)
    <2>1. m.call \in CallIds
        BY <1>1, <1>9, RequestFields
    <2>2. Served(p, {m} \cup A2, A2, W, c)
        BY <1>9, <2>1, OwnEnd
    <2>3. QED
        BY <1>1, <2>2 DEF A
<1>10. QED
    BY <1>4, <1>5, <1>6, <1>7, <1>8, <1>9 DEF A, W

\* A page has its first request served.
LEMMA PatientOwn ==
    ASSUME KnownInv, KnownInv', NEW c \in Conns, Serve(c), PatientAt(page[c], toServer[c], toClient[c], c)
    PROVE  PatientAt(page[c], toServer[c], toClient[c], c)'
<1>1. /\ IInv /\ IndexExact /\ SessionTypes /\ SessionInv /\ Authed(c) /\ toServer[c] # <<>>
    BY DEF KnownInv, SessionInv, Serve
<1>2. PICK p \in Page : p = page[c]
    BY <1>1 DEF SessionTypes
<1>3. PICK T \in Seq(Requests) : T = toServer[c]
    BY <1>1 DEF SessionTypes
<1>4. PICK Q \in Seq(Noted) : Q = toClient[c]
    BY <1>1 DEF SessionTypes
<1>5. PICK m : m = Head(T)
    OBVIOUS
<1>6. PICK A2 : A2 = Elements(Tail(T))
    OBVIOUS
<1>7. KnownAt(p, Q, c)
    BY <1>1, <1>2, <1>4 DEF KnownInv, Known
<1>8. PageRight(p) /\ QueueRight(Q)
    BY <1>7 DEF KnownAt
<1>9. PatientAt(p, T, Q, c) /\ T # <<>>
    BY <1>1, <1>2, <1>3, <1>4
<1>10. Fields(p, Elements(T), Elements(Q), c) /\ MemberFirst(p, T, c)
    BY <1>9 DEF PatientAt
<1>11. \/ m.t = "channel.join" /\ ChannelJoin(c, m.room)
       \/ m.t = "rtc.call_create" /\ RtcCallCreate(c, m.room)
       \/ m.t = "rtc.join" /\ RtcJoin(c, m.call)
       \/ m.t = "rtc.leave" /\ PeerMatch(c, m.call, m.peer) /\ RtcLeave(c, m.call, m.peer)
       \/ m.t = "rtc.leave" /\ ~PeerMatch(c, m.call, m.peer) /\ PeerMismatch(c)
       \/ m.t = "rtc.end_call" /\ RtcEndCall(c, m.call)
    BY <1>3, <1>5 DEF Serve
<1>12. ServerGrows /\ Effect(c, c, m.t)
    BY <1>1, <1>3, <1>5, ServeEffect
<1>13. PICK s \in Seq(Noted) : toClient'[c] = Q \o s /\ Elements(s) = Noticing(c, m.t)
    BY <1>1, <1>3, <1>4, <1>5, ServeHeard
<1>14. connUser'[c] = connUser[c] /\ LeavesDead(Elements(s))
    BY <1>12, <1>13 DEF Effect
<1>15. page'[c] = p /\ toServer'[c] = Tail(T)
    BY <1>1, <1>2, <1>3 DEF Serve, SessionTypes
<1>16. live' \subseteq CallIds /\ None \notin live
    BY <1>1, ConstantsAssumption DEF KnownInv, SessionInv, IInv, TypeOK
<1>17. MemberFirst(p, Tail(T), c)'
    <2>1. p.cur \in Rooms \cup {None}
        BY DEF Page
    <2>2. p.cur # None => member[p.cur] \subseteq member'[p.cur]
        BY <1>12, <2>1 DEF ServerGrows
    <2>3. Head(T) = ChannelJoinMsg(p.cur) => connUser[c] \in member'[p.cur]
        <3>1. SUFFICES ASSUME m = ChannelJoinMsg(p.cur) PROVE connUser[c] \in member'[p.cur]
            BY <1>5
        <3>2. m.t = "channel.join" /\ m.room = p.cur
            BY <3>1 DEF ChannelJoinMsg
        <3>3. m \in Requests
            BY <1>5, <1>9, Shortened
        <3>4. p.cur \in Rooms /\ ChannelJoin(c, p.cur)
            BY <1>11, <3>2, <3>3, RequestFields
        <3>5. QED
            BY <1>1, <3>4 DEF ChannelJoin, IInv, TypeOK
    <2>4. QED
        BY <1>9, <1>10, <1>14, <2>2, <2>3, MemberFirstTail
<1>18. PICK T2 : T2 = Tail(T)
    OBVIOUS
<1>19. PatientAt(p, T2, Q \o s, c)'
    <2>1. CASE Served(p, Elements(T), A2, Noticing(c, m.t), c)
        <3>1. Served(p, Elements(T), Elements(T2), Elements(s), c)
            BY <1>6, <1>13, <1>18, <2>1
        <3>2. MemberFirst(p, T2, c)'
            BY <1>17, <1>18
        <3>3. QED
            BY <1>8, <1>9, <1>12, <1>16, <3>1, <3>2, PatientServed
    <2>2. CASE /\ m.t = "rtc.join" /\ p.callId \in live
               /\ \E x : Seated(c, p.callId, x, Noticing(c, m.t))
               /\ connCall[c] = p.callId => connPeer'[c] = connPeer[c]
        <3>1. PICK x : Seated(c, p.callId, x, Elements(s))
            BY <1>13, <2>2
        <3>2. m \in Elements(T) /\ Elements(T2) \subseteq Elements(T)
            BY <1>5, <1>9, <1>18, Shortened
        <3>3. MemberFirst(p, T2, c)'
            BY <1>17, <1>18
        <3>4. QED
            BY <1>8, <1>9, <1>12, <1>14, <1>16, <2>2, <3>1, <3>2, <3>3, PatientSeated
    <2>3. Served(p, Elements(T), A2, Noticing(c, m.t), c) \/
             (/\ m.t = "rtc.join" /\ p.callId \in live
              /\ \E x : Seated(c, p.callId, x, Noticing(c, m.t))
              /\ connCall[c] = p.callId => connPeer'[c] = connPeer[c])
        BY <1>1, <1>5, <1>6, <1>8, <1>9, <1>10, <1>11, OwnServed
    <2>4. QED
        BY <2>1, <2>2, <2>3
<1>20. QED
    BY <1>13, <1>15, <1>18, <1>19

\* A page hears of what another page, d, has brought about.
LEMMA PatientTold ==
    ASSUME KnownInv, KnownInv', NEW c \in Conns, NEW d \in Conns, c # d, NEW request, Authed(c),
           PatientAt(page[c], toServer[c], toClient[c], c),
           ServerGrows, Effect(c, d, request), NEW s \in Seq(Noted),
           toClient'[c] = toClient[c] \o s, Elements(s) = Noticing(c, request),
           page'[c] = page[c], toServer'[c] = toServer[c]
    PROVE  PatientAt(page[c], toServer[c], toClient[c], c)'
<1>1. IInv /\ SessionTypes
    BY DEF KnownInv, SessionInv
<1>2. PICK p \in Page : p = page[c]
    BY <1>1 DEF SessionTypes
<1>3. PICK T \in Seq(Requests) : T = toServer[c]
    BY <1>1 DEF SessionTypes
<1>4. PICK Q \in Seq(Noted) : Q = toClient[c]
    BY <1>1 DEF SessionTypes
<1>5. KnownAt(p, Q, c)
    BY <1>1, <1>2, <1>4 DEF KnownInv, Known
<1>6. PageRight(p)
    BY <1>5 DEF KnownAt
<1>7. PatientAt(p, T, Q, c)
    BY <1>2, <1>3, <1>4
<1>8. /\ Bystands(c, Elements(s)) /\ LeavesDead(Elements(s)) /\ connUser'[c] = connUser[c]
      /\ Elements(s) \in SUBSET Noted
    BY DEF Effect
<1>9. live' \subseteq CallIds /\ None \notin live
    BY <1>1, ConstantsAssumption DEF KnownInv, SessionInv, IInv, TypeOK
<1>10. MemberFirst(p, T, c)'
    <2>1. p.cur \in Rooms \cup {None}
        BY DEF Page
    <2>2. p.cur # None => member[p.cur] \subseteq member'[p.cur]
        BY <2>1 DEF ServerGrows
    <2>3. MemberFirst(p, T, c)
        BY <1>7 DEF PatientAt
    <2>4. QED
        BY <1>8, <2>2, <2>3 DEF MemberFirst, ChannelJoinMsg
<1>11. Served(p, Elements(T), Elements(T), Elements(s), c)
    <2>1. PICK A : A = Elements(T)
        OBVIOUS
    <2>2. PICK W \in SUBSET Noted : W = Elements(s)
        BY <1>8
    <2>3. A \in SUBSET A /\ \A m \in A \ A : m.t = "rtc.end_call"
        OBVIOUS
    <2>4. Bystands(c, W) /\ LeavesDead(W) /\ connUser'[c] = connUser[c]
        BY <1>8, <2>2
    <2>5. Served(p, A, A, W, c)
        BY <2>3, <2>4, BystandsServed
    <2>6. QED
        BY <2>1, <2>2, <2>5
<1>12. PatientAt(p, T, Q \o s, c)'
    BY <1>6, <1>7, <1>9, <1>10, <1>11, PatientServed
<1>13. toClient'[c] = Q \o s /\ page'[c] = p /\ toServer'[c] = T
    BY <1>2, <1>3, <1>4
<1>14. QED
    BY <1>12, <1>13

-----------------------------------------------------------------------------
(***************************************************************************)
(* What the page whose user waits does, when the server's tables rest.     *)
(***************************************************************************)
SameCall(p, p2) ==
    /\ p2.cur = p.cur /\ p2.callId = p.callId /\ p2.room = p.room /\ p2.self = p.self
    /\ p2.peers = p.peers
    /\ (p2.voice <=> p.voice) \/ p.callId # None

\* Nothing of the call changes: the page may have read news of other calls, or a
\* refusal, and may have asked the server to end its call.
LEMMA FieldsSame ==
    ASSUME NEW p, NEW p2, SameCall(p, p2), NEW c \in Conns, NEW A, NEW O, \A m \in O : m.t = "rtc.end_call",
           NEW B, NEW B2 \in SUBSET B, \A m \in B \ B2 : m.t \in {"rtc.call_event", "rtc.call_end", "error"},
           Fields(p, A, B, c)
    PROVE  Fields(p2, A \cup O, B2, c)
<1>1. /\ p.callId = None => p.self = None
      /\ RoomShown(p, A, B)
      /\ \A m \in A : RequestRight(m, p, A, B, c)
      /\ \A m \in B : AnswerRight(m, p, c)
      /\ CallJoined(p, A, c) /\ SeatKnown(p, A, c) /\ RosterKnown(p, B, c) /\ CallAsked(p, A, B)
    BY DEF Fields
<1>2. /\ p2.cur = p.cur /\ p2.callId = p.callId /\ p2.room = p.room /\ p2.self = p.self
      /\ p2.peers = p.peers
    BY DEF SameCall
<1>3. /\ NoAsk(A) => NoAsk(A \cup O)
      /\ NoAnswer(B) => NoAnswer(B2)
    BY DEF NoAsk, NoAnswer, Asking
<1>4. RoomShown(p2, A \cup O, B2)
    BY <1>1, <1>2, <1>3 DEF RoomShown, Quiet
<1>5. GoneOut(p, A, B) => GoneOut(p2, A \cup O, B2)
    BY <1>2, <1>3 DEF GoneOut, SameCall
<1>6. \A m \in A \cup O : RequestRight(m, p2, A \cup O, B2, c)
    BY <1>1, <1>2, <1>5 DEF RequestRight
<1>7. \A m \in B2 : AnswerRight(m, p2, c)
    BY <1>1, <1>2 DEF AnswerRight
<1>8. CallJoined(p2, A \cup O, c) /\ SeatKnown(p2, A \cup O, c)
    BY <1>1, <1>2 DEF CallJoined, SeatKnown
<1>9. RosterKnown(p2, B2, c)
    <2>1. \A m \in B : Roster(m) \/ m.t = "rtc.peer_event" => m \in B2
        BY DEF Roster
    <2>2. \A x : Told(x, p, B) => Told(x, p2, B2)
        BY <1>2, <2>1 DEF Told
    <2>3. QED
        BY <1>1, <1>2, <2>1, <2>2 DEF RosterKnown
<1>10. CallAsked(p2, A \cup O, B2)
    BY <1>1, <1>2 DEF CallAsked
<1>11. QED
    BY <1>1, <1>2, <1>4, <1>6, <1>7, <1>8, <1>9, <1>10 DEF Fields

\* Nothing else to come is a roster.
LEMMA NoRosters ==
    ASSUME NEW p, NEW Q \in Seq(Noted), \A m \in Elements(Q) : ~Roster(m)
    PROVE  RosterFirst(p, Q)
BY ElementsTyped DEF RosterFirst

LEMMA PatientActs ==
    ASSUME NEW p, NEW p2, NEW c \in Conns, NEW T \in Seq(Requests), NEW out \in Seq(Requests),
           NEW Q2 \in Seq(Noted), p2.cur = p.cur, MemberFirst(p, T, c), RosterFirst(p2, Q2),
           Fields(p2, Elements(T) \cup Elements(out), Elements(Q2), c)
    PROVE  PatientAt(p2, T \o out, Q2, c)
<1>1. Elements(T \o out) = Elements(T) \cup Elements(out)
    BY Lengthened
<1>2. MemberFirst(p2, T \o out, c)
    BY MemberFirstGrows
<1>3. QED
    BY <1>1, <1>2 DEF PatientAt

\* joinVoiceChannel of the room shown, by the user or by a page whose voice is on.
Joining(p, A, B) == p.voice \/ (A = {} /\ NoAnswer(B))

LEMMA NobodySeated ==
    ASSUME NEW p \in Page, PageRight(p), NEW c \in Conns, NEW A, NEW B \in SUBSET Noted, Fields(p, A, B, c),
           p.cur \in Rooms, ~InThisCall(p, p.cur)
    PROVE  \A m \in B : ~Roster(m)
<1> SUFFICES ASSUME NEW m \in B, Roster(m) PROVE FALSE
    OBVIOUS
<1>1. m.call \in CallIds /\ m.t \in Answers
    BY NotedFields DEF Roster, Answers
<1>2. p.callId # None
    BY <1>1, ConstantsAssumption DEF Fields, AnswerRight
<1>3. p.room \in Rooms /\ p.room # p.cur
    BY <1>2 DEF PageRight, InThisCall
<1>4. ~Quiet(A, B)
    BY <1>1 DEF Quiet, NoAnswer
<1>5. QED
    BY <1>3, <1>4, ConstantsAssumption DEF Fields, RoomShown

\* What is said when the page leaves its call, and asks for another.
LEMMA FarewellSays ==
    ASSUME NEW p \in Page
    PROVE  Elements(Farewell(p)) =
              IF p.callId # None /\ p.self # None THEN {LeaveMsg(p.callId, p.self)} ELSE {}
<1>1. Elements(<<>>) = {}
    BY DEF Elements
<1>2. PICK m : m = LeaveMsg(p.callId, p.self)
    OBVIOUS
<1>3. Elements(<<m>>) = {m}
    BY DEF Elements
<1>4. QED
    BY <1>1, <1>2, <1>3 DEF Farewell

LEMMA AskingSays ==
    ASSUME NEW p \in Page, NEW r \in Rooms
    PROVE  Elements(Append(Farewell(p), Ask(p, r))) = Elements(Farewell(p)) \cup {Ask(p, r)}
<1>1. PICK f \in Seq(Requests) : f = Farewell(p)
    BY FarewellTypes
<1>2. PICK m : m = Ask(p, r)
    OBVIOUS
<1>3. /\ DOMAIN Append(f, m) = 1..(Len(f) + 1) /\ DOMAIN f = 1..Len(f) /\ Len(f) \in Nat
      /\ \A i \in 1..Len(f) : Append(f, m)[i] = f[i]
      /\ Append(f, m)[Len(f) + 1] = m
    BY <1>1
<1>4. Elements(Append(f, m)) = Elements(f) \cup {m}
    <2>1. ASSUME NEW i \in 1..(Len(f) + 1) PROVE Append(f, m)[i] \in Elements(f) \cup {m}
        <3>1. CASE i \in 1..Len(f)
            BY <1>3, <3>1 DEF Elements
        <3>2. CASE i = Len(f) + 1
            BY <1>3, <3>2
        <3>3. QED
            BY <1>3, <3>1, <3>2
    <2>2. ASSUME NEW i \in 1..Len(f) PROVE f[i] \in Elements(Append(f, m))
        <3>1. i \in 1..(Len(f) + 1) /\ Append(f, m)[i] = f[i]
            BY <1>3
        <3>2. QED
            BY <1>3, <3>1 DEF Elements
    <2>3. m \in Elements(Append(f, m))
        BY <1>3 DEF Elements
    <2>4. Elements(Append(f, m)) \subseteq Elements(f) \cup {m}
        BY <1>3, <2>1 DEF Elements
    <2>5. Elements(f) \subseteq Elements(Append(f, m))
        BY <1>3, <2>2 DEF Elements
    <2>6. QED
        BY <2>3, <2>4, <2>5
<1>5. QED
    BY <1>1, <1>2, <1>4

\* The page q is in the room r that it shows from now on, and has asked for its call.
LEMMA FieldsJoined ==
    ASSUME NEW p \in Page, PageRight(p), NEW c \in Conns, None \notin live,
           connCall[c] # None => connPeer[c] # None /\ connCall[c] \in live,
           NEW A \in SUBSET Requests, NEW B \in SUBSET Noted, Fields(p, A, B, c), Joining(p, A, B),
           NEW r \in Rooms, p.cur = r, ~InThisCall(p, r),
           p.calls[r] # None => connUser[c] \in member[r],
           NEW q \in Page, q.cur = r, q.room = r, q.callId = p.calls[r], q.self = None,
           NEW O, O = (IF p.callId # None /\ p.self # None THEN {LeaveMsg(p.callId, p.self)} ELSE {}) \cup {Ask(p, r)}
    PROVE  Fields(q, A \cup O, B, c)
<1>1. /\ p.callId = None => p.self = None
      /\ \A m \in A : RequestRight(m, p, A, B, c)
      /\ \A m \in B : AnswerRight(m, p, c)
      /\ CallJoined(p, A, c) /\ SeatKnown(p, A, c) /\ RosterKnown(p, B, c)
    BY DEF Fields
<1>2. \A m \in B : ~Roster(m)
    BY NobodySeated
<1>3. /\ None \notin Rooms /\ None \notin CallIds
      /\ p.callId \in CallIds \cup {None} /\ p.calls[r] \in CallIds \cup {None}
    BY ConstantsAssumption DEF Page
<1>4. p.callId # None => p.room \in Rooms /\ roomOf[p.callId] = p.room /\ p.room # r
    BY DEF PageRight, InThisCall
<1>5. p.calls[r] # None => roomOf[p.calls[r]] = r
    BY DEF PageRight
<1>6. A # {} => ~GoneOut(p, A, B)
    BY DEF Joining, GoneOut
<1>7. ASSUME NEW m \in A PROVE RequestRight(m, q, A \cup O, B, c)
    <2>1. RequestRight(m, p, A, B, c) /\ ~GoneOut(p, A, B)
        BY <1>1, <1>6
    <2>2. m.t = "rtc.join" => m.call \in CallIds
        BY RequestFields
    <2>3. m.t = "rtc.join" => m.call \notin live
        BY <1>3, <1>4, <2>1, <2>2 DEF RequestRight
    <2>4. QED
        BY <2>1, <2>3 DEF RequestRight
<1>8. ASSUME NEW m \in O PROVE RequestRight(m, q, A \cup O, B, c)
    <2>1. CASE p.callId # None /\ m = LeaveMsg(p.callId, p.self)
        <3>1. m.t = "rtc.leave" /\ m.call = p.callId
            BY <2>1 DEF LeaveMsg
        <3>2. QED
            BY <1>3, <1>4, <2>1, <3>1 DEF RequestRight
    <2>2. CASE m = Ask(p, r)
        <3>1. CASE p.calls[r] # None
            <4>1. m.t = "rtc.join" /\ m.call = p.calls[r]
                BY <2>2, <3>1 DEF Ask, JoinMsg
            <4>2. QED
                BY <1>3, <1>5, <3>1, <4>1 DEF RequestRight
        <3>2. CASE p.calls[r] = None
            <4>1. m.t = "rtc.call_create" /\ m.room = r
                BY <2>2, <3>2 DEF Ask, CallCreateMsg
            <4>2. QED
                BY <4>1 DEF RequestRight
        <3>3. QED
            BY <3>1, <3>2
    <2>3. QED
        BY <2>1, <2>2
<1>9. \A m \in B : AnswerRight(m, q, c)
    BY <1>1, <1>2 DEF AnswerRight
<1>10. CallJoined(q, A \cup O, c)
    <2>1. q.callId # None => JoinsCall(Ask(p, r), q.callId)
        BY DEF Ask, JoinMsg, JoinsCall
    <2>2. CASE q.callId # None
        BY <2>1, <2>2 DEF CallJoined
    <2>3. CASE q.callId = None
        BY <2>3 DEF CallJoined
    <2>4. QED
        BY <2>2, <2>3
<1>11. SeatKnown(q, A \cup O, c)
    <2>1. SUFFICES ASSUME connCall[c] # None
                   PROVE  \E m \in A \cup O : Leaves(m, connCall[c], connPeer[c])
        BY DEF SeatKnown
    <2>2. CASE p.callId = connCall[c]
        <3>1. p.self = connPeer[c]
            BY <1>1, <1>2, <2>1, <2>2 DEF RosterKnown
        <3>2. LeaveMsg(p.callId, p.self) \in O
            BY <2>1, <2>2, <3>1
        <3>3. Leaves(LeaveMsg(p.callId, p.self), connCall[c], connPeer[c])
            BY <2>2, <3>1 DEF Leaves, LeaveMsg
        <3>4. QED
            BY <3>2, <3>3
    <2>3. CASE p.callId # connCall[c]
        BY <1>1, <2>1, <2>3 DEF SeatKnown
    <2>4. QED
        BY <2>2, <2>3
<1>12. ~(connCall[c] # None /\ q.callId = connCall[c])
    <2>1. SUFFICES ASSUME connCall[c] # None, p.calls[r] = connCall[c] PROVE FALSE
        OBVIOUS
    <2>2. roomOf[connCall[c]] = r
        BY <1>5, <2>1
    <2>3. p.callId # connCall[c]
        BY <1>4, <2>1, <2>2
    <2>4. PICK m \in A : Leaves(m, connCall[c], connPeer[c])
        BY <1>1, <2>1, <2>3 DEF SeatKnown
    <2>5. GoneOut(p, A, B)
        BY <1>1, <2>2, <2>4 DEF RequestRight, Leaves
    <2>6. QED
        BY <1>6, <2>4, <2>5
<1>13. RosterKnown(q, B, c)
    BY <1>12 DEF RosterKnown
<1>14. CallAsked(q, A \cup O, B)
    <2>1. SUFFICES ASSUME q.callId = None PROVE \E m \in A \cup O : Creates(m, q.room)
        BY DEF CallAsked
    <2>2. Ask(p, r) = CallCreateMsg(r)
        BY <2>1 DEF Ask
    <2>3. Creates(Ask(p, r), q.room)
        BY <2>2 DEF Creates, CallCreateMsg
    <2>4. QED
        BY <2>3
<1>15. RoomShown(q, A \cup O, B)
    BY DEF RoomShown
<1>16. QED
    BY <1>7, <1>8, <1>9, <1>10, <1>11, <1>13, <1>14, <1>15 DEF Fields

LEMMA PatientJoins ==
    ASSUME IInv, NEW p \in Page, NEW c \in Conns, NEW T \in Seq(Requests), NEW Q \in Seq(Noted),
           PageRight(p), NamedToMember(PageNames(p), Q, c), PatientAt(p, T, Q, c),
           Joining(p, Elements(T), Elements(Q)), p.cur \in Rooms
    PROVE  PatientAt(Joined(p, p.cur).page, T \o Joined(p, p.cur).out, Q, c)
<1> DEFINE A == Elements(T)
           B == Elements(Q)
<1>0. PICK r \in Rooms : r = p.cur
    OBVIOUS
<1> DEFINE q == Joined(p, r).page
           out == Joined(p, r).out
<1>1. A \in SUBSET Requests /\ B \in SUBSET Noted
    BY ElementsTyped
<1>2. Fields(p, A, B, c) /\ RosterFirst(p, Q) /\ MemberFirst(p, T, c)
    BY DEF PatientAt
<1>3. CASE InThisCall(p, r)
    <2> DEFINE w == [p EXCEPT !.voice = TRUE, !.modal = FALSE]
    <2>1. out = <<>> /\ q = w
        BY <1>3, JoinedSame
    <2>2. w.cur = p.cur /\ w.callId = p.callId /\ w.room = p.room /\ w.self = p.self /\ w.peers = p.peers
        BY DEF Page
    <2> HIDE DEF w, A, B, q, out
    <2>3. SameCall(p, w)
        BY <1>3, <2>2 DEF SameCall, InThisCall
    <2>4. Fields(w, A \cup {}, B, c)
        BY <1>2, <2>3, FieldsSame
    <2>5. Elements(<<>>) = {} /\ <<>> \in Seq(Requests)
        BY DEF Elements
    <2>6. RosterFirst(w, Q)
        BY <1>2, <2>2 DEF RosterFirst
    <2>7. PatientAt(w, T \o <<>>, Q, c)
        BY <1>2, <2>2, <2>4, <2>5, <2>6, PatientActs DEF A, B
    <2>8. QED
        BY <1>0, <2>1, <2>7 DEF q, out
<1>4. CASE ~InThisCall(p, r)
    <2>1. /\ out = Append(Farewell(p), Ask(p, r)) /\ out \in Seq(Requests)
          /\ q \in Page /\ q.cur = p.cur /\ q.room = r /\ q.callId = p.calls[r]
        BY <1>4, JoinedOther
    <2>12. p.callId # None => q.self = None /\ q.peers = {}
        BY <1>4, JoinedOther
    <2>13. p.callId = None => q.self = p.self /\ q.peers = p.peers
        BY <1>4, JoinedOther
    <2>2. q.self = None
        BY <1>2, <2>12, <2>13 DEF Fields
    <2>3. p.calls[r] # None => connUser[c] \in member[r]
        <3>1. SUFFICES ASSUME p.calls[r] # None PROVE connUser[c] \in member[r]
            OBVIOUS
        <3>2. p.calls[r] \in PageNames(p) /\ roomOf[p.calls[r]] = r
            BY <3>1 DEF PageNames, PageRight
        <3>3. PICK K : K = PageNames(p)
            OBVIOUS
        <3>4. p.calls[r] \in NamedAt(K, Q, 0) /\ 0 \in 0..Len(Q)
            BY <3>2, <3>3 DEF NamedAt
        <3>5. QED
            BY <3>2, <3>3, <3>4 DEF NamedToMember
    <2>4. connCall[c] # None => connPeer[c] # None /\ connCall[c] \in live
        BY SeatFacts
    <2>5. None \notin live
        BY SeatFacts
    <2> DEFINE O == Elements(out)
    <2>6. O = (IF p.callId # None /\ p.self # None THEN {LeaveMsg(p.callId, p.self)} ELSE {}) \cup {Ask(p, r)}
        BY <2>1, AskingSays, FarewellSays
    <2> HIDE DEF A, B, q, out, O
    <2>7. Fields(q, A \cup O, B, c)
        BY <1>1, <1>2, <1>4, <2>1, <2>2, <2>3, <2>4, <2>5, <2>6, <1>0, FieldsJoined DEF A, B
    <2>8. \A m \in B : ~Roster(m)
        BY <1>0, <1>1, <1>2, <1>4, NobodySeated
    <2>9. RosterFirst(q, Q)
        BY <2>8, NoRosters DEF B
    <2>10. PatientAt(q, T \o out, Q, c)
        BY <1>0, <1>2, <2>1, <2>7, <2>9, PatientActs DEF A, B, O
    <2>11. QED
        BY <1>0, <2>10 DEF q, out
<1>5. QED
    BY <1>3, <1>4

\* rtc.call: the call that the page has asked for, of the room it shows.
LEMMA FieldsCalled ==
    ASSUME NEW p \in Page, PageRight(p), NEW c \in Conns, None \notin live,
           NEW A \in SUBSET Requests, NEW n \in Noted, n.t = "rtc.call", NEW B2 \in SUBSET Noted,
           Fields(p, A, {n} \cup B2, c), roomOf[n.call] = n.room, connUser[c] \in member[n.room],
           p.callId = None \/ p.room # n.room \/ p.callId = n.call,
           NEW q \in Page, q.cur = p.cur, q.callId = n.call, q.room = n.room, q.self = p.self,
           q.peers = p.peers, q.voice = p.voice
    PROVE  Fields(q, A \cup {JoinMsg(n.call)}, B2, c)
<1> DEFINE B == {n} \cup B2
           k == n.call
           A2 == A \cup {JoinMsg(k)}
<1>1. /\ p.callId = None => p.self = None
      /\ RoomShown(p, A, B)
      /\ \A m \in A : RequestRight(m, p, A, B, c)
      /\ \A m \in B : AnswerRight(m, p, c)
      /\ CallJoined(p, A, c) /\ SeatKnown(p, A, c) /\ RosterKnown(p, B, c)
    BY DEF Fields
<1>2. /\ k \in CallIds /\ n.room \in Rooms /\ None \notin Rooms /\ None \notin CallIds
      /\ p.callId \in CallIds \cup {None}
    BY NotedFields, ConstantsAssumption DEF OfRoom, Page
<1>3. n \in B /\ n.room = p.cur
    BY <1>1 DEF AnswerRight
<1>4. ~NoAnswer(B)
    BY <1>3 DEF NoAnswer, Answers
<1>5. p.room \in {None, p.cur} /\ ~GoneOut(p, A, B)
    BY <1>1, <1>4 DEF RoomShown, Quiet, GoneOut
<1>6. p.callId # None => p.callId = k
    <2>1. p.callId # None => p.room = p.cur
        BY <1>2, <1>5 DEF PageRight
    <2>2. QED
        BY <1>3, <2>1
<1>7. JoinMsg(k).t = "rtc.join" /\ JoinMsg(k).call = k
    BY DEF JoinMsg
<1> HIDE DEF k
<1>8. ASSUME NEW m \in A2 PROVE RequestRight(m, q, A2, B2, c)
    <2>1. CASE m \in A
        <3>1. RequestRight(m, p, A, B, c)
            BY <1>1, <2>1
        <3>2. m.t = "rtc.join" => m.call \in CallIds
            BY <2>1, RequestFields
        <3>3. m.t = "rtc.join" /\ m.call \in live => m.call = k
            BY <1>2, <1>6, <3>1, <3>2 DEF RequestRight
        <3>4. QED
            BY <1>5, <3>1, <3>3 DEF RequestRight, k
    <2>2. CASE m = JoinMsg(k)
        BY <1>2, <1>3, <1>7, <2>2 DEF RequestRight, k
    <2>3. QED
        BY <2>1, <2>2
<1>9. ASSUME NEW m \in B2 PROVE AnswerRight(m, q, c)
    <2>1. AnswerRight(m, p, c)
        BY <1>1
    <2>2. Roster(m) => p.callId = k
        <3>1. Roster(m) => m.call \in CallIds
            BY NotedFields DEF Roster
        <3>2. QED
            BY <1>2, <1>6, <2>1, <3>1 DEF AnswerRight
    <2>3. QED
        BY <2>1, <2>2 DEF AnswerRight, k
<1>10. CallJoined(q, A2, c)
    <2>1. JoinsCall(JoinMsg(k), q.callId)
        BY <1>7 DEF JoinsCall, k
    <2>2. q.self # None => p.callId = k
        BY <1>1, <1>6
    <2>3. QED
        BY <1>1, <2>1, <2>2 DEF CallJoined, k
<1>11. SeatKnown(q, A2, c)
    BY <1>1, <1>6 DEF SeatKnown, k
<1>12. RosterKnown(q, B2, c)
    <2>1. SUFFICES ASSUME connCall[c] = k
                   PROVE  /\ q.self = connPeer[c] \/ \E m \in B2 : Roster(m)
                          /\ \A x \in callPeers[k] \ {connPeer[c]} : Told(x, q, B2)
        BY DEF RosterKnown, k
    <2>2. p.callId = k
        <3>1. SUFFICES ASSUME p.callId # k PROVE FALSE
            OBVIOUS
        <3>2. PICK m \in A : Leaves(m, connCall[c], connPeer[c])
            BY <1>1, <1>2, <2>1, <3>1 DEF SeatKnown
        <3>3. GoneOut(p, A, B)
            BY <1>1, <1>3, <2>1, <3>2 DEF RequestRight, Leaves, k
        <3>4. QED
            BY <1>5, <3>3
    <2>3. ~Roster(n) /\ n.t # "rtc.peer_event"
        BY DEF Roster
    <2>4. /\ p.self = connPeer[c] \/ \E m \in B : Roster(m)
          /\ \A x \in callPeers[k] \ {connPeer[c]} : Told(x, p, B)
        BY <1>1, <1>2, <2>1, <2>2 DEF RosterKnown
    <2>5. \A x : Told(x, p, B) => Told(x, q, B2)
        BY <2>3 DEF Told
    <2>6. QED
        BY <2>3, <2>4, <2>5
<1>13. CallAsked(q, A2, B2) /\ RoomShown(q, A2, B2) /\ q.callId # None
    BY <1>2, <1>3 DEF CallAsked, RoomShown, k
<1>14. QED
    BY <1>8, <1>9, <1>10, <1>11, <1>12, <1>13 DEF Fields, k

\* rtc.participants: the seat of the page, and who is there.
LEMMA FieldsRoster ==
    ASSUME NEW p \in Page, PageRight(p), NEW c \in Conns, connCall[c] # None => connCall[c] \in live,
           NEW A, NEW n \in Noted, Roster(n), NEW B2 \in SUBSET Noted,
           Fields(p, A, {n} \cup B2, c),
           NEW q, q.cur = p.cur, q.callId = p.callId, q.room = p.room, q.self = n.self,
           q.peers = p.peers \cup (n.peers \ {n.self}), q.voice = p.voice
    PROVE  Fields(q, A, B2, c)
<1> DEFINE B == {n} \cup B2
<1>1. /\ RoomShown(p, A, B)
      /\ \A m \in A : RequestRight(m, p, A, B, c)
      /\ \A m \in B : AnswerRight(m, p, c)
      /\ CallJoined(p, A, c) /\ SeatKnown(p, A, c) /\ RosterKnown(p, B, c)
    BY DEF Fields
<1>2. n.call \in CallIds /\ None \notin CallIds /\ n.self \in PeerIds /\ None \notin PeerIds
    BY NotedFields, ConstantsAssumption DEF Roster
<1>3. /\ n \in B /\ n.call = p.callId
      /\ p.callId \in live => connCall[c] = p.callId /\ connPeer[c] = n.self
    BY <1>1 DEF AnswerRight
<1>4. ~NoAnswer(B)
    BY <1>3 DEF NoAnswer, Answers, Roster
<1>5. p.room \in {None, p.cur} /\ ~GoneOut(p, A, B)
    BY <1>1, <1>4 DEF RoomShown, Quiet, GoneOut
<1>6. \A m \in A : RequestRight(m, q, A, B2, c)
    BY <1>1, <1>5 DEF RequestRight
<1>7. \A m \in B2 : AnswerRight(m, q, c)
    BY <1>1 DEF AnswerRight
<1>8. CallJoined(q, A, c)
    BY <1>1, <1>3 DEF CallJoined
<1>9. SeatKnown(q, A, c)
    BY <1>1 DEF SeatKnown
<1>10. RosterKnown(q, B2, c)
    <2>1. SUFFICES ASSUME connCall[c] # None, p.callId = connCall[c]
                   PROVE  /\ q.self = connPeer[c]
                          /\ \A x \in callPeers[p.callId] \ {connPeer[c]} : Told(x, q, B2)
        BY DEF RosterKnown
    <2>2. q.self = connPeer[c] /\ n.self = connPeer[c]
        BY <1>3, <2>1
    <2>3. \A x \in callPeers[p.callId] \ {connPeer[c]} : Told(x, p, B)
        BY <1>1, <2>1 DEF RosterKnown
    <2>4. n.t # "rtc.peer_event"
        BY DEF Roster
    <2>5. \A x : Told(x, p, B) /\ x # n.self => Told(x, q, B2)
        BY <2>4 DEF Told
    <2>6. QED
        BY <2>2, <2>3, <2>5
<1>11. CallAsked(q, A, B2) /\ RoomShown(q, A, B2) /\ q.callId # None
    BY <1>2, <1>3, <1>5 DEF CallAsked, RoomShown
<1>12. QED
    BY <1>6, <1>7, <1>8, <1>9, <1>10, <1>11 DEF Fields

\* rtc.peer_event: somebody comes, or is gone from every call.
LEMMA FieldsPeer ==
    ASSUME NEW p \in Page, NEW c \in Conns, connCall[c] # None => connCall[c] \in live /\ connCall[c] \in CallIds,
           \A k \in CallIds : callPeers[k] \subseteq PeerIds,
           NEW A, NEW n \in Noted, n.t = "rtc.peer_event", NEW B2 \in SUBSET Noted,
           Fields(p, A, {n} \cup B2, c),
           NEW q, q.cur = p.cur, q.callId = p.callId, q.room = p.room, q.self = p.self, q.voice = p.voice,
           q.peers \ {n.peer} = p.peers \ {n.peer},
           n.kind = "join" => p.peers \subseteq q.peers,
           n.kind = "join" /\ n.peer # p.self => n.peer \in q.peers
    PROVE  Fields(q, A, B2, c)
<1> DEFINE B == {n} \cup B2
<1>1. /\ p.callId = None => p.self = None
      /\ RoomShown(p, A, B)
      /\ \A m \in A : RequestRight(m, p, A, B, c)
      /\ \A m \in B : AnswerRight(m, p, c)
      /\ CallJoined(p, A, c) /\ SeatKnown(p, A, c) /\ RosterKnown(p, B, c) /\ CallAsked(p, A, B)
    BY DEF Fields
<1>2. n.kind \in {"join", "leave"} /\ ~Roster(n) /\ n.t # "rtc.call"
    BY NotedFields DEF Roster
<1>3. NoAnswer(B) => NoAnswer(B2)
    BY DEF NoAnswer
<1>4. RoomShown(q, A, B2)
    BY <1>1, <1>3 DEF RoomShown, Quiet
<1>5. GoneOut(p, A, B) => GoneOut(q, A, B2)
    BY <1>3 DEF GoneOut
<1>6. \A m \in A : RequestRight(m, q, A, B2, c)
    BY <1>1, <1>5 DEF RequestRight
<1>7. \A m \in B2 : AnswerRight(m, q, c)
    BY <1>1 DEF AnswerRight
<1>8. CallJoined(q, A, c) /\ SeatKnown(q, A, c)
    BY <1>1 DEF CallJoined, SeatKnown
<1>9. RosterKnown(q, B2, c)
    <2>1. SUFFICES ASSUME connCall[c] # None, p.callId = connCall[c]
                   PROVE  /\ q.self = connPeer[c] \/ \E m \in B2 : Roster(m)
                          /\ \A x \in callPeers[p.callId] \ {connPeer[c]} : Told(x, q, B2)
        BY DEF RosterKnown
    <2>2. /\ p.self = connPeer[c] \/ \E m \in B : Roster(m)
          /\ \A x \in callPeers[p.callId] \ {connPeer[c]} : Told(x, p, B)
        BY <1>1, <2>1 DEF RosterKnown
    <2>3. p.self = None \/ p.self = connPeer[c]
        BY <1>1, <2>1 DEF CallJoined
    <2>4. ASSUME NEW x \in callPeers[p.callId] \ {connPeer[c]} PROVE Told(x, q, B2)
        <3>1. x \in PeerIds /\ x # None
            BY <2>1, <2>4, ConstantsAssumption
        <3>2. x # p.self
            BY <2>3, <2>4, <3>1
        <3>3. CASE x \in p.peers
            <4>1. CASE x # n.peer
                BY <3>3, <4>1 DEF Told
            <4>2. CASE x = n.peer
                <5>1. n.kind = "join"
                    BY <1>1, <1>2, <2>1, <2>4, <4>2 DEF AnswerRight
                <5>2. QED
                    BY <3>3, <5>1 DEF Told
            <4>3. QED
                BY <4>1, <4>2
        <3>4. CASE \E m \in B : Roster(m) /\ x \in m.peers
            BY <1>2, <3>4 DEF Told
        <3>5. CASE \E m \in B : m.t = "rtc.peer_event" /\ m.kind = "join" /\ m.peer = x
            <4>1. CASE n.kind = "join" /\ n.peer = x
                BY <3>2, <4>1 DEF Told
            <4>2. CASE ~(n.kind = "join" /\ n.peer = x)
                BY <3>5, <4>2 DEF Told
            <4>3. QED
                BY <4>1, <4>2
        <3>6. QED
            BY <2>2, <3>3, <3>4, <3>5 DEF Told
    <2>5. QED
        BY <1>2, <2>2, <2>4
<1>10. CallAsked(q, A, B2)
    BY <1>1, <1>2 DEF CallAsked
<1>11. QED
    BY <1>1, <1>4, <1>6, <1>7, <1>8, <1>9, <1>10 DEF Fields

\* rtc.call_end of the page's call, or of the room whose call it waits for.
LEMMA FieldsEnded ==
    ASSUME NEW p \in Page, NEW c \in Conns, None \notin live, connCall[c] # None => connCall[c] \in live,
           NEW A \in SUBSET Requests, NEW B, NEW B2 \in SUBSET B, Fields(p, A, B, c),
           p.callId \notin live, \A m \in B2 : ~Roster(m),
           NEW q, q.cur = p.cur, q.callId = None, q.room = None, q.self = None, q.voice = FALSE
    PROVE  Fields(q, A, B2, c)
<1>1. /\ \A m \in A : RequestRight(m, p, A, B, c)
      /\ \A m \in B : AnswerRight(m, p, c)
      /\ SeatKnown(p, A, c)
    BY DEF Fields
<1>2. GoneOut(p, A, B) => GoneOut(q, A, B2)
    BY DEF GoneOut, NoAnswer
<1>3. \A m \in A : RequestRight(m, q, A, B2, c)
    <2>1. ASSUME NEW m \in A PROVE RequestRight(m, q, A, B2, c)
        <3>1. RequestRight(m, p, A, B, c)
            BY <1>1
        <3>2. m.t = "rtc.join" => m.call \notin live
            BY <3>1 DEF RequestRight
        <3>3. QED
            BY <1>2, <3>1, <3>2 DEF RequestRight
    <2>2. QED
        BY <2>1
<1>4. \A m \in B2 : AnswerRight(m, q, c)
    BY <1>1 DEF AnswerRight
<1>5. CallJoined(q, A, c)
    BY DEF CallJoined
<1>6. SeatKnown(q, A, c)
    BY <1>1 DEF SeatKnown
<1>7. RosterKnown(q, B2, c) /\ CallAsked(q, A, B2) /\ RoomShown(q, A, B2)
    BY DEF RosterKnown, CallAsked, RoomShown
<1>8. QED
    BY <1>3, <1>4, <1>5, <1>6, <1>7 DEF Fields

-----------------------------------------------------------------------------
(***************************************************************************)
(* The page takes the first of what is on its way to it.                   *)
(***************************************************************************)
\* A first message of the page's room is about the page's call.
LEMMA FirstOfRoom ==
    ASSUME NEW c \in Conns, NEW p, NEW Q \in Seq(Noted), Q # <<>>, KnownAt(p, Q, c),
           Head(Q).t \in OfRoom, p.callId # None, p.room = Head(Q).room
    PROVE  p.callId = Head(Q).call
<1>1. Head(Q) = Q[1] /\ 1 \in 1..Len(Q) /\ Len(Q) \in Nat
    BY Shortened
<1>2. p.callId \in NamedAt(PageNames(p), Q, 0) /\ roomOf[p.callId] = p.room
    BY DEF NamedAt, PageNames, KnownAt, PageRight
<1>3. 0 \in 0..Len(Q) /\ 1 \in (0 + 1)..Len(Q)
    BY <1>1
<1>4. InRoom(Q[1], roomOf[p.callId]) /\ Q[1].call # p.callId => \E l \in (0 + 1)..1 : Ends(Q[l], p.callId)
    BY <1>2, <1>3 DEF KnownAt, EndsInOrder
<1>5. InRoom(Q[1], roomOf[p.callId])
    BY <1>1, <1>2 DEF InRoom
<1>6. \A l \in (0 + 1)..1 : l = 1
    OBVIOUS
<1>7. QED
    BY <1>1, <1>4, <1>5, <1>6 DEF Ends

\* No roster comes after the end.
LEMMA NoRosterAfterEnd ==
    ASSUME NEW p, NEW Q \in Seq(Noted), Q # <<>>, RosterFirst(p, Q), Ends(Head(Q), p.callId)
    PROVE  \A m \in Elements(Tail(Q)) : ~Roster(m)
<1> DEFINE z == Tail(Q)
<1>1. /\ z \in Seq(Noted) /\ Head(Q) = Q[1] /\ Len(Q) \in Nat /\ Len(z) = Len(Q) - 1
      /\ \A i \in 1..Len(z) : z[i] = Q[i + 1]
    BY Shortened
<1> HIDE DEF z
<1>2. ASSUME NEW i \in 1..Len(z) PROVE ~Roster(z[i])
    <2>1. i + 1 \in 1..Len(Q) /\ 1 \in 1..(i + 1) /\ z[i] = Q[i + 1]
        BY <1>1
    <2>2. QED
        BY <1>1, <2>1 DEF RosterFirst
<1>3. Elements(z) = {z[i] : i \in 1..Len(z)}
    BY <1>1, ElementsTyped
<1>4. QED
    BY <1>2, <1>3 DEF z

LEMMA QueueParts ==
    ASSUME NEW T \in Seq(Requests), NEW Q \in Seq(Noted), Q # <<>>
    PROVE  /\ Tail(Q) \in Seq(Noted) /\ Head(Q) \in Noted
           /\ Elements(Q) = {Head(Q)} \cup Elements(Tail(Q))
           /\ Elements(T) \in SUBSET Requests /\ Elements(Q) \in SUBSET Noted
           /\ Elements(Tail(Q)) \in SUBSET Noted
           /\ <<>> \in Seq(Requests) /\ Elements(<<>>) = {}
<1>1. Tail(Q) \in Seq(Noted) /\ Head(Q) \in Noted /\ Elements(Q) = {Head(Q)} \cup Elements(Tail(Q))
    BY Shortened
<1>2. Elements(T) \subseteq Requests /\ Elements(Q) \subseteq Noted
    BY ElementsTyped
<1>3. Elements(<<>>) = {}
    BY DEF Elements
<1>4. <<>> \in Seq(Requests)
    OBVIOUS
<1>5. QED
    BY <1>1, <1>2, <1>3, <1>4

\* What nothing is sent for: the page is p2 afterwards.
LEMMA PatientTakes ==
    ASSUME NEW p, NEW p2, NEW c \in Conns, NEW T \in Seq(Requests), NEW Q2 \in Seq(Noted),
           p2.cur = p.cur, MemberFirst(p, T, c), RosterFirst(p2, Q2),
           Fields(p2, Elements(T), Elements(Q2), c)
    PROVE  PatientAt(p2, T \o <<>>, Q2, c)
<1>1. <<>> \in Seq(Requests) /\ Elements(<<>>) = {}
    BY DEF Elements
<1>2. Elements(T) \cup Elements(<<>>) = Elements(T)
    BY <1>1
<1>3. Fields(p2, Elements(T) \cup Elements(<<>>), Elements(Q2), c)
    BY <1>2
<1>4. QED
    BY <1>1, <1>3, PatientActs

\* News of another call or a refusal leave the page as it is.
LEMMA TakesNews ==
    ASSUME NEW p, NEW p2, SameCall(p, p2), NEW c \in Conns, NEW T \in Seq(Requests),
           NEW Q \in Seq(Noted), Q # <<>>, PatientAt(p, T, Q, c),
           Head(Q).t \in {"rtc.call_event", "rtc.call_end", "error"}
    PROVE  PatientAt(p2, T \o <<>>, Tail(Q), c)
<1> DEFINE A == Elements(T)
           B == Elements(Q)
           B2 == Elements(Tail(Q))
<1>1. /\ Tail(Q) \in Seq(Noted) /\ B = {Head(Q)} \cup B2
    BY QueueParts
<1>2. Fields(p, A, B, c) /\ RosterFirst(p, Q) /\ MemberFirst(p, T, c)
    BY DEF PatientAt
<1> HIDE DEF A, B, B2
<1>3. B2 \in SUBSET B /\ \A m \in B \ B2 : m.t \in {"rtc.call_event", "rtc.call_end", "error"}
    BY <1>1
<1>4. Fields(p2, A \cup {}, B2, c)
    <2>1. \A m \in {} : m.t = "rtc.end_call"
        OBVIOUS
    <2>2. QED
        BY <1>2, <1>3, <2>1, FieldsSame
<1>5. A \cup {} = A
    OBVIOUS
<1>6. Fields(p2, A, B2, c)
    BY <1>4, <1>5
<1>7. p2.cur = p.cur /\ p2.callId = p.callId
    BY DEF SameCall
<1>8. RosterFirst(p2, Tail(Q))
    BY <1>2, <1>7, RosterFirstTail
<1>9. QED
    BY <1>1, <1>2, <1>6, <1>7, <1>8, PatientTakes DEF A, B2

\* rtc.call.
LEMMA TakesCall ==
    ASSUME IInv, NEW c \in Conns, NEW p \in Page, NEW T \in Seq(Requests), NEW Q \in Seq(Noted), Q # <<>>,
           KnownAt(p, Q, c), PatientAt(p, T, Q, c), Head(Q).t = "rtc.call"
    PROVE  LET x == Handled(p, Head(Q)) IN PatientAt(x.page, T \o x.out, Tail(Q), c)
<1> DEFINE A == Elements(T)
           B2 == Elements(Tail(Q))
<1>1. PICK n \in Noted : n = Head(Q) /\ n.t = "rtc.call"
    BY QueueParts
<1>2. PICK x : x = Handled(p, n)
    OBVIOUS
<1>3. PICK q \in Page : q = x.page
    BY <1>1, <1>2, HandledCall
<1>4. /\ n.call \in CallIds /\ n.room \in Rooms
      /\ q = [p EXCEPT !.callId = n.call, !.room = n.room]
      /\ x.out = <<JoinMsg(n.call)>> /\ JoinMsg(n.call) \in Requests
    BY <1>1, <1>2, <1>3, HandledCall
<1>5. /\ q.cur = p.cur /\ q.callId = n.call /\ q.room = n.room /\ q.self = p.self
      /\ q.peers = p.peers /\ q.voice = p.voice
    BY <1>4 DEF Page
<1>6. /\ Tail(Q) \in Seq(Noted) /\ Elements(Q) = {n} \cup B2
      /\ A \in SUBSET Requests /\ B2 \in SUBSET Noted
    BY <1>1, QueueParts
<1>7. Fields(p, A, {n} \cup B2, c) /\ RosterFirst(p, Q) /\ MemberFirst(p, T, c)
    BY <1>6 DEF PatientAt
<1> HIDE DEF A, B2
<1>8. 1 \in 1..Len(Q) /\ Len(Q) \in Nat /\ Q[1] = n
    BY <1>1, Shortened
<1>9. roomOf[n.call] = n.room
    BY <1>1, <1>8 DEF KnownAt, QueueRight, OfRoom
<1>10. connUser[c] \in member[n.room]
    <2>1. 1 \in 0..Len(Q) /\ n.call \in NamedAt(PageNames(p), Q, 1)
        BY <1>1, <1>8 DEF NamedAt, NamedBy, Naming
    <2>2. QED
        BY <1>9, <2>1 DEF KnownAt, NamedToMember
<1>11. p.callId = None \/ p.room # n.room \/ p.callId = n.call
    BY <1>1, FirstOfRoom DEF OfRoom
<1>12. PageRight(p) /\ None \notin live
    BY SeatFacts DEF KnownAt
<1>13. Fields(q, A \cup {JoinMsg(n.call)}, B2, c)
    BY <1>1, <1>5, <1>6, <1>7, <1>9, <1>10, <1>11, <1>12, FieldsCalled
<1>14. RosterFirst(q, Tail(Q))
    <2>1. CASE p.callId = n.call
        BY <1>5, <1>7, <2>1, RosterFirstTail
    <2>2. CASE p.callId # n.call
        <3>1. ASSUME NEW m \in B2, Roster(m) PROVE FALSE
            <4>1. m.call = p.callId /\ m.call \in CallIds
                BY <1>6, <1>7, <3>1, NotedFields DEF Fields, AnswerRight, Roster
            <4>2. p.callId # None /\ p.room # n.room
                BY <1>11, <2>2, <4>1, ConstantsAssumption
            <4>3. n.room = p.cur /\ n.t \in Answers
                BY <1>1, <1>7 DEF Fields, AnswerRight, Answers
            <4>4. p.room \in {None, p.cur}
                BY <1>7, <4>3 DEF Fields, RoomShown, Quiet, NoAnswer
            <4>5. p.room # None
                BY <1>12, <4>2, ConstantsAssumption DEF PageRight
            <4>6. QED
                BY <4>2, <4>3, <4>4, <4>5
        <3>2. QED
            BY <1>6, <3>1, NoRosters DEF B2
    <2>3. QED
        BY <2>1, <2>2
<1>15. PICK j \in Requests : j = JoinMsg(n.call)
    BY <1>4
<1>16. <<j>> \in Seq(Requests) /\ Elements(<<j>>) = {j}
    BY DEF Elements
<1>17. PatientAt(q, T \o <<j>>, Tail(Q), c)
    <2>1. Fields(q, A \cup Elements(<<j>>), B2, c)
        BY <1>13, <1>15, <1>16
    <2>2. QED
        BY <1>5, <1>6, <1>7, <1>14, <1>16, <2>1, PatientActs DEF A, B2
<1>18. QED
    BY <1>1, <1>2, <1>3, <1>4, <1>15, <1>17

\* rtc.participants and rtc.peer_event.
LEMMA TakesPeers ==
    ASSUME IInv, NEW c \in Conns, NEW p \in Page, NEW T \in Seq(Requests), NEW Q \in Seq(Noted), Q # <<>>,
           KnownAt(p, Q, c), PatientAt(p, T, Q, c), Head(Q).t \in {"rtc.participants", "rtc.peer_event"}
    PROVE  LET x == Handled(p, Head(Q)) IN PatientAt(x.page, T \o x.out, Tail(Q), c)
<1> DEFINE A == Elements(T)
           B2 == Elements(Tail(Q))
<1>1. PICK n \in Noted : n = Head(Q) /\ n.t \in {"rtc.participants", "rtc.peer_event"}
    BY QueueParts
<1>2. PICK x : x = Handled(p, n)
    OBVIOUS
<1>3. PICK q \in Page : q = x.page
    BY <1>1, <1>2, HandledParticipants, HandledPeerEvent
<1>4. x.out = <<>>
    BY <1>1, <1>2, HandledParticipants, HandledPeerEvent
<1>5. /\ Tail(Q) \in Seq(Noted) /\ Elements(Q) = {n} \cup B2
      /\ A \in SUBSET Requests /\ B2 \in SUBSET Noted
    BY <1>1, QueueParts
<1>6. Fields(p, A, {n} \cup B2, c) /\ RosterFirst(p, Q) /\ MemberFirst(p, T, c)
    BY <1>5 DEF PatientAt
<1> HIDE DEF A, B2
<1>7. /\ PageRight(p)
      /\ connCall[c] # None => connCall[c] \in live /\ connCall[c] \in CallIds
      /\ connCall[c] # None => connCall[c] \in live
      /\ \A k \in CallIds : callPeers[k] \subseteq PeerIds
    BY SeatFacts DEF KnownAt
<1>8. q.cur = p.cur /\ q.callId = p.callId /\ Fields(q, A, B2, c)
    <2>1. CASE n.t = "rtc.participants"
        <3>1. q = [p EXCEPT !.self = n.self, !.peers = p.peers \cup (n.peers \ {n.self})]
            BY <1>2, <1>3, <2>1, HandledParticipants
        <3>2. /\ q.cur = p.cur /\ q.callId = p.callId /\ q.room = p.room /\ q.self = n.self
              /\ q.peers = p.peers \cup (n.peers \ {n.self}) /\ q.voice = p.voice
            BY <3>1 DEF Page
        <3>3. Roster(n)
            BY <2>1 DEF Roster
        <3>4. Fields(q, A, B2, c)
            BY <1>5, <1>6, <1>7, <3>2, <3>3, FieldsRoster
        <3>5. QED
            BY <3>2, <3>4
    <2>2. CASE n.t = "rtc.peer_event"
        <3>1. PICK ps \in SUBSET PeerIds :
                 /\ q = [p EXCEPT !.peers = ps]
                 /\ ps \ {n.peer} = p.peers \ {n.peer}
                 /\ n.kind = "join" => p.peers \subseteq ps
                 /\ n.kind = "join" /\ n.peer # p.self => n.peer \in ps
            BY <1>2, <1>3, <2>2, HandledPeerEvent
        <3>2. /\ q.cur = p.cur /\ q.callId = p.callId /\ q.room = p.room /\ q.self = p.self
              /\ q.peers = ps /\ q.voice = p.voice
            BY <3>1 DEF Page
        <3>3. /\ q.peers \ {n.peer} = p.peers \ {n.peer}
              /\ n.kind = "join" => p.peers \subseteq q.peers
              /\ n.kind = "join" /\ n.peer # p.self => n.peer \in q.peers
            BY <3>1, <3>2
        <3>4. Fields(q, A, B2, c)
            BY <1>5, <1>6, <1>7, <2>2, <3>2, <3>3, FieldsPeer
        <3>5. QED
            BY <3>2, <3>4
    <2>3. QED
        BY <1>1, <2>1, <2>2
<1>9. RosterFirst(q, Tail(Q))
    BY <1>6, <1>8, RosterFirstTail
<1>10. PatientAt(q, T \o <<>>, Tail(Q), c)
    BY <1>5, <1>6, <1>8, <1>9, PatientTakes DEF A, B2
<1>11. QED
    BY <1>1, <1>2, <1>3, <1>4, <1>10

\* rtc.call_end.
LEMMA TakesEnd ==
    ASSUME IInv, NEW c \in Conns, NEW p \in Page, NEW T \in Seq(Requests), NEW Q \in Seq(Noted), Q # <<>>,
           KnownAt(p, Q, c), PatientAt(p, T, Q, c), Head(Q).t = "rtc.call_end"
    PROVE  LET x == Handled(p, Head(Q)) IN PatientAt(x.page, T \o x.out, Tail(Q), c)
<1> DEFINE A == Elements(T)
           B2 == Elements(Tail(Q))
<1>1. PICK n \in Noted : n = Head(Q) /\ n.t = "rtc.call_end"
    BY QueueParts
<1>2. PICK x : x = Handled(p, n)
    OBVIOUS
<1>3. PICK q \in Page : q = x.page
    BY <1>1, <1>2, HandledCallEnd
<1>4. /\ n.call \in CallIds /\ n.room \in Rooms /\ x.out = <<>> /\ q.cur = p.cur
      /\ (n.call = p.callId \/ n.room = p.room) =>
            /\ q.callId = None /\ q.room = None /\ q.self = None
            /\ q.peers = {} /\ q.voice = FALSE
      /\ ~(n.call = p.callId \/ n.room = p.room) =>
            /\ q.callId = p.callId /\ q.room = p.room /\ q.self = p.self
            /\ q.peers = p.peers /\ q.voice = p.voice
    <2>1. q = Handled(p, n).page /\ x.out = Handled(p, n).out
        BY <1>2, <1>3
    <2> HIDE DEF A, B2
    <2>2. /\ n.call \in CallIds /\ n.room \in Rooms /\ x.out = <<>> /\ q.cur = p.cur
        BY <1>1, <2>1, HandledCallEnd
    <2>3. (n.call = p.callId \/ n.room = p.room) =>
            /\ q.callId = None /\ q.room = None /\ q.self = None
            /\ q.peers = {} /\ q.voice = FALSE
        BY <1>1, <2>1, HandledCallEnd
    <2>4. ~(n.call = p.callId \/ n.room = p.room) =>
            /\ q.callId = p.callId /\ q.room = p.room /\ q.self = p.self
            /\ q.peers = p.peers /\ q.voice = p.voice
        BY <1>1, <2>1, HandledCallEnd
    <2>5. QED
        BY <2>2, <2>3, <2>4
<1>5. CASE ~(n.call = p.callId \/ n.room = p.room)
    <2>1. SameCall(p, q)
        BY <1>4, <1>5 DEF SameCall
    <2>2. PatientAt(q, T \o <<>>, Tail(Q), c)
        BY <1>1, <2>1, TakesNews
    <2>3. QED
        BY <1>1, <1>2, <1>3, <1>4, <2>2
<1>6. CASE n.call = p.callId \/ n.room = p.room
    <2>1. /\ Tail(Q) \in Seq(Noted) /\ Elements(Q) = {n} \cup B2
          /\ A \in SUBSET Requests /\ B2 \in SUBSET Noted
        BY <1>1, QueueParts
    <2>2. Fields(p, A, {n} \cup B2, c) /\ RosterFirst(p, Q) /\ MemberFirst(p, T, c)
        BY <2>1 DEF PatientAt
    <2> HIDE DEF A, B2
    <2>3. p.callId = None \/ p.callId = n.call
        BY <1>1, <1>6, FirstOfRoom DEF OfRoom
    <2>4. n.call \notin live
        <3>1. 1 \in 1..Len(Q) /\ Q[1] = n
            BY <1>1, Shortened
        <3>2. QED
            BY <1>1, <3>1 DEF KnownAt, QueueRight
    <2>5. /\ None \notin live
          /\ connCall[c] # None => connCall[c] \in live
        BY SeatFacts
    <2>6. p.callId \notin live
        BY <2>3, <2>4, <2>5
    <2>7. \A m \in B2 : ~Roster(m)
        <3>1. CASE p.callId = n.call
            <4>1. Ends(Head(Q), p.callId)
                BY <1>1, <3>1 DEF Ends
            <4>2. QED
                BY <2>2, <4>1, NoRosterAfterEnd DEF B2
        <3>2. CASE p.callId = None
            <4>1. ASSUME NEW m \in B2, Roster(m) PROVE FALSE
                <5>1. m.call = p.callId /\ m.call \in CallIds
                    BY <2>1, <2>2, <4>1, NotedFields DEF Fields, AnswerRight, Roster
                <5>2. QED
                    BY <3>2, <5>1, ConstantsAssumption
            <4>2. QED
                BY <4>1
        <3>3. QED
            BY <2>3, <3>1, <3>2
    <2>8. Fields(q, A, B2, c)
        <3>1. PICK B : B = {n} \cup B2
            OBVIOUS
        <3>2. B2 \in SUBSET B /\ Fields(p, A, B, c)
            BY <2>2, <3>1
        <3>3. QED
            BY <1>4, <1>6, <2>1, <2>5, <2>6, <2>7, <3>2, FieldsEnded
    <2>9. RosterFirst(q, Tail(Q))
        BY <2>1, <2>7, NoRosters DEF B2
    <2>10. PatientAt(q, T \o <<>>, Tail(Q), c)
        BY <1>4, <2>1, <2>2, <2>8, <2>9, PatientTakes DEF A, B2
    <2>11. QED
        BY <1>1, <1>2, <1>3, <1>4, <2>10
<1>7. QED
    BY <1>5, <1>6

\* The refusal of rtc.join: the page forgets the call and may ask for a new one.
LEMMA TakesError ==
    ASSUME IInv, NEW c \in Conns, NEW p \in Page, NEW T \in Seq(Requests), NEW Q \in Seq(Noted), Q # <<>>,
           KnownAt(p, Q, c), PatientAt(p, T, Q, c), Head(Q).t = "error"
    PROVE  LET x == Handled(p, Head(Q)) IN PatientAt(x.page, T \o x.out, Tail(Q), c)
<1>1. PICK n \in Noted : n = Head(Q) /\ n.t = "error"
    BY QueueParts
<1>2. PICK x : x = Handled(p, n)
    OBVIOUS
<1>3. CASE p.cur = None /\ Handled(p, n) = Result(p, <<>>)
    <2>1. x.page = p /\ x.out = <<>>
        BY <1>2, <1>3, ResultIs
    <2>2. SameCall(p, p)
        BY DEF SameCall
    <2>3. PatientAt(p, T \o <<>>, Tail(Q), c)
        BY <1>1, <2>2, TakesNews
    <2>4. QED
        BY <1>1, <1>2, <2>1, <2>3
<1>4. CASE p.cur \in Rooms /\ Handled(p, n) = Ensured([p EXCEPT !.calls[p.cur] = None], p.cur)
    <2>1. PICK w \in Page : w = [p EXCEPT !.calls[p.cur] = None]
        BY <1>4, WithoutCall
    <2>2. /\ w.cur = p.cur /\ w.calls = [p.calls EXCEPT ![p.cur] = None]
          /\ w.callId = p.callId /\ w.room = p.room /\ w.self = p.self
          /\ w.peers = p.peers /\ w.voice = p.voice
        BY <1>4, <2>1, WithoutCall
    <2>3. SameCall(p, w)
        BY <2>2 DEF SameCall
    <2>4. PatientAt(w, T \o <<>>, Tail(Q), c)
        BY <1>1, <2>3, TakesNews
    <2>5. T \o <<>> = T /\ Tail(Q) \in Seq(Noted) /\ Elements(Tail(Q)) \in SUBSET Noted
        BY QueueParts
    <2>6. PatientAt(w, T, Tail(Q), c)
        BY <2>4, <2>5
    <2>7. KnownAt(w, Tail(Q), c)
        <3>1. \A r \in Rooms : w.calls[r] = IF r = p.cur THEN None ELSE p.calls[r]
            BY <1>4, <2>2 DEF Page
        <3>2. PageRight(p)
            BY DEF KnownAt
        <3>3. PageRight(w) /\ PageNames(w) \subseteq PageNames(p)
            BY <2>2, <3>1, <3>2 DEF PageRight, PageNames
        <3>4. PageNames(w) \subseteq PageNames(p) \cup NamedBy(Head(Q))
            BY <3>3
        <3>5. \A k \in PageNames(w) : ~Ends(Head(Q), k)
            BY <1>1 DEF Ends
        <3>6. QED
            BY <3>3, <3>4, <3>5, KnownTail
    <2>8. w.cur \in Rooms /\ x = Ensured(w, w.cur)
        BY <1>2, <1>4, <2>1, <2>2
    <2>9. CASE w.voice /\ x = Joined(w, w.cur)
        <3>1. PageRight(w) /\ NamedToMember(PageNames(w), Tail(Q), c)
            BY <2>7 DEF KnownAt
        <3>2. Joining(w, Elements(T), Elements(Tail(Q)))
            BY <2>9 DEF Joining
        <3>3. PatientAt(Joined(w, w.cur).page, T \o Joined(w, w.cur).out, Tail(Q), c)
            BY <2>5, <2>6, <2>8, <3>1, <3>2, PatientJoins
        <3>4. QED
            BY <1>1, <1>2, <2>9, <3>3
    <2>10. CASE x = Result(w, <<>>)
        <3>1. x.page = w /\ x.out = <<>>
            BY <2>10, ResultIs
        <3>2. QED
            BY <1>1, <1>2, <2>4, <3>1
    <2>11. QED
        BY <2>8, <2>9, <2>10, EnsuredIs
<1>5. QED
    BY <1>1, <1>3, <1>4, HandledError

LEMMA PatientTakesFirst ==
    ASSUME IInv, NEW c \in Conns, NEW p \in Page, NEW T \in Seq(Requests), NEW Q \in Seq(Noted), Q # <<>>,
           KnownAt(p, Q, c), PatientAt(p, T, Q, c)
    PROVE  LET x == Handled(p, Head(Q)) IN PatientAt(x.page, T \o x.out, Tail(Q), c)
<1>1. PICK n \in Noted : n = Head(Q)
    BY QueueParts
<1>2. CASE n.t = "rtc.call_event"
    <2>1. PICK x : x = Handled(p, n)
        OBVIOUS
    <2>2. n.call \in CallIds /\ n.room \in Rooms /\ x.page = [p EXCEPT !.calls[n.room] = n.call] /\ x.out = <<>>
        BY <1>2, <2>1, HandledCallEvent
    <2>3. SameCall(p, x.page)
        BY <2>2 DEF SameCall, Page
    <2>4. PatientAt(x.page, T \o <<>>, Tail(Q), c)
        BY <1>1, <1>2, <2>3, TakesNews
    <2>5. QED
        BY <1>1, <2>1, <2>2, <2>4
<1>3. CASE n.t = "rtc.call"
    BY <1>1, <1>3, TakesCall
<1>4. CASE n.t \in {"rtc.participants", "rtc.peer_event"}
    BY <1>1, <1>4, TakesPeers
<1>5. CASE n.t = "rtc.call_end"
    BY <1>1, <1>5, TakesEnd
<1>6. CASE n.t = "error"
    BY <1>1, <1>6, TakesError
<1>7. QED
    BY <1>2, <1>3, <1>4, <1>5, <1>6, NotedFields DEF OfRoom

-----------------------------------------------------------------------------
(***************************************************************************)
(* The user acts, who has nothing to wait for, or the channel is renamed.  *)
(***************************************************************************)
\* A page that is as it was.
LEMMA PatientRests ==
    ASSUME NEW p, NEW p2, SameCall(p, p2), NEW c \in Conns, NEW T \in Seq(Requests), NEW Q \in Seq(Noted),
           PatientAt(p, T, Q, c),
           NEW out \in Seq(Requests), \A m \in Elements(out) : m.t = "rtc.end_call"
    PROVE  PatientAt(p2, T \o out, Q, c)
<1>1. PICK A : A = Elements(T)
    OBVIOUS
<1>2. PICK B : B = Elements(Q)
    OBVIOUS
<1>3. PICK O : O = Elements(out)
    OBVIOUS
<1>4. Fields(p, A, B, c) /\ RosterFirst(p, Q) /\ MemberFirst(p, T, c)
    BY <1>1, <1>2 DEF PatientAt
<1>5. B \in SUBSET B /\ \A m \in B \ B : m.t \in {"rtc.call_event", "rtc.call_end", "error"}
    OBVIOUS
<1>6. Fields(p2, A \cup O, B, c)
    BY <1>3, <1>4, <1>5, FieldsSame
<1>7. p2.cur = p.cur /\ RosterFirst(p2, Q)
    BY <1>4 DEF SameCall, RosterFirst
<1>8. QED
    BY <1>1, <1>2, <1>3, <1>4, <1>6, <1>7, PatientActs

\* The page leaves its call for good.
LEMMA FieldsLeft ==
    ASSUME NEW p \in Page, PageRight(p), NEW c \in Conns, None \notin live, p.callId # None,
           connCall[c] # None => connPeer[c] # None,
           NEW B, NoAnswer(B), Fields(p, {}, B, c),
           NEW q, q.cur = p.cur, q.callId = None, q.room = None, q.self = None, q.voice = FALSE,
           NEW O, O = IF p.callId # None /\ p.self # None THEN {LeaveMsg(p.callId, p.self)} ELSE {}
    PROVE  Fields(q, O, B, c)
<1>1. /\ \A m \in B : AnswerRight(m, p, c)
      /\ SeatKnown(p, {}, c) /\ RosterKnown(p, B, c)
    BY DEF Fields
<1>2. p.room # None /\ roomOf[p.callId] = p.room
    BY ConstantsAssumption DEF PageRight
<1>3. \A m \in O : m.t = "rtc.leave" /\ m.call = p.callId
    BY DEF LeaveMsg
<1>4. NoAsk(O)
    BY <1>3 DEF NoAsk, Asking
<1>5. GoneOut(q, O, B)
    BY <1>4 DEF GoneOut
<1>6. \A m \in O : RequestRight(m, q, O, B, c)
    BY <1>2, <1>3, <1>5 DEF RequestRight
<1>7. \A m \in B : ~Roster(m) /\ m.t # "rtc.call"
    BY DEF NoAnswer, Answers, Roster
<1>8. \A m \in B : AnswerRight(m, q, c)
    BY <1>1, <1>7 DEF AnswerRight
<1>9. SeatKnown(q, O, c)
    <2>1. SUFFICES ASSUME connCall[c] # None PROVE \E m \in O : Leaves(m, connCall[c], connPeer[c])
        BY DEF SeatKnown
    <2>2. p.callId = connCall[c]
        BY <1>1, <2>1 DEF SeatKnown
    <2>3. p.self = connPeer[c] /\ p.self # None
        BY <1>1, <1>7, <2>1, <2>2 DEF RosterKnown
    <2>4. O = {LeaveMsg(connCall[c], connPeer[c])}
        BY <2>2, <2>3
    <2>5. \A k, x : Leaves(LeaveMsg(k, x), k, x)
        BY DEF Leaves, LeaveMsg
    <2>6. LeaveMsg(connCall[c], connPeer[c]) \in O
        BY <2>4
    <2>7. QED
        BY <2>5, <2>6
<1>10. RosterKnown(q, B, c) /\ CallJoined(q, O, c) /\ CallAsked(q, O, B) /\ RoomShown(q, O, B)
    BY DEF RosterKnown, CallJoined, CallAsked, RoomShown
<1>11. QED
    BY <1>6, <1>8, <1>9, <1>10 DEF Fields

\* The page shows another channel and asks to be a member of it.
LEMMA FieldsShown ==
    ASSUME NEW p, NEW c \in Conns, NEW B, NoAnswer(B), Fields(p, {}, B, c),
           NEW q, q.callId = p.callId, q.room = p.room, q.self = p.self, q.peers = p.peers,
           NEW r, NEW O, O = {ChannelJoinMsg(r)}
    PROVE  Fields(q, O, B, c)
<1>1. /\ p.callId = None => p.self = None
      /\ \A m \in B : AnswerRight(m, p, c)
      /\ CallJoined(p, {}, c) /\ SeatKnown(p, {}, c) /\ RosterKnown(p, B, c) /\ CallAsked(p, {}, B)
    BY DEF Fields
<1>2. \A m \in O : m.t = "channel.join"
    BY DEF ChannelJoinMsg
<1>3. \A m \in B : ~Roster(m) /\ m.t # "rtc.call"
    BY DEF NoAnswer, Answers, Roster
<1>4. RoomShown(q, O, B)
    BY <1>2 DEF RoomShown, Quiet, NoAsk, Asking
<1>5. \A m \in O : RequestRight(m, q, O, B, c)
    BY <1>2 DEF RequestRight
<1>6. \A m \in B : AnswerRight(m, q, c)
    BY <1>1, <1>3 DEF AnswerRight
<1>7. CallJoined(q, O, c) /\ SeatKnown(q, O, c) /\ CallAsked(q, O, B)
    BY <1>1, <1>3 DEF CallJoined, SeatKnown, CallAsked
<1>8. RosterKnown(q, B, c)
    <2>1. \A x : Told(x, p, B) => Told(x, q, B)
        BY DEF Told
    <2>2. QED
        BY <1>1, <2>1 DEF RosterKnown
<1>9. QED
    BY <1>1, <1>4, <1>5, <1>6, <1>7, <1>8 DEF Fields

LEMMA PatientSelects ==
    ASSUME NEW p \in Page, NEW c \in Conns, NEW Q \in Seq(Noted), NoAnswer(Elements(Q)),
           PatientAt(p, <<>>, Q, c), NEW r \in Rooms
    PROVE  PatientAt(Selected(p, r).page, <<>> \o Selected(p, r).out, Q, c)
<1> DEFINE s == [p EXCEPT !.cur = r]
           d == [s EXCEPT !.modal = TRUE]
<1>1. PICK B : B = Elements(Q)
    OBVIOUS
<1>2. Elements(<<>>) = {}
    BY DEF Elements
<1>3. Fields(p, {}, B, c) /\ NoAnswer(B)
    BY <1>1, <1>2 DEF PatientAt
<1>4. ~(p.callId = None /\ p.room = r)
    <2>1. \A m \in B : m.t # "rtc.call"
        BY <1>3 DEF NoAnswer, Answers
    <2>2. QED
        BY <1>3, <2>1, ConstantsAssumption DEF Fields, CallAsked
<1>5. PICK j \in Requests : j = ChannelJoinMsg(r)
    BY RequestMessages
<1>6. /\ <<j>> \in Seq(Requests) /\ Elements(<<j>>) = {j} /\ <<j>> \o <<>> = <<j>> /\ <<>> \o <<j>> = <<j>>
      /\ Len(<<j>>) = 1 /\ <<j>>[1] = j
    BY DEF Elements
<1>7. /\ s.cur = r /\ s.callId = p.callId /\ s.room = p.room /\ s.self = p.self /\ s.peers = p.peers
      /\ d.cur = r /\ d.callId = p.callId /\ d.room = p.room /\ d.self = p.self /\ d.peers = p.peers
    BY DEF Page
<1>8. \/ Selected(p, r).page = d /\ Selected(p, r).out = <<j>>
      \/ Selected(p, r).page = s /\ Selected(p, r).out = <<j>> \o <<>>
    BY <1>4, <1>5, SelectedIs
<1> HIDE DEF s, d
<1>9. PICK q : q = Selected(p, r).page
    OBVIOUS
<1>10. /\ q.cur = r /\ q.callId = p.callId /\ q.room = p.room /\ q.self = p.self /\ q.peers = p.peers
       /\ <<>> \o Selected(p, r).out = <<j>>
    BY <1>6, <1>7, <1>8, <1>9
<1>11. Fields(q, {j}, B, c)
    BY <1>3, <1>5, <1>10, FieldsShown
<1>12. RosterFirst(q, Q)
    <2>1. \A m \in Elements(Q) : ~Roster(m)
        BY DEF NoAnswer, Answers, Roster
    <2>2. QED
        BY <2>1, NoRosters
<1>13. MemberFirst(q, <<j>>, c)
    <2>1. j.t \notin Asking
        BY <1>5 DEF ChannelJoinMsg, Asking
    <2>2. 1 \in 1..Len(<<j>>) /\ \A i \in 1..1 : i = 1
        BY <1>6
    <2>3. <<j>>[1] = ChannelJoinMsg(q.cur) /\ \A i \in 1..1 : <<j>>[i].t \notin Asking
        BY <1>5, <1>6, <1>10, <2>1, <2>2
    <2>4. QED
        BY <2>2, <2>3 DEF MemberFirst
<1>14. PatientAt(q, <<j>>, Q, c)
    BY <1>1, <1>6, <1>11, <1>12, <1>13 DEF PatientAt
<1>15. QED
    BY <1>9, <1>10, <1>14

LEMMA PatientClicks ==
    ASSUME KnownInv, NEW c \in Conns \ Hasty, NEW x, Clicked(c, x),
           PatientAt(page[c], toServer[c], toClient[c], c)
    PROVE  PatientAt(x.page, toServer[c] \o x.out, toClient[c], c)
<1>1. IInv /\ SessionTypes /\ Authed(c)
    BY DEF KnownInv, SessionInv, Clicked
<1>2. PICK p \in Page : p = page[c]
    BY <1>1 DEF SessionTypes
<1>3. PICK T \in Seq(Requests) : T = toServer[c]
    BY <1>1 DEF SessionTypes
<1>4. PICK Q \in Seq(Noted) : Q = toClient[c]
    BY <1>1 DEF SessionTypes
<1>5. KnownAt(p, Q, c)
    BY <1>1, <1>2, <1>4 DEF KnownInv, Known
<1>6. PatientAt(p, T, Q, c)
    BY <1>2, <1>3, <1>4
<1>7. PageRight(p) /\ NamedToMember(PageNames(p), Q, c)
    BY <1>5 DEF KnownAt
<1>8. (p.modal => p.cur # None) /\ (p.cur # None => p.cur \in Rooms)
    BY <1>1, <1>2 DEF SessionTypes, Page
<1>9. /\ <<>> \in Seq(Requests) /\ Elements(<<>>) = {}
    BY DEF Elements
<1>10. Free(c) => T = <<>> /\ NoAnswer(Elements(Q))
    BY <1>3, <1>4 DEF Free, NoAnswer, ToSet, Elements
<1>11. Free(c) => Joining(p, Elements(T), Elements(Q))
    BY <1>9, <1>10 DEF Joining
<1> DEFINE Good == PatientAt(x.page, T \o x.out, Q, c)
<1>0. SUFFICES Good
    BY <1>3, <1>4
<1>12. CASE p.cur # None /\ x = Ensured(p, p.cur)
    <2>1. CASE p.voice /\ x = Joined(p, p.cur)
        <3>1. Joining(p, Elements(T), Elements(Q))
            BY <2>1 DEF Joining
        <3>2. PatientAt(Joined(p, p.cur).page, T \o Joined(p, p.cur).out, Q, c)
            BY <1>1, <1>6, <1>7, <1>8, <1>12, <3>1, PatientJoins
        <3>3. Good
            BY <2>1, <3>2
        <3>4. QED
            BY <3>3
    <2>2. CASE x = Result(p, <<>>)
        <3>1. x.page = p /\ x.out = <<>>
            BY <2>2, ResultIs
        <3>2. SameCall(p, p)
            BY DEF SameCall
        <3>3. PatientAt(p, T \o <<>>, Q, c)
            BY <1>6, <1>9, <3>2, PatientRests
        <3>4. QED
            BY <3>1, <3>3
    <2>3. QED
        BY <1>8, <1>12, <2>1, <2>2, EnsuredIs
<1>13. CASE Free(c) /\ p.modal /\ x = Joined(p, p.cur)
    <2>1. PatientAt(Joined(p, p.cur).page, T \o Joined(p, p.cur).out, Q, c)
        BY <1>1, <1>6, <1>7, <1>8, <1>11, <1>13, PatientJoins
    <2>2. QED
        BY <1>13, <2>1
<1>14. CASE Free(c) /\ x = Result([p EXCEPT !.modal = FALSE], <<>>)
    <2>1. PICK q : q = [p EXCEPT !.modal = FALSE]
        OBVIOUS
    <2>2. x.page = q /\ x.out = <<>>
        BY <1>14, <2>1, ResultIs
    <2>3. SameCall(p, q)
        BY <2>1 DEF SameCall, Page
    <2>4. PatientAt(q, T \o <<>>, Q, c)
        BY <1>6, <1>9, <2>3, PatientRests
    <2>5. QED
        BY <2>2, <2>4
<1>15. CASE Free(c) /\ p.callId # None /\ x = Left(p)
    <2>1. PICK q \in Page : q = TornDown(p)
        BY TornDownIs
    <2>2. /\ q.cur = p.cur /\ q.callId = None /\ q.room = None /\ q.self = None /\ q.voice = FALSE
        BY <2>1, TornDownIs
    <2>3. PICK out \in Seq(Requests) : out = Farewell(p)
        BY FarewellTypes
    <2>4. x.page = q /\ x.out = out
        BY <1>15, <2>1, <2>3, LeftIs
    <2>5. Fields(p, {}, Elements(Q), c) /\ MemberFirst(p, T, c) /\ Elements(T) = {}
        BY <1>6, <1>9, <1>10, <1>15 DEF PatientAt
    <2>6. Elements(out) = IF p.callId # None /\ p.self # None THEN {LeaveMsg(p.callId, p.self)} ELSE {}
        BY <2>3, FarewellSays
    <2>7. None \notin live /\ (connCall[c] # None => connPeer[c] # None)
        BY <1>1, SeatFacts
    <2>8. Fields(q, Elements(out), Elements(Q), c)
        BY <1>7, <1>10, <1>15, <2>2, <2>5, <2>6, <2>7, FieldsLeft
    <2>9. Elements(T) \cup Elements(out) = Elements(out)
        BY <2>5
    <2>10. Fields(q, Elements(T) \cup Elements(out), Elements(Q), c)
        BY <2>8, <2>9
    <2>11. RosterFirst(q, Q)
        <3>1. \A m \in Elements(Q) : ~Roster(m)
            BY <1>10, <1>15 DEF NoAnswer, Answers, Roster
        <3>2. QED
            BY <3>1, NoRosters
    <2>12. PatientAt(q, T \o out, Q, c)
        BY <2>2, <2>5, <2>10, <2>11, PatientActs
    <2>13. QED
        BY <2>4, <2>12
<1>16. CASE Free(c) /\ p.callId # None /\ x = Result(p, <<EndCallMsg(p.callId)>>)
    <2>1. PICK m \in Requests : m = EndCallMsg(p.callId)
        BY <1>16, RequestMessages DEF Page
    <2>2. x.page = p /\ x.out = <<m>>
        BY <1>16, <2>1, ResultIs
    <2>3. SameCall(p, p)
        BY DEF SameCall
    <2>4. <<m>> \in Seq(Requests) /\ Elements(<<m>>) = {m} /\ m.t = "rtc.end_call"
        BY <2>1 DEF Elements, EndCallMsg
    <2>5. PatientAt(p, T \o <<m>>, Q, c)
        BY <1>6, <2>3, <2>4, PatientRests
    <2>6. QED
        BY <2>2, <2>5
<1>17. ASSUME NEW r \in Rooms, Free(c) /\ ~p.modal /\ x = Selected(p, r) PROVE Good
    <2>1. T = <<>> /\ NoAnswer(Elements(Q))
        BY <1>10, <1>17
    <2>2. PatientAt(p, <<>>, Q, c)
        BY <1>6, <2>1
    <2>3. PatientAt(Selected(p, r).page, <<>> \o Selected(p, r).out, Q, c)
        BY <2>1, <2>2, PatientSelects
    <2>4. QED
        BY <1>17, <2>1, <2>3
<1>18. \/ p.cur # None /\ x = Ensured(p, p.cur)
       \/ Free(c) /\ p.modal /\ x = Joined(p, p.cur)
       \/ Free(c) /\ x = Result([p EXCEPT !.modal = FALSE], <<>>)
       \/ Free(c) /\ p.callId # None /\ x = Left(p)
       \/ Free(c) /\ p.callId # None /\ x = Result(p, <<EndCallMsg(p.callId)>>)
       \/ \E r \in Rooms : Free(c) /\ ~p.modal /\ x = Selected(p, r)
    BY <1>2 DEF Clicked
<1> HIDE DEF Good
<1>19. QED
    BY <1>12, <1>13, <1>14, <1>15, <1>16, <1>17, <1>18

-----------------------------------------------------------------------------
(***************************************************************************)
(* What holds of the page whose user waits goes on to hold.                *)
(***************************************************************************)
Patient    == \A c \in Conns \ Hasty :
                  Authed(c) => PatientAt(page[c], toServer[c], toClient[c], c)
PatientInv == KnownInv /\ Patient

LEMMA PatientStays ==
    ASSUME NEW c \in Conns, NEW p, NEW T, NEW Q, PatientAt(p, T, Q, c),
           UNCHANGED <<connVars, member, callVars>>
    PROVE  PatientAt(p, T, Q, c)'
<1>1. /\ live' = live /\ roomOf' = roomOf /\ member' = member /\ connUser' = connUser
      /\ connCall' = connCall /\ connPeer' = connPeer /\ callPeers' = callPeers /\ peerUser' = peerUser
    BY DEF connVars, callVars
<1>2. Fields(p, Elements(T), Elements(Q), c) /\ RosterFirst(p, Q) /\ MemberFirst(p, T, c)
    BY DEF PatientAt
<1>3. PICK A : A = Elements(T)
    OBVIOUS
<1>4. PICK B : B = Elements(Q)
    OBVIOUS
<1>5. Fields(p, A, B, c)'
    <2>1. /\ p.callId = None => p.self = None
          /\ RoomShown(p, A, B)
          /\ \A m \in A : RequestRight(m, p, A, B, c)
          /\ \A m \in B : AnswerRight(m, p, c)
          /\ CallJoined(p, A, c) /\ SeatKnown(p, A, c) /\ RosterKnown(p, B, c) /\ CallAsked(p, A, B)
        BY <1>2, <1>3, <1>4 DEF Fields
    <2>2. \A m \in A : RequestRight(m, p, A, B, c)'
        BY <1>1, <2>1 DEF RequestRight, GoneOut, NoAsk, NoAnswer
    <2>3. \A m \in B : AnswerRight(m, p, c)'
        BY <1>1, <2>1 DEF AnswerRight, Roster
    <2>4. CallJoined(p, A, c)'
        BY <1>1, <2>1 DEF CallJoined, JoinsCall
    <2>5. SeatKnown(p, A, c)'
        BY <1>1, <2>1 DEF SeatKnown, Leaves
    <2>6. RosterKnown(p, B, c)'
        BY <1>1, <2>1 DEF RosterKnown, Told, Roster
    <2>7. CallAsked(p, A, B)' /\ RoomShown(p, A, B)'
        BY <2>1 DEF CallAsked, Creates, RoomShown, Quiet, NoAsk, NoAnswer
    <2>8. QED
        BY <2>1, <2>2, <2>3, <2>4, <2>5, <2>6, <2>7 DEF Fields
<1>6. RosterFirst(p, Q)' /\ MemberFirst(p, T, c)'
    BY <1>1, <1>2 DEF RosterFirst, MemberFirst, Roster, Ends, ChannelJoinMsg
<1>7. Elements(T)' = A /\ Elements(Q)' = B
    BY <1>3, <1>4 DEF Elements
<1>8. QED
    BY <1>5, <1>6, <1>7 DEF PatientAt

\* A page that acts: it is p2 with the queues T2 and Q2 afterwards.
LEMMA PatientActed ==
    ASSUME NEW c \in Conns, NEW p2, NEW T2, NEW Q2, PatientAt(p2, T2, Q2, c),
           UNCHANGED <<connVars, member, callVars>>,
           page'[c] = p2, toServer'[c] = T2, toClient'[c] = Q2
    PROVE  PatientAt(page[c], toServer[c], toClient[c], c)'
<1>1. PatientAt(p2, T2, Q2, c)'
    BY PatientStays
<1>2. QED
    BY <1>1

LEMMA PatientInit == VoiceInit => PatientInv
<1> SUFFICES ASSUME VoiceInit, NEW c \in Conns
             PROVE  PatientAt(page[c], toServer[c], toClient[c], c)
    BY KnownInit DEF PatientInv, Patient
<1>1. page[c] = EmptyPage /\ toServer[c] = <<>> /\ toClient[c] = <<>>
    BY DEF VoiceInit
<1>2. connCall[c] = None /\ live = {}
    BY DEF VoiceInit
<1>3. PICK p : p = EmptyPage
    OBVIOUS
<1>4. p.cur = None /\ p.callId = None /\ p.room = None /\ p.self = None
    BY <1>3 DEF EmptyPage
<1>5. Elements(<<>>) = {} /\ Len(<<>>) = 0
    BY DEF Elements
<1>6. RoomShown(p, {}, {}) /\ CallJoined(p, {}, c) /\ SeatKnown(p, {}, c) /\ RosterKnown(p, {}, c)
      /\ CallAsked(p, {}, {})
    BY <1>2, <1>4 DEF RoomShown, CallJoined, SeatKnown, RosterKnown, CallAsked
<1>7. Fields(p, {}, {}, c)
    BY <1>4, <1>6 DEF Fields
<1>8. RosterFirst(p, <<>>) /\ MemberFirst(p, <<>>, c)
    BY <1>4, <1>5 DEF RosterFirst, MemberFirst
<1>9. PatientAt(p, <<>>, <<>>, c)
    BY <1>5, <1>7, <1>8 DEF PatientAt
<1>10. QED
    BY <1>1, <1>3, <1>9

LEMMA PatientStep == PatientInv /\ [VoiceNext]_voiceVars => PatientInv'
<1> SUFFICES ASSUME PatientInv, [VoiceNext]_voiceVars
             PROVE  PatientInv'
    OBVIOUS
<1>1. KnownInv /\ SessionInv /\ KnownInv'
    BY KnownStep DEF PatientInv, KnownInv
<1> SUFFICES ASSUME NEW e \in Conns \ Hasty, Authed(e)'
             PROVE  PatientAt(page[e], toServer[e], toClient[e], e)'
    BY <1>1 DEF PatientInv, Patient
<1>2. Authed(e) => PatientAt(page[e], toServer[e], toClient[e], e)
    BY DEF PatientInv, Patient
<1>3. ASSUME Authed(e), UNCHANGED <<connVars, member, callVars>>,
             page'[e] = page[e], toServer'[e] = toServer[e], toClient'[e] = toClient[e]
      PROVE  PatientAt(page[e], toServer[e], toClient[e], e)'
    <2>1. PICK p2 : p2 = page[e]
        OBVIOUS
    <2>2. PICK T2 : T2 = toServer[e]
        OBVIOUS
    <2>3. PICK Q2 : Q2 = toClient[e]
        OBVIOUS
    <2>4. PatientAt(p2, T2, Q2, e)
        BY <1>2, <1>3, <2>1, <2>2, <2>3
    <2>5. page'[e] = p2 /\ toServer'[e] = T2 /\ toClient'[e] = Q2
        BY <1>3, <2>1, <2>2, <2>3
    <2>6. QED
        BY <1>3, <2>4, <2>5, PatientActed
<1>4. CASE UNCHANGED voiceVars
    <2>1. /\ Authed(e) /\ UNCHANGED <<connVars, member, callVars>>
          /\ page'[e] = page[e] /\ toServer'[e] = toServer[e] /\ toClient'[e] = toClient[e]
        BY <1>4 DEF voiceVars, serverVars, connVars, Authed
    <2>2. QED
        BY <1>3, <2>1
<1>5. CASE VoiceNext
    <2>1. PICK c \in Conns :
              \/ Serve(c) \/ ClosePage(c) \/ Receive(c)
              \/ \E x : Clicked(c, x) /\ Does(c, x) /\ toClient' = toClient
        BY <1>1, <1>5, StepIs
    <2>2. CASE Serve(c)
        <3>1. Authed(e) /\ page'[e] = page[e]
            BY <2>2, ServeKeepsUsers DEF Authed, Serve
        <3>2. CASE e = c
            BY <1>1, <1>2, <2>2, <3>1, <3>2, PatientOwn
        <3>3. CASE e # c
            <4>1. PICK request : request = Head(toServer[c]).t
                OBVIOUS
            <4>2. ServerGrows /\ Effect(e, c, request)
                BY <1>1, <2>2, <3>1, <4>1, ServeEffect DEF SessionInv
            <4>3. PICK s \in Seq(Noted) : toClient'[e] = toClient[e] \o s /\ Elements(s) = Noticing(e, request)
                BY <1>1, <2>2, <3>1, <4>1, ServeHeard
            <4>4. toServer'[e] = toServer[e]
                BY <1>1, <2>2, <3>3 DEF Serve, SessionInv, SessionTypes
            <4>5. PatientAt(page[e], toServer[e], toClient[e], e)
                BY <1>2, <3>1
            <4>6. QED
                BY <1>1, <3>1, <3>3, <4>2, <4>3, <4>4, <4>5, PatientTold
        <3>4. QED
            BY <3>2, <3>3
    <2>3. CASE ClosePage(c)
        <3>1. Close(c)
            BY <2>3 DEF ClosePage
        <3>2. e # c /\ Authed(e)
            BY <1>1, <3>1 DEF Close, Authed, SessionInv, IInv, TypeOK
        <3>3. page'[e] = page[e] /\ toServer'[e] = toServer[e]
            BY <1>1, <2>3, <3>2 DEF ClosePage, SessionInv, SessionTypes
        <3>4. ServerGrows /\ Effect(e, c, "close")
            BY <1>1, <3>1, <3>2, CloseEffect DEF SessionInv
        <3>5. PICK s \in Seq(Noted) : toClient'[e] = toClient[e] \o s /\ Elements(s) = Noticing(e, "close")
            BY <1>1, <2>3, <3>2, CloseHeard
        <3>6. PatientAt(page[e], toServer[e], toClient[e], e)
            BY <1>2, <3>2
        <3>7. QED
            BY <1>1, <3>2, <3>3, <3>4, <3>5, <3>6, PatientTold
    <2>4. CASE Receive(c)
        <3> DEFINE x == Handled(page[c], Head(toClient[c]))
        <3>1. /\ Authed(c) /\ Does(c, x) /\ toClient[c] # <<>>
              /\ toClient' = [toClient EXCEPT ![c] = Tail(toClient[c])]
            BY <1>1, <2>4, ReceiveIs
        <3>2. /\ UNCHANGED <<connVars, member, callVars>>
              /\ page' = [page EXCEPT ![c] = x.page]
              /\ toServer' = [toServer EXCEPT ![c] = toServer[c] \o x.out]
            BY <3>1 DEF Does
        <3>3. Authed(e)
            BY <3>2 DEF connVars, Authed
        <3> HIDE DEF x
        <3>4. CASE e # c
            BY <1>1, <1>3, <3>1, <3>2, <3>3, <3>4 DEF SessionInv, SessionTypes
        <3>5. CASE e = c
            <4>1. PICK p : p \in Page /\ p = page[c]
                BY <1>1 DEF SessionInv, SessionTypes
            <4>2. PICK T \in Seq(Requests) : T = toServer[c]
                BY <1>1 DEF SessionInv, SessionTypes
            <4>3. PICK Q \in Seq(Noted) : Q = toClient[c]
                BY <1>1 DEF SessionInv, SessionTypes
            <4>4. PICK y : y = Handled(p, Head(Q))
                OBVIOUS
            <4>5. KnownAt(p, Q, c) /\ PatientAt(p, T, Q, c) /\ Q # <<>> /\ IInv
                BY <1>1, <1>2, <3>1, <3>3, <3>5, <4>1, <4>2, <4>3 DEF KnownInv, Known, SessionInv
            <4>6. PatientAt(y.page, T \o y.out, Tail(Q), c)
                BY <4>1, <4>4, <4>5, PatientTakesFirst
            <4>7. x = y
                BY <4>1, <4>3, <4>4 DEF x
            <4>8. PICK p2 : p2 = y.page
                OBVIOUS
            <4>9. PICK T2 : T2 = T \o y.out
                OBVIOUS
            <4>10. PICK Q2 : Q2 = Tail(Q)
                OBVIOUS
            <4>11. page'[c] = p2 /\ toServer'[c] = T2 /\ toClient'[c] = Q2
                BY <1>1, <3>1, <3>2, <4>2, <4>3, <4>7, <4>8, <4>9, <4>10 DEF SessionInv, SessionTypes
            <4>12. PatientAt(p2, T2, Q2, c)
                BY <4>6, <4>8, <4>9, <4>10
            <4>13. QED
                BY <3>2, <3>5, <4>11, <4>12, PatientActed
        <3>6. QED
            BY <3>4, <3>5
    <2>5. ASSUME NEW x, Clicked(c, x), Does(c, x), toClient' = toClient
          PROVE  PatientAt(page[e], toServer[e], toClient[e], e)'
        <3>1. /\ UNCHANGED <<connVars, member, callVars>>
              /\ page' = [page EXCEPT ![c] = x.page]
              /\ toServer' = [toServer EXCEPT ![c] = toServer[c] \o x.out]
            BY <2>5 DEF Does
        <3>2. Authed(e)
            BY <3>1 DEF connVars, Authed
        <3>3. CASE e # c
            BY <1>1, <1>3, <2>5, <3>1, <3>2, <3>3 DEF SessionInv, SessionTypes
        <3>4. CASE e = c
            <4>1. PatientAt(x.page, toServer[e] \o x.out, toClient[e], e)
                BY <1>1, <1>2, <2>5, <3>2, <3>4, PatientClicks
            <4>2. PICK p2 : p2 = x.page
                OBVIOUS
            <4>3. PICK T2 : T2 = toServer[e] \o x.out
                OBVIOUS
            <4>4. PICK Q2 : Q2 = toClient[e]
                OBVIOUS
            <4>5. page'[e] = p2 /\ toServer'[e] = T2 /\ toClient'[e] = Q2
                BY <1>1, <2>5, <3>1, <3>4, <4>2, <4>3, <4>4 DEF SessionInv, SessionTypes
            <4>6. PatientAt(p2, T2, Q2, e)
                BY <4>1, <4>2, <4>3, <4>4
            <4>7. QED
                BY <3>1, <4>5, <4>6, PatientActed
        <3>5. QED
            BY <3>3, <3>4
    <2>6. QED
        BY <2>1, <2>2, <2>3, <2>4, <2>5
<1>6. QED
    BY <1>4, <1>5

LEMMA SpecPatient == VoiceSpec => []PatientInv
<1>1. QED
    BY PatientInit, PatientStep, PTL DEF VoiceSpec

\* With nothing under way, what holds of the page says where it is.
LEMMA IdlePage ==
    ASSUME PatientInv, NEW c \in Conns \ Hasty, Idle(c)
    PROVE  LET p == page[c] IN
           /\ p.callId = connCall[c] /\ p.self = connPeer[c]
           /\ p.callId = None => p.room = None
           /\ p.callId # None =>
                 /\ p.room = roomOf[p.callId]
                 /\ callPeers[p.callId] \ {p.self} \subseteq p.peers
<1>1. PICK p \in Page : p = page[c]
    BY DEF PatientInv, KnownInv, SessionInv, SessionTypes
<1>2. KnownAt(p, <<>>, c) /\ PatientAt(p, <<>>, <<>>, c)
    BY <1>1 DEF PatientInv, Patient, KnownInv, Known, Idle
<1>3. Elements(<<>>) = {} /\ Len(<<>>) = 0
    BY DEF Elements
<1>4. Fields(p, {}, {}, c)
    BY <1>2, <1>3 DEF PatientAt
<1>5. /\ p.callId = None => p.self = None
      /\ CallJoined(p, {}, c) /\ SeatKnown(p, {}, c) /\ RosterKnown(p, {}, c) /\ CallAsked(p, {}, {})
    BY <1>4 DEF Fields
<1>6. connCall[c] = None <=> connPeer[c] = None
    BY SeatFacts DEF PatientInv, KnownInv, SessionInv
<1>7. p.callId # None => p.callId \in live /\ p.room = roomOf[p.callId]
    <2>1. SUFFICES ASSUME p.callId # None PROVE p.callId \in live /\ p.room = roomOf[p.callId]
        OBVIOUS
    <2>2. p.callId \in NamedAt(PageNames(p), <<>>, 0)
        BY <2>1 DEF NamedAt, PageNames
    <2>3. 0 \in 0..Len(<<>>) /\ (0 + 1)..Len(<<>>) = {}
        BY <1>3
    <2>4. p.callId \in live
        BY <1>2, <2>2, <2>3 DEF KnownAt, EndsComing
    <2>5. QED
        BY <1>2, <2>1, <2>4 DEF KnownAt, PageRight
<1>8. p.callId = connCall[c]
    <2>1. p.callId # None => connCall[c] = p.callId
        BY <1>5, <1>7 DEF CallJoined
    <2>2. connCall[c] # None => p.callId = connCall[c]
        BY <1>5 DEF SeatKnown
    <2>3. QED
        BY <2>1, <2>2
<1>9. p.callId # None => p.self = connPeer[c] /\ callPeers[p.callId] \ {p.self} \subseteq p.peers
    BY <1>5, <1>8 DEF RosterKnown, Told
<1>10. p.callId = None => p.room = None
    BY <1>5 DEF CallAsked
<1>11. p.self = connPeer[c]
    BY <1>5, <1>6, <1>8, <1>9
<1>12. QED
    BY <1>1, <1>7, <1>8, <1>9, <1>10, <1>11

\* When nothing is under way for a page whose user waits for answers, the page is
\* in the call, and under the peer id, that the server has for its connection,
\* however ends, renamings and other pages crossed what it asked for.
THEOREM PageAlwaysMatchesServer == VoiceSpec => []PageMatchesServer
<1>1. PatientInv => PageMatchesServer
    BY IdlePage DEF PageMatchesServer
<1>2. QED
    BY <1>1, SpecPatient, PTL

\* And it has a connection to everybody who is in that call, whoever came, moved
\* or left while its roster was under way.
THEOREM NobodyEverMissing == VoiceSpec => []NobodyMissing
<1>1. PatientInv => NobodyMissing
    BY IdlePage DEF NobodyMissing
<1>2. QED
    BY <1>1, SpecPatient, PTL
=============================================================================
