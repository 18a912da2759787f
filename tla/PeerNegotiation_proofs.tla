----------------------- MODULE PeerNegotiation_proofs -----------------------
(***************************************************************************)
(* Proofs about the negotiation between the two participants of a call,    *)
(* for any number of peer ids, actors and changes of tracks.               *)
(*                                                                         *)
(* While both are in the call, the one whose user acted last is the only   *)
(* one that offers.  He has one description on its way at a time: an offer *)
(* that travels, an offer the other is about to answer, an answer that     *)
(* travels back, or an answer that is being applied; he knows of the       *)
(* other's connection only what the other's connection still is; and no    *)
(* candidate waits or travels that would be refused.  The invariant says   *)
(* so (Offering), and what holds before his roster has reached him         *)
(* (Coming).  Nothing waits for a user who is in no call (Unreached).  It  *)
(* needs users that wait: neither Overlap nor Hasty.                       *)
(***************************************************************************)
EXTENDS PeerNegotiation, TLAPS

-----------------------------------------------------------------------------
(***************************************************************************)
(* Types.                                                                  *)
(***************************************************************************)
Pc    == Nat \X Nat
Said  == [pc : Pc, tracks : Nat]
Actor == [role : {"none", "offerer", "answerer"},
          sig : {"stable", "have-local-offer", "have-remote-offer"},
          remote : Pc, cands : SUBSET Pc, got : Nat, answer : Said]
Offer == [num : Nat, pc : Pc, tracks : Nat]
Link  == [num : Nat, actor : Actor, neg : Nat, attached : Nat \cup {None}, queued : BOOLEAN,
          skipped : BOOLEAN, offers : Seq(Offer), pending : Seq(Pc)]

Description == [t : {"rtc.offer_event", "rtc.answer_event"}, from : PeerIds, pc : Pc, tracks : Nat]
Candidates  == [t : {"rtc.ice_event"}, from : PeerIds, pc : Pc]
PeerEvent   == [t : {"rtc.peer_event"}, kind : {"join", "leave"}, peer : PeerIds]
Roster      == [t : {"rtc.participants"}, self : PeerIds, others : SUBSET PeerIds]
Msg         == Description \cup Candidates \cup PeerEvent \cup Roster

Sound(l) ==
    /\ l.neg <= l.num
    /\ l.queued => l.neg # 0
    /\ l.attached # None => l.neg # 0 /\ l.attached <= MaxTracks
    /\ l.actor.sig = "have-local-offer" => l.actor.role = "offerer"
    /\ l.actor.sig = "have-remote-offer" => l.actor.role = "answerer"
    /\ l.actor.answer # NoAnswer => l.actor.sig = "have-local-offer"

Shape ==
    /\ call \in [Parts -> PeerIds \cup {None}] /\ self \in [Parts -> PeerIds \cup {None}]
    /\ issued \in 0..MaxPeers
    /\ tracks \in [Parts -> 0..MaxTracks]
    /\ inbox \in [Parts -> Seq(Msg)]
    /\ turn \in Parts \cup {None}
    /\ link \in [Parts -> [PeerIds -> Link]]
    /\ \A p \in Parts, q \in PeerIds : Sound(link[p][q]) /\ link[p][q].num <= MaxActors

-----------------------------------------------------------------------------
(***************************************************************************)
(* Queues.                                                                 *)
(***************************************************************************)
LEMMA Empty == <<>> \in Seq(Msg) /\ Len(<<>>) = 0
OBVIOUS

LEMMA Shortened ==
    ASSUME NEW Q \in Seq(Msg), Q # <<>>
    PROVE  /\ Len(Q) \in Nat /\ Len(Q) >= 1 /\ Head(Q) = Q[1] /\ Q[1] \in Msg
           /\ Tail(Q) \in Seq(Msg) /\ Len(Tail(Q)) = Len(Q) - 1
           /\ \A x \in 1..Len(Tail(Q)) : x + 1 \in 2..Len(Q) /\ Tail(Q)[x] = Q[x + 1]
           /\ \A x \in 2..Len(Q) : x - 1 \in 1..Len(Tail(Q)) /\ Tail(Q)[x - 1] = Q[x]
OBVIOUS

LEMMA Lengthened ==
    ASSUME NEW Q \in Seq(Msg), NEW m \in Msg
    PROVE  /\ Append(Q, m) \in Seq(Msg)
           /\ Len(Q) \in Nat /\ Len(Append(Q, m)) = Len(Q) + 1
           /\ Append(Q, m)[Len(Q) + 1] = m
           /\ \A x \in 1..Len(Q) : Append(Q, m)[x] = Q[x]
OBVIOUS

LEMMA Sent ==
    ASSUME NEW Q \in Seq(Msg), NEW m \in Msg, NEW n \in Msg
    PROVE  /\ Q \o <<m>> = Append(Q, m)
           /\ Q \o <<m, n>> = Append(Append(Q, m), n)
OBVIOUS

-----------------------------------------------------------------------------
(***************************************************************************)
(* Links: what the operators of an actor make of one.                      *)
(***************************************************************************)
LEMMA Fresh ==
    ASSUME NEW role \in {"offerer", "answerer"}
    PROVE  /\ [NoActor EXCEPT !.role = role] \in Actor
           /\ [NoActor EXCEPT !.role = role] =
                 [role |-> role, sig |-> "stable", remote |-> NoPc, cands |-> {}, got |-> 0,
                  answer |-> NoAnswer]
BY DEF NoActor, NoAnswer, NoPc, Actor, Pc, Said

LEMMA NoLinkSound == NoLink \in Link /\ Sound(NoLink) /\ NoActor \in Actor /\ NoActor.role = "none"
<1>1. <<>> \in Seq(Offer) /\ <<>> \in Seq(Pc)
    OBVIOUS
<1>2. /\ NoActor \in Actor /\ NoActor.role = "none" /\ NoActor.sig = "stable"
      /\ NoActor.answer = NoAnswer
    BY DEF NoActor, NoAnswer, NoPc, Actor, Pc, Said
<1>3. QED
    BY <1>1, <1>2 DEF NoLink, Link, Sound

LEMMA Created ==
    ASSUME NEW l \in Link, Sound(l), NEW role \in {"offerer", "answerer"},
           NEW m, m = CreatePeerActor(l, role)
    PROVE  /\ m \in Link
           /\ m.neg = l.neg /\ m.attached = l.attached /\ m.queued = l.queued
           /\ m.skipped = l.skipped /\ m.offers = l.offers /\ m.pending = l.pending
           /\ m.actor.role = role
           /\ l.actor.role = role => m = l
           /\ l.actor.role # role =>
                 /\ m.num = l.num + 1 /\ m.actor.sig = "stable" /\ m.actor.remote = NoPc
                 /\ m.actor.cands = {} /\ m.actor.answer = NoAnswer
           /\ l.neg = 0 \/ l.actor.role = role \/ m.neg # m.num
           /\ Sound(m)
<1>1. CASE l.actor.role = role
    BY <1>1 DEF CreatePeerActor, Link
<1>2. CASE l.actor.role # role
    <2> DEFINE a == [NoActor EXCEPT !.role = role]
    <2>1. /\ a \in Actor
          /\ a.role = role /\ a.sig = "stable" /\ a.remote = NoPc /\ a.cands = {} /\ a.got = 0
          /\ a.answer = NoAnswer
        BY Fresh
    <2>2. m = [l EXCEPT !.num = @ + 1, !.actor = a]
        BY <1>2 DEF CreatePeerActor
    <2> HIDE DEF a
    <2>3. /\ m.neg = l.neg /\ m.attached = l.attached /\ m.queued = l.queued
          /\ m.skipped = l.skipped /\ m.offers = l.offers /\ m.pending = l.pending
          /\ m.actor = a /\ m.num = l.num + 1
        BY <2>2 DEF Link
    <2>4. l.num + 1 \in Nat /\ l.num \in Nat /\ l.neg \in Nat /\ l.neg <= l.num
        BY DEF Link, Sound
    <2>5. m \in Link
        BY <2>1, <2>2, <2>4 DEF Link
    <2>6. Sound(m)
        BY <2>1, <2>3, <2>4 DEF Sound
    <2>7. QED
        BY <1>2, <2>1, <2>3, <2>4, <2>5, <2>6
<1>3. QED
    BY <1>1, <1>2

\* A negotiation begins, of the actor there is or of a new one.
LEMMA Begun ==
    ASSUME NEW l \in Link, Sound(l), NEW m, m = BeginNegotiation(l)
    PROVE  /\ m \in Link /\ Sound(m)
           /\ m.neg = m.num /\ m.attached = None /\ m.queued = FALSE
           /\ m.skipped = l.skipped /\ m.offers = l.offers /\ m.pending = l.pending
           /\ m.actor.role = "offerer"
           /\ l.actor.role = "offerer" => m.num = l.num /\ m.actor = l.actor
           /\ l.actor.role # "offerer" =>
                 /\ m.num = l.num + 1 /\ m.actor.sig = "stable" /\ m.actor.remote = NoPc
                 /\ m.actor.cands = {} /\ m.actor.answer = NoAnswer
<1> DEFINE c == CreatePeerActor(l, "offerer")
<1>1. m = [c EXCEPT !.neg = c.num, !.attached = None, !.queued = FALSE]
    BY DEF BeginNegotiation
<1>2. /\ c \in Link
      /\ c.skipped = l.skipped /\ c.offers = l.offers /\ c.pending = l.pending
      /\ c.actor.role = "offerer"
      /\ l.actor.role = "offerer" => c = l
      /\ l.actor.role # "offerer" =>
            /\ c.num = l.num + 1 /\ c.actor.sig = "stable" /\ c.actor.remote = NoPc
            /\ c.actor.cands = {} /\ c.actor.answer = NoAnswer
    BY Created
<1> HIDE DEF c
<1>3. /\ m \in Link
      /\ m.neg = c.num /\ m.num = c.num /\ m.attached = None /\ m.queued = FALSE
      /\ m.skipped = c.skipped /\ m.offers = c.offers /\ m.pending = c.pending
      /\ m.actor = c.actor
    BY <1>1, <1>2 DEF Link
<1>4. Sound(m)
    BY <1>2, <1>3 DEF Sound, Link
<1>5. QED
    BY <1>2, <1>3, <1>4

LEMMA Queued ==
    ASSUME NEW l \in Link, Sound(l), l.neg # 0, NEW m, m = [l EXCEPT !.queued = TRUE]
    PROVE  /\ m \in Link /\ Sound(m)
           /\ m.num = l.num /\ m.actor = l.actor /\ m.neg = l.neg /\ m.attached = l.attached
           /\ m.queued = TRUE
           /\ m.skipped = l.skipped /\ m.offers = l.offers /\ m.pending = l.pending
<1>1. /\ m \in Link
      /\ m.num = l.num /\ m.actor = l.actor /\ m.neg = l.neg /\ m.attached = l.attached
      /\ m.queued = TRUE
      /\ m.skipped = l.skipped /\ m.offers = l.offers /\ m.pending = l.pending
    BY DEF Link
<1>2. QED
    BY <1>1 DEF Sound

LEMMA Negotiated ==
    ASSUME NEW l \in Link, Sound(l), NEW m, m = NegotiatePeer(l)
    PROVE  m \in Link /\ Sound(m) /\ m.offers = l.offers /\ m.pending = l.pending
BY Begun, Queued DEF NegotiatePeer

LEMMA Finished ==
    ASSUME NEW l \in Link, Sound(l), l.neg # 0, NEW m, m = FinishNegotiation(l)
    PROVE  /\ m \in Link /\ Sound(m)
           /\ m.attached = None
           /\ m.skipped = l.skipped /\ m.offers = l.offers /\ m.pending = l.pending
           /\ l.actor.role = "offerer" => m.num = l.num /\ m.actor = l.actor
           /\ l.queued => m.neg = m.num
           /\ ~l.queued => m.neg = 0 /\ m.num = l.num /\ m.actor = l.actor
<1>1. CASE l.queued
    <2>1. m = BeginNegotiation(l)
        BY <1>1 DEF FinishNegotiation
    <2>2. QED
        BY <1>1, <2>1, Begun
<1>2. CASE ~l.queued
    <2>1. m = [l EXCEPT !.neg = 0, !.attached = None]
        BY <1>2 DEF FinishNegotiation
    <2>2. \A n \in Nat : [l EXCEPT !.neg = n, !.attached = None] \in Link
        BY DEF Link
    <2>3. m \in Link
        BY <2>1, <2>2
    <2>4. /\ m.neg = 0 /\ m.num = l.num /\ m.attached = None /\ m.actor = l.actor
          /\ m.skipped = l.skipped /\ m.offers = l.offers /\ m.pending = l.pending
          /\ m.queued = l.queued
        BY <2>1 DEF Link
    <2>5. Sound(m)
        BY <1>2, <2>4 DEF Sound, Link
    <2>6. QED
        BY <1>2, <2>3, <2>4, <2>5
<1>3. QED
    BY <1>1, <1>2

\* An actor with some of its fields changed.
LEMMA ActorChanged ==
    ASSUME NEW l \in Link, NEW a \in Actor, NEW m, m = [l EXCEPT !.actor = a]
    PROVE  /\ m \in Link
           /\ m.actor = a
           /\ m.num = l.num /\ m.neg = l.neg /\ m.attached = l.attached /\ m.queued = l.queued
           /\ m.skipped = l.skipped /\ m.offers = l.offers /\ m.pending = l.pending
BY DEF Link

LEMMA Closed ==
    ASSUME NEW l \in Link, Sound(l), NEW m, m = ClosePeer(l)
    PROVE  /\ m \in Link /\ Sound(m)
           /\ m.num = l.num /\ m.neg = l.neg /\ m.offers = l.offers /\ m.pending = l.pending
           /\ m.actor.role = "none"
           /\ l = NoLink => [m EXCEPT !.pending = <<>>] = NoLink
           /\ [m EXCEPT !.pending = <<>>] \in Link /\ Sound([m EXCEPT !.pending = <<>>])
           /\ [m EXCEPT !.pending = <<>>].num = l.num
           /\ [m EXCEPT !.pending = <<>>].neg = l.neg
           /\ [m EXCEPT !.pending = <<>>].actor.role = "none"
           /\ [m EXCEPT !.pending = <<>>].pending = <<>>
<1>1. /\ NoActor \in Actor /\ NoActor.role = "none" /\ NoActor.sig = "stable"
      /\ NoActor.answer = NoAnswer /\ <<>> \in Seq(Pc)
    BY NoLinkSound DEF NoActor
<1>2. /\ m \in Link
      /\ m.actor = NoActor
      /\ m.num = l.num /\ m.neg = l.neg /\ m.attached = l.attached /\ m.queued = l.queued
      /\ m.skipped = l.skipped /\ m.offers = l.offers /\ m.pending = l.pending
    BY <1>1, ActorChanged DEF ClosePeer
<1>3. Sound(m)
    BY <1>1, <1>2 DEF Sound
<1> DEFINE n == [m EXCEPT !.pending = <<>>]
<1>4. n \in Link
    BY <1>1, <1>2 DEF Link
<1>5. /\ n.num = m.num /\ n.actor = m.actor /\ n.neg = m.neg /\ n.attached = m.attached
      /\ n.queued = m.queued /\ n.pending = <<>>
    BY <1>2 DEF Link
<1>6. Sound(n)
    BY <1>3, <1>5 DEF Sound
<1>7. ASSUME l = NoLink PROVE n = NoLink
    <2>1. \A k \in Link : [k EXCEPT !.actor = k.actor] = k /\ [k EXCEPT !.pending = k.pending] = k
        BY DEF Link
    <2>2. NoLink \in Link /\ NoLink.actor = NoActor /\ NoLink.pending = <<>>
        BY NoLinkSound DEF NoLink
    <2>3. m = NoLink
        BY <1>7, <2>1, <2>2 DEF ClosePeer
    <2>4. QED
        BY <2>1, <2>2, <2>3
<1>8. QED
    BY <1>1, <1>2, <1>3, <1>4, <1>5, <1>6, <1>7

LEMMA Attached ==
    ASSUME NEW l \in Link, Sound(l), l.neg # 0, NEW n \in 0..MaxTracks,
           NEW m, m = [l EXCEPT !.attached = n]
    PROVE  /\ m \in Link /\ Sound(m)
           /\ m.attached = n
           /\ m.num = l.num /\ m.neg = l.neg /\ m.actor = l.actor /\ m.queued = l.queued
           /\ m.skipped = l.skipped /\ m.offers = l.offers /\ m.pending = l.pending
<1>1. n \in Nat /\ n <= MaxTracks
    BY NegotiationAssumption
<1>2. /\ m \in Link
      /\ m.attached = n
      /\ m.num = l.num /\ m.neg = l.neg /\ m.actor = l.actor /\ m.queued = l.queued
      /\ m.skipped = l.skipped /\ m.offers = l.offers /\ m.pending = l.pending
    BY <1>1 DEF Link
<1>3. Sound(m)
    BY <1>1, <1>2 DEF Sound
<1>4. QED
    BY <1>2, <1>3

LEMMA Skipped ==
    ASSUME NEW l \in Link, Sound(l), NEW m, m = [l EXCEPT !.skipped = TRUE]
    PROVE  /\ m \in Link /\ Sound(m)
           /\ m.skipped = TRUE
           /\ m.num = l.num /\ m.neg = l.neg /\ m.actor = l.actor /\ m.queued = l.queued
           /\ m.attached = l.attached /\ m.offers = l.offers /\ m.pending = l.pending
<1>1. /\ m \in Link
      /\ m.skipped = TRUE
      /\ m.num = l.num /\ m.neg = l.neg /\ m.actor = l.actor /\ m.queued = l.queued
      /\ m.attached = l.attached /\ m.offers = l.offers /\ m.pending = l.pending
    BY DEF Link
<1>2. QED
    BY <1>1 DEF Sound

LEMMA Unskipped ==
    ASSUME NEW l \in Link, Sound(l), NEW m, m = [l EXCEPT !.skipped = FALSE]
    PROVE  /\ m \in Link /\ Sound(m)
           /\ m.skipped = FALSE
           /\ m.num = l.num /\ m.neg = l.neg /\ m.actor = l.actor /\ m.queued = l.queued
           /\ m.attached = l.attached /\ m.offers = l.offers /\ m.pending = l.pending
<1>1. /\ m \in Link
      /\ m.skipped = FALSE
      /\ m.num = l.num /\ m.neg = l.neg /\ m.actor = l.actor /\ m.queued = l.queued
      /\ m.attached = l.attached /\ m.offers = l.offers /\ m.pending = l.pending
    BY DEF Link
<1>2. QED
    BY <1>1 DEF Sound

LEMMA OfferCreated ==
    ASSUME NEW l \in Link, Sound(l), l.actor.role = "offerer", NEW m, m = CreateOffer(l)
    PROVE  /\ m \in Link /\ Sound(m)
           /\ m.actor.sig = "have-local-offer"
           /\ m.actor.role = "offerer" /\ m.actor.remote = l.actor.remote
           /\ m.actor.cands = l.actor.cands /\ m.actor.got = l.actor.got
           /\ m.actor.answer = l.actor.answer
           /\ m.num = l.num /\ m.neg = l.neg /\ m.attached = l.attached /\ m.queued = l.queued
           /\ m.skipped = l.skipped /\ m.offers = l.offers /\ m.pending = l.pending
<1> DEFINE a == [l.actor EXCEPT !.sig = "have-local-offer"]
<1>1. l.actor \in Actor
    BY DEF Link
<1>2. /\ a \in Actor
      /\ a.sig = "have-local-offer" /\ a.role = l.actor.role /\ a.remote = l.actor.remote
      /\ a.cands = l.actor.cands /\ a.got = l.actor.got /\ a.answer = l.actor.answer
    BY <1>1 DEF Actor
<1>3. m = [l EXCEPT !.actor = a]
    BY DEF CreateOffer, Link
<1> HIDE DEF a
<1>4. /\ m \in Link
      /\ m.actor = a
      /\ m.num = l.num /\ m.neg = l.neg /\ m.attached = l.attached /\ m.queued = l.queued
      /\ m.skipped = l.skipped /\ m.offers = l.offers /\ m.pending = l.pending
    BY <1>2, <1>3, ActorChanged
<1>5. Sound(m)
    BY <1>2, <1>4 DEF Sound
<1>6. QED
    BY <1>2, <1>4, <1>5

\* The answer of a link that has been told of an offer.
LEMMA AnswerCreated ==
    ASSUME NEW l \in Link, Sound(l), l.actor.sig = "have-remote-offer", NEW m, m = CreateAnswer(l)
    PROVE  /\ m \in Link /\ Sound(m)
           /\ m.actor.sig = "stable"
           /\ m.actor.role = l.actor.role /\ m.actor.remote = l.actor.remote
           /\ m.actor.cands = l.actor.cands /\ m.actor.got = l.actor.got
           /\ m.actor.answer = l.actor.answer
           /\ m.num = l.num /\ m.neg = l.neg /\ m.attached = l.attached /\ m.queued = l.queued
           /\ m.skipped = l.skipped /\ m.offers = l.offers /\ m.pending = l.pending
<1> DEFINE a == [l.actor EXCEPT !.sig = "stable"]
<1>1. l.actor \in Actor
    BY DEF Link
<1>2. /\ a \in Actor
      /\ a.sig = "stable" /\ a.role = l.actor.role /\ a.remote = l.actor.remote
      /\ a.cands = l.actor.cands /\ a.got = l.actor.got /\ a.answer = l.actor.answer
    BY <1>1 DEF Actor
<1>3. m = [l EXCEPT !.actor = a]
    BY DEF CreateAnswer, Link
<1> HIDE DEF a
<1>4. /\ m \in Link
      /\ m.actor = a
      /\ m.num = l.num /\ m.neg = l.neg /\ m.attached = l.attached /\ m.queued = l.queued
      /\ m.skipped = l.skipped /\ m.offers = l.offers /\ m.pending = l.pending
    BY <1>2, <1>3, ActorChanged
<1>5. Sound(m)
    BY <1>2, <1>4 DEF Sound
<1>6. QED
    BY <1>2, <1>4, <1>5

\* The candidates that waited for a description, up to the first that is refused.
AddedOf(l) == {x \in Waits(l) : \A y \in 1..x : ~Refuses(l, l.pending[y])}
LEMMA Flushed ==
    ASSUME NEW l \in Link, Sound(l), NEW m, m = FlushPending(l)
    PROVE  /\ m \in Link /\ Sound(m)
           /\ m.actor.role = l.actor.role /\ m.actor.sig = l.actor.sig
           /\ m.actor.remote = l.actor.remote /\ m.actor.got = l.actor.got
           /\ m.actor.answer = l.actor.answer
           /\ m.actor.cands = l.actor.cands \cup {l.pending[x] : x \in AddedOf(l)}
           /\ m.pending = (IF Refused(l) THEN l.pending ELSE <<>>)
           /\ m.num = l.num /\ m.neg = l.neg /\ m.attached = l.attached /\ m.queued = l.queued
           /\ m.skipped = l.skipped /\ m.offers = l.offers
<1> DEFINE C == {l.pending[x] : x \in AddedOf(l)}
           W == IF Refused(l) THEN l.pending ELSE <<>>
           a == [l.actor EXCEPT !.cands = @ \cup C]
           k == [l EXCEPT !.actor = a]
<1>1. l.actor \in Actor /\ l.pending \in Seq(Pc) /\ <<>> \in Seq(Pc)
    BY DEF Link
<1>2. C \in SUBSET Pc
    BY <1>1 DEF AddedOf, Waits
<1>3. W \in Seq(Pc)
    BY <1>1
<1>4. m = [k EXCEPT !.pending = W]
    BY DEF FlushPending, AddedOf, Link
<1> HIDE DEF C, W
<1>5. l.actor.cands \cup C \in SUBSET Pc
    BY <1>1, <1>2 DEF Actor
<1>6. /\ a \in Actor
      /\ a.sig = l.actor.sig /\ a.role = l.actor.role /\ a.remote = l.actor.remote
      /\ a.cands = l.actor.cands \cup C /\ a.got = l.actor.got /\ a.answer = l.actor.answer
    BY <1>1, <1>5 DEF Actor
<1> HIDE DEF a
<1>7. /\ k \in Link
      /\ k.actor = a
      /\ k.num = l.num /\ k.neg = l.neg /\ k.attached = l.attached /\ k.queued = l.queued
      /\ k.skipped = l.skipped /\ k.offers = l.offers /\ k.pending = l.pending
    BY <1>6, ActorChanged
<1> HIDE DEF k
<1>8. m \in Link
    BY <1>3, <1>4, <1>7 DEF Link
<1>9. /\ m.actor = k.actor /\ m.pending = W
      /\ m.num = k.num /\ m.neg = k.neg /\ m.attached = k.attached /\ m.queued = k.queued
      /\ m.skipped = k.skipped /\ m.offers = k.offers
    BY <1>4, <1>7 DEF Link
<1>10. Sound(m)
    BY <1>6, <1>7, <1>9 DEF Sound
<1>11. QED
    BY <1>6, <1>7, <1>8, <1>9, <1>10 DEF C, W

\* A candidate of connection pc waits; and none waits of another.
Early(l, pc) == \E x \in Waits(l) : l.pending[x] = pc
Only(l, pc)  == \A x \in Waits(l) : l.pending[x] = pc

\* If none waits of another connection than the one described, none is refused.
LEMMA FlushedAll ==
    ASSUME NEW l \in Link, Sound(l), Only(l, l.actor.remote), NEW m, m = FlushPending(l)
    PROVE  /\ ~Refused(l)
           /\ m.pending = <<>> /\ l.actor.cands \subseteq m.actor.cands
           /\ Early(l, l.actor.remote) => l.actor.remote \in m.actor.cands
<1>1. ~Refused(l)
    BY DEF Refused, Refuses, Only
<1>2. /\ m.actor.cands = l.actor.cands \cup {l.pending[x] : x \in AddedOf(l)}
      /\ m.pending = (IF Refused(l) THEN l.pending ELSE <<>>)
    BY Flushed
<1>3. ASSUME NEW x \in Waits(l), l.pending[x] = l.actor.remote PROVE l.pending[x] \in m.actor.cands
    <2>1. \A y \in 1..x : y \in Waits(l)
        BY DEF Waits, Link
    <2>2. x \in AddedOf(l)
        BY <2>1 DEF AddedOf, Refuses, Only
    <2>3. QED
        BY <1>2, <2>2
<1>4. QED
    BY <1>1, <1>2, <1>3 DEF Early

\* The answer that was being applied is.
LEMMA AnswerSet ==
    ASSUME NEW l \in Link, Sound(l), NEW m, m = SetRemoteAnswer(l)
    PROVE  /\ m \in Link /\ Sound(m)
           /\ m.actor.role = l.actor.role /\ m.actor.sig = "stable"
           /\ m.actor.remote = l.actor.answer.pc /\ m.actor.got = l.actor.answer.tracks
           /\ m.actor.cands = l.actor.cands /\ m.actor.answer = NoAnswer
           /\ m.num = l.num /\ m.neg = l.neg /\ m.attached = l.attached /\ m.queued = l.queued
           /\ m.skipped = l.skipped /\ m.offers = l.offers /\ m.pending = l.pending
<1> DEFINE w == l.actor.answer
           a == [l.actor EXCEPT !.sig = "stable", !.remote = w.pc, !.got = w.tracks,
                                !.answer = NoAnswer]
<1>1. l.actor \in Actor /\ NoAnswer \in Said
    BY NoLinkSound DEF Link, Said, NoAnswer, NoPc, Pc
<1>2. w \in Said
    BY <1>1 DEF Actor
<1>3. w.pc \in Pc /\ w.tracks \in Nat
    BY <1>2 DEF Said
<1> HIDE DEF w
<1>4. /\ a \in Actor
      /\ a.sig = "stable" /\ a.role = l.actor.role /\ a.remote = w.pc
      /\ a.cands = l.actor.cands /\ a.got = w.tracks /\ a.answer = NoAnswer
    BY <1>1, <1>3 DEF Actor
<1>5. m = [l EXCEPT !.actor = a]
    BY DEF SetRemoteAnswer, Link, w
<1> HIDE DEF a
<1>6. /\ m \in Link
      /\ m.actor = a
      /\ m.num = l.num /\ m.neg = l.neg /\ m.attached = l.attached /\ m.queued = l.queued
      /\ m.skipped = l.skipped /\ m.offers = l.offers /\ m.pending = l.pending
    BY <1>4, <1>5, ActorChanged
<1>7. Sound(m)
    BY <1>4, <1>6 DEF Sound
<1>8. QED
    BY <1>4, <1>6, <1>7 DEF w

LEMMA OfferSet ==
    ASSUME NEW l \in Link, Sound(l), l.actor.role = "answerer", NEW pc \in Pc, NEW theirs \in Nat,
           NEW m, m = SetRemoteOffer(l, pc, theirs)
    PROVE  /\ m \in Link /\ Sound(m)
           /\ m.actor.role = l.actor.role /\ m.actor.sig = "have-remote-offer"
           /\ m.actor.remote = pc /\ m.actor.got = theirs
           /\ m.actor.cands = l.actor.cands /\ m.actor.answer = NoAnswer
           /\ m.num = l.num /\ m.neg = l.neg /\ m.attached = l.attached /\ m.queued = l.queued
           /\ m.skipped = l.skipped /\ m.offers = l.offers /\ m.pending = l.pending
<1> DEFINE a == [l.actor EXCEPT !.sig = "have-remote-offer", !.remote = pc, !.got = theirs]
<1>1. l.actor \in Actor /\ l.actor.answer = NoAnswer
    BY DEF Link, Sound
<1>2. /\ a \in Actor
      /\ a.sig = "have-remote-offer" /\ a.role = l.actor.role /\ a.remote = pc
      /\ a.cands = l.actor.cands /\ a.got = theirs /\ a.answer = l.actor.answer
    BY <1>1 DEF Actor
<1>3. m = [l EXCEPT !.actor = a]
    BY DEF SetRemoteOffer, Link
<1> HIDE DEF a
<1>4. /\ m \in Link
      /\ m.actor = a
      /\ m.num = l.num /\ m.neg = l.neg /\ m.attached = l.attached /\ m.queued = l.queued
      /\ m.skipped = l.skipped /\ m.offers = l.offers /\ m.pending = l.pending
    BY <1>2, <1>3, ActorChanged
<1>5. Sound(m)
    BY <1>1, <1>2, <1>4 DEF Sound
<1>6. QED
    BY <1>1, <1>2, <1>4, <1>5

\* An answer is taken, to be applied.
AnswerHeld(l, w) == [l EXCEPT !.actor.answer = w]
LEMMA AnswerHeldFacts ==
    ASSUME NEW l \in Link, Sound(l), l.actor.sig = "have-local-offer", NEW w \in Said,
           NEW m, m = AnswerHeld(l, w)
    PROVE  /\ m \in Link /\ Sound(m)
           /\ m.actor.role = l.actor.role /\ m.actor.sig = l.actor.sig
           /\ m.actor.remote = l.actor.remote /\ m.actor.got = l.actor.got
           /\ m.actor.cands = l.actor.cands /\ m.actor.answer = w
           /\ m.num = l.num /\ m.neg = l.neg /\ m.attached = l.attached /\ m.queued = l.queued
           /\ m.skipped = l.skipped /\ m.offers = l.offers /\ m.pending = l.pending
<1> DEFINE a == [l.actor EXCEPT !.answer = w]
<1>1. l.actor \in Actor
    BY DEF Link
<1>2. /\ a \in Actor
      /\ a.sig = l.actor.sig /\ a.role = l.actor.role /\ a.remote = l.actor.remote
      /\ a.cands = l.actor.cands /\ a.got = l.actor.got /\ a.answer = w
    BY <1>1 DEF Actor
<1>3. m = [l EXCEPT !.actor = a]
    BY DEF AnswerHeld, Link
<1> HIDE DEF a
<1>4. /\ m \in Link
      /\ m.actor = a
      /\ m.num = l.num /\ m.neg = l.neg /\ m.attached = l.attached /\ m.queued = l.queued
      /\ m.skipped = l.skipped /\ m.offers = l.offers /\ m.pending = l.pending
    BY <1>2, <1>3, ActorChanged
<1>5. Sound(m)
    BY <1>2, <1>4 DEF Sound
<1>6. QED
    BY <1>2, <1>4, <1>5

\* A candidate waits for a remote description, is refused or is added.
LEMMA CandidateTaken ==
    ASSUME NEW l \in Link, Sound(l), NEW pc \in Pc, NEW m, m = TakeCandidate(l, pc)
    PROVE  /\ m \in Link /\ Sound(m)
           /\ m.actor.role = l.actor.role /\ m.actor.sig = l.actor.sig
           /\ m.actor.remote = l.actor.remote /\ m.actor.got = l.actor.got
           /\ m.actor.answer = l.actor.answer
           /\ l.actor.cands \subseteq m.actor.cands
           /\ l.actor.remote = NoPc => m.pending = Append(l.pending, pc)
           /\ l.actor.remote # NoPc => m.pending = l.pending
           /\ l.actor.remote = pc /\ pc # NoPc => pc \in m.actor.cands
           /\ m.num = l.num /\ m.neg = l.neg /\ m.attached = l.attached /\ m.queued = l.queued
           /\ m.skipped = l.skipped /\ m.offers = l.offers
<1>1. CASE l.actor.remote = NoPc
    <2>1. m = [l EXCEPT !.pending = Append(@, pc)]
        BY <1>1 DEF TakeCandidate
    <2>2. Append(l.pending, pc) \in Seq(Pc)
        BY DEF Link
    <2>3. m \in Link
        BY <2>1, <2>2 DEF Link
    <2>4. /\ m.actor = l.actor /\ m.pending = Append(l.pending, pc)
          /\ m.num = l.num /\ m.neg = l.neg /\ m.attached = l.attached /\ m.queued = l.queued
          /\ m.skipped = l.skipped /\ m.offers = l.offers
        BY <2>1 DEF Link
    <2>5. Sound(m)
        BY <2>4 DEF Sound
    <2>6. QED
        BY <1>1, <2>3, <2>4, <2>5
<1>2. CASE l.actor.remote # NoPc /\ l.actor.remote # pc
    <2>1. m = l
        BY <1>2 DEF TakeCandidate, Refuses
    <2>2. QED
        BY <1>2, <2>1
<1>3. CASE l.actor.remote # NoPc /\ l.actor.remote = pc
    <2> DEFINE a == [l.actor EXCEPT !.cands = @ \cup {pc}]
    <2>1. l.actor \in Actor
        BY DEF Link
    <2>2. l.actor.cands \cup {pc} \in SUBSET Pc
        BY <2>1 DEF Actor
    <2>3. /\ a \in Actor
          /\ a.sig = l.actor.sig /\ a.role = l.actor.role /\ a.remote = l.actor.remote
          /\ a.cands = l.actor.cands \cup {pc} /\ a.got = l.actor.got
          /\ a.answer = l.actor.answer
        BY <2>1, <2>2 DEF Actor
    <2>4. m = [l EXCEPT !.actor = a]
        BY <1>3 DEF TakeCandidate, Refuses, Link
    <2> HIDE DEF a
    <2>5. /\ m \in Link
          /\ m.actor = a
          /\ m.num = l.num /\ m.neg = l.neg /\ m.attached = l.attached /\ m.queued = l.queued
          /\ m.skipped = l.skipped /\ m.offers = l.offers /\ m.pending = l.pending
        BY <2>3, <2>4, ActorChanged
    <2>6. Sound(m)
        BY <2>3, <2>5 DEF Sound
    <2>7. QED
        BY <1>3, <2>3, <2>5, <2>6
<1>4. QED
    BY <1>1, <1>2, <1>3

\* Offers that wait to be answered come and go.
LEMMA OffersChanged ==
    ASSUME NEW l \in Link, Sound(l), NEW s \in Seq(Offer), NEW m, m = [l EXCEPT !.offers = s]
    PROVE  /\ m \in Link /\ Sound(m)
           /\ m.offers = s
           /\ m.num = l.num /\ m.neg = l.neg /\ m.actor = l.actor /\ m.queued = l.queued
           /\ m.attached = l.attached /\ m.skipped = l.skipped /\ m.pending = l.pending
<1>1. /\ m \in Link
      /\ m.offers = s
      /\ m.num = l.num /\ m.neg = l.neg /\ m.actor = l.actor /\ m.queued = l.queued
      /\ m.attached = l.attached /\ m.skipped = l.skipped /\ m.pending = l.pending
    BY DEF Link
<1>2. QED
    BY <1>1 DEF Sound

-----------------------------------------------------------------------------
(***************************************************************************)
(* Steps: what each action does to the links and the queues, and that the  *)
(* types are kept.                                                         *)
(***************************************************************************)
LEMMA Two ==
    ASSUME NEW p \in Parts
    PROVE  /\ Other(p) \in Parts /\ Other(p) # p /\ Other(Other(p)) = p
           /\ \A r \in Parts : r = p \/ r = Other(p)
BY DEF Parts, Other

OnlyLink(p, q) == \A r \in Parts, s \in PeerIds :
                     r # p \/ s # q => link'[r][s] = link[r][s]
OnlyLinksOf(p) == \A r \in Parts, s \in PeerIds : r # p => link'[r][s] = link[r][s]
LinksTyped(f)  == /\ f \in [Parts -> [PeerIds -> Link]]
                  /\ \A p \in Parts, q \in PeerIds : Sound(f[p][q]) /\ f[p][q].num <= MaxActors

Popped(p) == /\ inbox[p] # <<>>
             /\ inbox'[p] = Tail(inbox[p]) /\ inbox'[Other(p)] = inbox[Other(p)]
SameBoxes == \A p \in Parts : inbox'[p] = inbox[p]

LEMMA LinkKept ==
    ASSUME Shape, NEW p \in Parts, NEW q \in PeerIds, NEW l \in Link, Sound(l), Keep(p, q, l)
    PROVE  LinksTyped(link') /\ link'[p][q] = l /\ OnlyLink(p, q)
<1>1. link \in [Parts -> [PeerIds -> Link]] /\ link[p] \in [PeerIds -> Link]
    BY DEF Shape
<1>2. l.num <= MaxActors /\ link' = [link EXCEPT ![p][q] = l]
    BY DEF Keep
<1>3. /\ link' \in [Parts -> [PeerIds -> Link]]
      /\ link'[p][q] = l
    BY <1>1, <1>2
<1>4. ASSUME NEW r \in Parts, NEW s \in PeerIds, r # p \/ s # q PROVE link'[r][s] = link[r][s]
    BY <1>1, <1>2, <1>4
<1>5. ASSUME NEW r \in Parts, NEW s \in PeerIds
      PROVE  Sound(link'[r][s]) /\ link'[r][s].num <= MaxActors
    <2>1. CASE r = p /\ s = q
        BY <1>2, <1>3, <2>1
    <2>2. CASE r # p \/ s # q
        <3>1. link'[r][s] = link[r][s]
            BY <1>4, <2>2
        <3>2. QED
            BY <3>1 DEF Shape
    <2>3. QED
        BY <2>1, <2>2
<1>6. QED
    BY <1>3, <1>4, <1>5 DEF LinksTyped, OnlyLink

LEMMA BoxTaken ==
    ASSUME Shape, NEW p \in Parts, NEW t, Arrived(p, t), Taken(p)
    PROVE  /\ Head(inbox[p]) \in Msg /\ Head(inbox[p]).t = t
           /\ Popped(p) /\ inbox' \in [Parts -> Seq(Msg)]
<1>1. inbox \in [Parts -> Seq(Msg)] /\ inbox[p] \in Seq(Msg) /\ inbox[p] # <<>>
    BY DEF Shape, Arrived
<1>2. Tail(inbox[p]) \in Seq(Msg) /\ Head(inbox[p]) \in Msg
    BY <1>1, Shortened
<1>3. inbox' = [inbox EXCEPT ![p] = Tail(inbox[p])]
    BY DEF Taken
<1>4. inbox' \in [Parts -> Seq(Msg)] /\ inbox'[p] = Tail(inbox[p])
    BY <1>1, <1>2, <1>3
<1>5. inbox'[Other(p)] = inbox[Other(p)]
    BY <1>1, <1>3, Two
<1>6. QED
    BY <1>1, <1>2, <1>4, <1>5 DEF Popped, Arrived

Ice(p, pc) == [t |-> "rtc.ice_event", from |-> self[p], pc |-> pc]
WithIceAfter(Q, l, p, pc, m) ==
    IF l.actor.remote = NoPc THEN Append(Append(Q, m), Ice(p, pc)) ELSE Append(Q, m)

LEMMA BoxSent ==
    ASSUME Shape, NEW p \in Parts, NEW q \in PeerIds, NEW l, NEW pc \in Pc, NEW m,
           self[p] # None => m \in Msg,
           inbox' = Send(p, q, WithIce(l, p, pc, m))
    PROVE  /\ inbox' \in [Parts -> Seq(Msg)]
           /\ inbox'[p] = inbox[p]
           /\ ~Routed(p, q) => SameBoxes
           /\ Routed(p, q) => /\ m \in Msg /\ Ice(p, pc) \in Msg
                              /\ inbox'[Other(p)] = WithIceAfter(inbox[Other(p)], l, p, pc, m)
<1>1. inbox \in [Parts -> Seq(Msg)] /\ inbox[p] \in Seq(Msg) /\ inbox[Other(p)] \in Seq(Msg)
    BY Two DEF Shape
<1>2. CASE ~Routed(p, q)
    BY <1>1, <1>2 DEF Send, SameBoxes
<1>3. CASE Routed(p, q)
    <2> DEFINE Q == inbox[Other(p)]
               S == WithIceAfter(Q, l, p, pc, m)
    <2>1. self[p] \in PeerIds
        BY <1>3 DEF Routed, Shape
    <2>2. m \in Msg
        BY <1>3 DEF Routed
    <2>3. Ice(p, pc) \in Msg
        BY <2>1 DEF Ice, Msg, Candidates
    <2>4. Q \o WithIce(l, p, pc, m) = S
        BY <1>1, <2>2, <2>3, Sent DEF WithIce, WithIceAfter, Ice
    <2>5. S \in Seq(Msg)
        BY <1>1, <2>2, <2>3, Lengthened DEF WithIceAfter
    <2>6. inbox' = [inbox EXCEPT ![Other(p)] = S]
        BY <1>3, <2>4 DEF Send
    <2> HIDE DEF S
    <2>7. /\ inbox' \in [Parts -> Seq(Msg)]
          /\ inbox'[Other(p)] = S /\ inbox'[p] = inbox[p]
        BY <1>1, <2>5, <2>6, Two
    <2>8. QED
        BY <1>3, <2>2, <2>3, <2>7 DEF S
<1>4. QED
    BY <1>2, <1>3

LEMMA Numbers ==
    ASSUME NEW q \in PeerIds
    PROVE  q \in Nat /\ q # 0 /\ q # None
BY NegotiationAssumption DEF PeerIds

LEMMA PcFacts ==
    ASSUME NEW q \in PeerIds, NEW n \in Nat
    PROVE  <<q, n>> \in Pc /\ <<q, n>> # NoPc
BY Numbers DEF Pc, NoPc

LEMMA KindsOf ==
    ASSUME NEW m \in Msg
    PROVE  /\ m.t \in {"rtc.offer_event", "rtc.answer_event"} =>
                 m.from \in PeerIds /\ m.pc \in Pc /\ m.tracks \in Nat
           /\ m.t = "rtc.ice_event" => m.from \in PeerIds /\ m.pc \in Pc
           /\ m.t = "rtc.peer_event" => m.peer \in PeerIds /\ m.kind \in {"join", "leave"}
           /\ m.t = "rtc.participants" => m.self \in PeerIds /\ m.others \in SUBSET PeerIds
BY DEF Msg, Description, Candidates, PeerEvent, Roster

LEMMA LinkFacts ==
    ASSUME Shape, NEW p \in Parts, NEW q \in PeerIds
    PROVE  link[p][q] \in Link /\ Sound(link[p][q]) /\ link[p][q].num \in Nat
<1>1. link[p][q] \in Link /\ Sound(link[p][q])
    BY DEF Shape
<1>2. QED
    BY <1>1 DEF Link

LEMMA Reshaped ==
    ASSUME Shape, LinksTyped(link'), inbox' \in [Parts -> Seq(Msg)],
           UNCHANGED <<call, issued, self, tracks, turn>>
    PROVE  Shape'
BY DEF Shape, LinksTyped

LEMMA AttachStep ==
    ASSUME Shape, NEW p \in Parts, NEW q \in PeerIds, AttachLocalTracks(p, q)
    PROVE  /\ Shape' /\ UNCHANGED <<call, issued, self, tracks, inbox, turn>>
           /\ OnlyLink(p, q)
           /\ link[p][q].neg # 0 /\ link[p][q].actor.role = "offerer"
           /\ link[p][q].neg = link[p][q].num /\ link[p][q].actor.sig = "stable"
           /\ link'[p][q] = [link[p][q] EXCEPT !.attached = tracks[p]]
<1> DEFINE l == link[p][q]
           m == [l EXCEPT !.attached = tracks[p]]
<1>1. l \in Link /\ Sound(l) /\ tracks[p] \in 0..MaxTracks
    BY LinkFacts DEF Shape
<1>2. /\ l.neg # 0 /\ l.actor.role = "offerer" /\ l.neg = l.num /\ l.actor.sig = "stable"
      /\ Keep(p, q, m) /\ UNCHANGED <<call, issued, self, tracks, inbox, turn>>
    BY DEF AttachLocalTracks, Captured
<1>3. m \in Link /\ Sound(m)
    BY <1>1, <1>2, Attached
<1> HIDE DEF m
<1>4. LinksTyped(link') /\ link'[p][q] = m /\ OnlyLink(p, q)
    BY <1>2, <1>3, LinkKept
<1>5. inbox' \in [Parts -> Seq(Msg)]
    BY <1>2 DEF Shape
<1>6. Shape'
    BY <1>2, <1>4, <1>5, Reshaped
<1>7. QED
    BY <1>2, <1>4, <1>6 DEF m

\* What is left of a link when its negotiation has offered or been skipped.
AfterOffer(l) == FinishNegotiation([CreateOffer(l) EXCEPT !.skipped = FALSE])
AfterSkip(l)  == FinishNegotiation([l EXCEPT !.skipped = TRUE])

LEMMA AfterOfferFacts ==
    ASSUME NEW l \in Link, Sound(l), l.neg # 0, l.actor.role = "offerer", NEW m, m = AfterOffer(l)
    PROVE  /\ m \in Link /\ Sound(m)
           /\ m.num = l.num /\ m.attached = None /\ m.skipped = FALSE
           /\ m.actor.role = "offerer" /\ m.actor.sig = "have-local-offer"
           /\ m.actor.remote = l.actor.remote
           /\ m.actor.cands = l.actor.cands /\ m.actor.got = l.actor.got
           /\ m.actor.answer = l.actor.answer
           /\ m.offers = l.offers /\ m.pending = l.pending
           /\ l.queued => m.neg = m.num
           /\ ~l.queued => m.neg = 0
<1> DEFINE c == CreateOffer(l)
           k == [c EXCEPT !.skipped = FALSE]
<1>1. /\ c \in Link /\ Sound(c)
      /\ c.actor.sig = "have-local-offer"
      /\ c.actor.role = "offerer" /\ c.actor.remote = l.actor.remote
      /\ c.actor.cands = l.actor.cands /\ c.actor.got = l.actor.got
      /\ c.actor.answer = l.actor.answer
      /\ c.num = l.num /\ c.neg = l.neg /\ c.queued = l.queued
      /\ c.offers = l.offers /\ c.pending = l.pending
    BY OfferCreated
<1> HIDE DEF c
<1>2. /\ k \in Link /\ Sound(k)
      /\ k.skipped = FALSE
      /\ k.num = c.num /\ k.neg = c.neg /\ k.actor = c.actor /\ k.queued = c.queued
      /\ k.offers = c.offers /\ k.pending = c.pending
    BY <1>1, Unskipped
<1>3. m = FinishNegotiation(k)
    BY DEF AfterOffer, c
<1> HIDE DEF k
<1>4. /\ m \in Link /\ Sound(m)
      /\ m.attached = None
      /\ m.skipped = k.skipped /\ m.offers = k.offers /\ m.pending = k.pending
      /\ m.num = k.num /\ m.actor = k.actor
      /\ k.queued => m.neg = m.num
      /\ ~k.queued => m.neg = 0
    BY <1>1, <1>2, <1>3, Finished
<1>5. QED
    BY <1>1, <1>2, <1>4

LEMMA AfterSkipFacts ==
    ASSUME NEW l \in Link, Sound(l), l.neg # 0, l.actor.role = "offerer", NEW m, m = AfterSkip(l)
    PROVE  /\ m \in Link /\ Sound(m)
           /\ m.num = l.num /\ m.attached = None /\ m.skipped = TRUE /\ m.actor = l.actor
           /\ m.offers = l.offers /\ m.pending = l.pending
           /\ m.neg \in {0, m.num}
<1> DEFINE k == [l EXCEPT !.skipped = TRUE]
<1>1. /\ k \in Link /\ Sound(k)
      /\ k.skipped = TRUE
      /\ k.num = l.num /\ k.neg = l.neg /\ k.actor = l.actor /\ k.queued = l.queued
      /\ k.offers = l.offers /\ k.pending = l.pending
    BY Skipped
<1>2. m = FinishNegotiation(k)
    BY DEF AfterSkip
<1> HIDE DEF k
<1>3. /\ m \in Link /\ Sound(m)
      /\ m.attached = None
      /\ m.skipped = k.skipped /\ m.offers = k.offers /\ m.pending = k.pending
      /\ m.num = k.num /\ m.actor = k.actor
      /\ k.queued => m.neg = m.num
      /\ ~k.queued => m.neg = 0
    BY <1>1, <1>2, Finished
<1>4. QED
    BY <1>1, <1>3

OfferOf(p, q) == [t |-> "rtc.offer_event", from |-> self[p], pc |-> <<q, link[p][q].num>>,
                  tracks |-> link[p][q].attached]

LEMMA MakeOfferStep ==
    ASSUME Shape, NEW p \in Parts, NEW q \in PeerIds, MakeOffer(p, q)
    PROVE  /\ Shape' /\ UNCHANGED <<call, issued, self, tracks, turn>>
           /\ OnlyLink(p, q)
           /\ link[p][q].neg # 0 /\ link[p][q].attached # None
           /\ link[p][q].actor.role = "offerer" /\ link[p][q].neg = link[p][q].num
           /\ link'[p][q] = AfterOffer(link[p][q])
           /\ inbox'[p] = inbox[p]
           /\ ~Routed(p, q) => SameBoxes
           /\ Routed(p, q) => /\ OfferOf(p, q) \in Msg /\ Ice(p, <<q, link[p][q].num>>) \in Msg
                              /\ inbox'[Other(p)] = WithIceAfter(inbox[Other(p)], link[p][q], p,
                                                        <<q, link[p][q].num>>, OfferOf(p, q))
<1> DEFINE l == link[p][q]
           pc == <<q, l.num>>
           o == OfferOf(p, q)
           m == AfterOffer(l)
<1>1. l \in Link /\ Sound(l) /\ l.num \in Nat
    BY LinkFacts
<1>2. /\ l.neg # 0 /\ l.attached # None /\ l.actor.role = "offerer" /\ l.neg = l.num
      /\ inbox' = Send(p, q, WithIce(l, p, pc, o))
      /\ Keep(p, q, m) /\ UNCHANGED <<call, issued, self, tracks, turn>>
    BY DEF MakeOffer, Captured, AfterOffer, OfferOf
<1>3. m \in Link /\ Sound(m)
    BY <1>1, <1>2, AfterOfferFacts
<1>4. pc \in Pc /\ l.attached \in Nat
    BY <1>1, <1>2, PcFacts DEF Link
<1>5. self[p] # None => o \in Msg
    <2> SUFFICES ASSUME self[p] # None PROVE o \in Msg
        OBVIOUS
    <2>1. self[p] \in PeerIds
        BY DEF Shape
    <2>2. QED
        BY <1>4, <2>1 DEF OfferOf, Msg, Description
<1> HIDE DEF m, pc, o
<1>6. LinksTyped(link') /\ link'[p][q] = m /\ OnlyLink(p, q)
    BY <1>2, <1>3, LinkKept
<1>7. /\ inbox' \in [Parts -> Seq(Msg)]
      /\ inbox'[p] = inbox[p]
      /\ ~Routed(p, q) => SameBoxes
      /\ Routed(p, q) => /\ o \in Msg /\ Ice(p, pc) \in Msg
                         /\ inbox'[Other(p)] = WithIceAfter(inbox[Other(p)], l, p, pc, o)
    BY <1>2, <1>4, <1>5, BoxSent
<1>8. Shape'
    BY <1>2, <1>6, <1>7, Reshaped
<1>9. QED
    BY <1>2, <1>6, <1>7, <1>8 DEF m, pc, o

LEMMA AbandonStep ==
    ASSUME Shape, NEW p \in Parts, NEW q \in PeerIds, AbandonOffer(p, q)
    PROVE  /\ Shape' /\ UNCHANGED <<call, issued, self, tracks, inbox, turn>>
           /\ OnlyLink(p, q)
           /\ link[p][q].neg # 0
           /\ ~(link[p][q].actor.role = "offerer" /\ link[p][q].neg = link[p][q].num)
           /\ link'[p][q] = FinishNegotiation(link[p][q])
<1> DEFINE l == link[p][q]
           m == FinishNegotiation(l)
<1>1. l \in Link /\ Sound(l)
    BY LinkFacts
<1>2. /\ l.neg # 0 /\ ~(l.actor.role = "offerer" /\ l.neg = l.num)
      /\ Keep(p, q, m) /\ UNCHANGED <<call, issued, self, tracks, inbox, turn>>
    BY DEF AbandonOffer, Captured
<1>3. m \in Link /\ Sound(m)
    BY <1>1, <1>2, Finished
<1> HIDE DEF m
<1>4. LinksTyped(link') /\ link'[p][q] = m /\ OnlyLink(p, q)
    BY <1>2, <1>3, LinkKept
<1>5. inbox' \in [Parts -> Seq(Msg)]
    BY <1>2 DEF Shape
<1>6. Shape'
    BY <1>2, <1>4, <1>5, Reshaped
<1>7. QED
    BY <1>2, <1>4, <1>6 DEF m

LEMMA SkipStep ==
    ASSUME Shape, NEW p \in Parts, NEW q \in PeerIds, SkipOffer(p, q)
    PROVE  /\ Shape' /\ UNCHANGED <<call, issued, self, tracks, inbox, turn>>
           /\ OnlyLink(p, q)
           /\ link[p][q].neg # 0 /\ link[p][q].actor.role = "offerer"
           /\ link[p][q].neg = link[p][q].num /\ link[p][q].actor.sig # "stable"
           /\ link'[p][q] = AfterSkip(link[p][q])
<1> DEFINE l == link[p][q]
           m == AfterSkip(l)
<1>1. l \in Link /\ Sound(l)
    BY LinkFacts
<1>2. /\ l.neg # 0 /\ l.actor.role = "offerer" /\ l.neg = l.num /\ l.actor.sig # "stable"
      /\ Keep(p, q, m) /\ UNCHANGED <<call, issued, self, tracks, inbox, turn>>
    BY DEF SkipOffer, Captured, AfterSkip
<1>3. m \in Link /\ Sound(m)
    BY <1>1, <1>2, AfterSkipFacts
<1> HIDE DEF m
<1>4. LinksTyped(link') /\ link'[p][q] = m /\ OnlyLink(p, q)
    BY <1>2, <1>3, LinkKept
<1>5. inbox' \in [Parts -> Seq(Msg)]
    BY <1>2 DEF Shape
<1>6. Shape'
    BY <1>2, <1>4, <1>5, Reshaped
<1>7. QED
    BY <1>2, <1>4, <1>6 DEF m

\* What is left of a link when an offer that waited has been dropped or answered.
Rest(l) == [l EXCEPT !.offers = Tail(@)]
Told(l) == SetRemoteOffer(Rest(l), Head(l.offers).pc, Head(l.offers).tracks)
AfterRefusal(l) == FlushPending(Told(l))
AfterAnswer(l)  == CreateAnswer(AfterRefusal(l))
Answerable(l) == l.actor.role = "answerer" /\ l.num = Head(l.offers).num

LEMMA OfferSeq ==
    ASSUME NEW s \in Seq(Offer), s # <<>>
    PROVE  /\ Head(s) \in Offer /\ Head(s) = s[1] /\ Tail(s) \in Seq(Offer)
           /\ Len(s) = 1 => Tail(s) = <<>>
<1>1. Head(s) \in Offer /\ Head(s) = s[1] /\ Tail(s) \in Seq(Offer) /\ Len(Tail(s)) = Len(s) - 1
    OBVIOUS
<1>2. \A u \in Seq(Offer) : Len(u) = 0 => u = <<>>
    OBVIOUS
<1>3. Len(s) = 1 => Len(Tail(s)) = 0
    BY <1>1
<1>4. QED
    BY <1>1, <1>2, <1>3

LEMMA RestFacts ==
    ASSUME NEW l \in Link, Sound(l), l.offers # <<>>, NEW m, m = Rest(l)
    PROVE  /\ m \in Link /\ Sound(m)
           /\ m.offers = Tail(l.offers)
           /\ m.num = l.num /\ m.neg = l.neg /\ m.actor = l.actor /\ m.queued = l.queued
           /\ m.attached = l.attached /\ m.skipped = l.skipped /\ m.pending = l.pending
<1>1. l.offers \in Seq(Offer)
    BY DEF Link
<1>2. PICK s \in Seq(Offer) : s = Tail(l.offers)
    BY <1>1, OfferSeq
<1>3. m = [l EXCEPT !.offers = s]
    BY <1>2 DEF Rest
<1>4. /\ m \in Link /\ Sound(m)
      /\ m.offers = s
      /\ m.num = l.num /\ m.neg = l.neg /\ m.actor = l.actor /\ m.queued = l.queued
      /\ m.attached = l.attached /\ m.skipped = l.skipped /\ m.pending = l.pending
    BY <1>3, OffersChanged
<1>5. QED
    BY <1>2, <1>4

LEMMA ToldFacts ==
    ASSUME NEW l \in Link, Sound(l), l.offers # <<>>, l.actor.role = "answerer", NEW m, m = Told(l)
    PROVE  /\ m \in Link /\ Sound(m)
           /\ m.offers = Tail(l.offers)
           /\ m.num = l.num /\ m.neg = l.neg /\ m.queued = l.queued
           /\ m.attached = l.attached /\ m.skipped = l.skipped
           /\ m.actor.role = "answerer" /\ m.actor.sig = "have-remote-offer"
           /\ m.actor.remote = Head(l.offers).pc /\ m.actor.got = Head(l.offers).tracks
           /\ m.actor.answer = NoAnswer
           /\ m.actor.cands = l.actor.cands /\ m.pending = l.pending
<1> DEFINE o == Head(l.offers)
           k == Rest(l)
<1>1. /\ k \in Link /\ Sound(k)
      /\ k.offers = Tail(l.offers)
      /\ k.num = l.num /\ k.neg = l.neg /\ k.actor = l.actor /\ k.queued = l.queued
      /\ k.attached = l.attached /\ k.skipped = l.skipped /\ k.pending = l.pending
    BY RestFacts
<1>2. l.offers \in Seq(Offer)
    BY DEF Link
<1>3. o \in Offer
    BY <1>2, OfferSeq
<1>4. o.pc \in Pc /\ o.tracks \in Nat
    BY <1>3 DEF Offer
<1>5. m = SetRemoteOffer(k, o.pc, o.tracks)
    BY DEF Told
<1> HIDE DEF k, o
<1>6. /\ m \in Link /\ Sound(m)
      /\ m.actor.role = k.actor.role /\ m.actor.sig = "have-remote-offer"
      /\ m.actor.remote = o.pc /\ m.actor.got = o.tracks
      /\ m.actor.cands = k.actor.cands /\ m.actor.answer = NoAnswer
      /\ m.num = k.num /\ m.neg = k.neg /\ m.attached = k.attached /\ m.queued = k.queued
      /\ m.skipped = k.skipped /\ m.offers = k.offers /\ m.pending = k.pending
    BY <1>1, <1>4, <1>5, OfferSet
<1>7. QED
    BY <1>1, <1>6 DEF o

LEMMA AfterRefusalFacts ==
    ASSUME NEW l \in Link, Sound(l), l.offers # <<>>, l.actor.role = "answerer",
           NEW m, m = AfterRefusal(l)
    PROVE  /\ m \in Link /\ Sound(m)
           /\ m.offers = Tail(l.offers)
           /\ m.num = l.num /\ m.neg = l.neg /\ m.queued = l.queued
           /\ m.attached = l.attached /\ m.skipped = l.skipped
           /\ m.actor.role = "answerer" /\ m.actor.sig = "have-remote-offer"
           /\ m.actor.remote = Head(l.offers).pc /\ m.actor.got = Head(l.offers).tracks
           /\ m.actor.answer = NoAnswer
           /\ l.pending = <<>> => m.pending = <<>>
           /\ ~Refused(Told(l)) =>
                 /\ m.pending = <<>> /\ l.actor.cands \subseteq m.actor.cands
                 /\ Early(l, Head(l.offers).pc) => Head(l.offers).pc \in m.actor.cands
<1> DEFINE n == Told(l)
           pc == Head(l.offers).pc
<1>1. /\ n \in Link /\ Sound(n)
      /\ n.offers = Tail(l.offers)
      /\ n.num = l.num /\ n.neg = l.neg /\ n.queued = l.queued
      /\ n.attached = l.attached /\ n.skipped = l.skipped
      /\ n.actor.role = "answerer" /\ n.actor.sig = "have-remote-offer"
      /\ n.actor.remote = pc /\ n.actor.got = Head(l.offers).tracks
      /\ n.actor.answer = NoAnswer
      /\ n.actor.cands = l.actor.cands /\ n.pending = l.pending
    BY ToldFacts
<1>2. m = FlushPending(n)
    BY DEF AfterRefusal
<1> HIDE DEF n, pc
<1>3. /\ m \in Link /\ Sound(m)
      /\ m.actor.role = n.actor.role /\ m.actor.sig = n.actor.sig
      /\ m.actor.remote = n.actor.remote /\ m.actor.got = n.actor.got
      /\ m.actor.answer = n.actor.answer
      /\ m.pending = (IF Refused(n) THEN n.pending ELSE <<>>)
      /\ m.num = n.num /\ m.neg = n.neg /\ m.attached = n.attached /\ m.queued = n.queued
      /\ m.skipped = n.skipped /\ m.offers = n.offers
    BY <1>1, <1>2, Flushed
<1>4. ASSUME ~Refused(n)
      PROVE  /\ m.pending = <<>> /\ l.actor.cands \subseteq m.actor.cands
             /\ Early(l, pc) => pc \in m.actor.cands
    <2>1. Only(n, n.actor.remote)
        BY <1>4 DEF Refused, Refuses, Only
    <2>2. /\ m.pending = <<>> /\ n.actor.cands \subseteq m.actor.cands
          /\ Early(n, n.actor.remote) => n.actor.remote \in m.actor.cands
        BY <1>1, <1>2, <2>1, FlushedAll
    <2>3. Early(l, pc) => Early(n, pc)
        BY <1>1 DEF Early, Waits
    <2>4. QED
        BY <1>1, <2>2, <2>3
<1>5. QED
    BY <1>1, <1>3, <1>4 DEF n, pc

LEMMA AfterAnswerFacts ==
    ASSUME NEW l \in Link, Sound(l), l.offers # <<>>, l.actor.role = "answerer", ~Refused(Told(l)),
           NEW m, m = AfterAnswer(l)
    PROVE  /\ m \in Link /\ Sound(m)
           /\ m.offers = Tail(l.offers)
           /\ m.num = l.num /\ m.neg = l.neg /\ m.queued = l.queued
           /\ m.attached = l.attached /\ m.skipped = l.skipped
           /\ m.actor.role = "answerer" /\ m.actor.sig = "stable"
           /\ m.actor.remote = Head(l.offers).pc /\ m.actor.got = Head(l.offers).tracks
           /\ m.actor.answer = NoAnswer
           /\ m.pending = <<>> /\ l.actor.cands \subseteq m.actor.cands
           /\ Early(l, Head(l.offers).pc) => Head(l.offers).pc \in m.actor.cands
<1> DEFINE n == AfterRefusal(l)
<1>1. /\ n \in Link /\ Sound(n)
      /\ n.offers = Tail(l.offers)
      /\ n.num = l.num /\ n.neg = l.neg /\ n.queued = l.queued
      /\ n.attached = l.attached /\ n.skipped = l.skipped
      /\ n.actor.role = "answerer" /\ n.actor.sig = "have-remote-offer"
      /\ n.actor.remote = Head(l.offers).pc /\ n.actor.got = Head(l.offers).tracks
      /\ n.actor.answer = NoAnswer
      /\ n.pending = <<>> /\ l.actor.cands \subseteq n.actor.cands
      /\ Early(l, Head(l.offers).pc) => Head(l.offers).pc \in n.actor.cands
    BY AfterRefusalFacts
<1>2. m = CreateAnswer(n)
    BY DEF AfterAnswer
<1> HIDE DEF n
<1>3. /\ m \in Link /\ Sound(m)
      /\ m.actor.sig = "stable"
      /\ m.actor.role = n.actor.role /\ m.actor.remote = n.actor.remote
      /\ m.actor.cands = n.actor.cands /\ m.actor.got = n.actor.got
      /\ m.actor.answer = n.actor.answer
      /\ m.num = n.num /\ m.neg = n.neg /\ m.attached = n.attached /\ m.queued = n.queued
      /\ m.skipped = n.skipped /\ m.offers = n.offers /\ m.pending = n.pending
    BY <1>1, <1>2, AnswerCreated
<1>4. QED
    BY <1>1, <1>3

\* Only a candidate of another connection keeps the answer from being made.
LEMMA NoneRefused ==
    ASSUME NEW l \in Link, Sound(l), l.offers # <<>>, l.actor.role = "answerer",
           Only(l, Head(l.offers).pc)
    PROVE  ~Refused(Told(l))
BY ToldFacts DEF Refused, Refuses, Only, Waits

AnswerOf(p, q) == [t |-> "rtc.answer_event", from |-> self[p], pc |-> <<q, link[p][q].num>>,
                   tracks |-> tracks[p]]

LEMMA MakeAnswerStep ==
    ASSUME Shape, NEW p \in Parts, NEW q \in PeerIds, MakeAnswer(p, q)
    PROVE  /\ Shape' /\ UNCHANGED <<call, issued, self, tracks, turn>>
           /\ OnlyLink(p, q)
           /\ link[p][q].offers # <<>>
           /\ inbox'[p] = inbox[p]
           /\ ~Answerable(link[p][q]) => SameBoxes /\ link'[p][q] = Rest(link[p][q])
           /\ Answerable(link[p][q]) /\ Refused(Told(link[p][q])) =>
                 SameBoxes /\ link'[p][q] = AfterRefusal(link[p][q])
           /\ Answerable(link[p][q]) /\ ~Refused(Told(link[p][q])) =>
                 link'[p][q] = AfterAnswer(link[p][q])
           /\ ~Routed(p, q) => SameBoxes
           /\ Routed(p, q) /\ Answerable(link[p][q]) /\ ~Refused(Told(link[p][q])) =>
                 /\ AnswerOf(p, q) \in Msg /\ Ice(p, <<q, link[p][q].num>>) \in Msg
                 /\ inbox'[Other(p)] = WithIceAfter(inbox[Other(p)], link[p][q], p,
                                                    <<q, link[p][q].num>>, AnswerOf(p, q))
<1> DEFINE l == link[p][q]
           pc == <<q, l.num>>
           a == AnswerOf(p, q)
           m == AfterAnswer(l)
           n == AfterRefusal(l)
           k == Rest(l)
<1>1. l \in Link /\ Sound(l) /\ l.num \in Nat
    BY LinkFacts
<1>2. l.offers # <<>> /\ UNCHANGED <<call, issued, self, tracks, turn>>
    BY DEF MakeAnswer
<1>3. \/ /\ Answerable(l) /\ ~Refused(Told(l))
         /\ inbox' = Send(p, q, WithIce(l, p, pc, a))
         /\ Keep(p, q, m)
      \/ /\ Answerable(l) /\ Refused(Told(l))
         /\ Keep(p, q, n)
         /\ UNCHANGED inbox
      \/ /\ ~Answerable(l)
         /\ Keep(p, q, k)
         /\ UNCHANGED inbox
    BY DEF MakeAnswer, Answerable, AfterAnswer, AfterRefusal, Told, Rest, AnswerOf
<1>4. /\ k \in Link /\ Sound(k)
      /\ Answerable(l) => n \in Link /\ Sound(n)
      /\ Answerable(l) /\ ~Refused(Told(l)) => m \in Link /\ Sound(m)
    BY <1>1, <1>2, AfterAnswerFacts, AfterRefusalFacts, RestFacts DEF Answerable
<1>5. pc \in Pc
    BY <1>1, PcFacts
<1>6. self[p] # None => a \in Msg
    <2> SUFFICES ASSUME self[p] # None PROVE a \in Msg
        OBVIOUS
    <2>1. self[p] \in PeerIds
        BY DEF Shape
    <2>2. tracks[p] \in Nat
        BY NegotiationAssumption DEF Shape
    <2>3. QED
        BY <1>5, <2>1, <2>2 DEF AnswerOf, Msg, Description
<1> HIDE DEF m, n, k, pc, a
<1>7. CASE Answerable(l) /\ ~Refused(Told(l))
    <2>1. inbox' = Send(p, q, WithIce(l, p, pc, a)) /\ Keep(p, q, m)
        BY <1>3, <1>7
    <2>2. LinksTyped(link') /\ link'[p][q] = m /\ OnlyLink(p, q)
        BY <1>4, <1>7, <2>1, LinkKept
    <2>3. /\ inbox' \in [Parts -> Seq(Msg)]
          /\ inbox'[p] = inbox[p]
          /\ ~Routed(p, q) => SameBoxes
          /\ Routed(p, q) => /\ a \in Msg /\ Ice(p, pc) \in Msg
                             /\ inbox'[Other(p)] = WithIceAfter(inbox[Other(p)], l, p, pc, a)
        BY <1>5, <1>6, <2>1, BoxSent
    <2>4. Shape'
        BY <1>2, <2>2, <2>3, Reshaped
    <2>5. QED
        BY <1>2, <1>7, <2>2, <2>3, <2>4 DEF m, pc, a
<1>8. ASSUME NEW h \in Link, Sound(h), Keep(p, q, h), UNCHANGED inbox
      PROVE  Shape' /\ OnlyLink(p, q) /\ link'[p][q] = h /\ inbox'[p] = inbox[p] /\ SameBoxes
    <2>1. LinksTyped(link') /\ link'[p][q] = h /\ OnlyLink(p, q)
        BY <1>8, LinkKept
    <2>2. inbox' \in [Parts -> Seq(Msg)] /\ inbox'[p] = inbox[p] /\ SameBoxes
        BY <1>8 DEF Shape, SameBoxes
    <2>3. Shape'
        BY <1>2, <2>1, <2>2, Reshaped
    <2>4. QED
        BY <2>1, <2>2, <2>3
<1>9. CASE Answerable(l) /\ Refused(Told(l))
    <2>1. Shape' /\ OnlyLink(p, q) /\ link'[p][q] = n /\ inbox'[p] = inbox[p] /\ SameBoxes
        BY <1>3, <1>4, <1>8, <1>9
    <2>2. QED
        BY <1>2, <1>9, <2>1 DEF n
<1>10. CASE ~Answerable(l)
    <2>1. Shape' /\ OnlyLink(p, q) /\ link'[p][q] = k /\ inbox'[p] = inbox[p] /\ SameBoxes
        BY <1>3, <1>4, <1>8, <1>10
    <2>2. QED
        BY <1>2, <1>10, <2>1 DEF k
<1>11. QED
    BY <1>7, <1>9, <1>10

\* Handlers of messages.
LEMMA HandlePeerEventStep ==
    ASSUME Shape, NEW p \in Parts, HandlePeerEvent(p), NEW m, m = Head(inbox[p])
    PROVE  /\ Shape' /\ UNCHANGED <<call, issued, self, tracks, turn>>
           /\ m \in Msg /\ m.t = "rtc.peer_event" /\ Popped(p) /\ OnlyLink(p, m.peer)
           /\ m.peer \in PeerIds /\ m.kind \in {"join", "leave"}
           /\ m.kind = "join" => link'[p][m.peer] = CreatePeerActor(link[p][m.peer], "answerer")
           /\ m.kind = "leave" => link'[p][m.peer] = ClosePeer(link[p][m.peer])
<1> DEFINE q == m.peer
           l == link[p][q]
           k == IF m.kind = "join" THEN CreatePeerActor(l, "answerer") ELSE ClosePeer(l)
<1>1. /\ Arrived(p, "rtc.peer_event") /\ Taken(p) /\ Keep(p, q, k)
      /\ UNCHANGED <<call, issued, self, tracks, turn>>
    BY DEF HandlePeerEvent
<1>2. m \in Msg /\ m.t = "rtc.peer_event" /\ Popped(p) /\ inbox' \in [Parts -> Seq(Msg)]
    BY <1>1, BoxTaken
<1>3. q \in PeerIds /\ m.kind \in {"join", "leave"}
    BY <1>2, KindsOf
<1>4. l \in Link /\ Sound(l)
    BY <1>3, LinkFacts
<1>5. k \in Link /\ Sound(k)
    BY <1>4, Created, Closed
<1> HIDE DEF k, q
<1>6. LinksTyped(link') /\ link'[p][q] = k /\ OnlyLink(p, q)
    BY <1>1, <1>3, <1>5, LinkKept
<1>7. Shape'
    BY <1>1, <1>2, <1>6, Reshaped
<1>8. QED
    BY <1>1, <1>2, <1>3, <1>6, <1>7 DEF k, q

WithOffer(l, m) == [l EXCEPT !.offers = Append(@, [num |-> l.num, pc |-> m.pc, tracks |-> m.tracks])]

LEMMA WithOfferFacts ==
    ASSUME NEW l \in Link, Sound(l), NEW m \in Description, NEW k, k = WithOffer(l, m)
    PROVE  /\ k \in Link /\ Sound(k)
           /\ l.offers = <<>> => /\ k.offers # <<>> /\ Len(k.offers) = 1
                                 /\ k.offers[1].num = l.num /\ k.offers[1].pc = m.pc
                                 /\ k.offers[1].tracks = m.tracks
           /\ k.num = l.num /\ k.neg = l.neg /\ k.actor = l.actor /\ k.queued = l.queued
           /\ k.attached = l.attached /\ k.skipped = l.skipped /\ k.pending = l.pending
<1> DEFINE o == [num |-> l.num, pc |-> m.pc, tracks |-> m.tracks]
           s == Append(l.offers, o)
<1>1. o \in Offer /\ o.num = l.num /\ o.pc = m.pc /\ o.tracks = m.tracks
    BY DEF Offer, Link, Description
<1>2. k = [l EXCEPT !.offers = s]
    BY DEF WithOffer
<1> HIDE DEF o
<1>3. l.offers \in Seq(Offer)
    BY DEF Link
<1>4. s \in Seq(Offer) /\ Len(s) = Len(l.offers) + 1 /\ s[Len(l.offers) + 1] = o
    BY <1>1, <1>3
<1>5. l.offers = <<>> => s # <<>> /\ Len(s) = 1 /\ s[1] = o
    <2>1. Len(<<>>) = 0 /\ 0 + 1 = 1
        OBVIOUS
    <2>2. Len(s) = 1 => s # <<>>
        BY <2>1
    <2>3. QED
        BY <1>4, <2>1, <2>2
<1> HIDE DEF s
<1>6. /\ k \in Link /\ Sound(k)
      /\ k.offers = s
      /\ k.num = l.num /\ k.neg = l.neg /\ k.actor = l.actor /\ k.queued = l.queued
      /\ k.attached = l.attached /\ k.skipped = l.skipped /\ k.pending = l.pending
    BY <1>2, <1>4, OffersChanged
<1>7. QED
    BY <1>1, <1>5, <1>6

LEMMA HandleOfferStep ==
    ASSUME Shape, NEW p \in Parts, HandleOffer(p), NEW m, m = Head(inbox[p])
    PROVE  /\ Shape' /\ UNCHANGED <<call, issued, self, tracks, turn>>
           /\ m \in Msg /\ m.t = "rtc.offer_event" /\ Popped(p) /\ OnlyLink(p, m.from)
           /\ m \in Description
           /\ m.from \in PeerIds
           /\ link'[p][m.from] = WithOffer(CreatePeerActor(link[p][m.from], "answerer"), m)
<1> DEFINE q == m.from
           l == CreatePeerActor(link[p][q], "answerer")
           k == WithOffer(l, m)
<1>1. /\ Arrived(p, "rtc.offer_event") /\ Taken(p) /\ Keep(p, q, k)
      /\ UNCHANGED <<call, issued, self, tracks, turn>>
    BY DEF HandleOffer, WithOffer
<1>2. m \in Msg /\ m.t = "rtc.offer_event" /\ Popped(p) /\ inbox' \in [Parts -> Seq(Msg)]
    BY <1>1, BoxTaken
<1>3. q \in PeerIds /\ m \in Description
    BY <1>2, KindsOf DEF Msg, Description, Candidates, PeerEvent, Roster
<1>4. link[p][q] \in Link /\ Sound(link[p][q])
    BY <1>3, LinkFacts
<1>5. l \in Link /\ Sound(l)
    BY <1>4, Created
<1> HIDE DEF l
<1>6. k \in Link /\ Sound(k)
    BY <1>3, <1>5, WithOfferFacts
<1> HIDE DEF k, q
<1>7. LinksTyped(link') /\ link'[p][q] = k /\ OnlyLink(p, q)
    BY <1>1, <1>3, <1>6, LinkKept
<1>8. Shape'
    BY <1>1, <1>2, <1>7, Reshaped
<1>9. QED
    BY <1>1, <1>2, <1>3, <1>7, <1>8 DEF k, l, q

SaidIn(m) == [pc |-> m.pc, tracks |-> m.tracks]

LEMMA HandleAnswerStep ==
    ASSUME Shape, NEW p \in Parts, HandleAnswer(p), NEW m, m = Head(inbox[p])
    PROVE  /\ Shape' /\ UNCHANGED <<call, issued, self, tracks, turn>>
           /\ m \in Msg /\ m.t = "rtc.answer_event" /\ Popped(p) /\ OnlyLink(p, m.from)
           /\ m.from \in PeerIds /\ m.pc \in Pc /\ m.tracks \in Nat /\ SaidIn(m) \in Said
           /\ link'[p][m.from] =
                 IF TakesAnswer(link[p][m.from]) THEN AnswerHeld(link[p][m.from], SaidIn(m))
                                                 ELSE link[p][m.from]
<1> DEFINE q == m.from
           l == link[p][q]
           k == IF TakesAnswer(l) THEN AnswerHeld(l, SaidIn(m)) ELSE l
<1>1. /\ Arrived(p, "rtc.answer_event") /\ Taken(p) /\ Keep(p, q, k)
      /\ UNCHANGED <<call, issued, self, tracks, turn>>
    BY DEF HandleAnswer, AnswerHeld, SaidIn
<1>2. m \in Msg /\ m.t = "rtc.answer_event" /\ Popped(p) /\ inbox' \in [Parts -> Seq(Msg)]
    BY <1>1, BoxTaken
<1>3. q \in PeerIds /\ m.pc \in Pc /\ m.tracks \in Nat
    BY <1>2, KindsOf
<1>4. l \in Link /\ Sound(l) /\ SaidIn(m) \in Said
    BY <1>3, LinkFacts DEF SaidIn, Said
<1>5. k \in Link /\ Sound(k)
    BY <1>3, <1>4, AnswerHeldFacts DEF TakesAnswer
<1> HIDE DEF k, q
<1>6. LinksTyped(link') /\ link'[p][q] = k /\ OnlyLink(p, q)
    BY <1>1, <1>3, <1>5, LinkKept
<1>7. Shape'
    BY <1>1, <1>2, <1>6, Reshaped
<1>8. QED
    BY <1>1, <1>2, <1>3, <1>4, <1>6, <1>7 DEF k, q

\* What is left of a link when the answer it held has been applied.
AnswerTaken(l) == FlushPending(SetRemoteAnswer(l))

LEMMA AnswerTakenFacts ==
    ASSUME NEW l \in Link, Sound(l), NEW k, k = AnswerTaken(l)
    PROVE  /\ k \in Link /\ Sound(k)
           /\ k.actor.role = l.actor.role /\ k.actor.sig = "stable"
           /\ k.actor.remote = l.actor.answer.pc /\ k.actor.got = l.actor.answer.tracks
           /\ k.actor.answer = NoAnswer
           /\ l.pending = <<>> => k.pending = <<>>
           /\ Only(l, l.actor.answer.pc) =>
                 /\ k.pending = <<>> /\ l.actor.cands \subseteq k.actor.cands
                 /\ Early(l, l.actor.answer.pc) => l.actor.answer.pc \in k.actor.cands
           /\ k.num = l.num /\ k.neg = l.neg /\ k.attached = l.attached /\ k.queued = l.queued
           /\ k.skipped = l.skipped /\ k.offers = l.offers
<1> DEFINE n == SetRemoteAnswer(l)
           pc == l.actor.answer.pc
<1>1. k = FlushPending(n)
    BY DEF AnswerTaken
<1>2. /\ n \in Link /\ Sound(n)
      /\ n.actor.role = l.actor.role /\ n.actor.sig = "stable"
      /\ n.actor.remote = pc /\ n.actor.got = l.actor.answer.tracks
      /\ n.actor.cands = l.actor.cands /\ n.actor.answer = NoAnswer
      /\ n.num = l.num /\ n.neg = l.neg /\ n.attached = l.attached /\ n.queued = l.queued
      /\ n.skipped = l.skipped /\ n.offers = l.offers /\ n.pending = l.pending
    BY AnswerSet
<1> HIDE DEF n, pc
<1>3. /\ k \in Link /\ Sound(k)
      /\ k.actor.role = n.actor.role /\ k.actor.sig = n.actor.sig
      /\ k.actor.remote = n.actor.remote /\ k.actor.got = n.actor.got
      /\ k.actor.answer = n.actor.answer
      /\ k.pending = (IF Refused(n) THEN n.pending ELSE <<>>)
      /\ k.num = n.num /\ k.neg = n.neg /\ k.attached = n.attached /\ k.queued = n.queued
      /\ k.skipped = n.skipped /\ k.offers = n.offers
    BY <1>1, <1>2, Flushed
<1>4. ASSUME Only(l, pc)
      PROVE  /\ k.pending = <<>> /\ l.actor.cands \subseteq k.actor.cands
             /\ Early(l, pc) => pc \in k.actor.cands
    <2>1. Only(n, n.actor.remote) /\ (Early(l, pc) => Early(n, pc))
        BY <1>2, <1>4 DEF Only, Early, Waits
    <2>2. /\ k.pending = <<>> /\ n.actor.cands \subseteq k.actor.cands
          /\ Early(n, n.actor.remote) => n.actor.remote \in k.actor.cands
        BY <1>1, <1>2, <2>1, FlushedAll
    <2>3. QED
        BY <1>2, <2>1, <2>2
<1>5. QED
    BY <1>2, <1>3, <1>4 DEF pc

LEMMA ApplyAnswerStep ==
    ASSUME Shape, NEW p \in Parts, NEW q \in PeerIds, ApplyAnswer(p, q)
    PROVE  /\ Shape' /\ UNCHANGED <<call, issued, self, tracks, inbox, turn>>
           /\ OnlyLink(p, q)
           /\ link[p][q].actor.answer # NoAnswer
           /\ link'[p][q] = AnswerTaken(link[p][q])
<1> DEFINE l == link[p][q]
           m == AnswerTaken(l)
<1>1. l \in Link /\ Sound(l)
    BY LinkFacts
<1>2. /\ l.actor.answer # NoAnswer
      /\ Keep(p, q, m) /\ UNCHANGED <<call, issued, self, tracks, inbox, turn>>
    BY DEF ApplyAnswer, AnswerTaken
<1>3. m \in Link /\ Sound(m)
    BY <1>1, AnswerTakenFacts
<1> HIDE DEF m
<1>4. LinksTyped(link') /\ link'[p][q] = m /\ OnlyLink(p, q)
    BY <1>2, <1>3, LinkKept
<1>5. inbox' \in [Parts -> Seq(Msg)]
    BY <1>2 DEF Shape
<1>6. Shape'
    BY <1>2, <1>4, <1>5, Reshaped
<1>7. QED
    BY <1>2, <1>4, <1>6 DEF m

LEMMA HandleIceStep ==
    ASSUME Shape, NEW p \in Parts, HandleIce(p), NEW m, m = Head(inbox[p])
    PROVE  /\ Shape' /\ UNCHANGED <<call, issued, self, tracks, turn>>
           /\ m \in Msg /\ m.t = "rtc.ice_event" /\ Popped(p) /\ OnlyLink(p, m.from)
           /\ m.from \in PeerIds /\ m.pc \in Pc
           /\ link'[p][m.from] = TakeCandidate(link[p][m.from], m.pc)
<1> DEFINE q == m.from
           l == link[p][q]
           k == TakeCandidate(l, m.pc)
<1>1. /\ Arrived(p, "rtc.ice_event") /\ Taken(p) /\ Keep(p, q, k)
      /\ UNCHANGED <<call, issued, self, tracks, turn>>
    BY DEF HandleIce
<1>2. m \in Msg /\ m.t = "rtc.ice_event" /\ Popped(p) /\ inbox' \in [Parts -> Seq(Msg)]
    BY <1>1, BoxTaken
<1>3. q \in PeerIds /\ m.pc \in Pc
    BY <1>2, KindsOf
<1>4. l \in Link /\ Sound(l)
    BY <1>3, LinkFacts
<1>5. k \in Link /\ Sound(k)
    BY <1>3, <1>4, CandidateTaken
<1> HIDE DEF k, q
<1>6. LinksTyped(link') /\ link'[p][q] = k /\ OnlyLink(p, q)
    BY <1>1, <1>3, <1>5, LinkKept
<1>7. Shape'
    BY <1>1, <1>2, <1>6, Reshaped
<1>8. QED
    BY <1>1, <1>2, <1>3, <1>6, <1>7 DEF k, q

\* A participant that is met is offered to at once.
Met(l) == NegotiatePeer(CreatePeerActor(l, "offerer"))

LEMMA MetFacts ==
    ASSUME NEW l \in Link, Sound(l), NEW m, m = Met(l)
    PROVE  /\ m \in Link /\ Sound(m) /\ m.offers = l.offers /\ m.pending = l.pending
           /\ l.neg = 0 /\ l.actor.role # "offerer" =>
                 /\ m.num = l.num + 1 /\ m.neg = m.num /\ m.attached = None
                 /\ m.actor.role = "offerer" /\ m.actor.sig = "stable" /\ m.actor.remote = NoPc
                 /\ m.actor.answer = NoAnswer
<1> DEFINE c == CreatePeerActor(l, "offerer")
<1>1. /\ c \in Link /\ Sound(c) /\ c.neg = l.neg /\ c.offers = l.offers /\ c.pending = l.pending
      /\ c.actor.role = "offerer"
      /\ l.actor.role # "offerer" =>
            /\ c.num = l.num + 1 /\ c.actor.sig = "stable" /\ c.actor.remote = NoPc
            /\ c.actor.answer = NoAnswer
    BY Created
<1>2. m = NegotiatePeer(c)
    BY DEF Met
<1> HIDE DEF c
<1>3. m \in Link /\ Sound(m) /\ m.offers = c.offers /\ m.pending = c.pending
    BY <1>1, <1>2, Negotiated
<1>4. ASSUME l.neg = 0, l.actor.role # "offerer"
      PROVE  /\ m.num = l.num + 1 /\ m.neg = m.num /\ m.attached = None
             /\ m.actor.role = "offerer" /\ m.actor.sig = "stable" /\ m.actor.remote = NoPc
             /\ m.actor.answer = NoAnswer
    <2>1. m = BeginNegotiation(c)
        BY <1>1, <1>2, <1>4 DEF NegotiatePeer
    <2>2. /\ m.neg = m.num /\ m.attached = None /\ m.actor.role = "offerer"
          /\ m.num = c.num /\ m.actor = c.actor
        BY <1>1, <2>1, Begun
    <2>3. QED
        BY <1>1, <1>4, <2>2
<1>5. QED
    BY <1>1, <1>3, <1>4

LEMMA HandleParticipantsStep ==
    ASSUME Shape, NEW p \in Parts, HandleParticipants(p), NEW m, m = Head(inbox[p])
    PROVE  /\ Shape' /\ UNCHANGED <<call, issued, tracks, turn>>
           /\ m \in Msg /\ m.t = "rtc.participants" /\ Popped(p) /\ OnlyLinksOf(p)
           /\ m.self \in PeerIds /\ m.others \in SUBSET PeerIds
           /\ self'[p] = m.self /\ self'[Other(p)] = self[Other(p)]
           /\ \A q \in PeerIds :
                 link'[p][q] = IF q \in m.others THEN Met(link[p][q]) ELSE link[p][q]
<1> DEFINE f == [q \in PeerIds |-> IF q \in m.others THEN Met(link[p][q]) ELSE link[p][q]]
<1>1. /\ Arrived(p, "rtc.participants") /\ Taken(p)
      /\ self' = [self EXCEPT ![p] = m.self]
      /\ \A q \in m.others : link'[p][q].num <= MaxActors
      /\ UNCHANGED <<call, issued, tracks, turn>>
    BY DEF HandleParticipants
<1>2. link' = [link EXCEPT ![p] = f]
    BY DEF HandleParticipants, Met
<1>3. m \in Msg /\ m.t = "rtc.participants" /\ Popped(p) /\ inbox' \in [Parts -> Seq(Msg)]
    BY <1>1, BoxTaken
<1>4. m.self \in PeerIds /\ m.others \in SUBSET PeerIds
    BY <1>3, KindsOf
<1>5. ASSUME NEW q \in PeerIds
      PROVE  f[q] \in Link /\ Sound(f[q])
    <2>1. link[p][q] \in Link /\ Sound(link[p][q])
        BY LinkFacts
    <2>2. Met(link[p][q]) \in Link /\ Sound(Met(link[p][q]))
        BY <2>1, MetFacts
    <2>3. QED
        BY <2>1, <2>2
<1>6. f \in [PeerIds -> Link]
    BY <1>5
<1>7. \A q \in PeerIds : f[q] = IF q \in m.others THEN Met(link[p][q]) ELSE link[p][q]
    OBVIOUS
<1> HIDE DEF f
<1>8. link \in [Parts -> [PeerIds -> Link]]
    BY DEF Shape
<1>9. /\ link' \in [Parts -> [PeerIds -> Link]] /\ link'[p] = f
      /\ \A r \in Parts : r # p => link'[r] = link[r]
    BY <1>2, <1>6, <1>8
<1>10. ASSUME NEW r \in Parts, NEW q \in PeerIds
       PROVE  Sound(link'[r][q]) /\ link'[r][q].num <= MaxActors
    <2>1. Sound(link[r][q]) /\ link[r][q].num <= MaxActors
        BY DEF Shape
    <2>2. CASE r = p
        <3>1. Sound(link'[r][q])
            BY <1>5, <1>9, <2>2
        <3>2. link'[r][q].num <= MaxActors
            BY <1>1, <1>7, <1>9, <2>1, <2>2
        <3>3. QED
            BY <3>1, <3>2
    <2>3. CASE r # p
        BY <1>9, <2>1, <2>3
    <2>4. QED
        BY <2>2, <2>3
<1>11. self \in [Parts -> PeerIds \cup {None}]
    BY DEF Shape
<1>12. /\ self' \in [Parts -> PeerIds \cup {None}]
       /\ self'[p] = m.self /\ self'[Other(p)] = self[Other(p)]
    BY <1>1, <1>4, <1>11, Two
<1>13. Shape'
    BY <1>1, <1>3, <1>9, <1>10, <1>12 DEF Shape
<1>14. QED
    BY <1>1, <1>3, <1>4, <1>7, <1>9, <1>12, <1>13 DEF OnlyLinksOf

-----------------------------------------------------------------------------
\* The users.
Announced(x, there) == [t |-> "rtc.participants", self |-> x, others |-> there]
Presence(k, x)      == [t |-> "rtc.peer_event", kind |-> k, peer |-> x]

LEMMA PresenceIsMessage ==
    ASSUME NEW x \in PeerIds
    PROVE  /\ Presence("join", x) \in Msg /\ Presence("leave", x) \in Msg
           /\ \A there \in SUBSET PeerIds : Announced(x, there) \in Msg
BY DEF Presence, Announced, Msg, PeerEvent, Roster

LEMMA JoinStep ==
    ASSUME Shape, NEW p \in Parts, Join(p), NEW o, o = Other(p)
    PROVE  /\ Shape' /\ UNCHANGED <<self, link, tracks>>
           /\ call[p] = None /\ issued + 1 \in PeerIds /\ issued' = issued + 1 /\ turn' = p
           /\ call'[p] = issued + 1 /\ call'[o] = call[o]
           /\ Announced(issued + 1, {call[o]} \ {None}) \in Msg
           /\ Presence("join", issued + 1) \in Msg
           /\ inbox'[p] = Append(inbox[p], Announced(issued + 1, {call[o]} \ {None}))
           /\ inbox'[o] = IF call[o] = None THEN inbox[o]
                          ELSE Append(inbox[o], Presence("join", issued + 1))
<1> DEFINE there == {call[o]} \ {None}
           In == Append(inbox[p], Announced(issued + 1, there))
           Far == IF there = {} THEN inbox[o] ELSE Append(inbox[o], Presence("join", issued + 1))
<1>1. /\ call[p] = None /\ issued < MaxPeers /\ issued' = issued + 1 /\ turn' = p
      /\ call' = [call EXCEPT ![p] = issued + 1]
      /\ inbox' = [inbox EXCEPT ![p] = In, ![Other(p)] = Far]
      /\ UNCHANGED <<self, link, tracks>>
    BY Two DEF Join, Announced, Presence, Shape
<1>2. /\ call \in [Parts -> PeerIds \cup {None}] /\ inbox \in [Parts -> Seq(Msg)]
      /\ issued \in 0..MaxPeers
      /\ o \in Parts /\ o # p /\ inbox[p] \in Seq(Msg) /\ inbox[o] \in Seq(Msg)
    BY Two DEF Shape
<1>3. issued + 1 \in PeerIds /\ issued + 1 \in 0..MaxPeers
    BY <1>1, <1>2, NegotiationAssumption DEF PeerIds
<1>4. there \in SUBSET PeerIds /\ (there = {} <=> call[o] = None)
    BY <1>2
<1> HIDE DEF there
<1>5. Announced(issued + 1, there) \in Msg /\ Presence("join", issued + 1) \in Msg
    BY <1>3, <1>4, PresenceIsMessage
<1>6. In \in Seq(Msg) /\ Far \in Seq(Msg)
    BY <1>2, <1>5, Lengthened
<1>7. Far = IF call[o] = None THEN inbox[o] ELSE Append(inbox[o], Presence("join", issued + 1))
    BY <1>4
<1>8. In = Append(inbox[p], Announced(issued + 1, there))
    OBVIOUS
<1> HIDE DEF In, Far
<1>9. inbox' \in [Parts -> Seq(Msg)] /\ inbox'[p] = In /\ inbox'[o] = Far
    BY <1>1, <1>2, <1>6
<1>10. call' \in [Parts -> PeerIds \cup {None}] /\ call'[p] = issued + 1 /\ call'[o] = call[o]
    BY <1>1, <1>2, <1>3
<1>11. Shape'
    BY <1>1, <1>3, <1>9, <1>10 DEF Shape
<1>12. QED
    BY <1>1, <1>3, <1>5, <1>7, <1>8, <1>9, <1>10, <1>11 DEF there

LEMMA LeaveStep ==
    ASSUME Shape, NEW p \in Parts, Leave(p), NEW o, o = Other(p)
    PROVE  /\ Shape' /\ UNCHANGED issued /\ OnlyLinksOf(p)
           /\ self[p] # None /\ turn' = p
           /\ call'[p] = None /\ call'[o] = call[o]
           /\ self'[p] = None /\ self'[o] = self[o]
           /\ tracks'[p] = 0 /\ tracks'[o] = tracks[o]
           /\ \A q \in PeerIds : /\ link'[p][q].actor.role = "none"
                                 /\ link[p][q] = NoLink => link'[p][q] = NoLink
                                 /\ ~Hasty => link'[p][q].neg = 0
                                 /\ link'[p][q].pending = <<>>
           /\ ~Hasty => \A x \in 1..Len(inbox[p]) : inbox[p][x].t # "rtc.ice_event"
           /\ inbox'[p] = inbox[p]
           /\ Presence("leave", self[p]) \in Msg
           /\ inbox'[o] = IF call[o] = None THEN inbox[o]
                          ELSE Append(inbox[o], Presence("leave", self[p]))
<1> DEFINE Far == IF call[o] = None THEN inbox[o] ELSE Append(inbox[o], Presence("leave", self[p]))
           f == [q \in PeerIds |-> [ClosePeer(link[p][q]) EXCEPT !.pending = <<>>]]
<1>1. /\ self[p] # None /\ turn' = p /\ UNCHANGED issued
      /\ ~Hasty => \A q \in PeerIds : link[p][q].neg = 0
      /\ ~Hasty => \A x \in 1..Len(inbox[p]) : inbox[p][x].t # "rtc.ice_event"
      /\ call' = [call EXCEPT ![p] = None]
      /\ self' = [self EXCEPT ![p] = None]
      /\ tracks' = [tracks EXCEPT ![p] = 0]
      /\ inbox' = [inbox EXCEPT ![o] = Far]
    BY DEF Leave, Settled, Presence
<1>2. link' = [link EXCEPT ![p] = f]
    BY DEF Leave
<1>3. /\ call \in [Parts -> PeerIds \cup {None}] /\ inbox \in [Parts -> Seq(Msg)]
      /\ self \in [Parts -> PeerIds \cup {None}] /\ tracks \in [Parts -> 0..MaxTracks]
      /\ link \in [Parts -> [PeerIds -> Link]]
      /\ o \in Parts /\ o # p /\ inbox[o] \in Seq(Msg)
    BY Two DEF Shape
<1>4. self[p] \in PeerIds
    BY <1>1, <1>3
<1>5. Presence("leave", self[p]) \in Msg
    BY <1>4, PresenceIsMessage
<1>6. Far \in Seq(Msg)
    BY <1>3, <1>5, Lengthened
<1>7. ASSUME NEW q \in PeerIds
      PROVE  /\ f[q] \in Link /\ Sound(f[q]) /\ f[q].num = link[p][q].num
             /\ f[q].neg = link[p][q].neg /\ f[q].actor.role = "none" /\ f[q].pending = <<>>
             /\ link[p][q] = NoLink => f[q] = NoLink
    <2> DEFINE l == link[p][q]
               m == ClosePeer(l)
               n == [m EXCEPT !.pending = <<>>]
    <2>1. l \in Link /\ Sound(l)
        BY LinkFacts
    <2>2. f[q] = n
        OBVIOUS
    <2>3. /\ n \in Link /\ Sound(n) /\ n.num = l.num /\ n.neg = l.neg /\ n.actor.role = "none"
          /\ n.pending = <<>>
          /\ l = NoLink => n = NoLink
        BY <2>1, Closed
    <2> HIDE DEF n, f
    <2>4. QED
        BY <2>1, <2>2, <2>3
<1> HIDE DEF f, Far
<1>8. f \in [PeerIds -> Link]
    BY <1>7 DEF f
<1>9. /\ link' \in [Parts -> [PeerIds -> Link]] /\ link'[p] = f
      /\ \A r \in Parts : r # p => link'[r] = link[r]
    BY <1>2, <1>3, <1>8
<1>10. ASSUME NEW r \in Parts, NEW q \in PeerIds
       PROVE  Sound(link'[r][q]) /\ link'[r][q].num <= MaxActors
    <2>1. Sound(link[r][q]) /\ link[r][q].num <= MaxActors /\ link[p][q].num <= MaxActors
        BY DEF Shape
    <2>2. CASE r = p
        BY <1>7, <1>9, <2>1, <2>2
    <2>3. CASE r # p
        BY <1>9, <2>1, <2>3
    <2>4. QED
        BY <2>2, <2>3
<1>11. /\ call' \in [Parts -> PeerIds \cup {None}] /\ call'[p] = None /\ call'[o] = call[o]
       /\ self' \in [Parts -> PeerIds \cup {None}] /\ self'[p] = None /\ self'[o] = self[o]
    BY <1>1, <1>3
<1>12. tracks' \in [Parts -> 0..MaxTracks] /\ tracks'[p] = 0 /\ tracks'[o] = tracks[o]
    <2>1. 0 \in 0..MaxTracks
        BY NegotiationAssumption
    <2>2. QED
        BY <1>1, <1>3, <2>1
<1>13. inbox' \in [Parts -> Seq(Msg)] /\ inbox'[o] = Far /\ inbox'[p] = inbox[p]
    BY <1>1, <1>3, <1>6
<1>14. Shape'
    BY <1>1, <1>9, <1>10, <1>11, <1>12, <1>13 DEF Shape
<1>15. QED
    BY <1>1, <1>5, <1>7, <1>9, <1>11, <1>12, <1>13, <1>14 DEF OnlyLinksOf, Far

\* The user's tracks change: a connection that he offers is offered again, one
\* that he answered is replaced.
LEMMA RenegotiateFacts ==
    ASSUME NEW l \in Link, Sound(l), NEW m, m = Renegotiate(l)
    PROVE  /\ m \in Link /\ Sound(m) /\ m.offers = l.offers /\ m.pending = l.pending
           /\ l.actor.role = "none" => m = l
           /\ l.actor.role = "offerer" =>
                 /\ m.num = l.num /\ m.actor = l.actor /\ m.skipped = l.skipped
                 /\ l.neg # 0 => m.neg = l.neg /\ m.attached = l.attached /\ m.queued
                 /\ l.neg = 0 => m.neg = m.num /\ m.attached = None
           /\ l.actor.role = "answerer" /\ l.neg = 0 =>
                 /\ m.num = l.num + 1 /\ m.neg = m.num /\ m.attached = None
                 /\ m.actor.role = "offerer" /\ m.actor.sig = "stable" /\ m.actor.remote = NoPc
                 /\ m.actor.answer = NoAnswer
<1> DEFINE n == NegotiatePeer(l)
<1>1. m = IF l.actor.role = "none" THEN l
          ELSE IF n.num # l.num THEN NegotiatePeer(n) ELSE n
    BY DEF Renegotiate
<1>2. n = IF l.neg # 0 THEN [l EXCEPT !.queued = TRUE] ELSE BeginNegotiation(l)
    BY DEF NegotiatePeer
<1>3. NegotiatePeer(n) = IF n.neg # 0 THEN [n EXCEPT !.queued = TRUE] ELSE BeginNegotiation(n)
    BY DEF NegotiatePeer
<1>4. n \in Link /\ Sound(n) /\ n.offers = l.offers /\ n.pending = l.pending
    BY Negotiated
<1>5. /\ NegotiatePeer(n) \in Link /\ Sound(NegotiatePeer(n))
      /\ NegotiatePeer(n).offers = n.offers /\ NegotiatePeer(n).pending = n.pending
    BY <1>4, Negotiated
<1> HIDE DEF n
<1>6. m \in Link /\ Sound(m) /\ m.offers = l.offers /\ m.pending = l.pending
    BY <1>1, <1>4, <1>5
<1>7. ASSUME l.actor.role = "offerer"
      PROVE  /\ m.num = l.num /\ m.actor = l.actor /\ m.skipped = l.skipped
             /\ l.neg # 0 => m.neg = l.neg /\ m.attached = l.attached /\ m.queued
             /\ l.neg = 0 => m.neg = m.num /\ m.attached = None
    <2>1. CASE l.neg # 0
        <3>1. n = [l EXCEPT !.queued = TRUE]
            BY <1>2, <2>1
        <3>2. /\ n.num = l.num /\ n.actor = l.actor /\ n.skipped = l.skipped
              /\ n.neg = l.neg /\ n.attached = l.attached /\ n.queued = TRUE
            BY <2>1, <3>1, Queued
        <3>3. QED
            BY <1>1, <1>7, <2>1, <3>2
    <2>2. CASE l.neg = 0
        <3>1. n = BeginNegotiation(l)
            BY <1>2, <2>2
        <3>2. /\ n.num = l.num /\ n.actor = l.actor /\ n.skipped = l.skipped
              /\ n.neg = n.num /\ n.attached = None
            BY <1>7, <3>1, Begun
        <3>3. QED
            BY <1>1, <1>7, <2>2, <3>2
    <2>3. QED
        BY <2>1, <2>2
<1>8. ASSUME l.actor.role = "answerer", l.neg = 0
      PROVE  /\ m.num = l.num + 1 /\ m.neg = m.num /\ m.attached = None
             /\ m.actor.role = "offerer" /\ m.actor.sig = "stable" /\ m.actor.remote = NoPc
             /\ m.actor.answer = NoAnswer
    <2>1. n = BeginNegotiation(l)
        BY <1>2, <1>8
    <2>2. /\ n.num = l.num + 1 /\ n.neg = n.num /\ n.attached = None
          /\ n.actor.role = "offerer" /\ n.actor.sig = "stable" /\ n.actor.remote = NoPc
          /\ n.actor.answer = NoAnswer
        BY <1>8, <2>1, Begun
    <2>3. l.num \in Nat /\ l.num + 1 # l.num /\ l.num + 1 # 0
        BY DEF Link
    <2>4. m = [n EXCEPT !.queued = TRUE]
        BY <1>1, <1>3, <1>8, <2>2, <2>3
    <2>5. m.num = n.num /\ m.actor = n.actor /\ m.neg = n.neg /\ m.attached = n.attached
        BY <1>4, <2>2, <2>3, <2>4, Queued
    <2>6. QED
        BY <2>2, <2>5
<1>9. l.actor.role = "none" => m = l
    BY <1>1
<1>10. QED
    BY <1>6, <1>7, <1>8, <1>9

LEMMA ChangeTracksStep ==
    ASSUME Shape, NEW p \in Parts, ChangeTracks(p)
    PROVE  /\ Shape' /\ UNCHANGED <<call, issued, self, inbox>> /\ OnlyLinksOf(p)
           /\ self[p] # None /\ turn' = p /\ (~Overlap => Quiet \/ turn = p)
           /\ tracks'[Other(p)] = tracks[Other(p)]
           /\ \A q \in PeerIds : link'[p][q] = Renegotiate(link[p][q])
<1> DEFINE f == [q \in PeerIds |-> Renegotiate(link[p][q])]
<1>1. /\ self[p] # None /\ turn' = p /\ tracks[p] < MaxTracks
      /\ ~Overlap => Quiet \/ turn = p
      /\ tracks' = [tracks EXCEPT ![p] = @ + 1]
      /\ \A q \in PeerIds : link'[p][q].num <= MaxActors
      /\ UNCHANGED <<call, issued, self, inbox>>
    BY DEF ChangeTracks, MayAct
<1>2. link' = [link EXCEPT ![p] = f]
    BY DEF ChangeTracks
<1>3. link \in [Parts -> [PeerIds -> Link]] /\ tracks \in [Parts -> 0..MaxTracks]
    BY DEF Shape
<1>4. ASSUME NEW q \in PeerIds PROVE f[q] \in Link /\ Sound(f[q])
    <2>1. link[p][q] \in Link /\ Sound(link[p][q])
        BY LinkFacts
    <2>2. QED
        BY <2>1, RenegotiateFacts
<1>5. f \in [PeerIds -> Link] /\ \A q \in PeerIds : f[q] = Renegotiate(link[p][q])
    BY <1>4
<1> HIDE DEF f
<1>6. /\ link' \in [Parts -> [PeerIds -> Link]] /\ link'[p] = f
      /\ \A r \in Parts : r # p => link'[r] = link[r]
    BY <1>2, <1>3, <1>5
<1>7. ASSUME NEW r \in Parts, NEW q \in PeerIds
      PROVE  Sound(link'[r][q]) /\ link'[r][q].num <= MaxActors
    <2>1. Sound(link[r][q]) /\ link[r][q].num <= MaxActors
        BY DEF Shape
    <2>2. CASE r = p
        BY <1>1, <1>4, <1>6, <2>2
    <2>3. CASE r # p
        BY <1>6, <2>1, <2>3
    <2>4. QED
        BY <2>2, <2>3
<1>8. tracks[p] + 1 \in 0..MaxTracks
    BY <1>1, <1>3, NegotiationAssumption
<1>9. tracks' \in [Parts -> 0..MaxTracks] /\ tracks'[Other(p)] = tracks[Other(p)]
    BY <1>1, <1>3, <1>8, Two
<1>10. Shape'
    BY <1>1, <1>6, <1>7, <1>9 DEF Shape
<1>11. QED
    BY <1>1, <1>5, <1>6, <1>9, <1>10 DEF OnlyLinksOf

-----------------------------------------------------------------------------
(***************************************************************************)
(* The first half of the invariant: peer ids, and what is under way        *)
(* whoever's turn it is.                                                   *)
(***************************************************************************)
Signals == {"rtc.offer_event", "rtc.answer_event", "rtc.ice_event"}
IsRoster(m)  == m.t = "rtc.participants"
Is(m, t, q)  == m.t = t /\ m.from = q
About(m, q)  == (m.t = "rtc.peer_event" /\ m.peer = q) \/ (m.t \in Signals /\ m.from = q)

Ids ==
    \A p \in Parts :
       /\ call[p] # None => call[p] <= issued /\ turn \in Parts
       /\ self[p] # None => self[p] = call[p]
       /\ call[p] # None => call[Other(p)] # call[p]

\* A message names only peer ids that have been handed out.
Old(m, n) ==
    /\ m.t = "rtc.peer_event" => m.peer <= n
    /\ m.t \in Signals => m.from <= n
    /\ IsRoster(m) => \A q \in m.others : q <= n

\* The queue towards a participant that is known to the server as c and to himself
\* as s, while the other is oc: his roster is on its way until he has heard it, and
\* no news that the other, as oc, is gone.
BoxOK(Q, n, c, s, oc) ==
    /\ \A x \in 1..Len(Q) : Old(Q[x], n)
    /\ \A x \in 1..Len(Q) : IsRoster(Q[x]) =>
          /\ s = None /\ c = Q[x].self
          /\ \A y \in 1..Len(Q) : IsRoster(Q[y]) => y = x
    /\ c # None /\ s = None => \E x \in 1..Len(Q) : IsRoster(Q[x])
    /\ \A x \in 1..Len(Q) : Q[x].t = "rtc.peer_event" /\ Q[x].kind = "leave" => Q[x].peer # oc

Boxes == \A p \in Parts : BoxOK(inbox[p], issued, call[p], self[p], call[Other(p)])

\* A link to a peer that is not yet there, and the links of who is out of the call.
LinkOK(l, q, n, s) ==
    /\ q > n => l = NoLink
    /\ s = None => l.neg = 0 /\ l.actor.role # "offerer"

Links == \A p \in Parts, q \in PeerIds : LinkOK(link[p][q], q, issued, self[p])

Base == Shape /\ Ids /\ Boxes /\ Links

LEMMA BoxShorter ==
    ASSUME NEW Q \in Seq(Msg), Q # <<>>, NEW n, NEW c, NEW s, NEW oc, BoxOK(Q, n, c, s, oc)
    PROVE  /\ ~IsRoster(Head(Q)) => BoxOK(Tail(Q), n, c, s, oc)
           /\ IsRoster(Head(Q)) =>
                 /\ s = None /\ c = Head(Q).self
                 /\ \A x \in 2..Len(Q) : ~IsRoster(Q[x])
                 /\ \A s2 : s2 # None => BoxOK(Tail(Q), n, c, s2, oc)
           /\ Old(Head(Q), n)
           /\ Head(Q).t = "rtc.peer_event" /\ Head(Q).kind = "leave" => Head(Q).peer # oc
<1> DEFINE T == Tail(Q)
<1>1. /\ Len(Q) \in Nat /\ Len(Q) >= 1 /\ Head(Q) = Q[1]
      /\ Len(T) = Len(Q) - 1
      /\ \A x \in 1..Len(T) : x + 1 \in 2..Len(Q) /\ T[x] = Q[x + 1]
      /\ \A x \in 2..Len(Q) : x - 1 \in 1..Len(T) /\ T[x - 1] = Q[x]
    BY Shortened
<1> HIDE DEF T
<1>2. 1 \in 1..Len(Q) /\ \A x \in 2..Len(Q) : x \in 1..Len(Q) /\ x # 1
    BY <1>1
<1>3. \A x \in 1..Len(T) : Old(T[x], n)
    BY <1>1, <1>2 DEF BoxOK
<1>4. \A x \in 1..Len(T) : T[x].t = "rtc.peer_event" /\ T[x].kind = "leave" => T[x].peer # oc
    BY <1>1, <1>2 DEF BoxOK
<1>5. /\ Old(Head(Q), n)
      /\ Head(Q).t = "rtc.peer_event" /\ Head(Q).kind = "leave" => Head(Q).peer # oc
    BY <1>1, <1>2 DEF BoxOK
<1>6. ASSUME ~IsRoster(Head(Q)) PROVE BoxOK(T, n, c, s, oc)
    <2>1. ASSUME NEW x \in 1..Len(T), IsRoster(T[x])
          PROVE  s = None /\ c = T[x].self /\ \A y \in 1..Len(T) : IsRoster(T[y]) => y = x
        <3>1. x + 1 \in 1..Len(Q) /\ IsRoster(Q[x + 1]) /\ T[x] = Q[x + 1]
            BY <1>1, <1>2, <2>1
        <3>2. /\ s = None /\ c = Q[x + 1].self
              /\ \A y \in 1..Len(Q) : IsRoster(Q[y]) => y = x + 1
            BY <3>1 DEF BoxOK
        <3>3. ASSUME NEW y \in 1..Len(T), IsRoster(T[y]) PROVE y = x
            <4>1. y + 1 \in 1..Len(Q) /\ IsRoster(Q[y + 1])
                BY <1>1, <1>2, <3>3
            <4>2. y + 1 = x + 1
                BY <3>2, <4>1
            <4>3. QED
                BY <4>2
        <3>4. QED
            BY <3>1, <3>2, <3>3
    <2>2. ASSUME c # None, s = None PROVE \E x \in 1..Len(T) : IsRoster(T[x])
        <3>1. PICK x \in 1..Len(Q) : IsRoster(Q[x])
            BY <2>2 DEF BoxOK
        <3>2. x \in 2..Len(Q)
            BY <1>1, <1>6, <3>1
        <3>3. QED
            BY <1>1, <3>1, <3>2
    <2>3. QED
        BY <1>3, <1>4, <2>1, <2>2 DEF BoxOK
<1>7. ASSUME IsRoster(Head(Q))
      PROVE  /\ s = None /\ c = Head(Q).self
             /\ \A x \in 2..Len(Q) : ~IsRoster(Q[x])
             /\ \A s2 : s2 # None => BoxOK(T, n, c, s2, oc)
    <2>1. /\ s = None /\ c = Head(Q).self
          /\ \A y \in 1..Len(Q) : IsRoster(Q[y]) => y = 1
        BY <1>1, <1>2, <1>7 DEF BoxOK
    <2>2. \A x \in 2..Len(Q) : ~IsRoster(Q[x])
        BY <1>2, <2>1
    <2>3. \A x \in 1..Len(T) : ~IsRoster(T[x])
        BY <1>1, <2>2
    <2>4. QED
        BY <1>3, <1>4, <2>1, <2>2, <2>3 DEF BoxOK
<1>8. QED
    BY <1>5, <1>6, <1>7 DEF T

LEMMA BoxLonger ==
    ASSUME NEW Q \in Seq(Msg), NEW m \in Msg, NEW n, NEW c, NEW s, NEW oc, BoxOK(Q, n, c, s, oc),
           ~IsRoster(m), Old(m, n),
           m.t = "rtc.peer_event" /\ m.kind = "leave" => m.peer # oc
    PROVE  BoxOK(Append(Q, m), n, c, s, oc)
<1> DEFINE A == Append(Q, m)
<1>1. /\ Len(Q) \in Nat /\ Len(A) = Len(Q) + 1 /\ A[Len(Q) + 1] = m
      /\ \A x \in 1..Len(Q) : A[x] = Q[x]
    BY Lengthened
<1> HIDE DEF A
<1>2. \A x \in 1..Len(A) : x \in 1..Len(Q) \/ A[x] = m
    BY <1>1
<1>3. \A x \in 1..Len(Q) : x \in 1..Len(A)
    BY <1>1
<1>4. \A x \in 1..Len(A) : Old(A[x], n)
    BY <1>1, <1>2 DEF BoxOK
<1>5. \A x \in 1..Len(A) : IsRoster(A[x]) =>
          /\ s = None /\ c = A[x].self
          /\ \A y \in 1..Len(A) : IsRoster(A[y]) => y = x
    BY <1>1, <1>2 DEF BoxOK
<1>6. c # None /\ s = None => \E x \in 1..Len(A) : IsRoster(A[x])
    BY <1>1, <1>3 DEF BoxOK
<1>7. \A x \in 1..Len(A) : A[x].t = "rtc.peer_event" /\ A[x].kind = "leave" => A[x].peer # oc
    BY <1>1, <1>2 DEF BoxOK
<1>8. BoxOK(A, n, c, s, oc)
    BY <1>4, <1>5, <1>6, <1>7 DEF BoxOK
<1>9. QED
    BY <1>8 DEF A

\* The three ways in which most steps treat the queues.
LEMMA BoxesSame ==
    ASSUME Boxes, SameBoxes, UNCHANGED <<call, issued, self>>
    PROVE  Boxes'
BY DEF Boxes, SameBoxes

LEMMA BoxesPopped ==
    ASSUME Shape, Boxes, NEW p \in Parts, Popped(p), ~IsRoster(Head(inbox[p])),
           UNCHANGED <<call, issued, self>>
    PROVE  Boxes'
<1>1. /\ inbox[p] \in Seq(Msg) /\ inbox[p] # <<>>
      /\ inbox'[p] = Tail(inbox[p]) /\ inbox'[Other(p)] = inbox[Other(p)]
    BY DEF Shape, Popped
<1>2. ASSUME NEW r \in Parts
      PROVE  BoxOK(inbox'[r], issued, call[r], self[r], call[Other(r)])
    <2>1. BoxOK(inbox[r], issued, call[r], self[r], call[Other(r)])
        BY DEF Boxes
    <2>2. CASE r = p
        <3>1. BoxOK(Tail(inbox[r]), issued, call[r], self[r], call[Other(r)])
            BY <1>1, <2>1, <2>2, BoxShorter
        <3>2. QED
            BY <1>1, <2>2, <3>1
    <2>3. CASE r = Other(p)
        BY <1>1, <2>1, <2>3
    <2>4. QED
        BY <2>2, <2>3, Two
<1>3. QED
    BY <1>2 DEF Boxes

LEMMA BoxesSignalled ==
    ASSUME Shape, Boxes, Ids, NEW p \in Parts, NEW l, NEW pc, NEW m \in Msg, Ice(p, pc) \in Msg,
           m.t \in {"rtc.offer_event", "rtc.answer_event"}, m.from = self[p], self[p] # None,
           inbox'[p] = inbox[p],
           inbox'[Other(p)] = WithIceAfter(inbox[Other(p)], l, p, pc, m),
           UNCHANGED <<call, issued, self>>
    PROVE  Boxes'
<1> DEFINE o == Other(p)
           Good(Q) == BoxOK(Q, issued, call[o], self[o], call[Other(o)])
<1>1. inbox[o] \in Seq(Msg) /\ o \in Parts /\ Good(inbox[o])
    BY Two DEF Shape, Boxes
<1>2. self[p] = call[p] /\ call[p] <= issued
    BY DEF Ids
<1>3. ~IsRoster(m) /\ Old(m, issued) /\ m.t # "rtc.peer_event"
    BY <1>2 DEF Old, IsRoster
<1>4. /\ ~IsRoster(Ice(p, pc)) /\ Old(Ice(p, pc), issued) /\ Ice(p, pc).t # "rtc.peer_event"
    BY <1>2 DEF Old, IsRoster, Ice
<1>5. Append(inbox[o], m) \in Seq(Msg) /\ Good(Append(inbox[o], m))
    BY <1>1, <1>3, BoxLonger, Lengthened
<1>6. Good(Append(Append(inbox[o], m), Ice(p, pc)))
    BY <1>4, <1>5, BoxLonger
<1>7. Good(inbox'[o])
    BY <1>5, <1>6 DEF WithIceAfter
<1>8. BoxOK(inbox'[p], issued, call[p], self[p], call[o])
    BY DEF Boxes
<1>9. ASSUME NEW r \in Parts PROVE BoxOK(inbox'[r], issued, call[r], self[r], call[Other(r)])
    <2>1. r = p \/ r = o
        BY Two
    <2>2. QED
        BY <1>7, <1>8, <2>1
<1>10. QED
    BY <1>9 DEF Boxes

LEMMA LinksSet ==
    ASSUME Links, NEW p \in Parts, NEW q \in PeerIds, OnlyLink(p, q), UNCHANGED <<issued, self>>,
           LinkOK(link'[p][q], q, issued, self[p])
    PROVE  Links'
<1>1. ASSUME NEW r \in Parts, NEW s \in PeerIds PROVE LinkOK(link'[r][s], s, issued, self[r])
    <2>1. CASE r = p /\ s = q
        BY <2>1
    <2>2. CASE r # p \/ s # q
        <3>1. link'[r][s] = link[r][s]
            BY <2>2 DEF OnlyLink
        <3>2. QED
            BY <3>1 DEF Links
    <2>3. QED
        BY <2>1, <2>2
<1>2. QED
    BY <1>1 DEF Links

LEMMA IdsSame ==
    ASSUME Ids, UNCHANGED <<call, issued, self, turn>>
    PROVE  Ids'
BY DEF Ids

-----------------------------------------------------------------------------
\* The steps of the negotiations keep it.
LEMMA BaseAttach ==
    ASSUME Base, NEW p \in Parts, NEW q \in PeerIds, AttachLocalTracks(p, q)
    PROVE  Base'
<1> DEFINE l == link[p][q]
<1>1. /\ Shape' /\ UNCHANGED <<call, issued, self, tracks, inbox, turn>> /\ OnlyLink(p, q)
      /\ l.neg # 0 /\ link'[p][q] = [l EXCEPT !.attached = tracks[p]]
    BY AttachStep DEF Base
<1>2. l \in Link /\ LinkOK(l, q, issued, self[p]) /\ NoLink.neg = 0
    BY LinkFacts DEF Base, Links, NoLink
<1>3. ~(q > issued) /\ self[p] # None
    BY <1>1, <1>2 DEF LinkOK
<1>4. LinkOK(link'[p][q], q, issued, self[p])
    BY <1>3 DEF LinkOK
<1>5. Links' /\ Ids' /\ Boxes'
    BY <1>1, <1>4, LinksSet, IdsSame, BoxesSame DEF Base, SameBoxes
<1>6. QED
    BY <1>1, <1>5 DEF Base

LEMMA BaseMakeOffer ==
    ASSUME Base, NEW p \in Parts, NEW q \in PeerIds, MakeOffer(p, q)
    PROVE  Base'
<1> DEFINE l == link[p][q]
<1>1. /\ Shape' /\ UNCHANGED <<call, issued, self, tracks, turn>> /\ OnlyLink(p, q)
      /\ l.neg # 0
      /\ inbox'[p] = inbox[p]
      /\ ~Routed(p, q) => SameBoxes
      /\ Routed(p, q) => /\ OfferOf(p, q) \in Msg /\ Ice(p, <<q, l.num>>) \in Msg
                         /\ inbox'[Other(p)] = WithIceAfter(inbox[Other(p)], l, p, <<q, l.num>>,
                                                            OfferOf(p, q))
    BY MakeOfferStep DEF Base
<1>2. l \in Link /\ LinkOK(l, q, issued, self[p]) /\ NoLink.neg = 0
    BY LinkFacts DEF Base, Links, NoLink
<1>3. ~(q > issued) /\ self[p] # None
    BY <1>1, <1>2 DEF LinkOK
<1>4. LinkOK(link'[p][q], q, issued, self[p])
    BY <1>3 DEF LinkOK
<1>5. CASE Routed(p, q)
    <2>1. OfferOf(p, q).t = "rtc.offer_event" /\ OfferOf(p, q).from = self[p]
        BY DEF OfferOf
    <2>2. Boxes'
        BY <1>1, <1>3, <1>5, <2>1, BoxesSignalled DEF Base
    <2>3. Links' /\ Ids'
        BY <1>1, <1>4, LinksSet, IdsSame DEF Base
    <2>4. QED
        BY <1>1, <2>2, <2>3 DEF Base
<1>6. CASE ~Routed(p, q)
    <2>1. Links' /\ Ids' /\ Boxes'
        BY <1>1, <1>4, <1>6, LinksSet, IdsSame, BoxesSame DEF Base
    <2>2. QED
        BY <1>1, <2>1 DEF Base
<1>7. QED
    BY <1>5, <1>6

LEMMA BaseAbandon ==
    ASSUME Base, NEW p \in Parts, NEW q \in PeerIds, AbandonOffer(p, q)
    PROVE  Base'
<1> DEFINE l == link[p][q]
<1>1. /\ Shape' /\ UNCHANGED <<call, issued, self, tracks, inbox, turn>> /\ OnlyLink(p, q)
      /\ l.neg # 0
    BY AbandonStep DEF Base
<1>2. l \in Link /\ LinkOK(l, q, issued, self[p]) /\ NoLink.neg = 0
    BY LinkFacts DEF Base, Links, NoLink
<1>3. ~(q > issued) /\ self[p] # None
    BY <1>1, <1>2 DEF LinkOK
<1>4. LinkOK(link'[p][q], q, issued, self[p])
    BY <1>3 DEF LinkOK
<1>5. Links' /\ Ids' /\ Boxes'
    BY <1>1, <1>4, LinksSet, IdsSame, BoxesSame DEF Base, SameBoxes
<1>6. QED
    BY <1>1, <1>5 DEF Base

LEMMA BaseSkip ==
    ASSUME Base, NEW p \in Parts, NEW q \in PeerIds, SkipOffer(p, q)
    PROVE  Base'
<1> DEFINE l == link[p][q]
<1>1. /\ Shape' /\ UNCHANGED <<call, issued, self, tracks, inbox, turn>> /\ OnlyLink(p, q)
      /\ l.neg # 0
    BY SkipStep DEF Base
<1>2. l \in Link /\ LinkOK(l, q, issued, self[p]) /\ NoLink.neg = 0
    BY LinkFacts DEF Base, Links, NoLink
<1>3. ~(q > issued) /\ self[p] # None
    BY <1>1, <1>2 DEF LinkOK
<1>4. LinkOK(link'[p][q], q, issued, self[p])
    BY <1>3 DEF LinkOK
<1>5. Links' /\ Ids' /\ Boxes'
    BY <1>1, <1>4, LinksSet, IdsSame, BoxesSame DEF Base, SameBoxes
<1>6. QED
    BY <1>1, <1>5 DEF Base

LEMMA BaseMakeAnswer ==
    ASSUME Base, NEW p \in Parts, NEW q \in PeerIds, MakeAnswer(p, q)
    PROVE  Base'
<1> DEFINE l == link[p][q]
<1>1. /\ Shape' /\ UNCHANGED <<call, issued, self, tracks, turn>> /\ OnlyLink(p, q)
      /\ l.offers # <<>>
      /\ inbox'[p] = inbox[p]
      /\ ~Answerable(l) => SameBoxes /\ link'[p][q] = Rest(l)
      /\ Answerable(l) /\ Refused(Told(l)) => SameBoxes /\ link'[p][q] = AfterRefusal(l)
      /\ Answerable(l) /\ ~Refused(Told(l)) => link'[p][q] = AfterAnswer(l)
      /\ ~Routed(p, q) => SameBoxes
      /\ Routed(p, q) /\ Answerable(l) /\ ~Refused(Told(l)) =>
            /\ AnswerOf(p, q) \in Msg /\ Ice(p, <<q, l.num>>) \in Msg
            /\ inbox'[Other(p)] = WithIceAfter(inbox[Other(p)], l, p, <<q, l.num>>, AnswerOf(p, q))
    BY MakeAnswerStep DEF Base
<1>2. /\ l \in Link /\ Sound(l) /\ LinkOK(l, q, issued, self[p]) /\ NoLink.offers = <<>>
    BY LinkFacts DEF Base, Links, NoLink
<1>3. ~(q > issued)
    BY <1>1, <1>2 DEF LinkOK
<1>4. link'[p][q].neg = l.neg /\ link'[p][q].actor.role = l.actor.role
    <2>1. CASE ~Answerable(l)
        BY <1>1, <1>2, <2>1, RestFacts
    <2>2. CASE Answerable(l) /\ Refused(Told(l))
        BY <1>1, <1>2, <2>2, AfterRefusalFacts DEF Answerable
    <2>3. CASE Answerable(l) /\ ~Refused(Told(l))
        BY <1>1, <1>2, <2>3, AfterAnswerFacts DEF Answerable
    <2>4. QED
        BY <2>1, <2>2, <2>3
<1>5. LinkOK(link'[p][q], q, issued, self[p])
    BY <1>2, <1>3, <1>4 DEF LinkOK
<1>6. CASE Routed(p, q) /\ Answerable(l) /\ ~Refused(Told(l))
    <2>1. AnswerOf(p, q).t = "rtc.answer_event" /\ AnswerOf(p, q).from = self[p]
        BY DEF AnswerOf
    <2>2. self[p] # None
        BY <1>6 DEF Routed
    <2>3. Boxes'
        BY <1>1, <1>6, <2>1, <2>2, BoxesSignalled DEF Base
    <2>4. Links' /\ Ids'
        BY <1>1, <1>5, LinksSet, IdsSame DEF Base
    <2>5. QED
        BY <1>1, <2>3, <2>4 DEF Base
<1>7. CASE ~(Routed(p, q) /\ Answerable(l) /\ ~Refused(Told(l)))
    <2>1. Links' /\ Ids' /\ Boxes'
        BY <1>1, <1>5, <1>7, LinksSet, IdsSame, BoxesSame DEF Base
    <2>2. QED
        BY <1>1, <2>1 DEF Base
<1>8. QED
    BY <1>6, <1>7

LEMMA BaseApplyAnswer ==
    ASSUME Base, NEW p \in Parts, NEW q \in PeerIds, ApplyAnswer(p, q)
    PROVE  Base'
<1> DEFINE l == link[p][q]
<1>1. /\ Shape' /\ UNCHANGED <<call, issued, self, tracks, inbox, turn>> /\ OnlyLink(p, q)
      /\ l.actor.answer # NoAnswer /\ link'[p][q] = AnswerTaken(l)
    BY ApplyAnswerStep DEF Base
<1>2. l \in Link /\ Sound(l) /\ LinkOK(l, q, issued, self[p]) /\ NoLink.actor.answer = NoAnswer
    BY LinkFacts DEF Base, Links, NoLink, NoActor
<1>3. ~(q > issued)
    BY <1>1, <1>2 DEF LinkOK
<1>4. link'[p][q].neg = l.neg /\ link'[p][q].actor.role = l.actor.role
    BY <1>1, <1>2, AnswerTakenFacts
<1>5. LinkOK(link'[p][q], q, issued, self[p])
    BY <1>2, <1>3, <1>4 DEF LinkOK
<1>6. Links' /\ Ids' /\ Boxes'
    BY <1>1, <1>5, LinksSet, IdsSame, BoxesSame DEF Base, SameBoxes
<1>7. QED
    BY <1>1, <1>6 DEF Base

\* A handler of a message that is not a roster keeps it: it touches one link, of a
\* peer that has been there, and makes nobody an offerer.
LEMMA BaseHandled ==
    ASSUME Base, NEW p \in Parts, NEW q \in PeerIds, Popped(p), ~IsRoster(Head(inbox[p])),
           q <= issued, OnlyLink(p, q), Shape', UNCHANGED <<call, issued, self, tracks, turn>>,
           link'[p][q].neg = link[p][q].neg,
           link'[p][q].actor.role \in {link[p][q].actor.role, "answerer", "none"}
    PROVE  Base'
<1>1. LinkOK(link[p][q], q, issued, self[p])
    BY DEF Base, Links
<1>2. ~(q > issued)
    BY DEF Base, Shape, PeerIds
<1>3. LinkOK(link'[p][q], q, issued, self[p])
    BY <1>1, <1>2 DEF LinkOK
<1>4. Links' /\ Ids' /\ Boxes'
    BY <1>3, LinksSet, IdsSame, BoxesPopped DEF Base
<1>5. QED
    BY <1>4 DEF Base

LEMMA HeadOld ==
    ASSUME Base, NEW p \in Parts, inbox[p] # <<>>
    PROVE  /\ Old(Head(inbox[p]), issued)
           /\ Head(inbox[p]).t = "rtc.peer_event" /\ Head(inbox[p]).kind = "leave" =>
                 Head(inbox[p]).peer # call[Other(p)]
<1>1. inbox[p] \in Seq(Msg) /\ BoxOK(inbox[p], issued, call[p], self[p], call[Other(p)])
    BY DEF Base, Shape, Boxes
<1>2. QED
    BY <1>1, BoxShorter

LEMMA BaseHandlePeerEvent ==
    ASSUME Base, NEW p \in Parts, HandlePeerEvent(p)
    PROVE  Base'
<1> DEFINE m == Head(inbox[p])
           l == link[p][m.peer]
<1>1. /\ Shape' /\ UNCHANGED <<call, issued, self, tracks, turn>>
      /\ m.t = "rtc.peer_event" /\ Popped(p) /\ OnlyLink(p, m.peer)
      /\ m.peer \in PeerIds /\ m.kind \in {"join", "leave"}
      /\ m.kind = "join" => link'[p][m.peer] = CreatePeerActor(l, "answerer")
      /\ m.kind = "leave" => link'[p][m.peer] = ClosePeer(l)
    BY HandlePeerEventStep DEF Base
<1>2. m.peer <= issued /\ ~IsRoster(m)
    BY <1>1, HeadOld DEF Old, IsRoster, Popped
<1>3. l \in Link /\ Sound(l)
    BY <1>1, LinkFacts DEF Base
<1>4. CreatePeerActor(l, "answerer").neg = l.neg /\ CreatePeerActor(l, "answerer").actor.role = "answerer"
    BY <1>3, Created
<1>5. ClosePeer(l).neg = l.neg /\ ClosePeer(l).actor.role = "none"
    BY <1>3, Closed
<1>6. /\ link'[p][m.peer].neg = l.neg
      /\ link'[p][m.peer].actor.role \in {l.actor.role, "answerer", "none"}
    BY <1>1, <1>4, <1>5
<1>7. QED
    BY <1>1, <1>2, <1>6, BaseHandled

LEMMA BaseHandleOffer ==
    ASSUME Base, NEW p \in Parts, HandleOffer(p)
    PROVE  Base'
<1> DEFINE m == Head(inbox[p])
           l == link[p][m.from]
           c == CreatePeerActor(l, "answerer")
           k == WithOffer(c, m)
<1>1. /\ Shape' /\ UNCHANGED <<call, issued, self, tracks, turn>>
      /\ m.t = "rtc.offer_event" /\ Popped(p) /\ OnlyLink(p, m.from)
      /\ m.from \in PeerIds /\ m \in Description
      /\ link'[p][m.from] = k
    BY HandleOfferStep DEF Base
<1>2. m.from <= issued /\ ~IsRoster(m)
    BY <1>1, HeadOld DEF Old, IsRoster, Popped, Signals
<1>3. l \in Link /\ Sound(l)
    BY <1>1, LinkFacts DEF Base
<1>4. c \in Link /\ Sound(c) /\ c.neg = l.neg /\ c.actor.role = "answerer"
    BY <1>3, Created
<1> HIDE DEF c
<1>5. k.neg = c.neg /\ k.actor = c.actor
    BY <1>1, <1>4, WithOfferFacts
<1>6. QED
    BY <1>1, <1>2, <1>4, <1>5, BaseHandled

LEMMA BaseHandleAnswer ==
    ASSUME Base, NEW p \in Parts, HandleAnswer(p)
    PROVE  Base'
<1> DEFINE m == Head(inbox[p])
           l == link[p][m.from]
           k == AnswerHeld(l, SaidIn(m))
<1>1. /\ Shape' /\ UNCHANGED <<call, issued, self, tracks, turn>>
      /\ m.t = "rtc.answer_event" /\ Popped(p) /\ OnlyLink(p, m.from)
      /\ m.from \in PeerIds /\ SaidIn(m) \in Said
      /\ link'[p][m.from] = IF TakesAnswer(l) THEN k ELSE l
    BY HandleAnswerStep DEF Base
<1>2. m.from <= issued /\ ~IsRoster(m)
    BY <1>1, HeadOld DEF Old, IsRoster, Popped, Signals
<1>3. l \in Link /\ Sound(l)
    BY <1>1, LinkFacts DEF Base
<1>4. TakesAnswer(l) => k.neg = l.neg /\ k.actor.role = l.actor.role
    BY <1>1, <1>3, AnswerHeldFacts DEF TakesAnswer
<1>5. QED
    BY <1>1, <1>2, <1>4, BaseHandled

LEMMA BaseHandleIce ==
    ASSUME Base, NEW p \in Parts, HandleIce(p)
    PROVE  Base'
<1> DEFINE m == Head(inbox[p])
           l == link[p][m.from]
           k == TakeCandidate(l, m.pc)
<1>1. /\ Shape' /\ UNCHANGED <<call, issued, self, tracks, turn>>
      /\ m.t = "rtc.ice_event" /\ Popped(p) /\ OnlyLink(p, m.from)
      /\ m.from \in PeerIds /\ m.pc \in Pc
      /\ link'[p][m.from] = k
    BY HandleIceStep DEF Base
<1>2. m.from <= issued /\ ~IsRoster(m)
    BY <1>1, HeadOld DEF Old, IsRoster, Popped, Signals
<1>3. l \in Link /\ Sound(l)
    BY <1>1, LinkFacts DEF Base
<1>4. k.neg = l.neg /\ k.actor.role = l.actor.role
    BY <1>1, <1>3, CandidateTaken
<1>5. QED
    BY <1>1, <1>2, <1>4, BaseHandled

LEMMA BaseHandleParticipants ==
    ASSUME Base, NEW p \in Parts, HandleParticipants(p)
    PROVE  Base'
<1> DEFINE m == Head(inbox[p])
           o == Other(p)
<1>1. /\ Shape' /\ UNCHANGED <<call, issued, tracks, turn>>
      /\ m.t = "rtc.participants" /\ Popped(p) /\ OnlyLinksOf(p)
      /\ m.self \in PeerIds
      /\ self'[p] = m.self /\ self'[o] = self[o]
      /\ \A q \in PeerIds : link'[p][q] = IF q \in m.others THEN Met(link[p][q]) ELSE link[p][q]
    BY HandleParticipantsStep DEF Base
<1>2. /\ inbox[p] \in Seq(Msg) /\ inbox[p] # <<>>
      /\ inbox'[p] = Tail(inbox[p]) /\ inbox'[o] = inbox[o]
    BY <1>1 DEF Base, Shape, Popped
<1>3. BoxOK(inbox[p], issued, call[p], self[p], call[o]) /\ IsRoster(m)
    BY <1>1 DEF Base, Boxes, IsRoster
<1>4. /\ self[p] = None /\ call[p] = m.self
      /\ \A s2 : s2 # None => BoxOK(Tail(inbox[p]), issued, call[p], s2, call[o])
    BY <1>2, <1>3, BoxShorter
<1>5. m.self # None
    BY <1>1, Numbers
<1>6. Old(m, issued)
    BY <1>1, HeadOld DEF Popped
<1>7. Boxes'
    <2>1. BoxOK(inbox'[p], issued, call[p], self'[p], call[o])
        BY <1>1, <1>2, <1>4, <1>5
    <2>2. BoxOK(inbox'[o], issued, call[o], self'[o], call[Other(o)])
        BY <1>1, <1>2, Two DEF Base, Boxes
    <2>3. ASSUME NEW r \in Parts PROVE BoxOK(inbox'[r], issued, call[r], self'[r], call[Other(r)])
        BY <2>1, <2>2, Two
    <2>4. QED
        BY <1>1, <2>3 DEF Boxes
<1>8. Ids'
    BY <1>1, <1>4, <1>5, Two DEF Base, Ids
<1>9. ASSUME NEW r \in Parts, NEW q \in PeerIds PROVE LinkOK(link'[r][q], q, issued, self'[r])
    <2>1. LinkOK(link[r][q], q, issued, self[r]) /\ q \in Nat /\ issued \in Nat
        BY Numbers, NegotiationAssumption DEF Base, Links, Shape
    <2>2. CASE r = p
        <3>1. q > issued => q \notin m.others
            BY <1>3, <1>6, <2>1 DEF Old
        <3>2. self'[r] # None
            BY <1>1, <1>5, <2>2
        <3>3. QED
            BY <1>1, <2>1, <2>2, <3>1, <3>2 DEF LinkOK
    <2>3. CASE r = o
        <3>1. link'[r][q] = link[r][q] /\ self'[r] = self[r]
            BY <1>1, <2>3, Two DEF OnlyLinksOf
        <3>2. QED
            BY <2>1, <3>1
    <2>4. QED
        BY <2>2, <2>3, Two
<1>10. Links'
    BY <1>1, <1>9 DEF Links
<1>11. QED
    BY <1>1, <1>7, <1>8, <1>10 DEF Base

\* Who joins gets a peer id that nothing knows of.
LEMMA BoxMoreIds ==
    ASSUME NEW Q \in Seq(Msg), NEW n \in Nat, NEW c, NEW s, NEW oc, BoxOK(Q, n, c, s, oc)
    PROVE  /\ BoxOK(Q, n + 1, c, s, oc)
           /\ BoxOK(Q, n + 1, c, s, n + 1)
<1>1. ASSUME NEW x \in 1..Len(Q)
      PROVE  /\ Old(Q[x], n) /\ Old(Q[x], n + 1)
             /\ Q[x].t = "rtc.peer_event" => Q[x].peer # n + 1
    <2>1. Old(Q[x], n) /\ Q[x] \in Msg
        BY DEF BoxOK
    <2>2. /\ Q[x].t = "rtc.peer_event" => Q[x].peer \in Nat
          /\ Q[x].t \in Signals => Q[x].from \in Nat
          /\ IsRoster(Q[x]) => \A q \in Q[x].others : q \in Nat
        BY <2>1, KindsOf, Numbers DEF Signals, IsRoster
    <2>3. QED
        BY <2>1, <2>2 DEF Old
<1>2. QED
    BY <1>1 DEF BoxOK

\* His roster is the only one.
LEMMA BoxRostered ==
    ASSUME NEW Q \in Seq(Msg), NEW n, NEW oc, NEW oc2,
           BoxOK(Q, n, None, None, oc), BoxOK(Q, n, None, None, oc2),
           NEW m \in Msg, IsRoster(m), Old(m, n)
    PROVE  BoxOK(Append(Q, m), n, m.self, None, oc)
<1> DEFINE A == Append(Q, m)
<1>1. /\ Len(Q) \in Nat /\ Len(A) = Len(Q) + 1 /\ A[Len(Q) + 1] = m
      /\ \A x \in 1..Len(Q) : A[x] = Q[x]
    BY Lengthened
<1> HIDE DEF A
<1>2. ASSUME NEW x \in 1..Len(Q) PROVE ~IsRoster(Q[x])
    <2>1. Q[x] \in Msg
        OBVIOUS
    <2>2. IsRoster(Q[x]) => Q[x].self # None
        BY <2>1, KindsOf, Numbers DEF IsRoster
    <2>3. QED
        BY <2>2 DEF BoxOK
<1>3. \A x \in 1..Len(A) : x \in 1..Len(Q) \/ (x = Len(Q) + 1 /\ A[x] = m)
    BY <1>1
<1>4. Len(Q) + 1 \in 1..Len(A)
    BY <1>1
<1>5. \A x \in 1..Len(A) : Old(A[x], n)
    BY <1>1, <1>3 DEF BoxOK
<1>6. \A x \in 1..Len(A) : IsRoster(A[x]) => x = Len(Q) + 1 /\ A[x] = m
    BY <1>1, <1>2, <1>3
<1>7. \A x \in 1..Len(A) : A[x].t = "rtc.peer_event" /\ A[x].kind = "leave" => A[x].peer # oc
    BY <1>1, <1>3 DEF BoxOK, IsRoster
<1>8. BoxOK(A, n, m.self, None, oc)
    BY <1>1, <1>4, <1>5, <1>6, <1>7 DEF BoxOK
<1>9. QED
    BY <1>8 DEF A

LEMMA BaseJoin ==
    ASSUME Base, NEW p \in Parts, Join(p)
    PROVE  Base'
<1> DEFINE o == Other(p)
           new == issued + 1
           m == Announced(new, {call[o]} \ {None})
           j == Presence("join", new)
<1>1. /\ Shape' /\ UNCHANGED <<self, link, tracks>>
      /\ call[p] = None /\ new \in PeerIds /\ issued' = new /\ turn' = p
      /\ call'[p] = new /\ call'[o] = call[o]
      /\ m \in Msg /\ j \in Msg
      /\ inbox'[p] = Append(inbox[p], m)
      /\ inbox'[o] = IF call[o] = None THEN inbox[o] ELSE Append(inbox[o], j)
    BY JoinStep DEF Base
<1>2. /\ o \in Parts /\ inbox[p] \in Seq(Msg) /\ inbox[o] \in Seq(Msg)
      /\ issued \in Nat /\ self[p] \in PeerIds \cup {None} /\ call[o] \in PeerIds \cup {None}
    BY Two, NegotiationAssumption DEF Base, Shape
<1>3. self[p] = None
    BY <1>1 DEF Base, Ids
<1>4. call[o] # None => call[o] <= issued /\ call[o] \in Nat
    BY <1>2, Numbers DEF Base, Ids
<1>5. new # None
    BY <1>1, Numbers
<1>6. /\ BoxOK(inbox[p], new, None, None, call[o]) /\ BoxOK(inbox[o], new, call[o], self[o], new)
    <2>1. BoxOK(inbox[p], issued, None, None, call[o]) /\ BoxOK(inbox[o], issued, call[o], self[o], call[p])
        BY <1>1, <1>2, <1>3, Two DEF Base, Boxes
    <2>2. QED
        BY <1>2, <2>1, BoxMoreIds
<1>7. IsRoster(m) /\ Old(m, new) /\ m.self = new
    BY <1>2, <1>4 DEF Announced, IsRoster, Old, Signals
<1>8. ~IsRoster(j) /\ Old(j, new) /\ j.kind = "join"
    BY <1>2 DEF Presence, IsRoster, Old, Signals
<1> HIDE DEF m, j
<1>9. BoxOK(inbox'[p], new, new, None, call[o])
    BY <1>1, <1>2, <1>6, <1>7, BoxRostered
<1>10. BoxOK(inbox'[o], new, call[o], self[o], new)
    BY <1>1, <1>2, <1>6, <1>8, BoxLonger
<1>11. Boxes'
    <2>1. ASSUME NEW r \in Parts
          PROVE  BoxOK(inbox'[r], issued', call'[r], self'[r], call'[Other(r)])
        BY <1>1, <1>3, <1>9, <1>10, Two
    <2>2. QED
        BY <2>1 DEF Boxes
<1>12. Ids'
    <2>1. ASSUME NEW r \in Parts
          PROVE  /\ call'[r] # None => call'[r] <= issued' /\ turn' \in Parts
                 /\ self'[r] # None => self'[r] = call'[r]
                 /\ call'[r] # None => call'[Other(r)] # call'[r]
        <3>1. CASE r = p
            BY <1>1, <1>2, <1>3, <1>4, <1>5, <3>1
        <3>2. CASE r = o
            <4>1. call'[Other(r)] = new /\ call'[r] = call[o] /\ self'[r] = self[o]
                BY <1>1, <3>2, Two
            <4>2. self[o] # None => self[o] = call[o]
                BY <1>2 DEF Base, Ids
            <4>3. QED
                BY <1>1, <1>2, <1>4, <4>1, <4>2, <3>2
        <3>3. QED
            BY <3>1, <3>2, Two
    <2>2. QED
        BY <2>1 DEF Ids
<1>13. Links'
    <2>1. ASSUME NEW r \in Parts, NEW q \in PeerIds PROVE LinkOK(link[r][q], q, new, self[r])
        <3>1. LinkOK(link[r][q], q, issued, self[r]) /\ (q > new => q > issued)
            BY <1>2, Numbers DEF Base, Links
        <3>2. QED
            BY <3>1 DEF LinkOK
    <2>2. QED
        BY <1>1, <2>1 DEF Links
<1>14. QED
    BY <1>1, <1>11, <1>12, <1>13 DEF Base

LEMMA BaseLeave ==
    ASSUME Base, ~Hasty, NEW p \in Parts, Leave(p)
    PROVE  Base'
<1> DEFINE o == Other(p)
           m == Presence("leave", self[p])
<1>1. /\ Shape' /\ UNCHANGED issued /\ OnlyLinksOf(p)
      /\ self[p] # None /\ turn' = p
      /\ call'[p] = None /\ call'[o] = call[o]
      /\ self'[p] = None /\ self'[o] = self[o]
      /\ \A q \in PeerIds : /\ link'[p][q].neg = 0 /\ link'[p][q].actor.role = "none"
                            /\ link[p][q] = NoLink => link'[p][q] = NoLink
      /\ inbox'[p] = inbox[p]
      /\ m \in Msg
      /\ inbox'[o] = IF call[o] = None THEN inbox[o] ELSE Append(inbox[o], m)
    BY LeaveStep DEF Base
<1>2. /\ o \in Parts /\ inbox[p] \in Seq(Msg) /\ inbox[o] \in Seq(Msg)
      /\ issued \in Nat /\ self[p] \in PeerIds
    BY <1>1, Two, NegotiationAssumption DEF Base, Shape
<1>3. self[p] = call[p] /\ call[p] <= issued
    BY <1>1 DEF Base, Ids
<1>4. ~IsRoster(m) /\ Old(m, issued) /\ m.peer = self[p]
    BY <1>3 DEF Presence, IsRoster, Old, Signals
<1>5. self[p] # None
    BY <1>1
<1> HIDE DEF m
<1>6. BoxOK(inbox'[p], issued, None, None, call[o])
    <2>1. BoxOK(inbox[p], issued, call[p], self[p], call[o])
        BY DEF Base, Boxes
    <2>2. \A x \in 1..Len(inbox[p]) : ~IsRoster(inbox[p][x])
        BY <1>5, <2>1 DEF BoxOK
    <2>3. BoxOK(inbox[p], issued, None, None, call[o])
        BY <2>1, <2>2 DEF BoxOK
    <2>4. QED
        BY <1>1, <2>3
<1>7. BoxOK(inbox'[o], issued, call[o], self[o], None)
    <2>1. BoxOK(inbox[o], issued, call[o], self[o], call[p])
        BY <1>2, Two DEF Base, Boxes
    <2>2. ASSUME NEW x \in 1..Len(inbox[o]), inbox[o][x].t = "rtc.peer_event" PROVE inbox[o][x].peer # None
        <3>1. inbox[o][x] \in Msg
            BY <1>2
        <3>2. QED
            BY <2>2, <3>1, KindsOf, Numbers
    <2>3. BoxOK(inbox[o], issued, call[o], self[o], None)
        BY <2>1, <2>2 DEF BoxOK
    <2>4. BoxOK(Append(inbox[o], m), issued, call[o], self[o], None)
        BY <1>1, <1>2, <1>4, <1>5, <2>3, BoxLonger
    <2>5. QED
        BY <1>1, <2>3, <2>4
<1>8. Boxes'
    <2>1. ASSUME NEW r \in Parts
          PROVE  BoxOK(inbox'[r], issued', call'[r], self'[r], call'[Other(r)])
        BY <1>1, <1>6, <1>7, Two
    <2>2. QED
        BY <2>1 DEF Boxes
<1>9. Ids'
    <2>1. ASSUME NEW r \in Parts
          PROVE  /\ call'[r] # None => call'[r] <= issued' /\ turn' \in Parts
                 /\ self'[r] # None => self'[r] = call'[r]
                 /\ call'[r] # None => call'[Other(r)] # call'[r]
        BY <1>1, <1>2, Two DEF Base, Ids
    <2>2. QED
        BY <2>1 DEF Ids
<1>10. Links'
    <2>1. ASSUME NEW r \in Parts, NEW q \in PeerIds PROVE LinkOK(link'[r][q], q, issued, self'[r])
        <3>1. LinkOK(link[r][q], q, issued, self[r])
            BY DEF Base, Links
        <3>2. CASE r = p
            BY <1>1, <3>1, <3>2 DEF LinkOK
        <3>3. CASE r = o
            <4>1. link'[r][q] = link[r][q] /\ self'[r] = self[r]
                BY <1>1, <3>3, Two DEF OnlyLinksOf
            <4>2. QED
                BY <3>1, <4>1
        <3>4. QED
            BY <3>2, <3>3, Two
    <2>2. QED
        BY <1>1, <2>1 DEF Links
<1>11. QED
    BY <1>1, <1>8, <1>9, <1>10 DEF Base

LEMMA BaseChangeTracks ==
    ASSUME Base, ~Overlap, NEW p \in Parts, ChangeTracks(p)
    PROVE  Base'
<1>1. /\ Shape' /\ UNCHANGED <<call, issued, self, inbox>> /\ OnlyLinksOf(p)
      /\ self[p] # None /\ turn' = p
      /\ \A q \in PeerIds : link'[p][q] = Renegotiate(link[p][q])
    BY ChangeTracksStep DEF Base
<1>2. Boxes'
    BY <1>1, BoxesSame DEF Base, SameBoxes
<1>3. Ids'
    BY <1>1 DEF Base, Ids
<1>4. Links'
    <2>1. ASSUME NEW r \in Parts, NEW q \in PeerIds PROVE LinkOK(link'[r][q], q, issued, self[r])
        <3>1. LinkOK(link[r][q], q, issued, self[r])
            BY DEF Base, Links
        <3>2. CASE r = p
            <4>1. link[p][q] \in Link /\ Sound(link[p][q])
                BY LinkFacts DEF Base
            <4>2. NoLink.actor.role = "none"
                BY NoLinkSound DEF NoLink
            <4>3. link[p][q] = NoLink => link'[p][q] = NoLink
                BY <1>1, <4>1, <4>2, RenegotiateFacts
            <4>4. QED
                BY <1>1, <3>1, <3>2, <4>3 DEF LinkOK
        <3>3. CASE r # p
            BY <1>1, <3>1, <3>3 DEF OnlyLinksOf
        <3>4. QED
            BY <3>2, <3>3
    <2>2. QED
        BY <1>1, <2>1 DEF Links
<1>5. QED
    BY <1>1, <1>2, <1>3, <1>4 DEF Base

LEMMA BaseInit == Init => Base
<1> SUFFICES ASSUME Init PROVE Base
    OBVIOUS
<1>1. /\ call = [p \in Parts |-> None] /\ issued = 0 /\ self = [p \in Parts |-> None]
      /\ link = [p \in Parts |-> [q \in PeerIds |-> NoLink]]
      /\ tracks = [p \in Parts |-> 0] /\ inbox = [p \in Parts |-> <<>>] /\ turn = None
    BY DEF Init
<1>2. /\ NoLink \in Link /\ Sound(NoLink) /\ NoLink.num = 0 /\ NoLink.neg = 0
      /\ NoLink.actor.role = "none"
    BY NoLinkSound DEF NoLink
<1>3. 0 <= MaxActors /\ 0 \in 0..MaxTracks /\ 0 \in 0..MaxPeers
    BY NegotiationAssumption
<1>4. \A p \in Parts, q \in PeerIds : link[p][q] = NoLink
    BY <1>1
<1>5. link \in [Parts -> [PeerIds -> Link]]
    BY <1>1, <1>2
<1>6. inbox \in [Parts -> Seq(Msg)]
    BY <1>1, Empty
<1>7. call \in [Parts -> PeerIds \cup {None}] /\ self \in [Parts -> PeerIds \cup {None}]
    BY <1>1
<1>8. tracks \in [Parts -> 0..MaxTracks]
    BY <1>1, <1>3
<1>9. Shape
    BY <1>1, <1>2, <1>3, <1>4, <1>5, <1>6, <1>7, <1>8 DEF Shape
<1>10. Ids
    BY <1>1 DEF Ids
<1>11. Links
    BY <1>2, <1>4 DEF Links, LinkOK
<1>12. Boxes
    <2>1. ASSUME NEW p \in Parts PROVE BoxOK(inbox[p], issued, call[p], self[p], call[Other(p)])
        <3>1. inbox[p] = <<>> /\ call[p] = None
            BY <1>1
        <3>2. \A x \in 1..Len(inbox[p]) : FALSE
            BY <3>1, Empty
        <3>3. QED
            BY <3>1, <3>2 DEF BoxOK
    <2>2. QED
        BY <2>1 DEF Boxes
<1>13. QED
    BY <1>9, <1>10, <1>11, <1>12 DEF Base

-----------------------------------------------------------------------------
(***************************************************************************)
(* Nobody's candidates are on their way to who is out of the call, nor     *)
(* wait there: Leave waits for them.                                       *)
(***************************************************************************)
NoIce(Q)   == \A x \in 1..Len(Q) : Q[x].t # "rtc.ice_event"
NoneHeld(p) == \A q \in PeerIds : link[p][q].pending = <<>>
Unreached  == \A p \in Parts : call[p] = None => NoIce(inbox[p]) /\ NoneHeld(p)

LEMMA NoIceShorter ==
    ASSUME NEW Q \in Seq(Msg), Q # <<>>, NoIce(Q)
    PROVE  NoIce(Tail(Q)) /\ Head(Q).t # "rtc.ice_event"
<1> DEFINE T == Tail(Q)
<1>1. /\ Len(Q) \in Nat /\ Len(Q) >= 1 /\ Head(Q) = Q[1] /\ Len(T) = Len(Q) - 1
      /\ \A x \in 1..Len(T) : x + 1 \in 2..Len(Q) /\ T[x] = Q[x + 1]
    BY Shortened
<1> HIDE DEF T
<1>2. 1 \in 1..Len(Q) /\ \A x \in 1..Len(T) : x + 1 \in 1..Len(Q)
    BY <1>1
<1>3. NoIce(T)
    BY <1>1, <1>2 DEF NoIce
<1>4. Q[1].t # "rtc.ice_event"
    BY <1>2 DEF NoIce
<1>5. QED
    BY <1>1, <1>3, <1>4 DEF T

\* A step that changes links of p alone, and none that is out of reach.
LEMMA UnreachedKept ==
    ASSUME Shape, Unreached, UNCHANGED call, NEW p \in Parts,
           \A r \in Parts, q \in PeerIds : r # p => link'[r][q] = link[r][q],
           call[p] = None => NoneHeld(p)',
           \A r \in Parts : call[r] = None =>
              inbox'[r] = inbox[r] \/ (inbox[r] # <<>> /\ inbox'[r] = Tail(inbox[r]))
    PROVE  Unreached'
<1> SUFFICES ASSUME NEW r \in Parts, call[r] = None PROVE NoIce(inbox'[r]) /\ NoneHeld(r)'
    BY DEF Unreached
<1>1. NoIce(inbox[r]) /\ NoneHeld(r) /\ inbox[r] \in Seq(Msg)
    BY DEF Unreached, Shape
<1>2. NoIce(inbox'[r])
    BY <1>1, NoIceShorter
<1>3. CASE r = p
    BY <1>2, <1>3
<1>4. CASE r # p
    BY <1>1, <1>2, <1>4 DEF NoneHeld
<1>5. QED
    BY <1>3, <1>4

LEMMA UnreachedSame ==
    ASSUME Shape, Unreached, UNCHANGED call, NEW p \in Parts, NEW q \in PeerIds, OnlyLink(p, q),
           link[p][q].pending = <<>> => link'[p][q].pending = <<>>,
           \A r \in Parts : call[r] = None => inbox'[r] = inbox[r]
    PROVE  Unreached'
<1>1. \A r \in Parts, s \in PeerIds : r # p => link'[r][s] = link[r][s]
    BY DEF OnlyLink
<1>2. ASSUME call[p] = None PROVE NoneHeld(p)'
    BY <1>2 DEF Unreached, NoneHeld, OnlyLink
<1>3. QED
    BY <1>1, <1>2, UnreachedKept

LEMMA UnreachedHandled ==
    ASSUME Shape, Unreached, UNCHANGED call, NEW p \in Parts, NEW q \in PeerIds, OnlyLink(p, q),
           call[p] = None /\ link[p][q].pending = <<>> => link'[p][q].pending = <<>>,
           Popped(p)
    PROVE  Unreached'
<1>1. \A r \in Parts, s \in PeerIds : r # p => link'[r][s] = link[r][s]
    BY DEF OnlyLink
<1>2. ASSUME call[p] = None PROVE NoneHeld(p)'
    BY <1>2 DEF Unreached, NoneHeld, OnlyLink
<1>3. \A r \in Parts : inbox'[r] = inbox[r] \/ (inbox[r] # <<>> /\ inbox'[r] = Tail(inbox[r]))
    BY Two DEF Popped
<1>4. QED
    BY <1>1, <1>2, <1>3, UnreachedKept

\* An answer, given or not, leaves no candidate that did not wait before.
LEMMA NoneHeldAnswering ==
    ASSUME NEW l \in Link, Sound(l), l.offers # <<>>, l.pending = <<>>, NEW k,
           ~Answerable(l) => k = Rest(l),
           Answerable(l) /\ Refused(Told(l)) => k = AfterRefusal(l),
           Answerable(l) /\ ~Refused(Told(l)) => k = AfterAnswer(l)
    PROVE  k.pending = <<>>
<1>1. CASE ~Answerable(l)
    BY <1>1, RestFacts
<1>2. CASE Answerable(l) /\ Refused(Told(l))
    BY <1>2, AfterRefusalFacts DEF Answerable
<1>3. CASE Answerable(l) /\ ~Refused(Told(l))
    BY <1>3, AfterAnswerFacts DEF Answerable
<1>4. QED
    BY <1>1, <1>2, <1>3

LEMMA UnreachedNegotiates ==
    ASSUME Base, Unreached, NEW p \in Parts, NEW q \in PeerIds,
           \/ AttachLocalTracks(p, q) \/ MakeOffer(p, q) \/ AbandonOffer(p, q) \/ SkipOffer(p, q)
           \/ MakeAnswer(p, q) \/ ApplyAnswer(p, q)
    PROVE  Unreached'
<1> DEFINE l == link[p][q]
<1>1. l \in Link /\ Sound(l) /\ Shape
    BY LinkFacts DEF Base
<1>2. ASSUME SameBoxes \/ (Routed(p, q) /\ inbox'[p] = inbox[p])
      PROVE  \A r \in Parts : call[r] = None => inbox'[r] = inbox[r]
    <2>1. Routed(p, q) => call[Other(p)] # None
        BY Numbers DEF Routed
    <2>2. QED
        BY <1>2, <2>1, Two DEF SameBoxes
<1>3. CASE AttachLocalTracks(p, q)
    <2>1. /\ UNCHANGED <<call, inbox>> /\ OnlyLink(p, q) /\ l.neg # 0
          /\ link'[p][q] = [l EXCEPT !.attached = tracks[p]]
        BY <1>1, <1>3, AttachStep
    <2>2. tracks[p] \in 0..MaxTracks
        BY <1>1 DEF Shape
    <2>3. link'[p][q].pending = l.pending
        BY <1>1, <2>1, <2>2, Attached
    <2>4. QED
        BY <1>1, <2>1, <2>3, UnreachedSame
<1>4. CASE MakeOffer(p, q)
    <2>1. /\ UNCHANGED call /\ OnlyLink(p, q) /\ l.neg # 0 /\ l.actor.role = "offerer"
          /\ link'[p][q] = AfterOffer(l)
          /\ inbox'[p] = inbox[p] /\ (~Routed(p, q) => SameBoxes)
        BY <1>1, <1>4, MakeOfferStep
    <2>2. link'[p][q].pending = l.pending
        BY <1>1, <2>1, AfterOfferFacts
    <2>3. QED
        BY <1>1, <1>2, <2>1, <2>2, UnreachedSame
<1>5. CASE AbandonOffer(p, q)
    <2>1. /\ UNCHANGED <<call, inbox>> /\ OnlyLink(p, q) /\ l.neg # 0
          /\ link'[p][q] = FinishNegotiation(l)
        BY <1>1, <1>5, AbandonStep
    <2>2. link'[p][q].pending = l.pending
        BY <1>1, <2>1, Finished
    <2>3. QED
        BY <1>1, <2>1, <2>2, UnreachedSame
<1>6. CASE SkipOffer(p, q)
    <2>1. /\ UNCHANGED <<call, inbox>> /\ OnlyLink(p, q) /\ l.neg # 0 /\ l.actor.role = "offerer"
          /\ link'[p][q] = AfterSkip(l)
        BY <1>1, <1>6, SkipStep
    <2>2. link'[p][q].pending = l.pending
        BY <1>1, <2>1, AfterSkipFacts
    <2>3. QED
        BY <1>1, <2>1, <2>2, UnreachedSame
<1>7. CASE MakeAnswer(p, q)
    <2>1. /\ UNCHANGED call /\ OnlyLink(p, q) /\ l.offers # <<>>
          /\ inbox'[p] = inbox[p] /\ (~Routed(p, q) => SameBoxes)
          /\ ~Answerable(l) => link'[p][q] = Rest(l)
          /\ Answerable(l) /\ Refused(Told(l)) => link'[p][q] = AfterRefusal(l)
          /\ Answerable(l) /\ ~Refused(Told(l)) => link'[p][q] = AfterAnswer(l)
        BY <1>1, <1>7, MakeAnswerStep
    <2>2. l.pending = <<>> => link'[p][q].pending = <<>>
        BY <1>1, <2>1, NoneHeldAnswering
    <2>3. QED
        BY <1>1, <1>2, <2>1, <2>2, UnreachedSame
<1>8. CASE ApplyAnswer(p, q)
    <2>1. UNCHANGED <<call, inbox>> /\ OnlyLink(p, q) /\ link'[p][q] = AnswerTaken(l)
        BY <1>1, <1>8, ApplyAnswerStep
    <2>2. l.pending = <<>> => link'[p][q].pending = <<>>
        BY <1>1, <2>1, AnswerTakenFacts
    <2>3. QED
        BY <1>1, <2>1, <2>2, UnreachedSame
<1>9. QED
    BY <1>3, <1>4, <1>5, <1>6, <1>7, <1>8

LEMMA UnreachedHears ==
    ASSUME Base, Unreached, NEW p \in Parts,
           \/ HandleParticipants(p) \/ HandlePeerEvent(p)
           \/ HandleOffer(p) \/ HandleAnswer(p) \/ HandleIce(p)
    PROVE  Unreached'
<1>1. PICK m : m = Head(inbox[p])
    OBVIOUS
<1>2. Shape
    BY DEF Base
<1>3. ASSUME NEW q \in PeerIds PROVE link[p][q] \in Link /\ Sound(link[p][q])
    BY <1>2, LinkFacts
<1>4. CASE HandleParticipants(p)
    <2>1. /\ UNCHANGED call /\ OnlyLinksOf(p) /\ Popped(p)
          /\ m.t = "rtc.participants" /\ m.self \in PeerIds
        BY <1>1, <1>2, <1>4, HandleParticipantsStep
    <2>2. BoxOK(inbox[p], issued, call[p], self[p], call[Other(p)]) /\ IsRoster(m)
        BY <2>1 DEF Base, Boxes, IsRoster
    <2>3. inbox[p] \in Seq(Msg) /\ inbox[p] # <<>>
        BY <1>2, <2>1 DEF Shape, Popped
    <2>4. call[p] = m.self
        BY <1>1, <2>2, <2>3, BoxShorter
    <2>5. call[p] # None
        BY <2>1, <2>4, Numbers
    <2>6. \A r \in Parts : inbox'[r] = inbox[r] \/ (inbox[r] # <<>> /\ inbox'[r] = Tail(inbox[r]))
        BY <2>1, Two DEF Popped
    <2>7. \A r \in Parts, q \in PeerIds : r # p => link'[r][q] = link[r][q]
        BY <2>1 DEF OnlyLinksOf
    <2>8. QED
        BY <1>2, <2>1, <2>5, <2>6, <2>7, UnreachedKept
<1>5. CASE HandlePeerEvent(p)
    <2>1. /\ UNCHANGED call /\ OnlyLink(p, m.peer) /\ Popped(p)
          /\ m.peer \in PeerIds /\ m.kind \in {"join", "leave"}
          /\ m.kind = "join" => link'[p][m.peer] = CreatePeerActor(link[p][m.peer], "answerer")
          /\ m.kind = "leave" => link'[p][m.peer] = ClosePeer(link[p][m.peer])
        BY <1>1, <1>2, <1>5, HandlePeerEventStep
    <2>2. link'[p][m.peer].pending = link[p][m.peer].pending
        <3>1. link[p][m.peer] \in Link /\ Sound(link[p][m.peer])
            BY <1>3, <2>1
        <3>2. CASE m.kind = "join"
            BY <2>1, <3>1, <3>2, Created
        <3>3. CASE m.kind = "leave"
            BY <2>1, <3>1, <3>3, Closed
        <3>4. QED
            BY <2>1, <3>2, <3>3
    <2>3. QED
        BY <1>2, <2>1, <2>2, UnreachedHandled
<1>6. CASE HandleOffer(p)
    <2> DEFINE c == CreatePeerActor(link[p][m.from], "answerer")
    <2>1. /\ UNCHANGED call /\ OnlyLink(p, m.from) /\ Popped(p)
          /\ m \in Description /\ m.from \in PeerIds
          /\ link'[p][m.from] = WithOffer(c, m)
        BY <1>1, <1>2, <1>6, HandleOfferStep
    <2>2. c \in Link /\ Sound(c) /\ c.pending = link[p][m.from].pending
        BY <1>3, <2>1, Created
    <2> HIDE DEF c
    <2>3. link'[p][m.from].pending = link[p][m.from].pending
        BY <2>1, <2>2, WithOfferFacts
    <2>4. QED
        BY <1>2, <2>1, <2>3, UnreachedHandled
<1>7. CASE HandleAnswer(p)
    <2> DEFINE l == link[p][m.from]
    <2>1. /\ UNCHANGED call /\ OnlyLink(p, m.from) /\ Popped(p)
          /\ m.from \in PeerIds /\ SaidIn(m) \in Said
          /\ link'[p][m.from] = IF TakesAnswer(l) THEN AnswerHeld(l, SaidIn(m)) ELSE l
        BY <1>1, <1>2, <1>7, HandleAnswerStep
    <2>2. link'[p][m.from].pending = l.pending
        BY <1>3, <2>1, AnswerHeldFacts DEF TakesAnswer
    <2>3. QED
        BY <1>2, <2>1, <2>2, UnreachedHandled
<1>8. CASE HandleIce(p)
    <2>1. /\ UNCHANGED call /\ OnlyLink(p, m.from) /\ Popped(p)
          /\ m.t = "rtc.ice_event" /\ m.from \in PeerIds
        BY <1>1, <1>2, <1>8, HandleIceStep
    <2>2. inbox[p] \in Seq(Msg) /\ inbox[p] # <<>>
        BY <1>2, <2>1 DEF Shape, Popped
    <2>3. call[p] # None
        BY <1>1, <2>1, <2>2, NoIceShorter DEF Unreached
    <2>4. QED
        BY <1>2, <2>1, <2>3, UnreachedHandled
<1>9. QED
    BY <1>4, <1>5, <1>6, <1>7, <1>8

LEMMA UnreachedUsers ==
    ASSUME Base, Unreached, ~Hasty, NEW p \in Parts, Join(p) \/ Leave(p) \/ ChangeTracks(p)
    PROVE  Unreached'
<1> DEFINE o == Other(p)
<1>1. Shape /\ o \in Parts /\ o # p /\ \A r \in Parts : r = p \/ r = o
    BY Two DEF Base
<1>2. call[o] = None => NoIce(inbox[o]) /\ NoneHeld(o)
    BY <1>1 DEF Unreached
<1> HIDE DEF o
<1>3. CASE Join(p)
    <2>1. /\ UNCHANGED link /\ issued + 1 \in PeerIds
          /\ call'[p] = issued + 1 /\ call'[o] = call[o]
          /\ call[o] = None => inbox'[o] = inbox[o]
        BY <1>1, <1>3, JoinStep DEF o
    <2>2. call'[p] # None
        BY <2>1, Numbers
    <2>3. call'[o] = None => NoIce(inbox'[o]) /\ NoneHeld(o)'
        BY <1>2, <2>1 DEF NoneHeld
    <2>4. QED
        BY <1>1, <2>2, <2>3 DEF Unreached
<1>4. CASE Leave(p)
    <2>1. /\ OnlyLinksOf(p) /\ call'[o] = call[o]
          /\ \A q \in PeerIds : link'[p][q].pending = <<>>
          /\ NoIce(inbox[p]) /\ inbox'[p] = inbox[p]
          /\ call[o] = None => inbox'[o] = inbox[o]
        BY <1>1, <1>4, LeaveStep DEF o, NoIce
    <2>2. NoIce(inbox'[p]) /\ NoneHeld(p)'
        BY <2>1 DEF NoneHeld
    <2>3. call'[o] = None => NoIce(inbox'[o]) /\ NoneHeld(o)'
        BY <1>1, <1>2, <2>1 DEF NoneHeld, OnlyLinksOf
    <2>4. QED
        BY <1>1, <2>2, <2>3 DEF Unreached
<1>5. CASE ChangeTracks(p)
    <2>1. UNCHANGED <<call, inbox>> /\ OnlyLinksOf(p) /\ self[p] # None
        BY <1>1, <1>5, ChangeTracksStep
    <2>2. call[p] # None
        BY <2>1 DEF Base, Ids
    <2>3. \A r \in Parts, q \in PeerIds : r # p => link'[r][q] = link[r][q]
        BY <2>1 DEF OnlyLinksOf
    <2>4. QED
        BY <1>1, <2>1, <2>2, <2>3, UnreachedKept
<1>6. QED
    BY <1>3, <1>4, <1>5

LEMMA UnreachedInit == Init => Unreached
<1> SUFFICES ASSUME Init, NEW p \in Parts PROVE NoIce(inbox[p]) /\ NoneHeld(p)
    BY DEF Unreached
<1>1. inbox[p] = <<>> /\ \A q \in PeerIds : link[p][q] = NoLink
    BY DEF Init
<1>2. NoLink.pending = <<>>
    BY DEF NoLink
<1>3. QED
    BY <1>1, <1>2, Empty DEF NoIce, NoneHeld
-----------------------------------------------------------------------------
(***************************************************************************)
(* The second half: the pair.  The last turn was that of t, who is known   *)
(* as i, while the other is j.  L is t's link to j and In his queue, R and *)
(* Far are the other's; mine and theirs are their tracks.  PL and PR name  *)
(* the two connections, as t and the other sign for them.                  *)
(***************************************************************************)
Waiting(L)          == L.actor.sig = "have-local-offer"
Some(Q, t, q)       == \E x \in 1..Len(Q) : Is(Q[x], t, q)
One(Q, t, q)        == \A x, y \in 1..Len(Q) : Is(Q[x], t, q) /\ Is(Q[y], t, q) => x = y
Answering(L)        == L.actor.answer # NoAnswer
IceComes(Q, q, pc)  == \E x \in 1..Len(Q) : Is(Q[x], "rtc.ice_event", q) /\ Q[x].pc = pc

\* The candidates of connection pc have been added, wait or travel.
CandsComing(l, pc, Q, q) ==
    \/ pc \in l.actor.cands
    \/ l.actor.remote = NoPc /\ Early(l, pc)
    \/ IceComes(Q, q, pc)

Bound(R, PL) == R.actor.role = "answerer" /\ R.actor.remote = PL
Unbound(R)   == R.actor.role = "offerer" \/ R.actor.remote = NoPc

\* The other does not offer, and will not, and no refused candidate keeps him from an
\* answer: news that i is there finds no offerer, and his own roster, if it is still
\* under way, came before i.
Passive(R, Far, i) ==
    /\ R.neg = 0 /\ ~Answering(R) /\ R.actor.sig # "have-remote-offer"
    /\ \A x \in 1..Len(Far) : Far[x].t = "rtc.peer_event" /\ Far[x].peer = i =>
          R.actor.role # "offerer"
    /\ \A x \in 1..Len(Far) : ~Is(Far[x], "rtc.answer_event", i)
    /\ \A x \in 1..Len(Far) : IsRoster(Far[x]) => i \notin Far[x].others
    /\ \A x, y \in 1..Len(Far) : IsRoster(Far[x]) /\ About(Far[y], i) => x < y

\* Before t has heard his roster, the last message to him, nothing is exchanged.
Coming(L, R, In, Far, i, j) ==
    /\ L.pending = <<>> /\ \A x \in 1..Len(In) : ~Is(In[x], "rtc.ice_event", j)
    /\ R.pending = <<>> /\ R.offers = <<>> /\ R.actor.role # "offerer" /\ R.actor.remote = NoPc
    /\ \A x \in 1..Len(Far) : ~(Far[x].t \in Signals /\ Far[x].from = i)
    /\ Len(In) > 0 /\ IsRoster(In[Len(In)]) /\ In[Len(In)].self = i /\ In[Len(In)].others = {j}

\* Afterwards t offers,
Caller(L, In, j) ==
    /\ L.actor.role = "offerer" /\ L.num # 0 /\ L.neg \in {0, L.num}
    /\ \A x \in 1..Len(In) : Is(In[x], "rtc.answer_event", j) \/ Is(In[x], "rtc.ice_event", j)
\* one description is under way while he waits for an answer, and none otherwise,
OneAtATime(L, R, In, Far, i, j) ==
    /\ One(Far, "rtc.offer_event", i) /\ One(In, "rtc.answer_event", j)
    /\ R.offers = <<>> \/ Len(R.offers) = 1
    /\ Waiting(L) <=> \/ Some(Far, "rtc.offer_event", i) \/ R.offers # <<>>
                      \/ Some(In, "rtc.answer_event", j) \/ Answering(L)
    /\ ~(Some(Far, "rtc.offer_event", i) /\ R.offers # <<>>)
    /\ ~(Some(Far, "rtc.offer_event", i) /\ Some(In, "rtc.answer_event", j))
    /\ ~(R.offers # <<>> /\ Some(In, "rtc.answer_event", j))
    /\ Answering(L) => /\ ~Some(Far, "rtc.offer_event", i) /\ R.offers = <<>>
                       /\ ~Some(In, "rtc.answer_event", j)
    /\ L.neg # 0 /\ L.attached # None => ~Waiting(L)
    /\ L.neg = 0 /\ L.actor.remote = NoPc => Waiting(L)
\* an offer names his connection and his tracks, and the first is followed by candidates,
OfferSays(L, R, Far, i, PL, mine) ==
    \A x \in 1..Len(Far) : Is(Far[x], "rtc.offer_event", i) =>
       /\ Far[x].pc = PL
       /\ L.neg = 0 /\ ~L.skipped => Far[x].tracks = mine
       /\ L.actor.remote = NoPc =>
             /\ Unbound(R)
             /\ \E y \in x..Len(Far) : Is(Far[y], "rtc.ice_event", i) /\ Far[y].pc = PL
TakenSays(L, R, Far, i, PL, mine) ==
    R.offers # <<>> =>
       /\ R.actor.role = "answerer"
       /\ R.offers[1].num = R.num /\ R.offers[1].pc = PL
       /\ L.neg = 0 /\ ~L.skipped => R.offers[1].tracks = mine
       /\ L.actor.remote = NoPc => R.actor.remote = NoPc
       /\ CandsComing(R, PL, Far, i)
\* an answer comes from a connection that is bound to his,
AnswerSays(L, R, In, j, PL, PR, theirs) ==
    /\ \A x \in 1..Len(In) : Is(In[x], "rtc.answer_event", j) =>
          In[x].pc = PR /\ In[x].tracks = theirs
    /\ Answering(L) => L.actor.answer = [pc |-> PR, tracks |-> theirs]
    /\ Some(In, "rtc.answer_event", j) \/ Answering(L) =>
          Bound(R, PL) /\ CandsComing(L, PR, In, j)
\* what he has been told still holds,
Agreed(L, R, In, Far, i, j, PL, PR, theirs) ==
    /\ ~Waiting(L) /\ L.actor.remote = NoPc => Unbound(R)
    /\ L.actor.remote # NoPc =>
          /\ Bound(R, PL) /\ L.actor.remote = PR /\ L.actor.got = theirs
          /\ CandsComing(L, PR, In, j)
    /\ Bound(R, PL) => CandsComing(R, PL, Far, i)
\* no candidate waits or travels that the connection it is for would refuse,
Orderly(L, R, In, Far, i, j, PL, PR) ==
    /\ \A x \in 1..Len(In) : Is(In[x], "rtc.ice_event", j) => Bound(R, PL) /\ In[x].pc = PR
    /\ \A x \in 1..Len(Far) : Is(Far[x], "rtc.ice_event", i) => Far[x].pc = PL
    /\ Only(L, PR) /\ (L.pending # <<>> => Bound(R, PL) /\ L.actor.remote = NoPc)
    /\ Only(R, PL) /\ (R.pending # <<>> => R.actor.remote = NoPc)
\* and the other has his tracks, or will be told of them.
TracksSaid(L, R, Far, i, mine) ==
    /\ L.neg # 0 /\ L.attached # None /\ ~L.queued => L.attached = mine
    /\ L.neg = 0 /\ ~L.skipped /\ ~Some(Far, "rtc.offer_event", i) /\ R.offers = <<>> =>
          R.actor.got = mine

Offering(L, R, In, Far, i, j, mine, theirs) ==
    LET PL == <<j, L.num>>
        PR == <<i, R.num>>
    IN  /\ Caller(L, In, j)
        /\ OneAtATime(L, R, In, Far, i, j)
        /\ OfferSays(L, R, Far, i, PL, mine)
        /\ TakenSays(L, R, Far, i, PL, mine)
        /\ AnswerSays(L, R, In, j, PL, PR, theirs)
        /\ Agreed(L, R, In, Far, i, j, PL, PR, theirs)
        /\ Orderly(L, R, In, Far, i, j, PL, PR)
        /\ TracksSaid(L, R, Far, i, mine)

\* s and so are what the two are to themselves.
PairOK(L, R, In, Far, i, j, mine, theirs, s, so) ==
    /\ Passive(R, Far, i)
    /\ R.offers # <<>> => so # None
    /\ s = None => Coming(L, R, In, Far, i, j)
    /\ s # None => Offering(L, R, In, Far, i, j, mine, theirs)

PairAt(t, o) == PairOK(link[t][call[o]], link[o][call[t]], inbox[t], inbox[o], call[t], call[o],
                       tracks[t], tracks[o], self[t], self[o])

Pair == BothInCall => PairAt(turn, Other(turn))

NegotiationInv == Base /\ Unreached /\ Pair

-----------------------------------------------------------------------------
\* Queues that get shorter and longer.
LEMMA SomeShorter ==
    ASSUME NEW Q \in Seq(Msg), Q # <<>>, NEW t, NEW q
    PROVE  /\ Some(Q, t, q) <=> Is(Head(Q), t, q) \/ Some(Tail(Q), t, q)
           /\ One(Q, t, q) => One(Tail(Q), t, q) /\ ~(Is(Head(Q), t, q) /\ Some(Tail(Q), t, q))
<1> DEFINE T == Tail(Q)
<1>1. /\ Len(Q) \in Nat /\ Len(Q) >= 1 /\ Head(Q) = Q[1]
      /\ Len(T) = Len(Q) - 1
      /\ \A x \in 1..Len(T) : x + 1 \in 2..Len(Q) /\ T[x] = Q[x + 1]
      /\ \A x \in 2..Len(Q) : x - 1 \in 1..Len(T) /\ T[x - 1] = Q[x]
    BY Shortened
<1> HIDE DEF T
<1>2. 1 \in 1..Len(Q) /\ \A x \in 1..Len(Q) : x = 1 \/ x \in 2..Len(Q)
    BY <1>1
<1>3. \A x \in 1..Len(T) : x + 1 \in 1..Len(Q) /\ x + 1 # 1 /\ \A y \in 1..Len(T) : x + 1 = y + 1 => x = y
    BY <1>1
<1>4. Some(Q, t, q) <=> Is(Q[1], t, q) \/ Some(T, t, q)
    BY <1>1, <1>2, <1>3 DEF Some
<1>5. ASSUME One(Q, t, q) PROVE One(T, t, q) /\ ~(Is(Q[1], t, q) /\ Some(T, t, q))
    <2>1. ASSUME NEW x \in 1..Len(T), NEW y \in 1..Len(T), Is(T[x], t, q), Is(T[y], t, q) PROVE x = y
        <3>1. Is(Q[x + 1], t, q) /\ Is(Q[y + 1], t, q)
            BY <1>1, <2>1
        <3>2. x + 1 = y + 1
            BY <1>3, <1>5, <3>1 DEF One
        <3>3. QED
            BY <1>3, <3>2
    <2>2. ASSUME NEW x \in 1..Len(T), Is(T[x], t, q) PROVE ~Is(Q[1], t, q)
        <3>1. Is(Q[x + 1], t, q)
            BY <1>1, <2>2
        <3>2. QED
            BY <1>2, <1>3, <1>5, <3>1 DEF One
    <2>3. QED
        BY <2>1, <2>2 DEF One, Some
<1>6. QED
    BY <1>1, <1>4, <1>5 DEF T

LEMMA IceShorter ==
    ASSUME NEW Q \in Seq(Msg), Q # <<>>, NEW q, NEW pc
    PROVE  IceComes(Q, q, pc) <=>
              (Is(Head(Q), "rtc.ice_event", q) /\ Head(Q).pc = pc) \/ IceComes(Tail(Q), q, pc)
<1> DEFINE T == Tail(Q)
<1>1. /\ Len(Q) \in Nat /\ Len(Q) >= 1 /\ Head(Q) = Q[1]
      /\ Len(T) = Len(Q) - 1
      /\ \A x \in 1..Len(T) : x + 1 \in 2..Len(Q) /\ T[x] = Q[x + 1]
      /\ \A x \in 2..Len(Q) : x - 1 \in 1..Len(T) /\ T[x - 1] = Q[x]
    BY Shortened
<1> HIDE DEF T
<1>2. 1 \in 1..Len(Q) /\ \A x \in 1..Len(Q) : x = 1 \/ x \in 2..Len(Q)
    BY <1>1
<1>3. \A x \in 1..Len(T) : x + 1 \in 1..Len(Q)
    BY <1>1
<1>4. IceComes(Q, q, pc) <=> (Is(Q[1], "rtc.ice_event", q) /\ Q[1].pc = pc) \/ IceComes(T, q, pc)
    BY <1>1, <1>2, <1>3 DEF IceComes
<1>5. QED
    BY <1>1, <1>4 DEF T

\* A description, and after the first of a connection its candidates.
LEMMA SentAfter ==
    ASSUME NEW Q \in Seq(Msg), NEW m \in Msg, NEW n \in Msg, NEW first \in BOOLEAN,
           NEW W, W = IF first THEN Append(Append(Q, m), n) ELSE Append(Q, m)
    PROVE  /\ Len(Q) \in Nat /\ Len(W) \in Nat
           /\ \A x \in 1..Len(Q) : x \in 1..Len(W) /\ W[x] = Q[x]
           /\ Len(Q) + 1 \in 1..Len(W) /\ W[Len(Q) + 1] = m
           /\ first => Len(Q) + 2 \in (Len(Q) + 1)..Len(W) /\ W[Len(Q) + 2] = n
           /\ \A x \in 1..Len(W) :
                 x \in 1..Len(Q) \/ x = Len(Q) + 1 \/ (x = Len(Q) + 2 /\ W[x] = n)
<1> DEFINE A == Append(Q, m)
           B == Append(A, n)
<1>1. /\ A \in Seq(Msg) /\ Len(Q) \in Nat /\ Len(A) = Len(Q) + 1 /\ A[Len(Q) + 1] = m
      /\ \A x \in 1..Len(Q) : A[x] = Q[x]
    BY Lengthened
<1>2. W = IF first THEN B ELSE A
    OBVIOUS
<1> HIDE DEF A
<1>3. /\ Len(B) = Len(A) + 1 /\ B[Len(A) + 1] = n
      /\ \A x \in 1..Len(A) : B[x] = A[x]
    BY <1>1, Lengthened
<1> HIDE DEF B
<1>4. CASE first
    <2>1. /\ Len(B) = Len(Q) + 2 /\ B[Len(Q) + 2] = n
          /\ Len(Q) + 1 \in 1..Len(A) /\ \A x \in 1..Len(Q) : x \in 1..Len(A)
        BY <1>1, <1>3
    <2>2. B[Len(Q) + 1] = m /\ \A x \in 1..Len(Q) : B[x] = Q[x]
        BY <1>1, <1>3, <2>1
    <2>3. W = B
        BY <1>2, <1>4
    <2>4. QED
        BY <1>1, <1>4, <2>1, <2>2, <2>3
<1>5. CASE ~first
    <2>1. W = A
        BY <1>2, <1>5
    <2>2. QED
        BY <1>1, <1>5, <2>1
<1>6. QED
    BY <1>4, <1>5

LEMMA SomeSent ==
    ASSUME NEW Q \in Seq(Msg), NEW m \in Msg, NEW n \in Msg, NEW first \in BOOLEAN,
           NEW W, W = IF first THEN Append(Append(Q, m), n) ELSE Append(Q, m),
           n.t = "rtc.ice_event", NEW t, t # "rtc.ice_event", NEW q
    PROVE  /\ Some(W, t, q) <=> Some(Q, t, q) \/ Is(m, t, q)
           /\ One(Q, t, q) /\ ~(Some(Q, t, q) /\ Is(m, t, q)) => One(W, t, q)
           /\ \A pc : IceComes(Q, q, pc) => IceComes(W, q, pc)
           /\ first => IceComes(W, n.from, n.pc)
<1>1. /\ Len(Q) \in Nat /\ Len(W) \in Nat
      /\ \A x \in 1..Len(Q) : x \in 1..Len(W) /\ W[x] = Q[x]
      /\ Len(Q) + 1 \in 1..Len(W) /\ W[Len(Q) + 1] = m
      /\ first => Len(Q) + 2 \in (Len(Q) + 1)..Len(W) /\ W[Len(Q) + 2] = n
      /\ \A x \in 1..Len(W) :
            x \in 1..Len(Q) \/ x = Len(Q) + 1 \/ (x = Len(Q) + 2 /\ W[x] = n)
    BY SentAfter
<1>2. ~Is(n, t, q)
    BY DEF Is
<1>3. Some(W, t, q) <=> Some(Q, t, q) \/ Is(m, t, q)
    BY <1>1, <1>2 DEF Some
<1>4. ASSUME One(Q, t, q), ~(Some(Q, t, q) /\ Is(m, t, q)) PROVE One(W, t, q)
    <2>1. ASSUME NEW x \in 1..Len(W), NEW y \in 1..Len(W), Is(W[x], t, q), Is(W[y], t, q) PROVE x = y
        <3>1. (x \in 1..Len(Q) \/ x = Len(Q) + 1) /\ (y \in 1..Len(Q) \/ y = Len(Q) + 1)
            BY <1>1, <1>2, <2>1
        <3>2. CASE x \in 1..Len(Q) /\ y \in 1..Len(Q)
            BY <1>1, <1>4, <2>1, <3>2 DEF One
        <3>3. CASE x = Len(Q) + 1 /\ y \in 1..Len(Q)
            BY <1>1, <1>4, <2>1, <3>3 DEF Some
        <3>4. CASE x \in 1..Len(Q) /\ y = Len(Q) + 1
            BY <1>1, <1>4, <2>1, <3>4 DEF Some
        <3>5. QED
            BY <3>1, <3>2, <3>3, <3>4
    <2>2. QED
        BY <2>1 DEF One
<1>5. \A pc : IceComes(Q, q, pc) => IceComes(W, q, pc)
    BY <1>1 DEF IceComes
<1>6. first => IceComes(W, n.from, n.pc)
    <2>1. Len(Q) + 2 \in (Len(Q) + 1)..Len(W) => Len(Q) + 2 \in 1..Len(W)
        BY <1>1
    <2>2. Is(n, "rtc.ice_event", n.from)
        BY DEF Is
    <2>3. QED
        BY <1>1, <2>1, <2>2 DEF IceComes
<1>7. QED
    BY <1>3, <1>4, <1>5, <1>6

\* What waits on a link.
LEMMA NoneWaits ==
    ASSUME NEW l, l.pending = <<>>, NEW pc
    PROVE  Only(l, pc) /\ ~Early(l, pc)
<1>1. \A x \in 1..Len(<<>>) : FALSE
    BY Empty
<1>2. QED
    BY <1>1 DEF Only, Early, Waits

LEMMA SameWait ==
    ASSUME NEW l, NEW m, m.pending = l.pending, NEW pc
    PROVE  (Only(m, pc) <=> Only(l, pc)) /\ (Early(m, pc) <=> Early(l, pc))
BY DEF Only, Early, Waits

LEMMA OneMoreWaits ==
    ASSUME NEW l \in Link, NEW pc \in Pc, NEW m, m.pending = Append(l.pending, pc), NEW x
    PROVE  /\ Only(l, pc) => Only(m, pc)
           /\ Early(m, pc) /\ (Early(l, x) => Early(m, x))
<1>1. l.pending \in Seq(Pc)
    BY DEF Link
<1>2. /\ Len(l.pending) \in Nat /\ Len(m.pending) = Len(l.pending) + 1
      /\ m.pending[Len(l.pending) + 1] = pc
      /\ \A y \in 1..Len(l.pending) : m.pending[y] = l.pending[y]
    BY <1>1
<1>3. /\ \A y \in 1..Len(m.pending) : y \in 1..Len(l.pending) \/ y = Len(l.pending) + 1
      /\ \A y \in 1..Len(l.pending) : y \in 1..Len(m.pending)
      /\ Len(l.pending) + 1 \in 1..Len(m.pending)
    BY <1>2
<1>4. QED
    BY <1>2, <1>3 DEF Only, Early, Waits

LEMMA SameCands ==
    ASSUME NEW l, NEW m, m.pending = l.pending, m.actor.remote = l.actor.remote,
           l.actor.cands \subseteq m.actor.cands,
           NEW Q, NEW W, NEW q, NEW pc, IceComes(Q, q, pc) => IceComes(W, q, pc)
    PROVE  CandsComing(l, pc, Q, q) => CandsComing(m, pc, W, q)
<1>1. Early(m, pc) <=> Early(l, pc)
    BY SameWait
<1>2. QED
    BY <1>1 DEF CandsComing

\* Links and queues change, but what waits stays or goes, and no candidates come
\* but from connections that are told of.
Held(l, k)     == \/ k.pending = <<>>
                  \/ k.pending = l.pending /\ (l.actor.remote = NoPc => k.actor.remote = NoPc)
Within(Q, In)  == \A x \in 1..Len(Q) : \E y \in 1..Len(In) : Q[x] = In[y]

LEMMA TailWithin == ASSUME NEW Q \in Seq(Msg), Q # <<>> PROVE Within(Tail(Q), Q)
<1>1. /\ Len(Q) \in Nat /\ Len(Tail(Q)) = Len(Q) - 1
      /\ \A x \in 1..Len(Tail(Q)) : x + 1 \in 2..Len(Q) /\ Tail(Q)[x] = Q[x + 1]
    BY Shortened
<1>2. \A x \in 1..Len(Tail(Q)) : x + 1 \in 1..Len(Q)
    BY <1>1
<1>3. QED
    BY <1>1, <1>2 DEF Within

LEMMA OrderlyKept ==
    ASSUME NEW L, NEW K, NEW R, NEW M, NEW In, NEW Q, NEW Far, NEW W, NEW i, NEW j,
           NEW PL, NEW PR, NEW PM,
           Orderly(L, R, In, Far, i, j, PL, PR),
           Held(L, K), Held(R, M), Within(Q, In), Within(W, Far),
           Bound(R, PL) => Bound(M, PL) /\ PM = PR
    PROVE  Orderly(K, M, Q, W, i, j, PL, PM)
<1>1. \A x \in 1..Len(Q) : Is(Q[x], "rtc.ice_event", j) => Bound(M, PL) /\ Q[x].pc = PM
    BY DEF Orderly, Within
<1>2. \A x \in 1..Len(W) : Is(W[x], "rtc.ice_event", i) => W[x].pc = PL
    BY DEF Orderly, Within
<1>3. Only(K, PM) /\ (K.pending # <<>> => Bound(M, PL) /\ K.actor.remote = NoPc)
    <2>1. CASE K.pending = <<>>
        BY <2>1, NoneWaits
    <2>2. CASE K.pending # <<>>
        <3>1. K.pending = L.pending /\ K.actor.remote = NoPc /\ Bound(R, PL) /\ Only(L, PR)
            BY <2>2 DEF Held, Orderly
        <3>2. Only(K, PR)
            BY <3>1, SameWait
        <3>3. QED
            BY <3>1, <3>2
    <2>3. QED
        BY <2>1, <2>2
<1>4. Only(M, PL) /\ (M.pending # <<>> => M.actor.remote = NoPc)
    <2>1. CASE M.pending = <<>>
        BY <2>1, NoneWaits
    <2>2. CASE M.pending # <<>>
        <3>1. M.pending = R.pending /\ M.actor.remote = NoPc /\ Only(R, PL)
            BY <2>2 DEF Held, Orderly
        <3>2. QED
            BY <3>1, SameWait
    <2>3. QED
        BY <2>1, <2>2
<1>5. QED
    BY <1>1, <1>2, <1>3, <1>4 DEF Orderly

\* The other's links and queue.
LEMMA PassiveLink ==
    ASSUME NEW R, NEW R2, NEW Far, NEW i, Passive(R, Far, i),
           R2.neg = 0, R2.actor.role # "offerer" \/ R2.actor.role = R.actor.role,
           ~Answering(R2), R2.actor.sig # "have-remote-offer"
    PROVE  Passive(R2, Far, i)
BY DEF Passive

LEMMA PassiveShorter ==
    ASSUME NEW R, NEW Far \in Seq(Msg), Far # <<>>, NEW i, Passive(R, Far, i)
    PROVE  /\ Passive(R, Tail(Far), i)
           /\ ~Is(Head(Far), "rtc.answer_event", i)
           /\ Head(Far).t = "rtc.peer_event" /\ Head(Far).peer = i => R.actor.role # "offerer"
           /\ IsRoster(Head(Far)) => i \notin Head(Far).others
           /\ About(Head(Far), i) => \A x \in 1..Len(Far) : ~IsRoster(Far[x])
<1> DEFINE T == Tail(Far)
<1>1. /\ Len(Far) \in Nat /\ Len(Far) >= 1 /\ Head(Far) = Far[1]
      /\ Len(T) = Len(Far) - 1
      /\ \A x \in 1..Len(T) : x + 1 \in 2..Len(Far) /\ T[x] = Far[x + 1]
    BY Shortened
<1> HIDE DEF T
<1>2. 1 \in 1..Len(Far) /\ \A x \in 1..Len(T) : x + 1 \in 1..Len(Far)
    BY <1>1
<1>3. \A x, y \in 1..Len(T) : x + 1 < y + 1 => x < y
    BY <1>1
<1>4. \A x \in 1..Len(Far) : ~(x < 1)
    BY <1>1
<1>5. Passive(R, T, i)
    <2>1. \A x, y \in 1..Len(T) : IsRoster(T[x]) /\ About(T[y], i) => x < y
        <3>1. ASSUME NEW x \in 1..Len(T), NEW y \in 1..Len(T), IsRoster(T[x]), About(T[y], i)
              PROVE  x < y
            <4>1. IsRoster(Far[x + 1]) /\ About(Far[y + 1], i)
                BY <1>1, <3>1
            <4>2. x + 1 < y + 1
                BY <1>2, <4>1 DEF Passive
            <4>3. QED
                BY <1>3, <4>2
        <3>2. QED
            BY <3>1
    <2>2. QED
        BY <1>1, <1>2, <2>1 DEF Passive
<1>6. /\ ~Is(Head(Far), "rtc.answer_event", i)
      /\ Head(Far).t = "rtc.peer_event" /\ Head(Far).peer = i => R.actor.role # "offerer"
      /\ IsRoster(Head(Far)) => i \notin Head(Far).others
    BY <1>1, <1>2 DEF Passive
<1>7. About(Head(Far), i) => \A x \in 1..Len(Far) : ~IsRoster(Far[x])
    BY <1>1, <1>2, <1>4 DEF Passive
<1>8. QED
    BY <1>5, <1>6, <1>7 DEF T

LEMMA PassiveSent ==
    ASSUME NEW R, NEW Far \in Seq(Msg), NEW i, Passive(R, Far, i),
           NEW m \in Msg, m.t = "rtc.offer_event", NEW n \in Msg, n.t = "rtc.ice_event",
           NEW first \in BOOLEAN,
           NEW W, W = IF first THEN Append(Append(Far, m), n) ELSE Append(Far, m)
    PROVE  Passive(R, W, i)
<1>1. /\ Len(Far) \in Nat /\ Len(W) \in Nat
      /\ \A x \in 1..Len(Far) : x \in 1..Len(W) /\ W[x] = Far[x]
      /\ W[Len(Far) + 1] = m
      /\ \A x \in 1..Len(W) :
            x \in 1..Len(Far) \/ x = Len(Far) + 1 \/ (x = Len(Far) + 2 /\ W[x] = n)
    BY SentAfter
<1>2. \A x \in 1..Len(W) :
         \/ x \in 1..Len(Far) /\ W[x] = Far[x]
         \/ W[x].t \in {"rtc.offer_event", "rtc.ice_event"}
    BY <1>1
<1>3. \A x \in 1..Len(Far), y \in 1..Len(W) : y \notin 1..Len(Far) => x < y
    BY <1>1
<1>4. \A x \in 1..Len(W) : W[x].t = "rtc.peer_event" /\ W[x].peer = i => R.actor.role # "offerer"
    BY <1>2 DEF Passive
<1>5. \A x \in 1..Len(W) : ~Is(W[x], "rtc.answer_event", i)
    BY <1>2 DEF Passive, Is
<1>6. \A x \in 1..Len(W) : IsRoster(W[x]) => x \in 1..Len(Far) /\ W[x] = Far[x]
    BY <1>2 DEF IsRoster
<1>7. \A x \in 1..Len(W) : IsRoster(W[x]) => i \notin W[x].others
    BY <1>6 DEF Passive
<1>8. \A x, y \in 1..Len(W) : IsRoster(W[x]) /\ About(W[y], i) => x < y
    BY <1>1, <1>3, <1>6 DEF Passive
<1>9. R.neg = 0 /\ ~Answering(R) /\ R.actor.sig # "have-remote-offer"
    BY DEF Passive
<1>10. QED
    BY <1>4, <1>5, <1>7, <1>8, <1>9 DEF Passive

LEMMA ComingShorter ==
    ASSUME NEW L, NEW R, NEW In, NEW Far \in Seq(Msg), Far # <<>>, NEW i, NEW j, Coming(L, R, In, Far, i, j)
    PROVE  /\ Coming(L, R, In, Tail(Far), i, j)
           /\ ~(Head(Far).t \in Signals /\ Head(Far).from = i)
<1>1. /\ Len(Far) \in Nat /\ Len(Far) >= 1 /\ Head(Far) = Far[1]
      /\ Len(Tail(Far)) = Len(Far) - 1
      /\ \A x \in 1..Len(Tail(Far)) : x + 1 \in 2..Len(Far) /\ Tail(Far)[x] = Far[x + 1]
    BY Shortened
<1>2. 1 \in 1..Len(Far) /\ \A x \in 1..Len(Tail(Far)) : x + 1 \in 1..Len(Far)
    BY <1>1
<1>3. QED
    BY <1>1, <1>2 DEF Coming

LEMMA ComingHeard ==
    ASSUME NEW L, NEW R, NEW In \in Seq(Msg), In # <<>>, ~IsRoster(Head(In)), NEW Far, NEW i, NEW j,
           Coming(L, R, In, Far, i, j)
    PROVE  Coming(L, R, Tail(In), Far, i, j)
<1> DEFINE T == Tail(In)
<1>1. /\ Len(In) \in Nat /\ Len(In) >= 1 /\ Head(In) = In[1]
      /\ Len(T) = Len(In) - 1
      /\ \A x \in 2..Len(In) : x - 1 \in 1..Len(T) /\ T[x - 1] = In[x]
    BY Shortened
<1> HIDE DEF T
<1>2. Len(In) # 1
    BY <1>1 DEF Coming
<1>3. Len(In) \in 2..Len(In) /\ Len(In) - 1 = Len(T)
    BY <1>1, <1>2
<1>4. T[Len(T)] = In[Len(In)] /\ Len(T) > 0
    BY <1>1, <1>2, <1>3
<1>5. \A x \in 1..Len(T) : x + 1 \in 1..Len(In) /\ T[x] = In[x + 1]
    BY <1>1
<1>6. Coming(L, R, T, Far, i, j)
    BY <1>4, <1>5 DEF Coming
<1>7. QED
    BY <1>6 DEF T

\* A message that says nothing of i's connection leaves the other's queue.
LEMMA OfferSaysShorter ==
    ASSUME NEW L, NEW R, NEW Far \in Seq(Msg), Far # <<>>, NEW i, NEW PL, NEW mine,
           OfferSays(L, R, Far, i, PL, mine)
    PROVE  OfferSays(L, R, Tail(Far), i, PL, mine)
<1> DEFINE T == Tail(Far)
<1>1. /\ Len(Far) \in Nat /\ Len(Far) >= 1
      /\ Len(T) = Len(Far) - 1
      /\ \A x \in 1..Len(T) : x + 1 \in 2..Len(Far) /\ T[x] = Far[x + 1]
      /\ \A x \in 2..Len(Far) : x - 1 \in 1..Len(T) /\ T[x - 1] = Far[x]
    BY Shortened
<1> HIDE DEF T
<1>2. ASSUME NEW x \in 1..Len(T), Is(T[x], "rtc.offer_event", i)
      PROVE  /\ T[x].pc = PL
             /\ L.neg = 0 /\ ~L.skipped => T[x].tracks = mine
             /\ L.actor.remote = NoPc =>
                   /\ Unbound(R)
                   /\ \E y \in x..Len(T) : Is(T[y], "rtc.ice_event", i) /\ T[y].pc = PL
    <2>1. x + 1 \in 1..Len(Far) /\ Is(Far[x + 1], "rtc.offer_event", i) /\ T[x] = Far[x + 1]
        BY <1>1, <1>2
    <2>2. /\ Far[x + 1].pc = PL
          /\ L.neg = 0 /\ ~L.skipped => Far[x + 1].tracks = mine
          /\ L.actor.remote = NoPc =>
                /\ Unbound(R)
                /\ \E y \in (x + 1)..Len(Far) : Is(Far[y], "rtc.ice_event", i) /\ Far[y].pc = PL
        BY <2>1 DEF OfferSays
    <2>3. \A y \in (x + 1)..Len(Far) : y \in 2..Len(Far) /\ y - 1 \in x..Len(T)
        BY <1>1
    <2>4. ASSUME L.actor.remote = NoPc
          PROVE  \E y \in x..Len(T) : Is(T[y], "rtc.ice_event", i) /\ T[y].pc = PL
        <3>1. PICK y \in (x + 1)..Len(Far) : Is(Far[y], "rtc.ice_event", i) /\ Far[y].pc = PL
            BY <2>2, <2>4
        <3>2. T[y - 1] = Far[y] /\ y - 1 \in x..Len(T)
            BY <1>1, <2>3
        <3>3. QED
            BY <3>1, <3>2
    <2>5. QED
        BY <2>1, <2>2, <2>4
<1>3. QED
    BY <1>2 DEF OfferSays, T

LEMMA OfferingShorter ==
    ASSUME NEW L, NEW R, NEW In, NEW Far \in Seq(Msg), Far # <<>>, NEW i, NEW j, NEW mine, NEW theirs,
           Offering(L, R, In, Far, i, j, mine, theirs),
           ~Is(Head(Far), "rtc.offer_event", i), ~Is(Head(Far), "rtc.ice_event", i)
    PROVE  Offering(L, R, In, Tail(Far), i, j, mine, theirs)
<1> DEFINE T == Tail(Far)
           PL == <<j, L.num>>
           PR == <<i, R.num>>
<1>1. /\ Some(Far, "rtc.offer_event", i) <=> Some(T, "rtc.offer_event", i)
      /\ One(Far, "rtc.offer_event", i) => One(T, "rtc.offer_event", i)
    BY SomeShorter
<1>2. \A pc : IceComes(Far, i, pc) <=> IceComes(T, i, pc)
    BY IceShorter
<1>3. OfferSays(L, R, Far, i, PL, mine)
    BY DEF Offering
<1>4. OfferSays(L, R, T, i, PL, mine)
    BY <1>3, OfferSaysShorter
<1> HIDE DEF T
<1>5. \A pc : CandsComing(R, pc, Far, i) <=> CandsComing(R, pc, T, i)
    BY <1>2 DEF CandsComing
<1>6. OneAtATime(L, R, In, T, i, j)
    BY <1>1 DEF Offering, OneAtATime
<1>7. TakenSays(L, R, T, i, PL, mine)
    BY <1>5 DEF Offering, TakenSays
<1>8. Agreed(L, R, In, T, i, j, PL, PR, theirs)
    BY <1>5 DEF Offering, Agreed
<1>9. TracksSaid(L, R, T, i, mine)
    BY <1>1 DEF Offering, TracksSaid
<1>10. Orderly(L, R, In, T, i, j, PL, PR)
    <2>1. Within(T, Far)
        BY TailWithin DEF T
    <2>2. Within(In, In) /\ Held(L, L) /\ Held(R, R) /\ Orderly(L, R, In, Far, i, j, PL, PR)
        BY DEF Within, Held, Offering
    <2>3. QED
        BY <2>1, <2>2, OrderlyKept
<1>11. Offering(L, R, In, T, i, j, mine, theirs)
    BY <1>4, <1>6, <1>7, <1>8, <1>9, <1>10 DEF Offering
<1>12. QED
    BY <1>11 DEF T

-----------------------------------------------------------------------------
\* The other hears that i is there.
LEMMA OfferingJoined ==
    ASSUME NEW L \in Link, NEW R \in Link, Sound(R), NEW In, NEW Far, NEW i \in PeerIds, NEW j \in PeerIds,
           NEW mine, NEW theirs,
           Offering(L, R, In, Far, i, j, mine, theirs), R.actor.role # "offerer",
           NEW M, M = CreatePeerActor(R, "answerer")
    PROVE  Offering(L, M, In, Far, i, j, mine, theirs)
<1>1. /\ M.neg = R.neg /\ M.offers = R.offers /\ M.pending = R.pending
      /\ M.actor.role = "answerer"
      /\ R.actor.role = "answerer" => M = R
      /\ R.actor.role # "answerer" => M.num = R.num + 1 /\ M.actor.remote = NoPc
    BY Created
<1>2. CASE R.actor.role = "answerer"
    BY <1>1, <1>2
<1>3. CASE R.actor.role # "answerer"
    <2> DEFINE PL == <<j, L.num>>
               PR == <<i, R.num>>
               PM == <<i, M.num>>
    <2>1. PL # NoPc
        BY PcFacts DEF Link
    <2>2. M.actor.remote = NoPc /\ Unbound(M)
        BY <1>1, <1>3 DEF Unbound
    <2>3. ~Bound(R, PL) /\ ~Bound(M, PL)
        BY <1>3, <2>1, <2>2 DEF Bound
    <2>4. /\ R.offers = <<>> /\ ~Some(In, "rtc.answer_event", j) /\ ~Answering(L)
          /\ L.actor.remote = NoPc
        BY <1>3, <2>3 DEF Offering, TakenSays, AnswerSays, Agreed
    <2> HIDE DEF PL
    <2>5. Caller(L, In, j) /\ OneAtATime(L, M, In, Far, i, j)
        BY <1>1 DEF Offering, OneAtATime
    <2>6. OfferSays(L, M, Far, i, PL, mine)
        BY <2>2 DEF Offering, OfferSays, PL
    <2>7. TakenSays(L, M, Far, i, PL, mine)
        BY <1>1, <2>4 DEF TakenSays
    <2>8. AnswerSays(L, M, In, j, PL, PM, theirs)
        BY <2>4 DEF AnswerSays, Some
    <2>9. Agreed(L, M, In, Far, i, j, PL, PM, theirs)
        BY <2>2, <2>3, <2>4 DEF Agreed
    <2>10. TracksSaid(L, M, Far, i, mine)
        <3>1. L.neg = 0 => Some(Far, "rtc.offer_event", i)
            BY <2>4 DEF Offering, OneAtATime
        <3>2. QED
            BY <1>1, <3>1 DEF Offering, TracksSaid
    <2>11. Orderly(L, M, In, Far, i, j, PL, PM)
        <3>1. Held(L, L) /\ Held(R, M) /\ Within(In, In) /\ Within(Far, Far)
            BY <1>1, <2>2, <1>3 DEF Held, Within
        <3>2. Orderly(L, R, In, Far, i, j, PL, PR)
            BY DEF Offering, PL
        <3> HIDE DEF PR, PM
        <3>3. QED
            BY <2>3, <3>1, <3>2, OrderlyKept
    <2>12. QED
        BY <2>5, <2>6, <2>7, <2>8, <2>9, <2>10, <2>11 DEF Offering, PL
<1>4. QED
    BY <1>2, <1>3

\* The other takes his offer.
LEMMA OfferingTaken ==
    ASSUME NEW L \in Link, NEW R \in Link, Sound(R), NEW In, NEW Far \in Seq(Msg), Far # <<>>,
           NEW i \in PeerIds, NEW j \in PeerIds, NEW mine, NEW theirs,
           Offering(L, R, In, Far, i, j, mine, theirs),
           NEW m \in Description, m = Head(Far), Is(m, "rtc.offer_event", i),
           NEW M, M = WithOffer(CreatePeerActor(R, "answerer"), m)
    PROVE  /\ Offering(L, M, In, Tail(Far), i, j, mine, theirs)
           /\ M.neg = R.neg /\ M.actor.role = "answerer"
<1> DEFINE C == CreatePeerActor(R, "answerer")
           T == Tail(Far)
           PL == <<j, L.num>>
           PR == <<i, R.num>>
           PM == <<i, M.num>>
<1>1. /\ C \in Link /\ Sound(C)
      /\ C.neg = R.neg /\ C.offers = R.offers /\ C.pending = R.pending
      /\ C.actor.role = "answerer"
      /\ R.actor.role = "answerer" => C = R
      /\ R.actor.role # "answerer" => C.num = R.num + 1 /\ C.actor.remote = NoPc
    BY Created
<1> HIDE DEF C
<1>2. /\ C.offers = <<>> => /\ M.offers # <<>> /\ Len(M.offers) = 1
                            /\ M.offers[1].num = C.num /\ M.offers[1].pc = m.pc
                            /\ M.offers[1].tracks = m.tracks
      /\ M.num = C.num /\ M.neg = C.neg /\ M.actor = C.actor /\ M.pending = C.pending
    BY <1>1, WithOfferFacts DEF C
<1>3. /\ Some(Far, "rtc.offer_event", i) /\ ~Some(T, "rtc.offer_event", i)
      /\ One(T, "rtc.offer_event", i)
    BY SomeShorter DEF Offering, OneAtATime
<1>4. Waiting(L) /\ R.offers = <<>> /\ ~Some(In, "rtc.answer_event", j) /\ ~Answering(L)
    BY <1>3 DEF Offering, OneAtATime
<1>5. /\ M.offers # <<>> /\ Len(M.offers) = 1
      /\ M.offers[1].num = M.num /\ M.offers[1].pc = m.pc /\ M.offers[1].tracks = m.tracks
    BY <1>1, <1>2, <1>4
<1>6. \A pc : IceComes(Far, i, pc) <=> IceComes(T, i, pc)
    BY IceShorter DEF Is
<1>7. PL # NoPc
    BY PcFacts DEF Link
<1>8. /\ m.pc = PL
      /\ L.neg = 0 /\ ~L.skipped => m.tracks = mine
      /\ L.actor.remote = NoPc => Unbound(R) /\ IceComes(Far, i, PL)
    <2>1. Len(Far) \in Nat /\ Len(Far) >= 1 /\ Head(Far) = Far[1] /\ 1 \in 1..Len(Far)
        BY Shortened
    <2>2. QED
        BY <2>1 DEF Offering, OfferSays, IceComes
<1>9. L.actor.remote # NoPc => Bound(R, PL) /\ C = R /\ CandsComing(R, PL, Far, i)
    BY <1>1 DEF Offering, Agreed, Bound
<1>10. L.actor.remote = NoPc => C.actor.remote = NoPc
    BY <1>1, <1>8 DEF Unbound
<1>11. Bound(C, PL) => C = R
    BY <1>1, <1>7 DEF Bound
<1>12. CandsComing(C, PL, T, i)
    BY <1>6, <1>8, <1>9 DEF CandsComing
<1>13. OfferSays(L, M, T, i, PL, mine)
    BY <1>3 DEF OfferSays, Some
<1> HIDE DEF T, PL
<1>14. Caller(L, In, j) /\ OneAtATime(L, M, In, T, i, j)
    BY <1>3, <1>4, <1>5 DEF Offering, OneAtATime
<1>15. TakenSays(L, M, T, i, PL, mine)
    <2>1. CandsComing(M, PL, T, i)
        BY <1>2, <1>12, SameCands
    <2>2. QED
        BY <1>1, <1>2, <1>5, <1>8, <1>10, <2>1 DEF TakenSays
<1>16. AnswerSays(L, M, In, j, PL, PM, theirs)
    BY <1>4 DEF AnswerSays, Some
<1>17. Agreed(L, M, In, T, i, j, PL, PM, theirs)
    <2>1. L.actor.remote # NoPc =>
             /\ Bound(M, PL) /\ L.actor.remote = PM /\ L.actor.got = theirs
             /\ CandsComing(L, PM, In, j)
        BY <1>2, <1>9 DEF Offering, Agreed, Bound, PL
    <2>2. CandsComing(M, PL, T, i)
        BY <1>2, <1>12, SameCands
    <2>3. QED
        BY <1>4, <2>1, <2>2 DEF Agreed
<1>18. TracksSaid(L, M, T, i, mine)
    BY <1>5 DEF Offering, TracksSaid
<1>19. Orderly(L, M, In, T, i, j, PL, PM)
    <2>1. Within(T, Far)
        BY TailWithin DEF T
    <2>2. Held(L, L) /\ Within(In, In) /\ Orderly(L, R, In, Far, i, j, PL, PR)
        BY DEF Held, Within, Offering, PL
    <2>3. Held(R, M)
        BY <1>1, <1>2 DEF Held
    <2>4. Bound(R, PL) => Bound(M, PL) /\ PM = PR
        BY <1>1, <1>2 DEF Bound
    <2> HIDE DEF PR, PM
    <2>5. QED
        BY <2>1, <2>2, <2>3, <2>4, OrderlyKept
<1>20. Offering(L, M, In, T, i, j, mine, theirs)
    BY <1>13, <1>14, <1>15, <1>16, <1>17, <1>18, <1>19 DEF Offering, PL
<1>21. QED
    BY <1>1, <1>2, <1>20 DEF T

\* The other takes a candidate of his.
LEMMA OfferingIce ==
    ASSUME NEW L \in Link, NEW R \in Link, Sound(R), NEW In, NEW Far \in Seq(Msg), Far # <<>>,
           NEW i, NEW j \in PeerIds, NEW mine, NEW theirs,
           Offering(L, R, In, Far, i, j, mine, theirs),
           NEW pc \in Pc, Is(Head(Far), "rtc.ice_event", i), pc = Head(Far).pc,
           NEW M, M = TakeCandidate(R, pc)
    PROVE  Offering(L, M, In, Tail(Far), i, j, mine, theirs)
<1> DEFINE T == Tail(Far)
           PL == <<j, L.num>>
           PR == <<i, R.num>>
<1>1. /\ M.actor.role = R.actor.role
      /\ M.actor.remote = R.actor.remote /\ M.actor.got = R.actor.got
      /\ R.actor.cands \subseteq M.actor.cands
      /\ R.actor.remote = NoPc => M.pending = Append(R.pending, pc)
      /\ R.actor.remote # NoPc => M.pending = R.pending
      /\ R.actor.remote = pc /\ pc # NoPc => pc \in M.actor.cands
      /\ M.num = R.num /\ M.neg = R.neg /\ M.offers = R.offers
    BY CandidateTaken
<1>2. /\ Some(Far, "rtc.offer_event", i) <=> Some(T, "rtc.offer_event", i)
      /\ One(Far, "rtc.offer_event", i) => One(T, "rtc.offer_event", i)
    BY SomeShorter DEF Is
<1>3. \A x : IceComes(Far, i, x) <=> x = pc \/ IceComes(T, i, x)
    BY IceShorter
<1>4. OfferSays(L, R, Far, i, PL, mine) /\ Orderly(L, R, In, Far, i, j, PL, PR)
    BY DEF Offering
<1>5. OfferSays(L, R, T, i, PL, mine)
    BY <1>4, OfferSaysShorter
<1>6. Within(T, Far)
    BY TailWithin
<1>7. pc = PL
    <2>1. Len(Far) \in Nat /\ Len(Far) >= 1 /\ Head(Far) = Far[1] /\ 1 \in 1..Len(Far)
        BY Shortened
    <2>2. QED
        BY <1>4, <2>1 DEF Orderly
<1>8. PL # NoPc
    BY PcFacts DEF Link
<1> HIDE DEF T, PL, PR
<1>9. Unbound(M) <=> Unbound(R)
    BY <1>1 DEF Unbound
<1>10. Bound(M, PL) <=> Bound(R, PL)
    BY <1>1 DEF Bound
<1>11. ASSUME R.actor.remote \in {NoPc, PL}, CandsComing(R, PL, Far, i)
       PROVE  CandsComing(M, PL, T, i)
    <2>1. CASE R.actor.remote = NoPc
        <3>1. Early(M, PL)
            BY <1>1, <1>7, <2>1, OneMoreWaits
        <3>2. QED
            BY <1>1, <2>1, <3>1 DEF CandsComing
    <2>2. CASE R.actor.remote = PL
        BY <1>1, <1>7, <1>8, <2>2 DEF CandsComing
    <2>3. QED
        BY <1>11, <2>1, <2>2
<1>12. OfferSays(L, M, T, i, PL, mine)
    BY <1>5, <1>9 DEF OfferSays
<1>13. Caller(L, In, j) /\ OneAtATime(L, M, In, T, i, j)
    BY <1>1, <1>2 DEF Offering, OneAtATime
<1>14. TakenSays(L, M, T, i, PL, mine)
    <2>1. TakenSays(L, R, Far, i, PL, mine) /\ (L.actor.remote # NoPc => Bound(R, PL))
        BY DEF Offering, Agreed, PL
    <2>2. R.offers # <<>> => R.actor.remote \in {NoPc, PL}
        BY <2>1 DEF TakenSays, Bound
    <2>3. QED
        BY <1>1, <1>11, <2>1, <2>2 DEF TakenSays
<1>15. AnswerSays(L, M, In, j, PL, PR, theirs)
    BY <1>10 DEF Offering, AnswerSays, PL, PR
<1>16. Agreed(L, M, In, T, i, j, PL, PR, theirs)
    <2>1. Agreed(L, R, In, Far, i, j, PL, PR, theirs)
        BY DEF Offering, PL, PR
    <2>2. Bound(R, PL) => CandsComing(M, PL, T, i)
        BY <1>11, <2>1 DEF Agreed, Bound
    <2>3. QED
        BY <1>1, <1>9, <1>10, <2>1, <2>2 DEF Agreed
<1>17. TracksSaid(L, M, T, i, mine)
    BY <1>1, <1>2 DEF Offering, TracksSaid
<1>18. Orderly(L, M, In, T, i, j, PL, PR)
    <2>1. Only(M, PL) /\ (M.pending # <<>> => M.actor.remote = NoPc)
        <3>1. Only(R, PL) /\ (R.pending # <<>> => R.actor.remote = NoPc)
            BY <1>4 DEF Orderly
        <3>2. CASE R.actor.remote = NoPc
            BY <1>1, <1>7, <3>1, <3>2, OneMoreWaits
        <3>3. CASE R.actor.remote # NoPc
            BY <1>1, <3>1, <3>3, SameWait
        <3>4. QED
            BY <3>2, <3>3
    <2>2. \A x \in 1..Len(T) : Is(T[x], "rtc.ice_event", i) => T[x].pc = PL
        BY <1>4, <1>6 DEF Orderly, Within
    <2>3. QED
        BY <1>4, <1>10, <2>1, <2>2 DEF Orderly
<1>19. Offering(L, M, In, T, i, j, mine, theirs)
    BY <1>1, <1>12, <1>13, <1>14, <1>15, <1>16, <1>17, <1>18 DEF Offering, PL, PR
<1>20. QED
    BY <1>19 DEF T

\* The other can answer: no candidate that waits for the offer is refused.
LEMMA OfferingUnrefused ==
    ASSUME NEW L, NEW R \in Link, Sound(R), NEW In, NEW Far,
           NEW i, NEW j, NEW mine, NEW theirs,
           Offering(L, R, In, Far, i, j, mine, theirs), R.offers # <<>>
    PROVE  /\ Head(R.offers) = R.offers[1] /\ Tail(R.offers) = <<>>
           /\ R.actor.role = "answerer" /\ R.offers[1].pc = <<j, L.num>>
           /\ Answerable(R) /\ ~Refused(Told(R))
<1> DEFINE PL == <<j, L.num>>
<1>1. R.offers \in Seq(Offer)
    BY DEF Link
<1>2. Len(R.offers) = 1
    BY DEF Offering, OneAtATime
<1>3. Head(R.offers) = R.offers[1] /\ Tail(R.offers) = <<>>
    BY <1>1, <1>2, OfferSeq
<1>4. R.actor.role = "answerer" /\ R.offers[1].pc = PL /\ R.offers[1].num = R.num
    BY DEF Offering, TakenSays
<1>5. Only(R, PL)
    BY DEF Offering, Orderly
<1>6. Head(R.offers).pc = PL
    BY <1>3, <1>4
<1> HIDE DEF PL
<1>7. ~Refused(Told(R))
    BY <1>4, <1>5, <1>6, NoneRefused
<1>8. QED
    BY <1>3, <1>4, <1>7 DEF Answerable, PL

\* The other answers.
LEMMA OfferingAnswered ==
    ASSUME NEW L \in Link, NEW R \in Link, Sound(R), NEW In \in Seq(Msg), NEW Far,
           NEW i \in PeerIds, NEW j \in PeerIds, NEW mine, NEW theirs,
           Offering(L, R, In, Far, i, j, mine, theirs), R.offers # <<>>,
           NEW m \in Msg, Is(m, "rtc.answer_event", j), m.pc = <<i, R.num>>, m.tracks = theirs,
           NEW n \in Msg, Is(n, "rtc.ice_event", j), n.pc = <<i, R.num>>,
           NEW W, W = IF R.actor.remote = NoPc THEN Append(Append(In, m), n) ELSE Append(In, m),
           NEW M, M = AfterAnswer(R)
    PROVE  Offering(L, M, W, Far, i, j, mine, theirs)
<1> DEFINE PL == <<j, L.num>>
           PR == <<i, R.num>>
<1>1. /\ Head(R.offers) = R.offers[1] /\ Tail(R.offers) = <<>> /\ Head(R.offers).pc = PL
      /\ R.actor.role = "answerer" /\ ~Refused(Told(R))
    BY OfferingUnrefused
<1> HIDE DEF PL
<1>2. /\ M.offers = <<>> /\ M.num = R.num /\ M.neg = R.neg
      /\ M.actor.role = R.actor.role
      /\ M.actor.remote = Head(R.offers).pc /\ M.actor.got = Head(R.offers).tracks
      /\ M.pending = <<>> /\ R.actor.cands \subseteq M.actor.cands
      /\ Early(R, PL) => PL \in M.actor.cands
    <2>1. /\ M.offers = Tail(R.offers) /\ M.num = R.num /\ M.neg = R.neg
          /\ M.actor.role = "answerer"
          /\ M.actor.remote = Head(R.offers).pc /\ M.actor.got = Head(R.offers).tracks
          /\ M.pending = <<>> /\ R.actor.cands \subseteq M.actor.cands
          /\ Early(R, Head(R.offers).pc) => Head(R.offers).pc \in M.actor.cands
        BY <1>1, AfterAnswerFacts
    <2>2. QED
        BY <1>1, <2>1
<1> USE DEF PL
<1>3. /\ Waiting(L) /\ ~Some(Far, "rtc.offer_event", i) /\ ~Some(In, "rtc.answer_event", j)
      /\ One(In, "rtc.answer_event", j) /\ ~Answering(L)
    BY DEF Offering, OneAtATime
<1>4. /\ R.actor.role = "answerer" /\ R.offers[1].pc = PL
      /\ L.neg = 0 /\ ~L.skipped => R.offers[1].tracks = mine
      /\ L.actor.remote = NoPc => R.actor.remote = NoPc
      /\ CandsComing(R, PL, Far, i)
    BY DEF Offering, TakenSays
<1>5. Bound(M, PL)
    BY <1>1, <1>2, <1>4 DEF Bound
<1>6. PICK first \in BOOLEAN : first <=> R.actor.remote = NoPc
    OBVIOUS
<1>7. W = IF first THEN Append(Append(In, m), n) ELSE Append(In, m)
    BY <1>6
<1>8. /\ Len(In) \in Nat /\ Len(W) \in Nat
      /\ \A x \in 1..Len(In) : x \in 1..Len(W) /\ W[x] = In[x]
      /\ Len(In) + 1 \in 1..Len(W) /\ W[Len(In) + 1] = m
      /\ \A x \in 1..Len(W) :
            x \in 1..Len(In) \/ x = Len(In) + 1 \/ (x = Len(In) + 2 /\ W[x] = n)
    BY <1>7, SentAfter
<1>9. /\ Some(W, "rtc.answer_event", j) <=> Some(In, "rtc.answer_event", j) \/ Is(m, "rtc.answer_event", j)
      /\ One(In, "rtc.answer_event", j) /\ ~(Some(In, "rtc.answer_event", j) /\ Is(m, "rtc.answer_event", j)) =>
            One(W, "rtc.answer_event", j)
      /\ \A pc : IceComes(In, j, pc) => IceComes(W, j, pc)
      /\ first => IceComes(W, n.from, n.pc)
    <2>1. n.t = "rtc.ice_event" /\ "rtc.answer_event" # "rtc.ice_event"
        BY DEF Is
    <2>2. QED
        BY <1>7, <2>1, SomeSent
<1>10. Some(W, "rtc.answer_event", j) /\ One(W, "rtc.answer_event", j)
    BY <1>3, <1>9
<1>11. CandsComing(L, PR, W, j)
    <2>1. CASE R.actor.remote = NoPc
        BY <1>6, <1>9, <2>1 DEF CandsComing, Is
    <2>2. CASE R.actor.remote # NoPc
        <3>1. CandsComing(L, PR, In, j)
            BY <1>4, <2>2 DEF Offering, Agreed
        <3>2. QED
            BY <1>9, <3>1 DEF CandsComing
    <2>3. QED
        BY <2>1, <2>2
<1>12. CandsComing(M, PL, Far, i)
    BY <1>2, <1>4 DEF CandsComing
<1>13. Caller(L, W, j)
    <2>1. \A x \in 1..Len(W) : Is(W[x], "rtc.answer_event", j) \/ Is(W[x], "rtc.ice_event", j)
        BY <1>8 DEF Offering, Caller
    <2>2. QED
        BY <2>1 DEF Offering, Caller
<1> HIDE DEF PL, PR
<1>14. OneAtATime(L, M, W, Far, i, j)
    BY <1>2, <1>3, <1>10 DEF Offering, OneAtATime
<1>15. OfferSays(L, M, Far, i, PL, mine)
    BY <1>3 DEF OfferSays, Some
<1>16. TakenSays(L, M, Far, i, PL, mine)
    BY <1>2 DEF TakenSays
<1>17. AnswerSays(L, M, W, j, PL, PR, theirs)
    <2>1. ASSUME NEW x \in 1..Len(W), Is(W[x], "rtc.answer_event", j)
          PROVE  W[x].pc = PR /\ W[x].tracks = theirs
        <3>1. W[x] = m
            BY <1>3, <1>8, <2>1 DEF Some, Is
        <3>2. QED
            BY <3>1 DEF PR
    <2>2. QED
        BY <1>3, <1>5, <1>11, <2>1 DEF AnswerSays
<1>18. Agreed(L, M, W, Far, i, j, PL, PR, theirs)
    <2>1. L.actor.remote # NoPc => L.actor.remote = PR /\ L.actor.got = theirs
        BY DEF Offering, Agreed, PL, PR
    <2>2. QED
        BY <1>3, <1>5, <1>11, <1>12, <2>1 DEF Agreed
<1>19. TracksSaid(L, M, Far, i, mine)
    BY <1>1, <1>2, <1>4 DEF Offering, TracksSaid
<1>20. Orderly(L, M, W, Far, i, j, PL, PR)
    <2>1. Orderly(L, R, In, Far, i, j, PL, PR)
        BY DEF Offering, PL, PR
    <2>2. \A x \in 1..Len(W) : Is(W[x], "rtc.ice_event", j) => W[x].pc = PR
        BY <1>8, <2>1 DEF Orderly, Is, PR
    <2>3. Only(M, PL)
        BY <1>2, NoneWaits
    <2>4. QED
        BY <1>2, <1>5, <2>1, <2>2, <2>3 DEF Orderly
<1>21. QED
    BY <1>2, <1>13, <1>14, <1>15, <1>16, <1>17, <1>18, <1>19, <1>20 DEF Offering, PL, PR

-----------------------------------------------------------------------------
\* He takes the answer, to apply it.
LEMMA OfferingHeld ==
    ASSUME NEW L \in Link, Sound(L), NEW R \in Link, NEW In \in Seq(Msg), In # <<>>, NEW Far,
           NEW i \in PeerIds, NEW j \in PeerIds, NEW mine, NEW theirs,
           Offering(L, R, In, Far, i, j, mine, theirs),
           NEW m, m = Head(In), Is(m, "rtc.answer_event", j), SaidIn(m) \in Said,
           NEW K, K = AnswerHeld(L, SaidIn(m))
    PROVE  /\ TakesAnswer(L)
           /\ Offering(K, R, Tail(In), Far, i, j, mine, theirs)
<1> DEFINE T == Tail(In)
           PL == <<j, L.num>>
           PR == <<i, R.num>>
<1>1. /\ Some(In, "rtc.answer_event", j) /\ ~Some(T, "rtc.answer_event", j)
      /\ One(T, "rtc.answer_event", j)
    BY SomeShorter DEF Offering, OneAtATime
<1>2. Waiting(L) /\ ~Some(Far, "rtc.offer_event", i) /\ R.offers = <<>> /\ ~Answering(L)
    BY <1>1 DEF Offering, OneAtATime
<1>3. TakesAnswer(L)
    BY <1>2 DEF Offering, Caller, TakesAnswer, Waiting, Answering
<1>4. /\ K.actor.role = L.actor.role /\ K.actor.sig = L.actor.sig
      /\ K.actor.remote = L.actor.remote /\ K.actor.got = L.actor.got
      /\ K.actor.cands = L.actor.cands /\ K.actor.answer = SaidIn(m)
      /\ K.num = L.num /\ K.neg = L.neg /\ K.attached = L.attached /\ K.queued = L.queued
      /\ K.skipped = L.skipped /\ K.pending = L.pending
    BY <1>3, AnswerHeldFacts DEF TakesAnswer
<1>5. /\ Len(In) \in Nat /\ Len(In) >= 1 /\ Head(In) = In[1] /\ 1 \in 1..Len(In)
      /\ \A x \in 1..Len(T) : x + 1 \in 1..Len(In) /\ T[x] = In[x + 1]
    BY Shortened
<1>6. Within(T, In)
    BY TailWithin
<1>7. \A pc : IceComes(In, j, pc) <=> IceComes(T, j, pc)
    BY IceShorter DEF Is
<1>8. m.pc = PR /\ m.tracks = theirs /\ Bound(R, PL) /\ CandsComing(L, PR, In, j)
    BY <1>1, <1>5 DEF Offering, AnswerSays
<1>9. PR # NoPc
    BY PcFacts DEF Link
<1>10. K.actor.answer = [pc |-> PR, tracks |-> theirs] /\ Answering(K)
    BY <1>4, <1>8, <1>9 DEF SaidIn, Answering, NoAnswer
<1>11. \A pc : CandsComing(L, pc, In, j) => CandsComing(K, pc, T, j)
    BY <1>4, <1>7, SameCands
<1>12. Caller(K, T, j)
    BY <1>4, <1>5 DEF Offering, Caller
<1>13. Waiting(K)
    BY <1>2, <1>4 DEF Waiting
<1> HIDE DEF T, PL, PR
<1>14. OneAtATime(K, R, T, Far, i, j)
    BY <1>1, <1>2, <1>4, <1>10, <1>13 DEF Offering, OneAtATime
<1>15. OfferSays(K, R, Far, i, PL, mine) /\ TakenSays(K, R, Far, i, PL, mine)
    BY <1>2 DEF OfferSays, TakenSays, Some
<1>16. AnswerSays(K, R, T, j, PL, PR, theirs)
    BY <1>1, <1>8, <1>10, <1>11 DEF AnswerSays, Some
<1>17. Agreed(K, R, T, Far, i, j, PL, PR, theirs)
    <2>1. Agreed(L, R, In, Far, i, j, PL, PR, theirs)
        BY DEF Offering, PL, PR
    <2>2. QED
        BY <1>4, <1>11, <1>13, <2>1 DEF Agreed
<1>18. Orderly(K, R, T, Far, i, j, PL, PR)
    <2>1. Orderly(L, R, In, Far, i, j, PL, PR)
        BY DEF Offering, PL, PR
    <2>2. Held(L, K) /\ Held(R, R) /\ Within(Far, Far)
        BY <1>4 DEF Held, Within
    <2>3. QED
        BY <1>6, <2>1, <2>2, OrderlyKept
<1>19. TracksSaid(K, R, Far, i, mine)
    BY <1>4 DEF Offering, TracksSaid
<1>20. Offering(K, R, T, Far, i, j, mine, theirs)
    BY <1>4, <1>12, <1>14, <1>15, <1>16, <1>17, <1>18, <1>19 DEF Offering, PL, PR
<1>21. QED
    BY <1>3, <1>20 DEF T

\* He has applied it.
LEMMA OfferingAgreed ==
    ASSUME NEW L \in Link, Sound(L), Answering(L), NEW R \in Link, NEW In, NEW Far,
           NEW i \in PeerIds, NEW j \in PeerIds, NEW mine, NEW theirs,
           Offering(L, R, In, Far, i, j, mine, theirs),
           NEW K, K = AnswerTaken(L)
    PROVE  Offering(K, R, In, Far, i, j, mine, theirs)
<1> DEFINE PL == <<j, L.num>>
           PR == <<i, R.num>>
<1>1. /\ ~Some(Far, "rtc.offer_event", i) /\ R.offers = <<>> /\ ~Some(In, "rtc.answer_event", j)
      /\ One(In, "rtc.answer_event", j) /\ One(Far, "rtc.offer_event", i)
    BY DEF Offering, OneAtATime
<1>2. /\ L.actor.answer = [pc |-> PR, tracks |-> theirs]
      /\ Bound(R, PL) /\ CandsComing(L, PR, In, j)
    BY DEF Offering, AnswerSays
<1>3. Only(L, PR) /\ PR # NoPc
    BY PcFacts DEF Offering, Orderly, Link
<1>4. L.actor.answer.pc = PR /\ L.actor.answer.tracks = theirs
    BY <1>2
<1> HIDE DEF PL, PR
<1>5. /\ K.actor.role = L.actor.role /\ K.actor.sig = "stable"
      /\ K.actor.remote = PR /\ K.actor.got = theirs /\ K.actor.answer = NoAnswer
      /\ K.pending = <<>> /\ L.actor.cands \subseteq K.actor.cands
      /\ Early(L, PR) => PR \in K.actor.cands
      /\ K.num = L.num /\ K.neg = L.neg /\ K.attached = L.attached /\ K.queued = L.queued
      /\ K.skipped = L.skipped
    BY <1>3, <1>4, AnswerTakenFacts
<1>6. CandsComing(K, PR, In, j)
    BY <1>2, <1>5 DEF CandsComing
<1>7. Caller(K, In, j)
    BY <1>5 DEF Offering, Caller
<1>8. ~Waiting(K) /\ ~Answering(K)
    BY <1>5 DEF Waiting, Answering
<1>9. OneAtATime(K, R, In, Far, i, j)
    BY <1>1, <1>3, <1>5, <1>8 DEF OneAtATime
<1>10. OfferSays(K, R, Far, i, PL, mine) /\ TakenSays(K, R, Far, i, PL, mine)
    BY <1>1 DEF OfferSays, TakenSays, Some
<1>11. AnswerSays(K, R, In, j, PL, PR, theirs)
    BY <1>1, <1>8 DEF AnswerSays, Some
<1>12. CandsComing(R, PL, Far, i)
    BY <1>2 DEF Offering, Agreed, PL
<1>13. Agreed(K, R, In, Far, i, j, PL, PR, theirs)
    BY <1>2, <1>3, <1>5, <1>6, <1>12 DEF Agreed
<1>14. Orderly(K, R, In, Far, i, j, PL, PR)
    <2>1. Orderly(L, R, In, Far, i, j, PL, PR)
        BY DEF Offering, PL, PR
    <2>2. Held(L, K) /\ Held(R, R) /\ Within(In, In) /\ Within(Far, Far)
        BY <1>5 DEF Held, Within
    <2>3. QED
        BY <2>1, <2>2, OrderlyKept
<1>15. TracksSaid(K, R, Far, i, mine)
    BY <1>5 DEF Offering, TracksSaid
<1>16. QED
    BY <1>5, <1>7, <1>9, <1>10, <1>11, <1>13, <1>14, <1>15 DEF Offering, PL, PR

\* He takes a candidate.
LEMMA OfferingHisIce ==
    ASSUME NEW L \in Link, Sound(L), NEW R \in Link, NEW In \in Seq(Msg), In # <<>>, NEW Far,
           NEW i \in PeerIds, NEW j, NEW mine, NEW theirs,
           Offering(L, R, In, Far, i, j, mine, theirs),
           NEW pc \in Pc, Is(Head(In), "rtc.ice_event", j), pc = Head(In).pc,
           NEW K, K = TakeCandidate(L, pc)
    PROVE  Offering(K, R, Tail(In), Far, i, j, mine, theirs)
<1> DEFINE T == Tail(In)
           PL == <<j, L.num>>
           PR == <<i, R.num>>
<1>1. /\ K.actor.role = L.actor.role /\ K.actor.sig = L.actor.sig
      /\ K.actor.remote = L.actor.remote /\ K.actor.got = L.actor.got
      /\ K.actor.answer = L.actor.answer
      /\ L.actor.cands \subseteq K.actor.cands
      /\ L.actor.remote = NoPc => K.pending = Append(L.pending, pc)
      /\ L.actor.remote # NoPc => K.pending = L.pending
      /\ L.actor.remote = pc /\ pc # NoPc => pc \in K.actor.cands
      /\ K.num = L.num /\ K.neg = L.neg /\ K.attached = L.attached /\ K.queued = L.queued
      /\ K.skipped = L.skipped
    BY CandidateTaken
<1>2. /\ Len(In) \in Nat /\ Len(In) >= 1 /\ Head(In) = In[1] /\ 1 \in 1..Len(In)
      /\ \A x \in 1..Len(T) : x + 1 \in 1..Len(In) /\ T[x] = In[x + 1]
    BY Shortened
<1>3. /\ Some(In, "rtc.answer_event", j) <=> Some(T, "rtc.answer_event", j)
      /\ One(In, "rtc.answer_event", j) => One(T, "rtc.answer_event", j)
    BY SomeShorter DEF Is
<1>4. \A x : IceComes(In, j, x) <=> x = pc \/ IceComes(T, j, x)
    BY IceShorter
<1>5. Within(T, In)
    BY TailWithin
<1>6. Orderly(L, R, In, Far, i, j, PL, PR)
    BY DEF Offering
<1>7. pc = PR /\ Bound(R, PL)
    BY <1>2, <1>6 DEF Orderly
<1>8. PR # NoPc
    BY PcFacts DEF Link
<1> HIDE DEF T, PL, PR
<1>9. Waiting(K) <=> Waiting(L)
    BY <1>1 DEF Waiting
<1>10. Answering(K) <=> Answering(L)
    BY <1>1 DEF Answering
<1>11. L.actor.remote \in {NoPc, PR}
    BY DEF Offering, Agreed, PR
<1>12. CandsComing(K, PR, T, j)
    <2>1. CASE L.actor.remote = NoPc
        <3>1. Early(K, PR)
            BY <1>1, <1>7, <2>1, OneMoreWaits
        <3>2. QED
            BY <1>1, <2>1, <3>1 DEF CandsComing
    <2>2. CASE L.actor.remote = PR
        BY <1>1, <1>7, <1>8, <2>2 DEF CandsComing
    <2>3. QED
        BY <1>11, <2>1, <2>2
<1>13. Caller(K, T, j)
    BY <1>1, <1>2 DEF Offering, Caller
<1>14. OneAtATime(K, R, T, Far, i, j)
    BY <1>1, <1>3, <1>9, <1>10 DEF Offering, OneAtATime
<1>15. OfferSays(K, R, Far, i, PL, mine)
    BY <1>1 DEF Offering, OfferSays, PL
<1>16. TakenSays(K, R, Far, i, PL, mine)
    BY <1>1 DEF Offering, TakenSays, PL
<1>17. AnswerSays(K, R, T, j, PL, PR, theirs)
    <2>1. AnswerSays(L, R, In, j, PL, PR, theirs)
        BY DEF Offering, PL, PR
    <2>2. \A x \in 1..Len(T) : Is(T[x], "rtc.answer_event", j) => T[x].pc = PR /\ T[x].tracks = theirs
        BY <1>2, <2>1 DEF AnswerSays
    <2>3. QED
        BY <1>1, <1>7, <1>10, <1>12, <2>1, <2>2 DEF AnswerSays
<1>18. Agreed(K, R, T, Far, i, j, PL, PR, theirs)
    <2>1. Agreed(L, R, In, Far, i, j, PL, PR, theirs)
        BY DEF Offering, PL, PR
    <2>2. QED
        BY <1>1, <1>9, <1>12, <2>1 DEF Agreed
<1>19. Orderly(K, R, T, Far, i, j, PL, PR)
    <2>1. Only(K, PR) /\ (K.pending # <<>> => K.actor.remote = NoPc)
        <3>1. Only(L, PR) /\ (L.pending # <<>> => L.actor.remote = NoPc)
            BY <1>6 DEF Orderly
        <3>2. CASE L.actor.remote = NoPc
            BY <1>1, <1>7, <3>1, <3>2, OneMoreWaits
        <3>3. CASE L.actor.remote # NoPc
            BY <1>1, <3>1, <3>3, SameWait
        <3>4. QED
            BY <3>2, <3>3
    <2>2. \A x \in 1..Len(T) : Is(T[x], "rtc.ice_event", j) => T[x].pc = PR
        BY <1>5, <1>6 DEF Orderly, Within
    <2>3. QED
        BY <1>6, <1>7, <2>1, <2>2 DEF Orderly
<1>20. TracksSaid(K, R, Far, i, mine)
    BY <1>1 DEF Offering, TracksSaid
<1>21. Offering(K, R, T, Far, i, j, mine, theirs)
    BY <1>1, <1>13, <1>14, <1>15, <1>16, <1>17, <1>18, <1>19, <1>20 DEF Offering, PL, PR
<1>22. QED
    BY <1>21 DEF T

\* He drops an offer that came while he did not yet offer himself.
LEMMA OfferingDropped ==
    ASSUME NEW L \in Link, Sound(L), L.offers # <<>>, NEW R, NEW In, NEW Far,
           NEW i, NEW j, NEW mine, NEW theirs,
           Offering(L, R, In, Far, i, j, mine, theirs),
           NEW K, K = Rest(L)
    PROVE  Offering(K, R, In, Far, i, j, mine, theirs)
<1> DEFINE PL == <<j, L.num>>
           PR == <<i, R.num>>
<1>1. /\ K.num = L.num /\ K.neg = L.neg /\ K.actor = L.actor /\ K.queued = L.queued
      /\ K.attached = L.attached /\ K.skipped = L.skipped /\ K.pending = L.pending
    BY RestFacts
<1>2. \A pc : CandsComing(K, pc, In, j) <=> CandsComing(L, pc, In, j)
    BY <1>1, SameWait DEF CandsComing
<1>3. (Waiting(K) <=> Waiting(L)) /\ (Answering(K) <=> Answering(L))
    BY <1>1 DEF Waiting, Answering
<1>4. Caller(K, In, j)
    BY <1>1 DEF Offering, Caller
<1>5. OneAtATime(K, R, In, Far, i, j)
    BY <1>1, <1>3 DEF Offering, OneAtATime
<1>6. OfferSays(K, R, Far, i, PL, mine) /\ TakenSays(K, R, Far, i, PL, mine)
    BY <1>1 DEF Offering, OfferSays, TakenSays
<1>7. AnswerSays(K, R, In, j, PL, PR, theirs)
    BY <1>1, <1>2, <1>3 DEF Offering, AnswerSays
<1>8. Agreed(K, R, In, Far, i, j, PL, PR, theirs)
    BY <1>1, <1>2, <1>3 DEF Offering, Agreed
<1>9. TracksSaid(K, R, Far, i, mine)
    BY <1>1 DEF Offering, TracksSaid
<1>10. Orderly(K, R, In, Far, i, j, PL, PR)
    <2>1. Held(L, K) /\ Held(R, R) /\ Within(In, In) /\ Within(Far, Far)
        BY <1>1 DEF Held, Within
    <2>2. Orderly(L, R, In, Far, i, j, PL, PR)
        BY DEF Offering
    <2> HIDE DEF PL, PR
    <2>3. QED
        BY <2>1, <2>2, OrderlyKept
<1>11. QED
    BY <1>1, <1>4, <1>5, <1>6, <1>7, <1>8, <1>9, <1>10 DEF Offering

\* His negotiation goes on, without a message: the tracks are attached, the offer
\* is skipped, or another is asked for.  The link K he is left with still has
\* the actor.
LEMMA OfferingGoesOn ==
    ASSUME NEW L, NEW K, NEW R, NEW In, NEW Far, NEW i, NEW j, NEW mine, NEW new, NEW theirs,
           Offering(L, R, In, Far, i, j, mine, theirs),
           K.num = L.num, K.actor = L.actor, K.pending = L.pending,
           K.neg \in {0, K.num}, K.neg = 0 => K.skipped,
           K.attached = None \/ (~Waiting(L) /\ K.neg # 0 /\ (K.queued \/ K.attached = new)),
           K.neg = 0 => Waiting(L)
    PROVE  Offering(K, R, In, Far, i, j, new, theirs)
<1> DEFINE PL == <<j, L.num>>
           PR == <<i, R.num>>
<1>1. \A pc : CandsComing(K, pc, In, j) <=> CandsComing(L, pc, In, j)
    BY SameWait DEF CandsComing
<1>2. (Waiting(K) <=> Waiting(L)) /\ (Answering(K) <=> Answering(L))
    BY DEF Waiting, Answering
<1>3. Caller(K, In, j)
    BY DEF Offering, Caller
<1>4. OneAtATime(K, R, In, Far, i, j)
    BY <1>2 DEF Offering, OneAtATime
<1>5. OfferSays(K, R, Far, i, PL, new) /\ TakenSays(K, R, Far, i, PL, new)
    BY DEF Offering, OfferSays, TakenSays
<1>6. AnswerSays(K, R, In, j, PL, PR, theirs)
    BY <1>1, <1>2 DEF Offering, AnswerSays
<1>7. Agreed(K, R, In, Far, i, j, PL, PR, theirs)
    BY <1>1, <1>2 DEF Offering, Agreed
<1>8. TracksSaid(K, R, Far, i, new)
    BY DEF TracksSaid
<1>9. Orderly(K, R, In, Far, i, j, PL, PR)
    <2>1. Held(L, K) /\ Held(R, R) /\ Within(In, In) /\ Within(Far, Far)
        BY DEF Held, Within
    <2>2. Orderly(L, R, In, Far, i, j, PL, PR)
        BY DEF Offering
    <2> HIDE DEF PL, PR
    <2>3. QED
        BY <2>1, <2>2, OrderlyKept
<1>10. QED
    BY <1>3, <1>4, <1>5, <1>6, <1>7, <1>8, <1>9 DEF Offering

\* He offers.
LEMMA OfferingOffered ==
    ASSUME NEW L \in Link, Sound(L), L.neg # 0, L.attached # None, NEW R \in Link, NEW In,
           NEW Far \in Seq(Msg), NEW i \in PeerIds, NEW j \in PeerIds, NEW mine, NEW theirs,
           Offering(L, R, In, Far, i, j, mine, theirs),
           NEW m \in Msg, Is(m, "rtc.offer_event", i), m.pc = <<j, L.num>>, m.tracks = L.attached,
           NEW n \in Msg, Is(n, "rtc.ice_event", i), n.pc = <<j, L.num>>,
           NEW W, W = IF L.actor.remote = NoPc THEN Append(Append(Far, m), n) ELSE Append(Far, m),
           NEW K, K = AfterOffer(L)
    PROVE  Offering(K, R, In, W, i, j, mine, theirs)
<1> DEFINE PL == <<j, L.num>>
           PR == <<i, R.num>>
<1>1. /\ K.num = L.num /\ K.attached = None
      /\ K.actor.role = "offerer" /\ K.actor.sig = "have-local-offer"
      /\ K.actor.remote = L.actor.remote
      /\ K.actor.cands = L.actor.cands /\ K.actor.got = L.actor.got
      /\ K.pending = L.pending /\ K.actor.answer = L.actor.answer
      /\ L.queued => K.neg = K.num
      /\ ~L.queued => K.neg = 0
    BY AfterOfferFacts DEF Offering, Caller
<1>2. /\ ~Waiting(L) /\ ~Answering(L) /\ ~Some(Far, "rtc.offer_event", i) /\ ~Some(In, "rtc.answer_event", j)
      /\ R.offers = <<>> /\ One(Far, "rtc.offer_event", i) /\ One(In, "rtc.answer_event", j)
    BY DEF Offering, OneAtATime
<1>3. L.num # 0
    BY DEF Offering, Caller
<1>4. PICK first \in BOOLEAN : first <=> L.actor.remote = NoPc
    OBVIOUS
<1>5. W = IF first THEN Append(Append(Far, m), n) ELSE Append(Far, m)
    BY <1>4
<1>6. /\ Len(Far) \in Nat /\ Len(W) \in Nat
      /\ \A x \in 1..Len(Far) : x \in 1..Len(W) /\ W[x] = Far[x]
      /\ Len(Far) + 1 \in 1..Len(W) /\ W[Len(Far) + 1] = m
      /\ first => Len(Far) + 2 \in (Len(Far) + 1)..Len(W) /\ W[Len(Far) + 2] = n
      /\ \A x \in 1..Len(W) :
            x \in 1..Len(Far) \/ x = Len(Far) + 1 \/ (x = Len(Far) + 2 /\ W[x] = n)
    BY <1>5, SentAfter
<1>7. /\ Some(W, "rtc.offer_event", i) <=> Some(Far, "rtc.offer_event", i) \/ Is(m, "rtc.offer_event", i)
      /\ One(Far, "rtc.offer_event", i) /\ ~(Some(Far, "rtc.offer_event", i) /\ Is(m, "rtc.offer_event", i)) =>
            One(W, "rtc.offer_event", i)
      /\ \A pc : IceComes(Far, i, pc) => IceComes(W, i, pc)
    <2>1. n.t = "rtc.ice_event" /\ "rtc.offer_event" # "rtc.ice_event"
        BY DEF Is
    <2>2. QED
        BY <1>5, <2>1, SomeSent
<1>8. Some(W, "rtc.offer_event", i) /\ One(W, "rtc.offer_event", i)
    BY <1>2, <1>7
<1>9. L.actor.remote = NoPc => Unbound(R)
    BY <1>2 DEF Offering, Agreed
<1>10. L.attached = mine \/ L.queued
    BY DEF Offering, TracksSaid
<1>11. K.neg # 0 \/ L.attached = mine
    BY <1>1, <1>3, <1>10
<1> HIDE DEF PL, PR
<1>12. Caller(K, In, j)
    BY <1>1 DEF Offering, Caller
<1>13. OneAtATime(K, R, In, W, i, j)
    BY <1>1, <1>2, <1>8 DEF OneAtATime, Waiting, Answering
<1>14. OfferSays(K, R, W, i, PL, mine)
    <2>1. ASSUME NEW x \in 1..Len(W), Is(W[x], "rtc.offer_event", i)
          PROVE  /\ W[x].pc = PL
                 /\ K.neg = 0 /\ ~K.skipped => W[x].tracks = mine
                 /\ K.actor.remote = NoPc =>
                       /\ Unbound(R)
                       /\ \E y \in x..Len(W) : Is(W[y], "rtc.ice_event", i) /\ W[y].pc = PL
        <3>1. x = Len(Far) + 1
            BY <1>2, <1>6, <2>1 DEF Some, Is
        <3>2. W[x] = m
            BY <1>6, <3>1
        <3>3. K.actor.remote = NoPc =>
                 /\ Unbound(R)
                 /\ \E y \in x..Len(W) : Is(W[y], "rtc.ice_event", i) /\ W[y].pc = PL
            BY <1>1, <1>4, <1>6, <1>9, <3>1 DEF PL
        <3>4. QED
            BY <1>11, <3>2, <3>3 DEF PL
    <2>2. QED
        BY <2>1 DEF OfferSays
<1>15. TakenSays(K, R, W, i, PL, mine)
    BY <1>2 DEF TakenSays
<1>16. AnswerSays(K, R, In, j, PL, PR, theirs)
    BY <1>1, <1>2 DEF AnswerSays, Some, Answering
<1>17. Agreed(K, R, In, W, i, j, PL, PR, theirs)
    <2>1. Agreed(L, R, In, Far, i, j, PL, PR, theirs)
        BY DEF Offering, PL, PR
    <2>2. \A pc : CandsComing(R, pc, Far, i) => CandsComing(R, pc, W, i)
        BY <1>7 DEF CandsComing
    <2>3. \A pc : CandsComing(L, pc, In, j) => CandsComing(K, pc, In, j)
        BY <1>1, SameCands
    <2>4. Waiting(K)
        BY <1>1 DEF Waiting
    <2>5. QED
        BY <1>1, <2>1, <2>2, <2>3, <2>4 DEF Agreed
<1>18. TracksSaid(K, R, W, i, mine)
    BY <1>1, <1>8 DEF TracksSaid
<1>19. Orderly(K, R, In, W, i, j, PL, PR)
    <2>1. Orderly(L, R, In, Far, i, j, PL, PR)
        BY DEF Offering, PL, PR
    <2>2. Held(L, K) /\ Held(R, R) /\ Within(In, In) /\ Within(Far, Far)
        BY <1>1 DEF Held, Within
    <2>3. Orderly(K, R, In, Far, i, j, PL, PR)
        BY <2>1, <2>2, OrderlyKept
    <2>4. \A x \in 1..Len(W) : Is(W[x], "rtc.ice_event", i) => W[x].pc = PL
        BY <1>6, <2>1 DEF Orderly, Is, PL
    <2>5. QED
        BY <2>3, <2>4 DEF Orderly
<1>20. QED
    BY <1>1, <1>12, <1>13, <1>14, <1>15, <1>16, <1>17, <1>18, <1>19 DEF Offering, PL, PR

\* He has heard his roster, and begins.
LEMMA OfferingBegun ==
    ASSUME NEW L, NEW R \in Link, NEW In, NEW Far, NEW i \in PeerIds, NEW j \in PeerIds,
           NEW mine, NEW theirs,
           Coming(L, R, In, Far, i, j),
           NEW K \in Link, K.num # 0, K.neg = K.num, K.attached = None,
           K.actor.role = "offerer", K.actor.sig = "stable", K.actor.remote = NoPc,
           K.actor.answer = NoAnswer, K.pending = L.pending
    PROVE  Offering(K, R, <<>>, Far, i, j, mine, theirs)
<1> DEFINE PL == <<j, K.num>>
           PR == <<i, R.num>>
<1>1. /\ R.offers = <<>> /\ R.actor.remote = NoPc /\ R.pending = <<>> /\ K.pending = <<>>
      /\ \A x \in 1..Len(Far) : ~(Far[x].t \in Signals /\ Far[x].from = i)
    BY DEF Coming
<1>2. \A x \in 1..Len(Far) :
         ~Is(Far[x], "rtc.offer_event", i) /\ ~Is(Far[x], "rtc.ice_event", i)
    BY <1>1 DEF Signals, Is
<1>3. \A x \in 1..Len(<<>>) : FALSE
    BY Empty
<1>4. /\ ~Some(Far, "rtc.offer_event", i) /\ One(Far, "rtc.offer_event", i)
      /\ ~Some(<<>>, "rtc.answer_event", j) /\ One(<<>>, "rtc.answer_event", j)
    BY <1>2, <1>3 DEF Some, One
<1>5. ~Waiting(K) /\ ~Answering(K) /\ Unbound(R)
    BY <1>1 DEF Waiting, Answering, Unbound
<1>6. ~Bound(R, PL)
    <2>1. PL # NoPc
        BY PcFacts DEF Link
    <2>2. QED
        BY <1>1, <2>1 DEF Bound
<1> HIDE DEF PL, PR
<1>7. Caller(K, <<>>, j)
    BY <1>3 DEF Caller
<1>8. OneAtATime(K, R, <<>>, Far, i, j)
    BY <1>1, <1>4, <1>5 DEF OneAtATime
<1>9. OfferSays(K, R, Far, i, PL, mine) /\ TakenSays(K, R, Far, i, PL, mine)
    BY <1>1, <1>2 DEF OfferSays, TakenSays
<1>10. AnswerSays(K, R, <<>>, j, PL, PR, theirs)
    BY <1>3, <1>4, <1>5 DEF AnswerSays
<1>11. Agreed(K, R, <<>>, Far, i, j, PL, PR, theirs)
    BY <1>5, <1>6 DEF Agreed
<1>12. TracksSaid(K, R, Far, i, mine)
    BY DEF TracksSaid
<1>13. Orderly(K, R, <<>>, Far, i, j, PL, PR)
    BY <1>1, <1>2, <1>3, NoneWaits DEF Orderly
<1>14. QED
    BY <1>7, <1>8, <1>9, <1>10, <1>11, <1>12, <1>13 DEF Offering, PL, PR

\* The roles change: all is quiet, and the other, who answered, becomes the one
\* that offers, with a new actor K; R is the link that so far offered.
LEMMA OfferingSwapped ==
    ASSUME NEW R \in Link, NEW K \in Link, NEW i \in PeerIds, NEW j \in PeerIds, NEW mine, NEW theirs,
           R.offers = <<>>, R.actor.role = "offerer", R.pending = <<>>,
           K.num # 0, K.neg = K.num, K.attached = None,
           K.actor.role = "offerer", K.actor.sig = "stable", K.actor.remote = NoPc,
           K.actor.answer = NoAnswer, K.pending = <<>>
    PROVE  Offering(K, R, <<>>, <<>>, i, j, mine, theirs)
<1> DEFINE PL == <<j, K.num>>
           PR == <<i, R.num>>
<1>1. \A x \in 1..Len(<<>>) : FALSE
    BY Empty
<1>2. \A t, q : ~Some(<<>>, t, q) /\ One(<<>>, t, q)
    BY <1>1 DEF Some, One
<1>3. ~Waiting(K) /\ ~Answering(K) /\ Unbound(R) /\ ~Bound(R, PL)
    BY DEF Waiting, Answering, Unbound, Bound
<1> HIDE DEF PL, PR
<1>4. Caller(K, <<>>, j)
    BY <1>1 DEF Caller
<1>5. OneAtATime(K, R, <<>>, <<>>, i, j)
    BY <1>2, <1>3 DEF OneAtATime
<1>6. OfferSays(K, R, <<>>, i, PL, mine) /\ TakenSays(K, R, <<>>, i, PL, mine)
    BY <1>1 DEF OfferSays, TakenSays
<1>7. AnswerSays(K, R, <<>>, j, PL, PR, theirs)
    BY <1>1, <1>2, <1>3 DEF AnswerSays
<1>8. Agreed(K, R, <<>>, <<>>, i, j, PL, PR, theirs)
    BY <1>3 DEF Agreed
<1>9. TracksSaid(K, R, <<>>, i, mine)
    BY DEF TracksSaid
<1>10. Orderly(K, R, <<>>, <<>>, i, j, PL, PR)
    BY <1>1, NoneWaits DEF Orderly
<1>11. QED
    BY <1>4, <1>5, <1>6, <1>7, <1>8, <1>9, <1>10 DEF Offering, PL, PR

-----------------------------------------------------------------------------
(***************************************************************************)
(* The pair after a step.                                                  *)
(***************************************************************************)
Facing(t, o, i, j) == BothInCall /\ t = turn /\ o = Other(turn) /\ i = call[t] /\ j = call[o]

PairNext(t, o, i, j) == PairOK(link'[t][j], link'[o][i], inbox'[t], inbox'[o], i, j,
                               tracks'[t], tracks'[o], self'[t], self'[o])

LEMMA PairFacts ==
    ASSUME NegotiationInv, NEW t, NEW o, NEW i, NEW j, Facing(t, o, i, j)
    PROVE  /\ t \in Parts /\ o \in Parts /\ t # o /\ o = Other(t) /\ t = Other(o)
           /\ i \in PeerIds /\ j \in PeerIds /\ i # j /\ i = call[t] /\ j = call[o]
           /\ link[t][j] \in Link /\ Sound(link[t][j]) /\ link[o][i] \in Link /\ Sound(link[o][i])
           /\ inbox[t] \in Seq(Msg) /\ inbox[o] \in Seq(Msg)
           /\ PairOK(link[t][j], link[o][i], inbox[t], inbox[o], i, j, tracks[t], tracks[o],
                     self[t], self[o])
           /\ self[t] # None => self[t] = i
           /\ self[o] # None => self[o] = j
           /\ self[t] = None => link[t][j].neg = 0
           /\ link[o][i].neg = 0
<1>1. turn \in Parts
    BY DEF NegotiationInv, Base, Ids, BothInCall, Facing, Parts
<1>2. t \in Parts /\ o \in Parts /\ t # o /\ o = Other(t) /\ t = Other(o)
    BY <1>1, Two DEF Facing
<1>3. i \in PeerIds /\ j \in PeerIds /\ i = call[t] /\ j = call[o]
    BY <1>2 DEF NegotiationInv, Base, Shape, Facing, BothInCall
<1>4. i # j /\ (self[t] # None => self[t] = i) /\ (self[o] # None => self[o] = j)
    BY <1>2, <1>3 DEF NegotiationInv, Base, Ids, Facing, BothInCall
<1>5. /\ link[t][j] \in Link /\ Sound(link[t][j]) /\ link[o][i] \in Link /\ Sound(link[o][i])
      /\ inbox[t] \in Seq(Msg) /\ inbox[o] \in Seq(Msg)
    BY <1>2, <1>3, LinkFacts DEF NegotiationInv, Base, Shape
<1>6. PairOK(link[t][j], link[o][i], inbox[t], inbox[o], i, j, tracks[t], tracks[o], self[t], self[o])
    BY <1>3 DEF NegotiationInv, Pair, PairAt, Facing
<1>7. self[t] = None => link[t][j].neg = 0
    BY <1>2, <1>3 DEF NegotiationInv, Base, Links, LinkOK
<1>8. link[o][i].neg = 0
    BY <1>6 DEF PairOK, Passive
<1>9. QED
    BY <1>2, <1>3, <1>4, <1>5, <1>6, <1>7, <1>8

LEMMA PairKept ==
    ASSUME NegotiationInv, UNCHANGED <<call, turn>>,
           \A t, o, i, j : Facing(t, o, i, j) => PairNext(t, o, i, j)
    PROVE  Pair'
<1>1. BothInCall => PairNext(turn, Other(turn), call[turn], call[Other(turn)])
    BY DEF Facing
<1>2. QED
    BY <1>1 DEF Pair, PairAt, PairNext, BothInCall

LEMMA PairUntouched ==
    ASSUME NegotiationInv, NEW t, NEW o, NEW i, NEW j, Facing(t, o, i, j),
           NEW p, NEW q, OnlyLink(p, q), p # t \/ q # j, p # o \/ q # i,
           SameBoxes, UNCHANGED <<self, tracks>>
    PROVE  PairNext(t, o, i, j)
<1>1. /\ t \in Parts /\ o \in Parts /\ i \in PeerIds /\ j \in PeerIds
      /\ PairOK(link[t][j], link[o][i], inbox[t], inbox[o], i, j, tracks[t], tracks[o],
                self[t], self[o])
    BY PairFacts
<1>2. link'[t][j] = link[t][j] /\ link'[o][i] = link[o][i]
    BY <1>1 DEF OnlyLink
<1>3. inbox'[t] = inbox[t] /\ inbox'[o] = inbox[o]
    BY <1>1 DEF SameBoxes
<1>4. QED
    BY <1>1, <1>2, <1>3 DEF PairNext

LEMMA PairAttach ==
    ASSUME NegotiationInv, NEW p \in Parts, NEW q \in PeerIds, AttachLocalTracks(p, q)
    PROVE  Pair'
<1>1. /\ UNCHANGED <<call, issued, self, tracks, inbox, turn>> /\ OnlyLink(p, q)
      /\ link[p][q].neg # 0 /\ link[p][q].actor.role = "offerer"
      /\ link[p][q].neg = link[p][q].num /\ link[p][q].actor.sig = "stable"
      /\ link'[p][q] = [link[p][q] EXCEPT !.attached = tracks[p]]
    BY AttachStep DEF NegotiationInv, Base
<1> SUFFICES ASSUME NEW t, NEW o, NEW i, NEW j, Facing(t, o, i, j) PROVE PairNext(t, o, i, j)
    BY <1>1, PairKept
<1> DEFINE L == link[t][j]
           R == link[o][i]
           K == [L EXCEPT !.attached = tracks[t]]
<1>2. /\ t \in Parts /\ o \in Parts /\ t # o /\ i \in PeerIds /\ j \in PeerIds
      /\ L \in Link /\ Sound(L) /\ R.neg = 0
      /\ PairOK(L, R, inbox[t], inbox[o], i, j, tracks[t], tracks[o], self[t], self[o])
      /\ self[t] = None => L.neg = 0
    BY PairFacts
<1>3. SameBoxes
    BY <1>1 DEF SameBoxes
<1>4. p # o \/ q # i
    BY <1>1, <1>2
<1>5. CASE p = t /\ q = j
    <2>1. tracks[t] \in 0..MaxTracks
        BY <1>2 DEF NegotiationInv, Base, Shape
    <2>2. /\ K.attached = tracks[t]
          /\ K.num = L.num /\ K.neg = L.neg /\ K.actor = L.actor /\ K.pending = L.pending
        BY <1>1, <1>2, <1>5, <2>1, Attached
    <2>3. self[t] # None /\ ~Waiting(L)
        BY <1>1, <1>2, <1>5 DEF Waiting
    <2>4. Offering(L, R, inbox[t], inbox[o], i, j, tracks[t], tracks[o])
        BY <1>2, <2>3 DEF PairOK
    <2>5. link'[t][j] = K /\ link'[o][i] = R
        BY <1>1, <1>2, <1>5 DEF OnlyLink
    <2>6. L.neg # 0 /\ L.neg = L.num
        BY <1>1, <1>5
    <2> HIDE DEF K, L, R
    <2>7. Offering(K, R, inbox[t], inbox[o], i, j, tracks[t], tracks[o])
        BY <2>2, <2>3, <2>4, <2>6, OfferingGoesOn
    <2>8. PairOK(K, R, inbox[t], inbox[o], i, j, tracks[t], tracks[o], self[t], self[o])
        BY <1>2, <2>3, <2>7 DEF PairOK
    <2>9. QED
        BY <1>1, <2>5, <2>8 DEF PairNext
<1>6. CASE p # t \/ q # j
    BY <1>1, <1>3, <1>4, <1>6, PairUntouched
<1>7. QED
    BY <1>5, <1>6

LEMMA PairSkip ==
    ASSUME NegotiationInv, NEW p \in Parts, NEW q \in PeerIds, SkipOffer(p, q)
    PROVE  Pair'
<1>1. /\ UNCHANGED <<call, issued, self, tracks, inbox, turn>> /\ OnlyLink(p, q)
      /\ link[p][q].neg # 0 /\ link[p][q].actor.role = "offerer"
      /\ link[p][q].actor.sig # "stable"
      /\ link'[p][q] = AfterSkip(link[p][q])
    BY SkipStep DEF NegotiationInv, Base
<1> SUFFICES ASSUME NEW t, NEW o, NEW i, NEW j, Facing(t, o, i, j) PROVE PairNext(t, o, i, j)
    BY <1>1, PairKept
<1> DEFINE L == link[t][j]
           R == link[o][i]
           K == AfterSkip(L)
<1>2. /\ t \in Parts /\ o \in Parts /\ t # o /\ i \in PeerIds /\ j \in PeerIds
      /\ L \in Link /\ Sound(L) /\ R.neg = 0
      /\ PairOK(L, R, inbox[t], inbox[o], i, j, tracks[t], tracks[o], self[t], self[o])
      /\ self[t] = None => L.neg = 0
    BY PairFacts
<1>3. SameBoxes
    BY <1>1 DEF SameBoxes
<1>4. p # o \/ q # i
    BY <1>1, <1>2
<1>5. CASE p = t /\ q = j
    <2>1. /\ K.num = L.num /\ K.attached = None /\ K.skipped = TRUE /\ K.actor = L.actor
          /\ K.pending = L.pending /\ K.neg \in {0, K.num}
        BY <1>1, <1>2, <1>5, AfterSkipFacts
    <2>2. L.actor.sig \in {"stable", "have-local-offer", "have-remote-offer"}
        BY <1>2 DEF Link, Actor
    <2>3. self[t] # None /\ Waiting(L)
        BY <1>1, <1>2, <1>5, <2>2 DEF Waiting, Sound
    <2>4. Offering(L, R, inbox[t], inbox[o], i, j, tracks[t], tracks[o])
        BY <1>2, <2>3 DEF PairOK
    <2>5. link'[t][j] = K /\ link'[o][i] = R
        BY <1>1, <1>2, <1>5 DEF OnlyLink
    <2> HIDE DEF K, L, R
    <2>6. Offering(K, R, inbox[t], inbox[o], i, j, tracks[t], tracks[o])
        BY <2>1, <2>3, <2>4, OfferingGoesOn
    <2>7. PairOK(K, R, inbox[t], inbox[o], i, j, tracks[t], tracks[o], self[t], self[o])
        BY <1>2, <2>3, <2>6 DEF PairOK
    <2>8. QED
        BY <1>1, <2>5, <2>7 DEF PairNext
<1>6. CASE p # t \/ q # j
    BY <1>1, <1>3, <1>4, <1>6, PairUntouched
<1>7. QED
    BY <1>5, <1>6

LEMMA PairAbandon ==
    ASSUME NegotiationInv, NEW p \in Parts, NEW q \in PeerIds, AbandonOffer(p, q)
    PROVE  Pair'
<1>1. /\ UNCHANGED <<call, issued, self, tracks, inbox, turn>> /\ OnlyLink(p, q)
      /\ link[p][q].neg # 0
      /\ ~(link[p][q].actor.role = "offerer" /\ link[p][q].neg = link[p][q].num)
    BY AbandonStep DEF NegotiationInv, Base
<1> SUFFICES ASSUME NEW t, NEW o, NEW i, NEW j, Facing(t, o, i, j) PROVE PairNext(t, o, i, j)
    BY <1>1, PairKept
<1>2. /\ link[o][i].neg = 0
      /\ PairOK(link[t][j], link[o][i], inbox[t], inbox[o], i, j, tracks[t], tracks[o], self[t], self[o])
      /\ self[t] = None => link[t][j].neg = 0
    BY PairFacts
<1>3. self[t] # None => link[t][j].actor.role = "offerer" /\ link[t][j].neg \in {0, link[t][j].num}
    BY <1>2 DEF PairOK, Offering, Caller
<1>4. (p # t \/ q # j) /\ (p # o \/ q # i)
    BY <1>1, <1>2, <1>3
<1>5. SameBoxes
    BY <1>1 DEF SameBoxes
<1>6. QED
    BY <1>1, <1>4, <1>5, PairUntouched

LEMMA PairMakeOffer ==
    ASSUME NegotiationInv, NEW p \in Parts, NEW q \in PeerIds, MakeOffer(p, q)
    PROVE  Pair'
<1>1. /\ UNCHANGED <<call, issued, self, tracks, turn>> /\ OnlyLink(p, q)
      /\ link[p][q].neg # 0 /\ link[p][q].attached # None
      /\ link'[p][q] = AfterOffer(link[p][q])
      /\ inbox'[p] = inbox[p]
      /\ ~Routed(p, q) => SameBoxes
      /\ Routed(p, q) => /\ OfferOf(p, q) \in Msg /\ Ice(p, <<q, link[p][q].num>>) \in Msg
                         /\ inbox'[Other(p)] = WithIceAfter(inbox[Other(p)], link[p][q], p,
                                                   <<q, link[p][q].num>>, OfferOf(p, q))
    BY MakeOfferStep DEF NegotiationInv, Base
<1> SUFFICES ASSUME NEW t, NEW o, NEW i, NEW j, Facing(t, o, i, j) PROVE PairNext(t, o, i, j)
    BY <1>1, PairKept
<1> DEFINE L == link[t][j]
           R == link[o][i]
           In == inbox[t]
           Far == inbox[o]
           K == AfterOffer(L)
           m == OfferOf(t, j)
           n == Ice(t, <<j, L.num>>)
           W == IF L.actor.remote = NoPc THEN Append(Append(Far, m), n) ELSE Append(Far, m)
<1>2. /\ t \in Parts /\ o \in Parts /\ t # o /\ o = Other(t) /\ t = Other(o)
      /\ i \in PeerIds /\ j \in PeerIds /\ i = call[t] /\ j = call[o]
      /\ L \in Link /\ Sound(L) /\ R \in Link /\ R.neg = 0 /\ Far \in Seq(Msg)
      /\ PairOK(L, R, In, Far, i, j, tracks[t], tracks[o], self[t], self[o])
      /\ self[t] = None => L.neg = 0
      /\ self[t] # None => self[t] = i
    BY PairFacts
<1>3. p # o \/ q # i
    BY <1>1, <1>2
<1>4. CASE p = t /\ q = j
    <2>1. self[t] = i /\ self[t] # None /\ Routed(t, j)
        BY <1>1, <1>2, <1>4 DEF Routed
    <2>2. Offering(L, R, In, Far, i, j, tracks[t], tracks[o])
        BY <1>2, <2>1 DEF PairOK
    <2>3. /\ m \in Msg /\ n \in Msg
          /\ Is(m, "rtc.offer_event", i) /\ m.pc = <<j, L.num>> /\ m.tracks = L.attached
          /\ Is(n, "rtc.ice_event", i) /\ n.pc = <<j, L.num>>
        BY <1>1, <1>4, <2>1 DEF OfferOf, Ice, Is
    <2>4. inbox'[o] = W /\ inbox'[t] = In
        BY <1>1, <1>2, <1>4, <2>1 DEF WithIceAfter
    <2>5. link'[t][j] = K /\ link'[o][i] = R
        BY <1>1, <1>2, <1>4 DEF OnlyLink
    <2>6. L.neg # 0 /\ L.attached # None
        BY <1>1, <1>4
    <2> HIDE DEF K, L, R, m, n, Far, In
    <2>7. Offering(K, R, In, W, i, j, tracks[t], tracks[o])
        BY <1>2, <2>2, <2>3, <2>6, OfferingOffered DEF K
    <2>8. Passive(R, W, i)
        <3>1. PICK first \in BOOLEAN : first <=> L.actor.remote = NoPc
            OBVIOUS
        <3>2. W = IF first THEN Append(Append(Far, m), n) ELSE Append(Far, m)
            BY <3>1
        <3>3. Passive(R, Far, i) /\ m.t = "rtc.offer_event" /\ n.t = "rtc.ice_event"
            BY <1>2, <2>3 DEF PairOK, Is
        <3>4. QED
            BY <1>2, <2>3, <3>2, <3>3, PassiveSent
    <2> HIDE DEF W
    <2>9. PairOK(K, R, In, W, i, j, tracks[t], tracks[o], self[t], self[o])
        BY <1>2, <2>1, <2>7, <2>8 DEF PairOK
    <2>10. QED
        BY <1>1, <2>4, <2>5, <2>9 DEF PairNext
<1>5. CASE p # t \/ q # j
    <2>1. ~Routed(p, q)
        BY <1>2, <1>3, <1>5, Two DEF Routed
    <2>2. QED
        BY <1>1, <1>3, <1>5, <2>1, PairUntouched
<1>6. QED
    BY <1>4, <1>5

LEMMA PairMakeAnswer ==
    ASSUME NegotiationInv, NEW p \in Parts, NEW q \in PeerIds, MakeAnswer(p, q)
    PROVE  Pair'
<1>1. /\ UNCHANGED <<call, issued, self, tracks, turn>> /\ OnlyLink(p, q)
      /\ link[p][q].offers # <<>>
      /\ inbox'[p] = inbox[p]
      /\ ~Answerable(link[p][q]) => SameBoxes /\ link'[p][q] = Rest(link[p][q])
      /\ Answerable(link[p][q]) /\ Refused(Told(link[p][q])) =>
            link'[p][q] = AfterRefusal(link[p][q])
      /\ Answerable(link[p][q]) /\ ~Refused(Told(link[p][q])) =>
            link'[p][q] = AfterAnswer(link[p][q])
      /\ ~Routed(p, q) => SameBoxes
      /\ Routed(p, q) /\ Answerable(link[p][q]) /\ ~Refused(Told(link[p][q])) =>
            /\ AnswerOf(p, q) \in Msg /\ Ice(p, <<q, link[p][q].num>>) \in Msg
            /\ inbox'[Other(p)] = WithIceAfter(inbox[Other(p)], link[p][q], p,
                                               <<q, link[p][q].num>>, AnswerOf(p, q))
    BY MakeAnswerStep DEF NegotiationInv, Base
<1> SUFFICES ASSUME NEW t, NEW o, NEW i, NEW j, Facing(t, o, i, j) PROVE PairNext(t, o, i, j)
    BY <1>1, PairKept
<1> DEFINE L == link[t][j]
           R == link[o][i]
           In == inbox[t]
           Far == inbox[o]
<1>2. /\ t \in Parts /\ o \in Parts /\ t # o /\ o = Other(t) /\ t = Other(o)
      /\ i \in PeerIds /\ j \in PeerIds /\ i = call[t] /\ j = call[o]
      /\ L \in Link /\ Sound(L) /\ R \in Link /\ Sound(R) /\ In \in Seq(Msg)
      /\ PairOK(L, R, In, Far, i, j, tracks[t], tracks[o], self[t], self[o])
      /\ self[o] # None => self[o] = j
    BY PairFacts
<1>3. CASE p = t /\ q = j
    <2>1. link'[o][i] = R
        BY <1>1, <1>2, <1>3 DEF OnlyLink
    <2>2. CASE self[t] = None
        <3>1. SameBoxes
            BY <1>1, <1>3, <2>2 DEF Routed
        <3>2. inbox'[t] = In /\ inbox'[o] = Far
            BY <1>2, <3>1 DEF SameBoxes
        <3>3. L.pending = <<>> => link'[t][j].pending = <<>>
            BY <1>1, <1>2, <1>3, NoneHeldAnswering
        <3> HIDE DEF L, R, In, Far
        <3>4. Coming(link'[t][j], R, In, Far, i, j)
            BY <1>2, <2>2, <3>3 DEF PairOK, Coming
        <3>5. PairOK(link'[t][j], R, In, Far, i, j, tracks[t], tracks[o], self[t], self[o])
            BY <1>2, <2>2, <3>4 DEF PairOK
        <3>6. QED
            BY <1>1, <2>1, <3>2, <3>5 DEF PairNext
    <2>3. CASE self[t] # None
        <3>1. Offering(L, R, In, Far, i, j, tracks[t], tracks[o])
            BY <1>2, <2>3 DEF PairOK
        <3>2. ~Answerable(L)
            BY <3>1 DEF Offering, Caller, Answerable
        <3>3. SameBoxes /\ link'[t][j] = Rest(L) /\ L.offers # <<>>
            BY <1>1, <1>3, <3>2
        <3>4. inbox'[t] = In /\ inbox'[o] = Far
            BY <1>2, <3>3 DEF SameBoxes
        <3> DEFINE K == Rest(L)
        <3> HIDE DEF L, R, In, Far, K
        <3>5. Offering(K, R, In, Far, i, j, tracks[t], tracks[o])
            BY <1>2, <3>1, <3>3, OfferingDropped DEF K
        <3>6. PairOK(K, R, In, Far, i, j, tracks[t], tracks[o], self[t], self[o])
            BY <1>2, <2>3, <3>5 DEF PairOK
        <3>7. QED
            BY <1>1, <2>1, <3>3, <3>4, <3>6 DEF PairNext, K
    <2>4. QED
        BY <2>2, <2>3
<1>4. CASE p = o /\ q = i
    <2> DEFINE m == AnswerOf(o, i)
               n == Ice(o, <<i, R.num>>)
               W == IF R.actor.remote = NoPc THEN Append(Append(In, m), n) ELSE Append(In, m)
               M == AfterAnswer(R)
    <2>1. R.offers # <<>>
        BY <1>1, <1>4
    <2>2. self[o] # None /\ self[o] = j
        BY <1>2, <2>1 DEF PairOK
    <2>3. self[t] # None
        BY <1>2, <2>1 DEF PairOK, Coming
    <2>4. Offering(L, R, In, Far, i, j, tracks[t], tracks[o])
        BY <1>2, <2>3 DEF PairOK
    <2>5. /\ Head(R.offers) = R.offers[1] /\ R.actor.role = "answerer"
          /\ Answerable(R) /\ ~Refused(Told(R))
        BY <1>2, <2>1, <2>4, OfferingUnrefused
    <2>6. Routed(o, i)
        BY <1>2, <2>2 DEF Routed
    <2>7. /\ m \in Msg /\ n \in Msg
          /\ Is(m, "rtc.answer_event", j) /\ m.pc = <<i, R.num>> /\ m.tracks = tracks[o]
          /\ Is(n, "rtc.ice_event", j) /\ n.pc = <<i, R.num>>
        BY <1>1, <1>4, <2>2, <2>5, <2>6 DEF AnswerOf, Ice, Is
    <2>8. inbox'[t] = W /\ inbox'[o] = Far
        BY <1>1, <1>2, <1>4, <2>5, <2>6 DEF WithIceAfter
    <2>9. link'[o][i] = M /\ link'[t][j] = L
        BY <1>1, <1>2, <1>4, <2>5 DEF OnlyLink
    <2>10. /\ M.neg = R.neg /\ M.actor.role = R.actor.role
           /\ M.actor.sig = "stable" /\ M.actor.answer = NoAnswer
        BY <1>2, <2>1, <2>5, AfterAnswerFacts
    <2> HIDE DEF M, L, R, m, n, Far, In
    <2>11. Offering(L, M, W, Far, i, j, tracks[t], tracks[o])
        BY <1>2, <2>1, <2>4, <2>7, OfferingAnswered DEF M
    <2> HIDE DEF W
    <2>12. Passive(M, Far, i)
        BY <1>2, <2>10, PassiveLink DEF PairOK, Passive, Answering
    <2>13. PairOK(L, M, W, Far, i, j, tracks[t], tracks[o], self[t], self[o])
        BY <2>2, <2>3, <2>11, <2>12 DEF PairOK
    <2>14. QED
        BY <1>1, <2>8, <2>9, <2>13 DEF PairNext
<1>5. CASE (p # t \/ q # j) /\ (p # o \/ q # i)
    <2>1. ~Routed(p, q)
        BY <1>2, <1>5, Two DEF Routed
    <2>2. QED
        BY <1>1, <1>5, <2>1, PairUntouched
<1>6. QED
    BY <1>3, <1>4, <1>5

LEMMA PairApplyAnswer ==
    ASSUME NegotiationInv, NEW p \in Parts, NEW q \in PeerIds, ApplyAnswer(p, q)
    PROVE  Pair'
<1>1. /\ UNCHANGED <<call, issued, self, tracks, inbox, turn>> /\ OnlyLink(p, q)
      /\ Answering(link[p][q]) /\ link'[p][q] = AnswerTaken(link[p][q])
    BY ApplyAnswerStep DEF NegotiationInv, Base, Answering
<1> SUFFICES ASSUME NEW t, NEW o, NEW i, NEW j, Facing(t, o, i, j) PROVE PairNext(t, o, i, j)
    BY <1>1, PairKept
<1> DEFINE L == link[t][j]
           R == link[o][i]
           K == AnswerTaken(L)
<1>2. /\ t \in Parts /\ o \in Parts /\ t # o /\ i \in PeerIds /\ j \in PeerIds
      /\ L \in Link /\ Sound(L) /\ R \in Link
      /\ PairOK(L, R, inbox[t], inbox[o], i, j, tracks[t], tracks[o], self[t], self[o])
    BY PairFacts
<1>3. SameBoxes
    BY <1>1 DEF SameBoxes
<1>4. p # o \/ q # i
    BY <1>1, <1>2 DEF PairOK, Passive
<1>5. CASE p = t /\ q = j
    <2>1. link'[t][j] = K /\ link'[o][i] = R /\ Answering(L)
        BY <1>1, <1>2, <1>5 DEF OnlyLink
    <2>2. L.pending = <<>> => K.pending = <<>>
        BY <1>2, AnswerTakenFacts
    <2> HIDE DEF K, L, R
    <2>3. ASSUME self[t] = None PROVE Coming(K, R, inbox[t], inbox[o], i, j)
        BY <1>2, <2>2, <2>3 DEF PairOK, Coming
    <2>4. ASSUME self[t] # None
          PROVE  Offering(K, R, inbox[t], inbox[o], i, j, tracks[t], tracks[o])
        <3>1. Offering(L, R, inbox[t], inbox[o], i, j, tracks[t], tracks[o])
            BY <1>2, <2>4 DEF PairOK
        <3>2. QED
            BY <1>2, <2>1, <3>1, OfferingAgreed DEF K
    <2>5. PairOK(K, R, inbox[t], inbox[o], i, j, tracks[t], tracks[o], self[t], self[o])
        BY <1>2, <2>3, <2>4 DEF PairOK
    <2>6. QED
        BY <1>1, <2>1, <2>5 DEF PairNext
<1>6. CASE p # t \/ q # j
    BY <1>1, <1>3, <1>4, <1>6, PairUntouched
<1>7. QED
    BY <1>5, <1>6
-----------------------------------------------------------------------------
\* The three who may hear a message: t before his roster, t after it, the other.
LEMMA TurnWaits ==
    ASSUME NegotiationInv, NEW t, NEW o, NEW i, NEW j, Facing(t, o, i, j), self[t] = None,
           Popped(t), ~IsRoster(Head(inbox[t])), link'[o][i] = link[o][i], UNCHANGED <<self, tracks>>,
           link[t][j].pending = <<>> => link'[t][j].pending = <<>>
    PROVE  PairNext(t, o, i, j)
<1> DEFINE L == link[t][j]
           K == link'[t][j]
           R == link[o][i]
           In == inbox[t]
           Far == inbox[o]
<1>1. /\ o = Other(t) /\ In \in Seq(Msg)
      /\ PairOK(L, R, In, Far, i, j, tracks[t], tracks[o], self[t], self[o])
    BY PairFacts
<1>2. In # <<>> /\ inbox'[t] = Tail(In) /\ inbox'[o] = Far
    BY <1>1 DEF Popped
<1>3. L.pending = <<>> => K.pending = <<>>
    OBVIOUS
<1> HIDE DEF L, K, R, In, Far
<1>4. Coming(L, R, In, Far, i, j)
    BY <1>1 DEF PairOK
<1>5. Coming(L, R, Tail(In), Far, i, j)
    BY <1>1, <1>2, <1>4, ComingHeard DEF In
<1>6. Coming(K, R, Tail(In), Far, i, j)
    BY <1>3, <1>5 DEF Coming
<1>7. PairOK(K, R, Tail(In), Far, i, j, tracks[t], tracks[o], self[t], self[o])
    BY <1>1, <1>6 DEF PairOK
<1>8. QED
    BY <1>2, <1>7 DEF PairNext, R, K

LEMMA TurnHears ==
    ASSUME NegotiationInv, NEW t, NEW o, NEW i, NEW j, Facing(t, o, i, j), self[t] # None,
           Popped(t)
    PROVE  /\ Offering(link[t][j], link[o][i], inbox[t], inbox[o], i, j, tracks[t], tracks[o])
           /\ Is(Head(inbox[t]), "rtc.answer_event", j) \/ Is(Head(inbox[t]), "rtc.ice_event", j)
<1>1. /\ inbox[t] \in Seq(Msg)
      /\ PairOK(link[t][j], link[o][i], inbox[t], inbox[o], i, j, tracks[t], tracks[o], self[t], self[o])
    BY PairFacts
<1>2. Offering(link[t][j], link[o][i], inbox[t], inbox[o], i, j, tracks[t], tracks[o])
    BY <1>1 DEF PairOK
<1>3. /\ Len(inbox[t]) \in Nat /\ Len(inbox[t]) >= 1 /\ Head(inbox[t]) = inbox[t][1]
    BY <1>1, Shortened DEF Popped
<1>4. 1 \in 1..Len(inbox[t])
    BY <1>3
<1>5. QED
    BY <1>2, <1>3, <1>4 DEF Offering, Caller

LEMMA OtherHears ==
    ASSUME NegotiationInv, NEW t, NEW o, NEW i, NEW j, Facing(t, o, i, j), Popped(o),
           ~Is(Head(inbox[o]), "rtc.offer_event", i), ~Is(Head(inbox[o]), "rtc.ice_event", i),
           link'[t][j] = link[t][j], link'[o][i] = link[o][i], UNCHANGED tracks,
           self'[t] = self[t], link[o][i].offers # <<>> => self'[o] # None
    PROVE  PairNext(t, o, i, j)
<1> DEFINE L == link[t][j]
           R == link[o][i]
           In == inbox[t]
           Far == inbox[o]
<1>1. /\ t = Other(o) /\ Far \in Seq(Msg)
      /\ PairOK(L, R, In, Far, i, j, tracks[t], tracks[o], self[t], self[o])
    BY PairFacts
<1>2. Far # <<>> /\ inbox'[o] = Tail(Far) /\ inbox'[t] = In
    BY <1>1 DEF Popped
<1>3. ~Is(Head(Far), "rtc.offer_event", i) /\ ~Is(Head(Far), "rtc.ice_event", i)
    OBVIOUS
<1>4. link'[t][j] = L /\ link'[o][i] = R /\ (R.offers # <<>> => self'[o] # None)
    OBVIOUS
<1> HIDE DEF L, R, In, Far
<1>5. Passive(R, Tail(Far), i)
    BY <1>1, <1>2, PassiveShorter DEF PairOK
<1>6. self[t] = None => Coming(L, R, In, Tail(Far), i, j)
    BY <1>1, <1>2, ComingShorter DEF PairOK
<1>7. self[t] # None => Offering(L, R, In, Tail(Far), i, j, tracks[t], tracks[o])
    BY <1>1, <1>2, <1>3, OfferingShorter DEF PairOK
<1>8. PairOK(L, R, In, Tail(Far), i, j, tracks[t], tracks[o], self[t], self'[o])
    BY <1>4, <1>5, <1>6, <1>7 DEF PairOK
<1>9. QED
    BY <1>2, <1>4, <1>8 DEF PairNext

LEMMA PairHandleAnswer ==
    ASSUME NegotiationInv, NEW p \in Parts, HandleAnswer(p)
    PROVE  Pair'
<1>1. PICK m : m = Head(inbox[p])
    OBVIOUS
<1>2. /\ UNCHANGED <<call, issued, self, tracks, turn>>
      /\ m \in Msg /\ m.t = "rtc.answer_event" /\ Popped(p) /\ OnlyLink(p, m.from)
      /\ m.from \in PeerIds /\ SaidIn(m) \in Said
      /\ link'[p][m.from] =
            IF TakesAnswer(link[p][m.from]) THEN AnswerHeld(link[p][m.from], SaidIn(m))
                                            ELSE link[p][m.from]
    BY <1>1, HandleAnswerStep DEF NegotiationInv, Base
<1> SUFFICES ASSUME NEW t, NEW o, NEW i, NEW j, Facing(t, o, i, j) PROVE PairNext(t, o, i, j)
    BY <1>2, PairKept
<1> DEFINE L == link[t][j]
           R == link[o][i]
           In == inbox[t]
           Far == inbox[o]
<1>3. /\ t \in Parts /\ o \in Parts /\ t # o /\ o = Other(t) /\ t = Other(o)
      /\ i \in PeerIds /\ j \in PeerIds
      /\ L \in Link /\ Sound(L) /\ R \in Link /\ In \in Seq(Msg) /\ Far \in Seq(Msg)
      /\ PairOK(L, R, In, Far, i, j, tracks[t], tracks[o], self[t], self[o])
    BY PairFacts
<1>4. CASE p = t
    <2>1. link'[o][i] = link[o][i]
        BY <1>2, <1>3, <1>4 DEF OnlyLink
    <2>2. CASE self[t] = None
        <3>1. ~IsRoster(Head(inbox[t]))
            BY <1>1, <1>2, <1>4 DEF IsRoster
        <3> DEFINE K == AnswerHeld(L, SaidIn(m))
        <3>2. TakesAnswer(L) => K.pending = L.pending
            <4>1. TakesAnswer(L) => L.actor.sig = "have-local-offer"
                BY DEF TakesAnswer
            <4> HIDE DEF K, L
            <4>2. QED
                BY <1>2, <1>3, <4>1, AnswerHeldFacts DEF K
        <3>3. link'[t][j] = L \/ (TakesAnswer(L) /\ link'[t][j] = K)
            BY <1>2, <1>3, <1>4 DEF OnlyLink
        <3>4. link[t][j].pending = <<>> => link'[t][j].pending = <<>>
            BY <3>2, <3>3
        <3>5. QED
            BY <1>2, <1>4, <2>1, <2>2, <3>1, <3>4, TurnWaits
    <2>3. CASE self[t] # None
        <3>1. /\ Offering(L, R, In, Far, i, j, tracks[t], tracks[o])
              /\ Is(m, "rtc.answer_event", j)
            BY <1>1, <1>2, <1>4, <2>3, TurnHears DEF Is
        <3>2. In # <<>> /\ inbox'[t] = Tail(In) /\ inbox'[o] = Far /\ m = Head(In)
            BY <1>1, <1>2, <1>3, <1>4 DEF Popped
        <3>3. m.from = j
            BY <3>1 DEF Is
        <3> DEFINE K == AnswerHeld(L, SaidIn(m))
        <3>4. link'[t][j] = IF TakesAnswer(L) THEN K ELSE L
            BY <1>2, <1>4, <3>3
        <3> HIDE DEF L, R, In, Far, K
        <3>5. TakesAnswer(L) /\ Offering(K, R, Tail(In), Far, i, j, tracks[t], tracks[o])
            BY <1>2, <1>3, <3>1, <3>2, OfferingHeld DEF K
        <3>6. PairOK(K, R, Tail(In), Far, i, j, tracks[t], tracks[o], self[t], self[o])
            BY <1>3, <2>3, <3>5 DEF PairOK
        <3>7. QED
            BY <1>2, <2>1, <3>2, <3>4, <3>5, <3>6 DEF PairNext, R
    <2>4. QED
        BY <2>2, <2>3
<1>5. CASE p = o
    <2>1. m.from # i
        <3>1. Far # <<>> /\ m = Head(Far)
            BY <1>1, <1>2, <1>5 DEF Popped
        <3> HIDE DEF Far, R
        <3>2. ~Is(m, "rtc.answer_event", i)
            BY <1>3, <3>1, PassiveShorter DEF PairOK
        <3>3. QED
            BY <1>2, <3>2 DEF Is
    <2>2. link'[t][j] = link[t][j] /\ link'[o][i] = link[o][i]
        BY <1>2, <1>3, <1>5, <2>1 DEF OnlyLink
    <2>3. ~Is(Head(inbox[o]), "rtc.offer_event", i) /\ ~Is(Head(inbox[o]), "rtc.ice_event", i)
        BY <1>1, <1>2, <1>5 DEF Is
    <2>4. link[o][i].offers # <<>> => self'[o] # None
        BY <1>2, <1>3 DEF PairOK
    <2>5. QED
        BY <1>2, <1>5, <2>2, <2>3, <2>4, OtherHears
<1>6. QED
    BY <1>3, <1>4, <1>5, Two

LEMMA PairHandleIce ==
    ASSUME NegotiationInv, NEW p \in Parts, HandleIce(p)
    PROVE  Pair'
<1>1. PICK m : m = Head(inbox[p])
    OBVIOUS
<1>2. /\ UNCHANGED <<call, issued, self, tracks, turn>>
      /\ m \in Msg /\ m.t = "rtc.ice_event" /\ Popped(p) /\ OnlyLink(p, m.from)
      /\ m.from \in PeerIds /\ m.pc \in Pc
      /\ link'[p][m.from] = TakeCandidate(link[p][m.from], m.pc)
    BY <1>1, HandleIceStep DEF NegotiationInv, Base
<1> SUFFICES ASSUME NEW t, NEW o, NEW i, NEW j, Facing(t, o, i, j) PROVE PairNext(t, o, i, j)
    BY <1>2, PairKept
<1> DEFINE L == link[t][j]
           R == link[o][i]
           In == inbox[t]
           Far == inbox[o]
<1>3. /\ t \in Parts /\ o \in Parts /\ t # o /\ o = Other(t) /\ t = Other(o)
      /\ i \in PeerIds /\ j \in PeerIds
      /\ L \in Link /\ Sound(L) /\ R \in Link /\ Sound(R) /\ In \in Seq(Msg) /\ Far \in Seq(Msg)
      /\ PairOK(L, R, In, Far, i, j, tracks[t], tracks[o], self[t], self[o])
    BY PairFacts
<1>4. CASE p = t
    <2>1. link'[o][i] = link[o][i]
        BY <1>2, <1>3, <1>4 DEF OnlyLink
    <2>2. CASE self[t] = None
        <3>1. ~IsRoster(Head(inbox[t]))
            BY <1>1, <1>2, <1>4 DEF IsRoster
        <3>2. inbox[t] # <<>> /\ m = Head(In)
            BY <1>1, <1>2, <1>4 DEF Popped
        <3>3. m.from # j
            <4>1. Coming(L, R, In, Far, i, j)
                BY <1>3, <2>2 DEF PairOK
            <4> HIDE DEF L, R, In, Far
            <4>2. 1 \in 1..Len(In) /\ m = In[1]
                BY <1>3, <3>2, Shortened DEF In
            <4>3. ~Is(m, "rtc.ice_event", j)
                BY <4>1, <4>2 DEF Coming
            <4>4. QED
                BY <1>2, <4>3 DEF Is
        <3>4. link'[t][j] = link[t][j]
            BY <1>2, <1>3, <1>4, <3>3 DEF OnlyLink
        <3>5. QED
            BY <1>2, <1>4, <2>1, <2>2, <3>1, <3>4, TurnWaits
    <2>3. CASE self[t] # None
        <3>1. /\ Offering(L, R, In, Far, i, j, tracks[t], tracks[o])
              /\ Is(m, "rtc.ice_event", j)
            BY <1>1, <1>2, <1>4, <2>3, TurnHears DEF Is
        <3>2. In # <<>> /\ inbox'[t] = Tail(In) /\ inbox'[o] = Far /\ m = Head(In)
            BY <1>1, <1>2, <1>3, <1>4 DEF Popped
        <3>3. m.from = j
            BY <3>1 DEF Is
        <3> DEFINE K == TakeCandidate(L, m.pc)
        <3>4. link'[t][j] = K
            BY <1>2, <1>4, <3>3
        <3> HIDE DEF L, R, In, Far, K
        <3>5. Offering(K, R, Tail(In), Far, i, j, tracks[t], tracks[o])
            BY <1>2, <1>3, <3>1, <3>2, OfferingHisIce DEF K
        <3>6. PairOK(K, R, Tail(In), Far, i, j, tracks[t], tracks[o], self[t], self[o])
            BY <1>3, <2>3, <3>5 DEF PairOK
        <3>7. QED
            BY <1>2, <2>1, <3>2, <3>4, <3>6 DEF PairNext, R
    <2>4. QED
        BY <2>2, <2>3
<1>5. CASE p = o /\ m.from # i
    <2>1. link'[t][j] = link[t][j] /\ link'[o][i] = link[o][i]
        BY <1>2, <1>3, <1>5 DEF OnlyLink
    <2>2. ~Is(Head(inbox[o]), "rtc.offer_event", i) /\ ~Is(Head(inbox[o]), "rtc.ice_event", i)
        BY <1>1, <1>5 DEF Is
    <2>3. link[o][i].offers # <<>> => self'[o] # None
        BY <1>2, <1>3 DEF PairOK
    <2>4. QED
        BY <1>2, <1>5, <2>1, <2>2, <2>3, OtherHears
<1>6. CASE p = o /\ m.from = i
    <2>1. Far # <<>> /\ m = Head(Far) /\ inbox'[o] = Tail(Far) /\ inbox'[t] = In
        BY <1>1, <1>2, <1>3, <1>6 DEF Popped
    <2> DEFINE M == TakeCandidate(R, m.pc)
    <2>2. link'[o][i] = M /\ link'[t][j] = L
        BY <1>2, <1>3, <1>6 DEF OnlyLink
    <2> HIDE DEF L, R, In, Far
    <2>3. /\ M.neg = R.neg /\ M.offers = R.offers /\ M.actor.role = R.actor.role
          /\ M.actor.sig = R.actor.sig /\ M.actor.answer = R.actor.answer
        BY <1>2, <1>3, CandidateTaken
    <2> HIDE DEF M
    <2>4. self[t] # None
        <3>1. m.t \in Signals /\ m.from = i
            BY <1>2, <1>6 DEF Signals
        <3>2. QED
            BY <1>3, <2>1, <3>1, ComingShorter DEF PairOK
    <2>5. Offering(L, R, In, Far, i, j, tracks[t], tracks[o]) /\ Passive(R, Far, i)
        BY <1>3, <2>4 DEF PairOK
    <2>6. Offering(L, M, In, Tail(Far), i, j, tracks[t], tracks[o])
        BY <1>2, <1>3, <1>6, <2>1, <2>5, OfferingIce DEF M, Is
    <2>7. /\ Passive(R, Tail(Far), i)
          /\ R.neg = 0 /\ ~Answering(R) /\ R.actor.sig # "have-remote-offer"
        <3>1. Passive(R, Tail(Far), i)
            BY <1>3, <2>1, <2>5, PassiveShorter
        <3>2. QED
            BY <3>1 DEF Passive
    <2>8. Passive(M, Tail(Far), i)
        <3>1. ~Answering(M)
            BY <2>3, <2>7 DEF Answering
        <3>2. QED
            BY <2>3, <2>7, <3>1, PassiveLink
    <2>9. PairOK(L, M, In, Tail(Far), i, j, tracks[t], tracks[o], self[t], self[o])
        BY <1>3, <2>3, <2>4, <2>6, <2>8 DEF PairOK
    <2>10. QED
        BY <1>2, <2>1, <2>2, <2>9 DEF PairNext
<1>7. QED
    BY <1>3, <1>4, <1>5, <1>6, Two

LEMMA PairHandlePeerEvent ==
    ASSUME NegotiationInv, NEW p \in Parts, HandlePeerEvent(p)
    PROVE  Pair'
<1>1. PICK m : m = Head(inbox[p])
    OBVIOUS
<1>2. /\ UNCHANGED <<call, issued, self, tracks, turn>>
      /\ m \in Msg /\ m.t = "rtc.peer_event" /\ Popped(p) /\ OnlyLink(p, m.peer)
      /\ m.peer \in PeerIds /\ m.kind \in {"join", "leave"}
      /\ m.kind = "join" => link'[p][m.peer] = CreatePeerActor(link[p][m.peer], "answerer")
      /\ m.kind = "leave" => link'[p][m.peer] = ClosePeer(link[p][m.peer])
    BY <1>1, HandlePeerEventStep DEF NegotiationInv, Base
<1> SUFFICES ASSUME NEW t, NEW o, NEW i, NEW j, Facing(t, o, i, j) PROVE PairNext(t, o, i, j)
    BY <1>2, PairKept
<1> DEFINE L == link[t][j]
           R == link[o][i]
           In == inbox[t]
           Far == inbox[o]
<1>3. /\ t \in Parts /\ o \in Parts /\ t # o /\ o = Other(t) /\ t = Other(o)
      /\ i \in PeerIds /\ j \in PeerIds /\ i = call[t]
      /\ L \in Link /\ Sound(L) /\ R \in Link /\ Sound(R) /\ In \in Seq(Msg) /\ Far \in Seq(Msg)
      /\ PairOK(L, R, In, Far, i, j, tracks[t], tracks[o], self[t], self[o])
    BY PairFacts
<1>4. CASE p = t
    <2>1. link'[o][i] = link[o][i]
        BY <1>2, <1>3, <1>4 DEF OnlyLink
    <2>2. self[t] = None
        <3>1. ~Is(Head(inbox[t]), "rtc.answer_event", j) /\ ~Is(Head(inbox[t]), "rtc.ice_event", j)
            BY <1>1, <1>2, <1>4 DEF Is
        <3>2. QED
            BY <1>2, <1>4, <3>1, TurnHears
    <2>3. ~IsRoster(Head(inbox[t]))
        BY <1>1, <1>2, <1>4 DEF IsRoster
    <2> DEFINE K == link'[t][j]
    <2>4. K.pending = L.pending
        <3>1. K = L \/ K = CreatePeerActor(L, "answerer") \/ K = ClosePeer(L)
            BY <1>2, <1>3, <1>4 DEF OnlyLink
        <3> HIDE DEF K, L
        <3>2. K = CreatePeerActor(L, "answerer") => K.pending = L.pending
            BY <1>3, Created
        <3>3. K = ClosePeer(L) => K.pending = L.pending
            BY <1>3, Closed
        <3>4. QED
            BY <3>1, <3>2, <3>3
    <2>5. link[t][j].pending = <<>> => link'[t][j].pending = <<>>
        BY <2>4
    <2>6. QED
        BY <1>2, <1>4, <2>1, <2>2, <2>3, <2>5, TurnWaits
<1>5. CASE p = o /\ m.peer # i
    <2>1. link'[t][j] = link[t][j] /\ link'[o][i] = link[o][i]
        BY <1>2, <1>3, <1>5 DEF OnlyLink
    <2>2. ~Is(Head(inbox[o]), "rtc.offer_event", i) /\ ~Is(Head(inbox[o]), "rtc.ice_event", i)
        BY <1>1, <1>2, <1>5 DEF Is
    <2>3. link[o][i].offers # <<>> => self'[o] # None
        BY <1>2, <1>3 DEF PairOK
    <2>4. QED
        BY <1>2, <1>5, <2>1, <2>2, <2>3, OtherHears
<1>6. CASE p = o /\ m.peer = i
    <2>1. Far # <<>> /\ m = Head(Far) /\ inbox'[o] = Tail(Far) /\ inbox'[t] = In
        BY <1>1, <1>2, <1>3, <1>6 DEF Popped
    <2>2. m.kind = "join"
        <3>1. m.kind = "leave" => m.peer # call[Other(o)]
            BY <1>2, <1>3, <2>1, HeadOld DEF NegotiationInv
        <3>2. QED
            BY <1>2, <1>3, <1>6, <3>1
    <2> DEFINE M == CreatePeerActor(R, "answerer")
    <2>3. link'[o][i] = M /\ link'[t][j] = L
        BY <1>2, <1>3, <1>6, <2>2 DEF OnlyLink
    <2> HIDE DEF L, R, In, Far
    <2>4. Passive(R, Far, i)
        BY <1>3 DEF PairOK
    <2>5. R.actor.role # "offerer" /\ Passive(R, Tail(Far), i)
        BY <1>2, <1>3, <1>6, <2>1, <2>4, PassiveShorter
    <2>6. /\ M.neg = R.neg /\ M.offers = R.offers /\ M.actor.role = "answerer"
          /\ M.pending = R.pending
          /\ R.actor.role = "answerer" => M = R
          /\ R.actor.role # "answerer" => /\ M.actor.remote = NoPc /\ M.actor.sig = "stable"
                                         /\ M.actor.answer = NoAnswer
        BY <1>3, Created
    <2>7. ~Is(Head(Far), "rtc.offer_event", i) /\ ~Is(Head(Far), "rtc.ice_event", i)
        BY <1>2, <2>1 DEF Is
    <2>8. self[t] # None => Offering(L, M, In, Tail(Far), i, j, tracks[t], tracks[o])
        <3> SUFFICES ASSUME self[t] # None
                     PROVE  Offering(L, M, In, Tail(Far), i, j, tracks[t], tracks[o])
            OBVIOUS
        <3>1. Offering(L, R, In, Far, i, j, tracks[t], tracks[o])
            BY <1>3 DEF PairOK
        <3>2. Offering(L, R, In, Tail(Far), i, j, tracks[t], tracks[o])
            BY <1>3, <2>1, <2>7, <3>1, OfferingShorter
        <3>3. QED
            BY <1>3, <2>5, <3>2, OfferingJoined
    <2> HIDE DEF M
    <2>9. Passive(M, Tail(Far), i)
        <3>1. R.neg = 0 /\ ~Answering(R) /\ R.actor.sig # "have-remote-offer"
            BY <2>4 DEF Passive
        <3>2. ~Answering(M) /\ M.actor.sig # "have-remote-offer"
            BY <2>6, <3>1 DEF Answering
        <3>3. QED
            BY <2>5, <2>6, <3>1, <3>2, PassiveLink
    <2>10. self[t] = None => Coming(L, M, In, Tail(Far), i, j)
        <3> SUFFICES ASSUME self[t] = None PROVE Coming(L, M, In, Tail(Far), i, j)
            OBVIOUS
        <3>1. Coming(L, R, In, Far, i, j)
            BY <1>3 DEF PairOK
        <3>2. Coming(L, R, In, Tail(Far), i, j)
            BY <1>3, <2>1, <3>1, ComingShorter
        <3>3. M.pending = <<>> /\ M.offers = <<>> /\ M.actor.role # "offerer" /\ M.actor.remote = NoPc
            BY <2>6, <3>1 DEF Coming
        <3>4. QED
            BY <3>2, <3>3 DEF Coming
    <2>11. R.offers # <<>> => self[o] # None
        BY <1>3 DEF PairOK
    <2>12. PairOK(L, M, In, Tail(Far), i, j, tracks[t], tracks[o], self[t], self[o])
        BY <2>6, <2>8, <2>9, <2>10, <2>11 DEF PairOK
    <2>13. QED
        BY <1>2, <2>1, <2>3, <2>12 DEF PairNext
<1>7. QED
    BY <1>3, <1>4, <1>5, <1>6, Two

LEMMA PairHandleOffer ==
    ASSUME NegotiationInv, NEW p \in Parts, HandleOffer(p)
    PROVE  Pair'
<1>1. PICK m : m = Head(inbox[p])
    OBVIOUS
<1>2. /\ UNCHANGED <<call, issued, self, tracks, turn>>
      /\ m \in Msg /\ m.t = "rtc.offer_event" /\ Popped(p) /\ OnlyLink(p, m.from)
      /\ m \in Description
      /\ m.from \in PeerIds
      /\ link'[p][m.from] = WithOffer(CreatePeerActor(link[p][m.from], "answerer"), m)
    BY <1>1, HandleOfferStep DEF NegotiationInv, Base
<1> SUFFICES ASSUME NEW t, NEW o, NEW i, NEW j, Facing(t, o, i, j) PROVE PairNext(t, o, i, j)
    BY <1>2, PairKept
<1> DEFINE L == link[t][j]
           R == link[o][i]
           In == inbox[t]
           Far == inbox[o]
<1>3. /\ t \in Parts /\ o \in Parts /\ t # o /\ o = Other(t) /\ t = Other(o)
      /\ i \in PeerIds /\ j \in PeerIds /\ j = call[o]
      /\ L \in Link /\ Sound(L) /\ R \in Link /\ Sound(R) /\ In \in Seq(Msg) /\ Far \in Seq(Msg)
      /\ PairOK(L, R, In, Far, i, j, tracks[t], tracks[o], self[t], self[o])
    BY PairFacts
<1>4. CASE p = t
    <2>1. link'[o][i] = link[o][i]
        BY <1>2, <1>3, <1>4 DEF OnlyLink
    <2>2. self[t] = None
        <3>1. ~Is(Head(inbox[t]), "rtc.answer_event", j) /\ ~Is(Head(inbox[t]), "rtc.ice_event", j)
            BY <1>1, <1>2, <1>4 DEF Is
        <3>2. QED
            BY <1>2, <1>4, <3>1, TurnHears
    <2>3. ~IsRoster(Head(inbox[t]))
        BY <1>1, <1>2, <1>4 DEF IsRoster
    <2> DEFINE c == CreatePeerActor(L, "answerer")
               K == WithOffer(c, m)
    <2>4. K.pending = L.pending
        <3> HIDE DEF c, L
        <3>1. c \in Link /\ Sound(c) /\ c.pending = L.pending
            BY <1>3, Created DEF c
        <3>2. QED
            BY <1>2, <3>1, WithOfferFacts
    <2>5. link'[t][j] = L \/ link'[t][j] = K
        BY <1>2, <1>3, <1>4 DEF OnlyLink
    <2>6. link[t][j].pending = <<>> => link'[t][j].pending = <<>>
        BY <2>4, <2>5
    <2>7. QED
        BY <1>2, <1>4, <2>1, <2>2, <2>3, <2>6, TurnWaits
<1>5. CASE p = o /\ m.from # i
    <2>1. link'[t][j] = link[t][j] /\ link'[o][i] = link[o][i]
        BY <1>2, <1>3, <1>5 DEF OnlyLink
    <2>2. ~Is(Head(inbox[o]), "rtc.offer_event", i) /\ ~Is(Head(inbox[o]), "rtc.ice_event", i)
        BY <1>1, <1>2, <1>5 DEF Is
    <2>3. link[o][i].offers # <<>> => self'[o] # None
        BY <1>2, <1>3 DEF PairOK
    <2>4. QED
        BY <1>2, <1>5, <2>1, <2>2, <2>3, OtherHears
<1>6. CASE p = o /\ m.from = i
    <2>1. Far # <<>> /\ m = Head(Far) /\ inbox'[o] = Tail(Far) /\ inbox'[t] = In
        BY <1>1, <1>2, <1>3, <1>6 DEF Popped
    <2> DEFINE N == CreatePeerActor(R, "answerer")
               M == WithOffer(N, m)
    <2>2. link'[o][i] = M /\ link'[t][j] = L
        BY <1>2, <1>3, <1>6 DEF OnlyLink
    <2>3. BoxOK(Far, issued, call[o], self[o], call[t])
        BY <1>3 DEF NegotiationInv, Base, Boxes
    <2> HIDE DEF L, R, In, Far
    <2>4. Passive(R, Far, i)
        BY <1>3 DEF PairOK
    <2>5. /\ Passive(R, Tail(Far), i)
          /\ About(m, i) => \A x \in 1..Len(Far) : ~IsRoster(Far[x])
        BY <1>3, <2>1, <2>4, PassiveShorter
    <2>6. m.t \in Signals /\ m.from = i
        BY <1>2, <1>6 DEF Signals
    <2>7. self[o] # None
        <3>1. \A x \in 1..Len(Far) : ~IsRoster(Far[x])
            BY <2>5, <2>6 DEF About
        <3>2. j # None
            BY <1>3, Numbers
        <3>3. QED
            BY <1>3, <2>3, <3>1, <3>2 DEF BoxOK
    <2>8. self[t] # None
        BY <1>3, <2>1, <2>6, ComingShorter DEF PairOK
    <2>9. Offering(L, R, In, Far, i, j, tracks[t], tracks[o])
        BY <1>3, <2>8 DEF PairOK
    <2>10. /\ Offering(L, M, In, Tail(Far), i, j, tracks[t], tracks[o])
           /\ M.neg = R.neg /\ M.actor.role = "answerer"
        BY <1>2, <1>3, <1>6, <2>1, <2>9, OfferingTaken DEF Is
    <2> HIDE DEF M
    <2>11. Passive(M, Tail(Far), i)
        <3>1. R.neg = 0 /\ ~Answering(R) /\ R.actor.sig # "have-remote-offer"
            BY <2>4 DEF Passive
        <3> HIDE DEF N
        <3>2. /\ N \in Link /\ Sound(N)
              /\ R.actor.role = "answerer" => N = R
              /\ R.actor.role # "answerer" => N.actor.sig = "stable" /\ N.actor.answer = NoAnswer
            BY <1>3, Created DEF N
        <3>3. M.actor = N.actor
            BY <1>2, <3>2, WithOfferFacts DEF M
        <3>4. ~Answering(M) /\ M.actor.sig # "have-remote-offer"
            BY <3>1, <3>2, <3>3 DEF Answering
        <3>5. QED
            BY <2>5, <2>10, <3>1, <3>4, PassiveLink
    <2>12. PairOK(L, M, In, Tail(Far), i, j, tracks[t], tracks[o], self[t], self[o])
        BY <2>7, <2>8, <2>10, <2>11 DEF PairOK
    <2>13. QED
        BY <1>2, <2>1, <2>2, <2>12 DEF PairNext
<1>7. QED
    BY <1>3, <1>4, <1>5, <1>6, Two

LEMMA PairHandleParticipants ==
    ASSUME NegotiationInv, NEW p \in Parts, HandleParticipants(p)
    PROVE  Pair'
<1>1. PICK m : m = Head(inbox[p])
    OBVIOUS
<1>2. /\ UNCHANGED <<call, issued, tracks, turn>>
      /\ m \in Msg /\ m.t = "rtc.participants" /\ Popped(p) /\ OnlyLinksOf(p)
      /\ m.self \in PeerIds /\ m.others \in SUBSET PeerIds
      /\ self'[p] = m.self /\ self'[Other(p)] = self[Other(p)]
      /\ \A q \in PeerIds :
            link'[p][q] = IF q \in m.others THEN Met(link[p][q]) ELSE link[p][q]
    BY <1>1, HandleParticipantsStep DEF NegotiationInv, Base
<1> SUFFICES ASSUME NEW t, NEW o, NEW i, NEW j, Facing(t, o, i, j) PROVE PairNext(t, o, i, j)
    BY <1>2, PairKept
<1> DEFINE L == link[t][j]
           R == link[o][i]
           In == inbox[t]
           Far == inbox[o]
<1>3. /\ t \in Parts /\ o \in Parts /\ t # o /\ o = Other(t) /\ t = Other(o)
      /\ i \in PeerIds /\ j \in PeerIds
      /\ L \in Link /\ Sound(L) /\ R \in Link /\ Sound(R) /\ In \in Seq(Msg) /\ Far \in Seq(Msg)
      /\ PairOK(L, R, In, Far, i, j, tracks[t], tracks[o], self[t], self[o])
    BY PairFacts
<1>4. m.self # None /\ IsRoster(m)
    BY <1>2, Numbers DEF IsRoster
<1>5. CASE p = t
    <2>1. link'[o][i] = R
        BY <1>2, <1>3, <1>5 DEF OnlyLinksOf
    <2>2. self[t] = None
        <3>1. ~Is(Head(inbox[t]), "rtc.answer_event", j) /\ ~Is(Head(inbox[t]), "rtc.ice_event", j)
            BY <1>1, <1>2, <1>5 DEF Is
        <3>2. QED
            BY <1>2, <1>5, <3>1, TurnHears
    <2>3. L.neg = 0 /\ L.actor.role # "offerer"
        BY <1>3, <2>2 DEF NegotiationInv, Base, Links, LinkOK
    <2>4. In # <<>> /\ m = Head(In) /\ inbox'[t] = Tail(In) /\ inbox'[o] = Far
        BY <1>1, <1>2, <1>3, <1>5 DEF Popped
    <2>5. BoxOK(In, issued, call[t], self[t], call[o])
        BY <1>3 DEF NegotiationInv, Base, Boxes
    <2> DEFINE K == Met(L)
    <2>6. link'[t][j] = IF j \in m.others THEN K ELSE L
        BY <1>2, <1>3, <1>5
    <2> HIDE DEF L, R, In, Far
    <2>7. Coming(L, R, In, Far, i, j)
        BY <1>3, <2>2 DEF PairOK
    <2>8. /\ Len(In) \in Nat /\ Len(In) >= 1 /\ Head(In) = In[1]
          /\ Tail(In) \in Seq(Msg) /\ Len(Tail(In)) = Len(In) - 1
        BY <1>3, <2>4, Shortened
    <2>9. Len(In) = 1
        <3>1. 1 \in 1..Len(In) /\ Len(In) \in 1..Len(In)
            BY <2>8
        <3>2. IsRoster(In[1]) /\ IsRoster(In[Len(In)])
            BY <1>4, <2>4, <2>7, <2>8 DEF Coming
        <3>3. QED
            BY <2>5, <3>1, <3>2 DEF BoxOK
    <2>10. m.self = i /\ j \in m.others
        BY <2>4, <2>7, <2>8, <2>9 DEF Coming
    <2>11. Tail(In) = <<>>
        <3>1. \A s \in Seq(Msg) : Len(s) = 0 => s = <<>>
            OBVIOUS
        <3>2. Len(Tail(In)) = 0
            BY <2>8, <2>9
        <3> DEFINE T == Tail(In)
        <3> HIDE DEF T
        <3>3. T \in Seq(Msg) /\ Len(T) = 0
            BY <2>8, <3>2 DEF T
        <3>4. T = <<>>
            BY <3>1, <3>3
        <3>5. QED
            BY <3>4 DEF T
    <2>12. /\ K \in Link /\ K.num = L.num + 1 /\ K.neg = K.num /\ K.attached = None
           /\ K.actor.role = "offerer" /\ K.actor.sig = "stable" /\ K.actor.remote = NoPc
           /\ K.actor.answer = NoAnswer /\ K.pending = L.pending
        BY <1>3, <2>3, MetFacts
    <2>13. K.num # 0
        BY <1>3, <2>12 DEF Link
    <2> HIDE DEF K
    <2>14. Offering(K, R, <<>>, Far, i, j, tracks[t], tracks[o])
        BY <1>3, <2>7, <2>12, <2>13, OfferingBegun
    <2>15. self'[t] # None /\ self'[o] = self[o]
        BY <1>2, <1>3, <1>4, <1>5
    <2>16. PairOK(K, R, <<>>, Far, i, j, tracks[t], tracks[o], self'[t], self[o])
        BY <1>3, <2>14, <2>15 DEF PairOK
    <2>17. QED
        BY <1>2, <2>1, <2>4, <2>6, <2>10, <2>11, <2>15, <2>16 DEF PairNext
<1>6. CASE p = o
    <2>1. i \notin m.others
        <3>1. Far # <<>> /\ m = Head(Far)
            BY <1>1, <1>2, <1>6 DEF Popped
        <3> HIDE DEF Far, R
        <3>2. QED
            BY <1>3, <1>4, <3>1, PassiveShorter DEF PairOK
    <2>2. link'[t][j] = link[t][j] /\ link'[o][i] = link[o][i]
        BY <1>2, <1>3, <1>6, <2>1 DEF OnlyLinksOf
    <2>3. ~Is(Head(inbox[o]), "rtc.offer_event", i) /\ ~Is(Head(inbox[o]), "rtc.ice_event", i)
        BY <1>1, <1>2, <1>6 DEF Is
    <2>4. self'[t] = self[t] /\ self'[o] # None
        BY <1>2, <1>3, <1>4, <1>6
    <2>5. QED
        BY <1>2, <1>6, <2>2, <2>3, <2>4, OtherHears
<1>7. QED
    BY <1>3, <1>5, <1>6, Two

-----------------------------------------------------------------------------
\* When nothing is under way the two ends are bound to each other.
LEMMA QuietEnds ==
    ASSUME NEW L \in Link, Sound(L), NEW R \in Link, Sound(R), NEW i, NEW j, NEW mine, NEW theirs,
           Offering(L, R, <<>>, <<>>, i, j, mine, theirs), L.neg = 0, R.offers = <<>>,
           ~Answering(L), R.actor.sig # "have-remote-offer"
    PROVE  /\ L.actor.role = "offerer" /\ R.actor.role = "answerer"
           /\ L.actor.sig = "stable" /\ R.actor.sig = "stable"
           /\ L.actor.remote = <<i, R.num>> /\ R.actor.remote = <<j, L.num>>
           /\ L.actor.remote # NoPc
           /\ L.actor.remote \in L.actor.cands
           /\ R.actor.remote # NoPc => R.actor.remote \in R.actor.cands
           /\ L.pending = <<>> /\ (R.actor.remote # NoPc => R.pending = <<>>)
           /\ L.actor.got = theirs
           /\ ~L.skipped => R.actor.got = mine
<1> DEFINE PL == <<j, L.num>>
           PR == <<i, R.num>>
           Q == <<>>
<1>1. \A t, q, pc : ~Some(Q, t, q) /\ ~IceComes(Q, q, pc)
    BY Empty DEF Some, IceComes
<1>2. Offering(L, R, Q, Q, i, j, mine, theirs)
    OBVIOUS
<1> HIDE DEF Q
<1>3. L.actor.role = "offerer"
    BY <1>2 DEF Offering, Caller
<1>4. ~Waiting(L) /\ L.actor.remote # NoPc
    BY <1>1, <1>2 DEF Offering, OneAtATime
<1>5. /\ Bound(R, PL) /\ L.actor.remote = PR /\ L.actor.got = theirs
      /\ CandsComing(L, PR, Q, j) /\ CandsComing(R, PL, Q, i)
    BY <1>2, <1>4 DEF Offering, Agreed
<1>6. ~L.skipped => R.actor.got = mine
    BY <1>1, <1>2 DEF Offering, TracksSaid
<1>7. /\ L.actor.sig \in {"stable", "have-local-offer", "have-remote-offer"}
      /\ R.actor.sig \in {"stable", "have-local-offer", "have-remote-offer"}
    BY DEF Link, Actor
<1>8. R.actor.role = "answerer" /\ R.actor.remote = PL
    BY <1>5 DEF Bound
<1>9. L.actor.sig = "stable" /\ R.actor.sig = "stable"
    BY <1>3, <1>4, <1>7, <1>8 DEF Waiting, Sound
<1>10. PR \in L.actor.cands /\ (PL # NoPc => PL \in R.actor.cands)
    BY <1>1, <1>4, <1>5, <1>8 DEF CandsComing
<1>11. L.pending = <<>> /\ (R.actor.remote # NoPc => R.pending = <<>>)
    BY <1>2, <1>4 DEF Offering, Orderly
<1>12. QED
    BY <1>3, <1>4, <1>5, <1>6, <1>8, <1>9, <1>10, <1>11

-----------------------------------------------------------------------------
\* The users' steps, after which it is their turn.
LEMMA PairJoin ==
    ASSUME NegotiationInv, NEW p \in Parts, Join(p)
    PROVE  Pair'
<1> DEFINE o == Other(p)
           new == issued + 1
           m == Announced(new, {call[o]} \ {None})
           n == Presence("join", new)
<1>1. /\ UNCHANGED <<self, link, tracks>>
      /\ call[p] = None /\ new \in PeerIds /\ turn' = p
      /\ call'[p] = new /\ call'[o] = call[o]
      /\ m \in Msg /\ n \in Msg
      /\ inbox'[p] = Append(inbox[p], m)
      /\ inbox'[o] = IF call[o] = None THEN inbox[o] ELSE Append(inbox[o], n)
    BY JoinStep DEF NegotiationInv, Base
<1>2. o \in Parts /\ inbox[p] \in Seq(Msg) /\ inbox[o] \in Seq(Msg) /\ issued \in Nat
    BY Two, NegotiationAssumption DEF NegotiationInv, Base, Shape
<1>3. self[p] = None
    BY <1>1 DEF NegotiationInv, Base, Ids
<1> SUFFICES ASSUME call[o] # None PROVE PairAt(p, o)'
    BY <1>1, <1>2 DEF Pair, BothInCall
<1> DEFINE L == link[p][call[o]]
           R == link[o][new]
           In == inbox[p]
           Far == inbox[o]
           A == Append(In, m)
           B == Append(Far, n)
<1>4. R = NoLink /\ new > issued
    BY <1>1, <1>2 DEF NegotiationInv, Base, Links, LinkOK
<1>5. /\ R.neg = 0 /\ R.offers = <<>> /\ R.actor.role # "offerer" /\ R.actor.remote = NoPc
      /\ R.pending = <<>> /\ ~Answering(R) /\ R.actor.sig # "have-remote-offer"
    BY <1>4 DEF NoLink, NoActor, Answering
<1>19. call[o] \in PeerIds /\ L.pending = <<>> /\ NoIce(In)
    <2>1. call[o] \in PeerIds
        BY <1>2 DEF NegotiationInv, Base, Shape
    <2>2. QED
        BY <1>1, <2>1 DEF NegotiationInv, Unreached, NoneHeld
<1>6. \A x \in 1..Len(Far) : Far[x] \in Msg /\ Old(Far[x], issued)
    BY <1>2 DEF NegotiationInv, Base, Boxes, BoxOK
<1>7. \A q : q <= issued => q # new
    BY <1>2
<1>8. \A x \in 1..Len(Far) : ~About(Far[x], new) /\ (IsRoster(Far[x]) => new \notin Far[x].others)
    BY <1>6, <1>7 DEF Old, About
<1>9. /\ Len(Far) \in Nat /\ Len(B) = Len(Far) + 1 /\ B[Len(Far) + 1] = n
      /\ \A x \in 1..Len(Far) : B[x] = Far[x]
    BY <1>1, <1>2, Lengthened
<1>10. /\ Len(In) \in Nat /\ Len(A) = Len(In) + 1 /\ A[Len(In) + 1] = m
       /\ \A x \in 1..Len(In) : A[x] = In[x]
    BY <1>1, <1>2, Lengthened
<1>11. n.t = "rtc.peer_event"
    BY DEF Presence
<1>12. IsRoster(m) /\ m.self = new /\ m.others = {call[o]}
    BY DEF Announced, IsRoster
<1>13. inbox'[p] = A /\ inbox'[o] = B
    BY <1>1
<1> HIDE DEF A, B, m, n, R, L
<1>14. \A x \in 1..Len(B) : (x \in 1..Len(Far) /\ B[x] = Far[x]) \/ (x = Len(Far) + 1 /\ B[x] = n)
    BY <1>9
<1>15. \A x \in 1..Len(Far) : x < Len(Far) + 1
    BY <1>9
<1>16. Passive(R, B, new)
    <2>1. \A x \in 1..Len(B) : ~Is(B[x], "rtc.answer_event", new)
        BY <1>8, <1>11, <1>14 DEF Is, About, Signals
    <2>2. \A x \in 1..Len(B) : IsRoster(B[x]) => x \in 1..Len(Far) /\ new \notin B[x].others
        BY <1>8, <1>11, <1>14 DEF IsRoster
    <2>3. \A y \in 1..Len(B) : About(B[y], new) => y = Len(Far) + 1
        BY <1>8, <1>14
    <2>4. \A x, y \in 1..Len(B) : IsRoster(B[x]) /\ About(B[y], new) => x < y
        BY <1>15, <2>2, <2>3
    <2>5. QED
        BY <1>5, <2>1, <2>2, <2>4 DEF Passive
<1>17. Coming(L, R, A, B, new, call[o])
    <2>1. \A x \in 1..Len(B) : ~(B[x].t \in Signals /\ B[x].from = new)
        BY <1>8, <1>11, <1>14 DEF About, Signals
    <2>2. Len(A) > 0 /\ A[Len(A)] = m
        BY <1>10
    <2>3. \A x \in 1..Len(A) : (x \in 1..Len(In) /\ A[x] = In[x]) \/ A[x] = m
        BY <1>10
    <2>4. \A x \in 1..Len(A) : A[x].t # "rtc.ice_event"
        BY <1>12, <1>19, <2>3 DEF NoIce, IsRoster
    <2>5. QED
        BY <1>5, <1>12, <1>19, <2>1, <2>2, <2>4 DEF Coming, Is
<1>18. PairOK(L, R, A, B, new, call[o], tracks[p], tracks[o], self[p], self[o])
    BY <1>3, <1>5, <1>16, <1>17 DEF PairOK
<1>20. QED
    BY <1>1, <1>13, <1>18 DEF PairAt, L, R

LEMMA PairLeave ==
    ASSUME NegotiationInv, ~Hasty, NEW p \in Parts, Leave(p)
    PROVE  Pair'
<1>1. call'[p] = None
    BY LeaveStep DEF NegotiationInv, Base
<1>2. QED
    BY <1>1 DEF Pair, BothInCall

LEMMA PairChangeTracks ==
    ASSUME NegotiationInv, ~Overlap, NEW p \in Parts, ChangeTracks(p)
    PROVE  Pair'
<1> DEFINE r == Other(p)
<1>1. /\ UNCHANGED <<call, issued, self, inbox>> /\ OnlyLinksOf(p)
      /\ self[p] # None /\ turn' = p /\ (Quiet \/ turn = p)
      /\ tracks'[r] = tracks[r]
      /\ \A q \in PeerIds : link'[p][q] = Renegotiate(link[p][q])
    BY ChangeTracksStep DEF NegotiationInv, Base
<1>2. r \in Parts /\ r # p /\ Other(r) = p
    BY Two
<1> SUFFICES ASSUME BothInCall PROVE PairAt(p, r)'
    BY <1>1 DEF Pair, BothInCall
<1>3. turn \in Parts
    BY DEF NegotiationInv, Base, Ids, BothInCall, Parts
<1>4. CASE turn = p
    <2> DEFINE i == call[p]
               j == call[r]
               L == link[p][j]
               R == link[r][i]
               In == inbox[p]
               Far == inbox[r]
               K == Renegotiate(L)
    <2>1. Facing(p, r, i, j)
        BY <1>4 DEF Facing
    <2>2. /\ i \in PeerIds /\ j \in PeerIds
          /\ L \in Link /\ Sound(L)
          /\ PairOK(L, R, In, Far, i, j, tracks[p], tracks[r], self[p], self[r])
        BY <2>1, PairFacts
    <2>3. link'[p][j] = K /\ link'[r][i] = R
        BY <1>1, <1>2, <2>2 DEF OnlyLinksOf
    <2> HIDE DEF L, R, In, Far
    <2>4. Offering(L, R, In, Far, i, j, tracks[p], tracks[r])
        BY <1>1, <2>2 DEF PairOK
    <2>5. L.actor.role = "offerer" /\ L.num # 0
        BY <2>4 DEF Offering, Caller
    <2>6. /\ K.num = L.num /\ K.actor = L.actor
          /\ L.neg # 0 => K.neg = L.neg /\ K.attached = L.attached /\ K.queued
          /\ L.neg = 0 => K.neg = K.num /\ K.attached = None
        BY <2>2, <2>5, RenegotiateFacts
    <2>7. K.pending = L.pending
        BY <2>2, RenegotiateFacts
    <2> HIDE DEF K
    <2>8. /\ L.neg \in {0, L.num} /\ (L.neg # 0 /\ L.attached # None => ~Waiting(L))
        BY <2>4 DEF Offering, Caller, OneAtATime
    <2>9. K.neg = K.num /\ K.neg # 0 /\ (K.attached = None \/ (~Waiting(L) /\ K.queued))
        BY <2>5, <2>6, <2>8
    <2>10. \A new : Offering(K, R, In, Far, i, j, new, tracks[r])
        BY <2>4, <2>6, <2>7, <2>9, OfferingGoesOn
    <2>11. PairOK(K, R, In, Far, i, j, tracks'[p], tracks[r], self[p], self[r])
        BY <1>1, <2>2, <2>10 DEF PairOK
    <2>12. QED
        BY <1>1, <2>3, <2>11 DEF PairAt, In, Far
<1>5. CASE turn = r
    <2> DEFINE i == call[r]
               j == call[p]
               L == link[r][j]
               R == link[p][i]
               K == Renegotiate(R)
    <2>1. Facing(r, p, i, j)
        BY <1>2, <1>5 DEF Facing
    <2>2. /\ i \in PeerIds /\ j \in PeerIds
          /\ L \in Link /\ R \in Link /\ Sound(R) /\ Sound(L)
          /\ PairOK(L, R, inbox[r], inbox[p], i, j, tracks[r], tracks[p], self[r], self[p])
        BY <2>1, PairFacts
    <2>3. link'[p][i] = K /\ link'[r][j] = L
        BY <1>1, <1>2, <2>2 DEF OnlyLinksOf
    <2>4. Quiet
        BY <1>1, <1>2, <1>5
    <2>5. /\ inbox[p] = <<>> /\ inbox[r] = <<>> /\ L.neg = 0 /\ L.offers = <<>> /\ R.offers = <<>>
          /\ ~Answering(L)
        BY <1>2, <2>2, <2>4 DEF Quiet, Idle, Answering
    <2>6. self[r] # None
        BY <2>2, <2>5, Empty DEF PairOK, Coming
    <2> HIDE DEF L, R
    <2>7. /\ Offering(L, R, <<>>, <<>>, i, j, tracks[r], tracks[p])
          /\ R.neg = 0 /\ R.actor.sig # "have-remote-offer"
        BY <2>2, <2>5, <2>6 DEF PairOK, Passive
    <2>8. /\ L.actor.role = "offerer" /\ R.actor.role = "answerer" /\ L.actor.sig = "stable"
          /\ L.pending = <<>> /\ R.pending = <<>>
        <3>1. /\ L.actor.role = "offerer" /\ R.actor.role = "answerer" /\ L.actor.sig = "stable"
              /\ R.actor.remote = <<j, L.num>>
              /\ L.pending = <<>> /\ (R.actor.remote # NoPc => R.pending = <<>>)
            BY <2>2, <2>5, <2>7, QuietEnds
        <3>2. <<j, L.num>> # NoPc
            BY <2>2, PcFacts DEF Link
        <3>3. QED
            BY <3>1, <3>2
    <2>9. /\ K \in Link /\ K.num = R.num + 1 /\ K.neg = K.num /\ K.attached = None
          /\ K.actor.role = "offerer" /\ K.actor.sig = "stable" /\ K.actor.remote = NoPc
          /\ K.actor.answer = NoAnswer /\ K.pending = <<>>
        BY <2>2, <2>7, <2>8, RenegotiateFacts
    <2>10. K.num # 0
        BY <2>2, <2>9 DEF Link
    <2> HIDE DEF K
    <2>11. \A mine : Offering(K, L, <<>>, <<>>, j, i, mine, tracks[r])
        BY <2>2, <2>5, <2>8, <2>9, <2>10, OfferingSwapped
    <2>12. Passive(L, <<>>, j)
        BY <2>5, <2>8, Empty DEF Passive
    <2>13. PairOK(K, L, <<>>, <<>>, j, i, tracks'[p], tracks[r], self[p], self[r])
        BY <1>1, <2>5, <2>11, <2>12 DEF PairOK
    <2>14. QED
        BY <1>1, <2>3, <2>5, <2>13 DEF PairAt
<1>6. QED
    BY <1>3, <1>4, <1>5, Two

-----------------------------------------------------------------------------
(***************************************************************************)
(* Theorems.                                                               *)
(***************************************************************************)
LEMMA ShapeInit == Init => Shape
BY BaseInit DEF Base

LEMMA ShapeNext ==
    ASSUME Shape, [Next]_vars
    PROVE  Shape'
<1>1. CASE UNCHANGED vars
    BY <1>1 DEF vars, Shape
<1>2. ASSUME NEW p \in Parts, NEW q \in PeerIds,
             \/ AttachLocalTracks(p, q) \/ MakeOffer(p, q) \/ AbandonOffer(p, q) \/ SkipOffer(p, q)
             \/ MakeAnswer(p, q) \/ ApplyAnswer(p, q)
      PROVE  Shape'
    BY <1>2, AttachStep, MakeOfferStep, AbandonStep, SkipStep, MakeAnswerStep,
       ApplyAnswerStep
<1>3. ASSUME NEW p \in Parts,
             \/ HandleParticipants(p) \/ HandlePeerEvent(p)
             \/ HandleOffer(p) \/ HandleAnswer(p) \/ HandleIce(p)
      PROVE  Shape'
    BY <1>3, HandleParticipantsStep, HandlePeerEventStep, HandleOfferStep, HandleAnswerStep,
       HandleIceStep
<1>4. ASSUME NEW p \in Parts, Join(p) \/ Leave(p) \/ ChangeTracks(p) PROVE Shape'
    BY <1>4, JoinStep, LeaveStep, ChangeTracksStep
<1>5. QED
    BY <1>1, <1>2, <1>3, <1>4 DEF Next

LEMMA ShapeTypes == Shape => TypeOK
<1> SUFFICES ASSUME Shape PROVE TypeOK
    OBVIOUS
<1>1. ASSUME NEW p \in Parts, NEW q \in PeerIds, NEW l, l = link[p][q]
      PROVE  /\ l.num \in 0..MaxActors /\ l.neg \in 0..l.num
             /\ l.queued \in BOOLEAN /\ l.skipped \in BOOLEAN
             /\ l.queued => l.neg # 0
             /\ l.attached \in 0..MaxTracks \cup {None} /\ (l.attached # None => l.neg # 0)
             /\ l.actor.role \in {"none", "offerer", "answerer"}
             /\ l.actor.sig \in {"stable", "have-local-offer", "have-remote-offer"}
             /\ l.actor.sig = "have-local-offer" => l.actor.role = "offerer"
             /\ l.actor.sig = "have-remote-offer" => l.actor.role = "answerer"
             /\ l.actor.answer # NoAnswer => l.actor.sig = "have-local-offer"
    <2>1. l \in Link /\ Sound(l) /\ l.num <= MaxActors
        BY <1>1 DEF Shape
    <2>2. l.num \in 0..MaxActors /\ l.neg \in 0..l.num
        BY <2>1, NegotiationAssumption DEF Link, Sound
    <2>3. /\ l.attached \in 0..MaxTracks \cup {None}
          /\ l.attached # None => l.neg # 0
          /\ l.queued => l.neg # 0
        BY <2>1, NegotiationAssumption DEF Link, Sound
    <2>4. /\ l.queued \in BOOLEAN /\ l.skipped \in BOOLEAN
          /\ l.actor.role \in {"none", "offerer", "answerer"}
          /\ l.actor.sig \in {"stable", "have-local-offer", "have-remote-offer"}
        BY <2>1 DEF Link, Actor
    <2>5. /\ l.actor.sig = "have-local-offer" => l.actor.role = "offerer"
          /\ l.actor.sig = "have-remote-offer" => l.actor.role = "answerer"
          /\ l.actor.answer # NoAnswer => l.actor.sig = "have-local-offer"
        BY <2>1 DEF Sound
    <2>6. QED
        BY <2>2, <2>3, <2>4, <2>5
<1>2. QED
    BY <1>1 DEF TypeOK, Shape

\* A negotiation in flight belongs to an actor there has been, a second one is queued
\* only behind a first, and only an offerer waits for an answer: whatever the users do.
THEOREM PeerTypes == Spec => []TypeOK
<1>1. Init => Shape
    BY ShapeInit
<1>2. Shape /\ [Next]_vars => Shape'
    BY ShapeNext
<1>3. Shape => TypeOK
    BY ShapeTypes
<1>4. QED
    BY <1>1, <1>2, <1>3, PTL DEF Spec

LEMMA NegotiationInit == Init => NegotiationInv
<1> SUFFICES ASSUME Init PROVE NegotiationInv
    OBVIOUS
<1>1. Base
    BY BaseInit
<1>2. ~BothInCall
    BY DEF Init, BothInCall, Parts
<1>3. QED
    BY <1>1, <1>2, UnreachedInit DEF NegotiationInv, Pair

LEMMA NegotiationNext ==
    ASSUME ~Overlap, ~Hasty, NegotiationInv, [Next]_vars
    PROVE  NegotiationInv'
<1>1. Base /\ Unreached
    BY DEF NegotiationInv
<1>2. CASE UNCHANGED vars
    <2>1. Base' /\ Unreached' /\ Pair'
        BY <1>2 DEF NegotiationInv, vars, Base, Shape, Ids, Boxes, Links, Pair, PairAt, BothInCall,
                   Unreached, NoneHeld
    <2>2. QED
        BY <2>1 DEF NegotiationInv
<1>3. ASSUME NEW p \in Parts, NEW q \in PeerIds,
             \/ AttachLocalTracks(p, q) \/ MakeOffer(p, q) \/ AbandonOffer(p, q) \/ SkipOffer(p, q)
             \/ MakeAnswer(p, q) \/ ApplyAnswer(p, q)
      PROVE  Base' /\ Unreached' /\ Pair'
    <2>1. AttachLocalTracks(p, q) => Base' /\ Pair'
        BY <1>1, BaseAttach, PairAttach
    <2>2. MakeOffer(p, q) => Base' /\ Pair'
        BY <1>1, BaseMakeOffer, PairMakeOffer
    <2>3. AbandonOffer(p, q) => Base' /\ Pair'
        BY <1>1, BaseAbandon, PairAbandon
    <2>4. SkipOffer(p, q) => Base' /\ Pair'
        BY <1>1, BaseSkip, PairSkip
    <2>5. MakeAnswer(p, q) => Base' /\ Pair'
        BY <1>1, BaseMakeAnswer, PairMakeAnswer
    <2>6. ApplyAnswer(p, q) => Base' /\ Pair'
        BY <1>1, BaseApplyAnswer, PairApplyAnswer
    <2>7. Unreached'
        BY <1>1, <1>3, UnreachedNegotiates
    <2>8. QED
        BY <1>3, <2>1, <2>2, <2>3, <2>4, <2>5, <2>6, <2>7
<1>4. ASSUME NEW p \in Parts,
             \/ HandleParticipants(p) \/ HandlePeerEvent(p)
             \/ HandleOffer(p) \/ HandleAnswer(p) \/ HandleIce(p)
      PROVE  Base' /\ Unreached' /\ Pair'
    <2>1. HandleParticipants(p) => Base' /\ Pair'
        BY <1>1, BaseHandleParticipants, PairHandleParticipants
    <2>2. HandlePeerEvent(p) => Base' /\ Pair'
        BY <1>1, BaseHandlePeerEvent, PairHandlePeerEvent
    <2>3. HandleOffer(p) => Base' /\ Pair'
        BY <1>1, BaseHandleOffer, PairHandleOffer
    <2>4. HandleAnswer(p) => Base' /\ Pair'
        BY <1>1, BaseHandleAnswer, PairHandleAnswer
    <2>5. HandleIce(p) => Base' /\ Pair'
        BY <1>1, BaseHandleIce, PairHandleIce
    <2>6. Unreached'
        BY <1>1, <1>4, UnreachedHears
    <2>7. QED
        BY <1>4, <2>1, <2>2, <2>3, <2>4, <2>5, <2>6
<1>5. ASSUME NEW p \in Parts, Join(p) \/ Leave(p) \/ ChangeTracks(p) PROVE Base' /\ Unreached' /\ Pair'
    <2>1. Join(p) => Base' /\ Pair'
        BY <1>1, BaseJoin, PairJoin
    <2>2. Leave(p) => Base' /\ Pair'
        BY <1>1, BaseLeave, PairLeave
    <2>3. ChangeTracks(p) => Base' /\ Pair'
        BY <1>1, BaseChangeTracks, PairChangeTracks
    <2>4. Unreached'
        BY <1>1, <1>5, UnreachedUsers
    <2>5. QED
        BY <1>5, <2>1, <2>2, <2>3, <2>4
<1>6. QED
    BY <1>2, <1>3, <1>4, <1>5 DEF Next, NegotiationInv

\* What the invariant says of a quiet call: each end is bound to the other.
Bonded(p) ==
    LET actor == End(p).actor
    IN  /\ actor.role # "none" /\ actor.sig = "stable" /\ actor.remote = PcOf(Other(p))
        /\ actor.remote \in {NoPc} \cup actor.cands
        /\ End(p).skipped \/ End(Other(p)).actor.got = tracks[p]

LEMMA QuietBonds ==
    ASSUME NegotiationInv, Quiet, BothInCall, NEW p \in Parts
    PROVE  Bonded(p)
<1>1. PICK t, o, i, j : Facing(t, o, i, j)
    BY DEF Facing
<1>2. /\ t \in Parts /\ o \in Parts /\ o = Other(t) /\ t = Other(o)
      /\ i \in PeerIds /\ j \in PeerIds /\ i = call[t] /\ j = call[o]
      /\ link[t][j] \in Link /\ Sound(link[t][j]) /\ link[o][i] \in Link /\ Sound(link[o][i])
      /\ PairOK(link[t][j], link[o][i], inbox[t], inbox[o], i, j, tracks[t], tracks[o],
                self[t], self[o])
    BY <1>1, PairFacts
<1> DEFINE L == link[t][j]
           R == link[o][i]
<1>3. /\ inbox[t] = <<>> /\ inbox[o] = <<>>
      /\ L.neg = 0 /\ R.offers = <<>> /\ ~Answering(L)
    BY <1>2 DEF Quiet, Idle, Answering
<1>4. /\ End(t) = L /\ End(o) = R
      /\ PcOf(t) = <<j, L.num>> /\ PcOf(o) = <<i, R.num>>
    BY <1>2 DEF End, PcOf
<1> HIDE DEF L, R
<1>5. self[t] # None
    BY <1>2, <1>3, Empty DEF PairOK, Coming, L, R
<1>6. /\ Offering(L, R, <<>>, <<>>, i, j, tracks[t], tracks[o])
      /\ R.actor.sig # "have-remote-offer"
    BY <1>2, <1>3, <1>5 DEF PairOK, Passive, L, R
<1>7. /\ L.actor.role = "offerer" /\ R.actor.role = "answerer"
      /\ L.actor.sig = "stable" /\ R.actor.sig = "stable"
      /\ L.actor.remote = <<i, R.num>> /\ R.actor.remote = <<j, L.num>>
      /\ L.actor.remote \in L.actor.cands
      /\ R.actor.remote # NoPc => R.actor.remote \in R.actor.cands
      /\ L.actor.got = tracks[o]
      /\ ~L.skipped => R.actor.got = tracks[t]
    BY <1>2, <1>3, <1>6, QuietEnds DEF L, R
<1>8. Bonded(t)
    BY <1>2, <1>4, <1>7 DEF Bonded
<1>9. Bonded(o)
    BY <1>2, <1>4, <1>7 DEF Bonded
<1>10. QED
    BY <1>2, <1>8, <1>9, Two

LEMMA AlwaysNegotiation ==
    ASSUME ~Overlap, ~Hasty
    PROVE  Spec => []NegotiationInv
<1>1. Init => NegotiationInv
    BY NegotiationInit
<1>2. NegotiationInv /\ [Next]_vars => NegotiationInv'
    BY NegotiationNext
<1>3. QED
    BY <1>1, <1>2, PTL DEF Spec

\* While users act only when the exchange that the other began is over, and leave
\* only when their own is and no candidate is on its way to them, a call in which
\* nothing is under way has its two ends bound to each other, however many joins,
\* departures and renegotiations went before: no role conflict between negotiatePeer
\* and handleOffer survives, and no refused candidate keeps an answer from being sent.
THEOREM ConnectedEnds ==
    ASSUME ~Overlap, ~Hasty
    PROVE  Spec => []ConnectedWhenQuiet
<1>1. NegotiationInv => ConnectedWhenQuiet
    BY QuietBonds DEF ConnectedWhenQuiet, Bonded
<1>2. QED
    BY <1>1, AlwaysNegotiation, PTL

\* ... no candidate is lost: one that comes before its description is applied waits
\* in pendingIceByPeer and is added with it, and none of an older connection waits
\* before it, which the browser would refuse and the flush would end at.
THEOREM CandidatesAdded ==
    ASSUME ~Overlap, ~Hasty
    PROVE  Spec => []CandidatesArrive
<1>1. NegotiationInv => CandidatesArrive
    BY QuietBonds DEF CandidatesArrive, Bonded
<1>2. QED
    BY <1>1, AlwaysNegotiation, PTL

\* ... and the tracks each has are those the other was told of, unless the last
\* negotiation of them was skipped: a change during a negotiation is queued and
\* offered again (negotiatePeer's loop), one made by the answerer turns the roles.
THEOREM TracksTold ==
    ASSUME ~Overlap, ~Hasty
    PROVE  Spec => []TracksArrive
<1>1. NegotiationInv => TracksArrive
    BY QuietBonds DEF TracksArrive, Bonded
<1>2. QED
    BY <1>1, AlwaysNegotiation, PTL
=============================================================================
