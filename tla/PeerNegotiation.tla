-------------------------- MODULE PeerNegotiation --------------------------
(***************************************************************************)
(* RtcCallService and the connection actors of two participants of a call: *)
(* who offers, who answers, and which browser connection the two ends find *)
(* themselves with.  Pairs of participants do not share state, so two are  *)
(* enough.                                                                 *)
(*                                                                         *)
(* A participant keeps, for every peer id it hears of, at most one actor;  *)
(* an actor has a role for life, so that negotiating in the other          *)
(* direction closes it and creates another.  negotiatePeer and handleOffer *)
(* await the browser: what they captured is in `neg` and `offers`, and the *)
(* actor they captured may be closed when they go on.                      *)
(*                                                                         *)
(* The server is CallServer: it forwards a signal if both peers are in the *)
(* call, and reports joins and leaves.  A request is handled when it is    *)
(* sent; a delay on the way to the server commutes with everything else.   *)
(* RTCPeerConnection is external: a description can be applied in the      *)
(* signalling states the standard allows, and a candidate if it belongs to *)
(* the connection that was described; otherwise the call throws, and the   *)
(* handler that awaited it goes no further.                                *)
(*                                                                         *)
(* A definition Op_Variant is a fault: what Op would be with a plausible   *)
(* bug.                                                                    *)
(***************************************************************************)
EXTENDS Naturals, Sequences, FiniteSets

CONSTANTS
    Overlap,    \* may a user act while an exchange begun by the other goes on
    Hasty,      \* may a user leave while a negotiation of his own is in flight,
                \* or candidates are on their way to him
    MaxPeers,   \* bound on the peer ids handed out
    MaxActors,  \* bound on the actors one participant creates for one peer
    MaxTracks,  \* bound on the changes of a participant's local tracks in a call
    None

Parts == {"a", "b"}
Other(p) == IF p = "a" THEN "b" ELSE "a"
PeerIds == 1..MaxPeers

ASSUME NegotiationAssumption ==
    /\ {Overlap, Hasty} \subseteq BOOLEAN
    /\ {MaxPeers, MaxActors, MaxTracks} \subseteq Nat
    /\ None \notin Nat

VARIABLES
    call,       \* server: the peer id of a participant that is in the call
    issued,     \* server: number of peer ids handed out
    self,       \* state.selfPeerId
    link,       \* link[p][q]: what p keeps about peer q
    tracks,     \* version of p's set of local tracks, 0 for none
    inbox,      \* messages on their way from the server to p
    turn        \* history: the participant whose user acted last

vars == <<call, issued, self, link, tracks, inbox, turn>>

\* A browser connection is named by the peer id it leads to and its number.
NoPc == <<0, 0>>

\* The fields of peerConnections' entry (role to answer, the answer that is being
\* applied), of the in-flight sets (neg, queued), of a negotiatePeerOnce and the
\* handleOffers that await, and of pendingIceByPeer.
NoAnswer == [pc |-> NoPc, tracks |-> 0]
NoActor == [role |-> "none", sig |-> "stable", remote |-> NoPc, cands |-> {}, got |-> 0,
            answer |-> NoAnswer]
NoLink == [num |-> 0, actor |-> NoActor, neg |-> 0, attached |-> None, queued |-> FALSE,
           skipped |-> FALSE, offers |-> <<>>, pending |-> <<>>]

TypeOK ==
    /\ call \in [Parts -> PeerIds \cup {None}] /\ self \in [Parts -> PeerIds \cup {None}]
    /\ issued \in 0..MaxPeers
    /\ tracks \in [Parts -> 0..MaxTracks]
    /\ \A p \in Parts, q \in PeerIds :
          LET l == link[p][q]
          IN  /\ l.num \in 0..MaxActors /\ l.neg \in 0..l.num
              /\ l.queued \in BOOLEAN /\ l.skipped \in BOOLEAN
              /\ l.queued => l.neg # 0
              /\ l.attached \in 0..MaxTracks \cup {None} /\ (l.attached # None => l.neg # 0)
              /\ l.actor.role \in {"none", "offerer", "answerer"}
              /\ l.actor.sig \in {"stable", "have-local-offer", "have-remote-offer"}
              /\ l.actor.sig = "have-local-offer" => l.actor.role = "offerer"
              /\ l.actor.sig = "have-remote-offer" => l.actor.role = "answerer"
              /\ l.actor.answer # NoAnswer => l.actor.sig = "have-local-offer"

Init ==
    /\ call = [p \in Parts |-> None] /\ issued = 0
    /\ self = [p \in Parts |-> None]
    /\ link = [p \in Parts |-> [q \in PeerIds |-> NoLink]]
    /\ tracks = [p \in Parts |-> 0]
    /\ inbox = [p \in Parts |-> <<>>]
    /\ turn = None

-----------------------------------------------------------------------------
(***************************************************************************)
(* Messages; p sends to peer q, which is the other participant or nobody.  *)
(***************************************************************************)
Routed(p, q) == self[p] # None /\ self[p] = call[p] /\ call[Other(p)] = q

Send(p, q, ms) ==
    IF Routed(p, q) THEN [inbox EXCEPT ![Other(p)] = @ \o ms] ELSE inbox

Arrived(p, t) == inbox[p] # <<>> /\ Head(inbox[p]).t = t
Taken(p)      == inbox' = [inbox EXCEPT ![p] = Tail(@)]

\* A first description is followed by the connection's candidates.
WithIce(l, p, pc, m) ==
    IF l.actor.remote = NoPc THEN <<m, [t |-> "rtc.ice_event", from |-> self[p], pc |-> pc]>> ELSE <<m>>

-----------------------------------------------------------------------------
(***************************************************************************)
(* Actors.                                                                 *)
(***************************************************************************)
ClosePeer(l) == [l EXCEPT !.actor = NoActor]

\* createPeerActor: an actor of the other role is closed and replaced.
CreatePeerActor_AnyRole(l, role) ==
    IF l.actor.role # "none" THEN l
    ELSE [l EXCEPT !.num = @ + 1, !.actor = [NoActor EXCEPT !.role = role]]
CreatePeerActor(l, role) ==
    IF l.actor.role = role THEN l
    ELSE [l EXCEPT !.num = @ + 1, !.actor = [NoActor EXCEPT !.role = role]]

\* One turn of negotiatePeer's loop, up to its first await.
BeginNegotiation(l) ==
    LET m == CreatePeerActor(l, "offerer")
    IN  [m EXCEPT !.neg = m.num, !.attached = None, !.queued = FALSE]

NegotiatePeer_NoQueue(l) == IF l.neg # 0 THEN l ELSE BeginNegotiation(l)
NegotiatePeer(l)         == IF l.neg # 0 THEN [l EXCEPT !.queued = TRUE] ELSE BeginNegotiation(l)

\* The loop's condition, once a turn is over.
FinishNegotiation(l) ==
    IF l.queued THEN BeginNegotiation(l) ELSE [l EXCEPT !.neg = 0, !.attached = None]

\* The candidates that waited for a remote description are added in turn, up to
\* the first that is refused; only if none is are they forgotten.
Refuses(l, c) == c # l.actor.remote
Waits(l)      == 1..Len(l.pending)
Refused(l)    == \E x \in Waits(l) : Refuses(l, l.pending[x])

FlushPending_Forgotten(l) == l
FlushPending(l) ==
    LET added == {x \in Waits(l) : \A y \in 1..x : ~Refuses(l, l.pending[y])}
    IN  [l EXCEPT !.actor.cands = @ \cup {l.pending[x] : x \in added},
                  !.pending = IF Refused(l) THEN @ ELSE <<>>]

\* What applying a description does to an actor.
CreateOffer(l)     == [l EXCEPT !.actor.sig = "have-local-offer"]
CreateAnswer(l)    == [l EXCEPT !.actor.sig = "stable"]
SetRemoteAnswer(l) ==
    [l EXCEPT !.actor.sig = "stable", !.actor.remote = l.actor.answer.pc,
              !.actor.got = l.actor.answer.tracks, !.actor.answer = NoAnswer]
SetRemoteOffer(l, pc, theirs) ==
    [l EXCEPT !.actor.sig = "have-remote-offer", !.actor.remote = pc, !.actor.got = theirs]

Keep(p, q, l) == l.num <= MaxActors /\ link' = [link EXCEPT ![p][q] = l]

-----------------------------------------------------------------------------
(***************************************************************************)
(* negotiatePeerOnce, after its first await: once the connection is stable *)
(* the local tracks are attached, and after another await the offer is     *)
(* sent.  It gives up when the connection it captured has been closed      *)
(* meanwhile, and when it does not become stable in time.                  *)
(***************************************************************************)
Captured(l) == l.actor.role = "offerer" /\ l.neg = l.num

AttachLocalTracks(p, q) ==
    LET l == link[p][q]
    IN  /\ l.neg # 0 /\ l.attached = None /\ Captured(l) /\ l.actor.sig = "stable"
        /\ Keep(p, q, [l EXCEPT !.attached = tracks[p]])
        /\ UNCHANGED <<call, issued, self, tracks, inbox, turn>>

MakeOffer(p, q) ==
    LET l == link[p][q]
        pc == <<q, l.num>>
        m == [t |-> "rtc.offer_event", from |-> self[p], pc |-> pc, tracks |-> l.attached]
    IN  /\ l.neg # 0 /\ l.attached # None /\ Captured(l)
        /\ inbox' = Send(p, q, WithIce(l, p, pc, m))
        /\ Keep(p, q, FinishNegotiation([CreateOffer(l) EXCEPT !.skipped = FALSE]))
        /\ UNCHANGED <<call, issued, self, tracks, turn>>

AbandonOffer(p, q) ==
    LET l == link[p][q]
    IN  /\ l.neg # 0 /\ ~Captured(l)
        /\ Keep(p, q, FinishNegotiation(l))
        /\ UNCHANGED <<call, issued, self, tracks, inbox, turn>>

SkipOffer(p, q) ==
    LET l == link[p][q]
    IN  /\ l.neg # 0 /\ l.attached = None /\ Captured(l) /\ l.actor.sig # "stable"
        /\ Keep(p, q, FinishNegotiation([l EXCEPT !.skipped = TRUE]))
        /\ UNCHANGED <<call, issued, self, tracks, inbox, turn>>

-----------------------------------------------------------------------------
(***************************************************************************)
(* Handlers.                                                               *)
(***************************************************************************)
\* rtc.participants: ensurePeers offers to everyone who is there already.
HandleParticipants(p) ==
    LET m == Head(inbox[p]) IN
    /\ Arrived(p, "rtc.participants")
    /\ self' = [self EXCEPT ![p] = m.self]
    /\ link' = [link EXCEPT ![p] = [q \in PeerIds |->
                    IF q \in m.others THEN NegotiatePeer(CreatePeerActor(@[q], "offerer")) ELSE @[q]]]
    /\ \A q \in m.others : link'[p][q].num <= MaxActors
    /\ Taken(p)
    /\ UNCHANGED <<call, issued, tracks, turn>>

HandlePeerEvent(p) ==
    LET m == Head(inbox[p]) IN
    /\ Arrived(p, "rtc.peer_event")
    /\ Keep(p, m.peer, IF m.kind = "join" THEN CreatePeerActor(link[p][m.peer], "answerer")
                                          ELSE ClosePeer(link[p][m.peer]))
    /\ Taken(p)
    /\ UNCHANGED <<call, issued, self, tracks, turn>>

\* handleOffer up to its first await, which takes the role of the answerer ...
HandleOffer(p) ==
    LET m == Head(inbox[p])
        l == CreatePeerActor(link[p][m.from], "answerer")
    IN  /\ Arrived(p, "rtc.offer_event")
        /\ Keep(p, m.from, [l EXCEPT !.offers = Append(@, [num |-> l.num, pc |-> m.pc, tracks |-> m.tracks])])
        /\ Taken(p)
        /\ UNCHANGED <<call, issued, self, tracks, turn>>

\* ... and the rest of it: the answer, unless the connection was closed or a
\* candidate that waited for the offer is refused.
MakeAnswer(p, q) ==
    LET l == link[p][q]
        o == Head(l.offers)
        rest == [l EXCEPT !.offers = Tail(@)]
        told == SetRemoteOffer(rest, o.pc, o.tracks)
        pc == <<q, l.num>>
        m == [t |-> "rtc.answer_event", from |-> self[p], pc |-> pc, tracks |-> tracks[p]]
    IN  /\ l.offers # <<>>
        /\ \/ /\ l.actor.role = "answerer" /\ l.num = o.num
              /\ \/ /\ Refused(told)
                    /\ Keep(p, q, FlushPending(told))
                    /\ UNCHANGED inbox
                 \/ /\ ~Refused(told)
                    /\ Keep(p, q, CreateAnswer(FlushPending(told)))
                    /\ inbox' = Send(p, q, WithIce(l, p, pc, m))
           \/ /\ ~(l.actor.role = "answerer" /\ l.num = o.num)
              /\ Keep(p, q, rest)
              /\ UNCHANGED inbox
        /\ UNCHANGED <<call, issued, self, tracks, turn>>

\* handleAnswer: only an offerer that waits for an answer takes one.  Closing the
\* connection ends what it is doing with it.
TakesAnswer(l) ==
    l.actor.role = "offerer" /\ l.actor.sig = "have-local-offer" /\ l.actor.answer = NoAnswer

HandleAnswer(p) ==
    LET m == Head(inbox[p])
        l == link[p][m.from]
    IN  /\ Arrived(p, "rtc.answer_event")
        /\ Keep(p, m.from,
                IF TakesAnswer(l) THEN [l EXCEPT !.actor.answer = [pc |-> m.pc, tracks |-> m.tracks]]
                                  ELSE l)
        /\ Taken(p)
        /\ UNCHANGED <<call, issued, self, tracks, turn>>

\* ... and the rest of it, once the answer is applied.
ApplyAnswer(p, q) ==
    LET l == link[p][q]
    IN  /\ l.actor.answer # NoAnswer
        /\ Keep(p, q, FlushPending(SetRemoteAnswer(l)))
        /\ UNCHANGED <<call, issued, self, tracks, inbox, turn>>

\* handleIce: candidates wait for a remote description; one of another connection
\* than the one described is refused.
TakeCandidate(l, c) ==
    IF l.actor.remote = NoPc THEN [l EXCEPT !.pending = Append(@, c)]
    ELSE IF Refuses(l, c) THEN l
    ELSE [l EXCEPT !.actor.cands = @ \cup {c}]

HandleIce(p) ==
    LET m == Head(inbox[p])
    IN  /\ Arrived(p, "rtc.ice_event")
        /\ Keep(p, m.from, TakeCandidate(link[p][m.from], m.pc))
        /\ Taken(p)
        /\ UNCHANGED <<call, issued, self, tracks, turn>>

-----------------------------------------------------------------------------
(***************************************************************************)
(* The users.                                                              *)
(***************************************************************************)
Idle(p) ==
    /\ inbox[p] = <<>>
    /\ \A q \in PeerIds :
          link[p][q].neg = 0 /\ link[p][q].offers = <<>> /\ link[p][q].actor.answer = NoAnswer
Quiet   == \A p \in Parts : Idle(p)
MayAct(p) == Overlap \/ Quiet \/ turn = p

\* rtc.join, answered with rtc.participants and announced to the other.
Join(p) ==
    LET there == {call[Other(p)]} \ {None} IN
    /\ MayAct(p) /\ call[p] = None /\ issued < MaxPeers
    /\ issued' = issued + 1
    /\ call' = [call EXCEPT ![p] = issued + 1]
    /\ inbox' = [inbox EXCEPT
           ![p] = Append(@, [t |-> "rtc.participants", self |-> issued + 1, others |-> there]),
           ![Other(p)] = IF there = {} THEN @
                         ELSE Append(@, [t |-> "rtc.peer_event", kind |-> "join", peer |-> issued + 1])]
    /\ turn' = p
    /\ UNCHANGED <<self, link, tracks>>

\* leaveCurrentVoiceCall: rtc.leave and teardownCall, which closes every
\* connection, drops the waiting candidates and stops the local tracks; what
\* is under way goes on.
Settled(p) ==
    /\ \A q \in PeerIds : link[p][q].neg = 0
    /\ \A x \in 1..Len(inbox[p]) : inbox[p][x].t # "rtc.ice_event"

Leave(p) ==
    /\ self[p] # None
    /\ Hasty \/ Settled(p)
    /\ call' = [call EXCEPT ![p] = None]
    /\ inbox' = [inbox EXCEPT ![Other(p)] =
           IF call[Other(p)] = None THEN @
           ELSE Append(@, [t |-> "rtc.peer_event", kind |-> "leave", peer |-> self[p]])]
    /\ self' = [self EXCEPT ![p] = None]
    /\ link' = [link EXCEPT ![p] = [q \in PeerIds |-> [ClosePeer(@[q]) EXCEPT !.pending = <<>>]]]
    /\ turn' = p
    /\ tracks' = [tracks EXCEPT ![p] = 0]
    /\ UNCHANGED issued

\* startAudio, stopAudio, startVideo, ...: every connection is negotiated.  The
\* loop runs over the map it changes: an actor that is replaced is put at the
\* end and met again, which queues a second negotiation.
Renegotiate(l) ==
    IF l.actor.role = "none" THEN l
    ELSE LET m == NegotiatePeer(l) IN IF m.num # l.num THEN NegotiatePeer(m) ELSE m

ChangeTracks(p) ==
    /\ MayAct(p) /\ self[p] # None /\ tracks[p] < MaxTracks
    /\ tracks' = [tracks EXCEPT ![p] = @ + 1]
    /\ link' = [link EXCEPT ![p] = [q \in PeerIds |-> Renegotiate(@[q])]]
    /\ \A q \in PeerIds : link'[p][q].num <= MaxActors
    /\ turn' = p
    /\ UNCHANGED <<call, issued, self, inbox>>

Next ==
    \/ \E p \in Parts :
          \/ HandleParticipants(p) \/ HandlePeerEvent(p)
          \/ HandleOffer(p) \/ HandleAnswer(p) \/ HandleIce(p)
          \/ Join(p) \/ Leave(p) \/ ChangeTracks(p)
    \/ \E p \in Parts, q \in PeerIds :
          \/ AttachLocalTracks(p, q) \/ MakeOffer(p, q) \/ AbandonOffer(p, q) \/ SkipOffer(p, q)
          \/ MakeAnswer(p, q) \/ ApplyAnswer(p, q)

Spec == Init /\ [][Next]_vars

-----------------------------------------------------------------------------
BothInCall == \A p \in Parts : call[p] # None

\* The end that p has of its connection to the other participant.
End(p) == link[p][call[Other(p)]]
PcOf(p) == <<call[Other(p)], End(p).num>>

\* "Each participant establishes peer connections to each other participant in
\* the call" (DESIGN): when nothing is under way, the two ends in the call are
\* the two ends of one connection.
ConnectedWhenQuiet ==
    Quiet /\ BothInCall =>
        \A p \in Parts :
            LET actor == End(p).actor
            IN  actor.role # "none" /\ actor.sig = "stable" /\ actor.remote = PcOf(Other(p))

\* ... and each has got the other's candidates, early ones included.
CandidatesArrive ==
    Quiet /\ BothInCall =>
        \A p \in Parts : End(p).actor.remote \in {NoPc} \cup End(p).actor.cands

\* "Adding tracks triggers renegotiation offer/answer to affected peers"
\* (DESIGN): the other end has the present tracks, unless the last negotiation
\* of them was skipped because the one before took too long.
TracksArrive ==
    Quiet /\ BothInCall =>
        \A p \in Parts : End(p).skipped \/ End(Other(p)).actor.got = tracks[p]
=============================================================================
