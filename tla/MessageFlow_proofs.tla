------------------------ MODULE MessageFlow_proofs -------------------------
(***************************************************************************)
(* Proofs about MessageFlow, for any clients, channels, page size, size of *)
(* the cache and bounds: views stay in order, a client that was sent a     *)
(* whole channel misses nothing, and what is shown is stored.              *)
(*                                                                         *)
(* The properties speak of what a client will show once the queue to it is *)
(* drained, Shown(v, q, ch).  IInv says of each client and channel what of *)
(* view, cache and queue is enough to know that it will be in order: every *)
(* list and every event on its way is sound, and an event carries a number *)
(* above all that the view, the cache and the queue before it hold.        *)
(***************************************************************************)
EXTENDS MessageFlow, TLAPS, WellFoundedInduction

IsEvent(m, ch) == m.t = "msg.event" /\ m.ch = ch
IsList(m, ch)  == m.t = "msg.list_result" /\ m.ch = ch

\* The messages of ch that one answer of the server carries.
Brings(m, ch) ==
    CASE IsList(m, ch)  -> m.msgs
      [] IsEvent(m, ch) -> <<m.msg>>
      [] OTHER          -> <<>>

\* s is in order and holds committed messages only.
Good(s, n) == s \in Seq(Nat) /\ Increasing(s) /\ \A i \in 1..Len(s) : s[i] \in 1..n

\* Every event of ch behind place k of the queue is above all of s.
Precedes(s, q, k, ch) ==
    \A j \in (k + 1)..Len(q) : IsEvent(q[j], ch) => \A i \in 1..Len(s) : s[i] < q[j].msg

SoundQueue(q, ch, n) ==
    \A k \in 1..Len(q) : Good(Brings(q[k], ch), n) /\ Precedes(Brings(q[k], ch), q, k, ch)
SoundStart(v, q, ch, n) == Good(v, n) /\ Precedes(v, q, 0, ch)

\* What holds of a client's queue, view, cache and history flag for one channel
\* with n committed messages, those of ann announced.
Sound(q, v, w, cov, ch, n, ann) ==
    /\ SoundQueue(q, ch, n)
    /\ SoundStart(v, q, ch, n)
    /\ SoundStart(w, q, ch, n)
    /\ cov => ann \subseteq ToSet(Shown(v, q, ch))
\* A socket that is closed carries nothing, and hello is the first request on an
\* open one; only a member that said hello can have been sent the whole channel.
ClosedIsEmpty == \A c \in Clients \ online : toServer[c] = <<>> /\ toClient[c] = <<>>
HelloFirst    == \A c \in online \ authed : toServer[c] # <<>> /\ Head(toServer[c]).t = "hello"
CoveredHears  ==
    \A c \in Clients, ch \in Channels : covered[c][ch] => c \in member[ch] \cap authed

Stored == \A ch \in Channels : announced[ch] \subseteq indexed[ch] \cap 1..last[ch]

SoundAt(c, ch) ==
    Sound(toClient[c], view[c][ch], cache[c][ch], covered[c][ch], ch, last[ch], announced[ch])

Links == ClosedIsEmpty /\ HelloFirst /\ CoveredHears /\ Stored

IInv == TypeOK /\ Links /\ \A c \in Clients, ch \in Channels : SoundAt(c, ch)

-----------------------------------------------------------------------------
(***************************************************************************)
(* Induction on the natural numbers, stated of a set; from the library's   *)
(* theorem that < on Nat has minimal elements.                             *)
(***************************************************************************)
LEMMA Least == \A T \in SUBSET Nat : T # {} => \E x \in T : \A y \in T : ~(y < x)
<1> DEFINE R == {s \in Nat \X Nat : s[1] < s[2]}
<1>1. IsWellFoundedOn(R, Nat)
  BY NatLessThanWellFounded DEF OpToRel
<1>2. \A x, y \in Nat : y < x => <<y, x>> \in R
  OBVIOUS
<1> HIDE DEF R
<1>3. SUFFICES ASSUME NEW T \in SUBSET Nat, T # {}
               PROVE  \E x \in T : \A y \in T : ~(y < x)
  OBVIOUS
<1>4. \E x \in T : \A y \in T : ~(<<y, x>> \in R)
  BY <1>1, <1>3, WFMin
<1> QED
  BY <1>2, <1>4

LEMMA NatSet == \A S \in SUBSET Nat : 0 \in S /\ (\A n \in S : n + 1 \in S) => S = Nat
<1> SUFFICES ASSUME NEW S \in SUBSET Nat, 0 \in S, \A n \in S : n + 1 \in S
             PROVE  S = Nat
  OBVIOUS
<1> DEFINE T == Nat \ S
<1>1. CASE T # {}
  <2>1. PICK x \in T : \A y \in T : ~(y < x)
    <3>1. T \in SUBSET Nat
      OBVIOUS
    <3> QED
      BY <1>1, <3>1, Least
  <2>2. x # 0 /\ x \in Nat
    OBVIOUS
  <2>3. x - 1 \in Nat /\ x - 1 < x /\ (x - 1) + 1 = x
    BY <2>2
  <2>4. x - 1 \in S
    BY <2>1, <2>3
  <2> QED
    BY <2>3, <2>4
<1> QED
  BY <1>1

-----------------------------------------------------------------------------
(***************************************************************************)
(* Shown, the view after a queue: its recursive definition has a solution, *)
(* only one, and so Shown can be computed from either end of the queue.    *)
(***************************************************************************)
IsRun(s, v, q, ch) ==
    s = [i \in 0..Len(q) |-> IF i = 0 THEN v ELSE Applied(s[i - 1], q[i], ch)]

Follows(s, v, q, ch) ==
    s[0] = v /\ \A i \in 1..Len(q) : s[i] = Applied(s[i - 1], q[i], ch)

LEMMA RunExists ==
  ASSUME NEW q \in Seq(Answers), NEW v, NEW ch
  PROVE  \E s : IsRun(s, v, q, ch)
<1> DEFINE Run(s, n) == s = [i \in 0..n |-> IF i = 0 THEN v ELSE Applied(s[i - 1], q[i], ch)]
           S == {n \in Nat : \E s : Run(s, n)}
<1>1. 0 \in S
  <2> DEFINE s == [i \in 0..0 |-> v]
  <2>1. Run(s, 0)
    OBVIOUS
  <2> QED
    BY <2>1
<1>2. ASSUME NEW n \in S
      PROVE  n + 1 \in S
  <2>1. n \in Nat /\ \E s : Run(s, n)
    OBVIOUS
  <2>2. PICK s : Run(s, n)
    BY <2>1
  <2>3. \A i \in 0..n : s[i] = IF i = 0 THEN v ELSE Applied(s[i - 1], q[i], ch)
    BY <2>2
  <2> DEFINE t == [i \in 0..(n + 1) |-> IF i = n + 1 THEN Applied(s[n], q[n + 1], ch) ELSE s[i]]
             u == [i \in 0..(n + 1) |-> IF i = 0 THEN v ELSE Applied(t[i - 1], q[i], ch)]
  <2>4. ASSUME NEW i \in 0..(n + 1)
        PROVE  t[i] = u[i]
    <3>1. CASE i = n + 1
      <4>1. t[i] = Applied(s[n], q[n + 1], ch)
        BY <3>1
      <4>2. t[n] = s[n] /\ i # 0 /\ i - 1 = n
        BY <2>1, <3>1
      <4> QED
        BY <3>1, <4>1, <4>2
    <3>2. CASE i # n + 1 /\ i # 0
      <4>1. i \in 0..n /\ i - 1 \in 0..(n + 1) /\ i - 1 # n + 1
        BY <2>1, <3>2
      <4>2. t[i] = s[i] /\ t[i - 1] = s[i - 1]
        BY <3>2, <4>1
      <4> QED
        BY <2>3, <3>2, <4>1, <4>2
    <3>3. CASE i = 0
      <4>1. 0 \in 0..n /\ 0 # n + 1
        BY <2>1
      <4>2. t[0] = s[0]
        BY <4>1
      <4> QED
        BY <2>3, <3>3, <4>1, <4>2
    <3> QED
      BY <3>1, <3>2, <3>3
  <2>5. t = u
    BY <2>4
  <2>6. Run(t, n + 1)
    BY <2>5
  <2> HIDE DEF t, u
  <2> QED
    BY <2>1, <2>6
<1>3. S = Nat
  <2> HIDE DEF S
  <2>1. S \in SUBSET Nat
    BY DEF S
  <2> QED
    BY <1>1, <1>2, <2>1, NatSet
<1>4. Len(q) \in S
  BY <1>3
<1> QED
  BY <1>4 DEF IsRun

LEMMA ShownRun ==
  ASSUME NEW q \in Seq(Answers), NEW v, NEW ch
  PROVE  \E s : Follows(s, v, q, ch) /\ Shown(v, q, ch) = s[Len(q)]
<1> DEFINE s == CHOOSE s : IsRun(s, v, q, ch)
<1>1. IsRun(s, v, q, ch)
  BY RunExists
<1>2. Shown(v, q, ch) = s[Len(q)]
  BY DEF Shown, IsRun
<1> HIDE DEF s
<1>3. \A i \in 0..Len(q) : s[i] = IF i = 0 THEN v ELSE Applied(s[i - 1], q[i], ch)
  BY <1>1 DEF IsRun
<1>4. Follows(s, v, q, ch)
  BY <1>3 DEF Follows
<1> QED
  BY <1>2, <1>4

LEMMA ShownUnique ==
  ASSUME NEW q \in Seq(Answers), NEW v, NEW ch, NEW s, Follows(s, v, q, ch)
  PROVE  Shown(v, q, ch) = s[Len(q)]
<1>1. PICK t : Follows(t, v, q, ch) /\ Shown(v, q, ch) = t[Len(q)]
  BY ShownRun
<1> DEFINE S == {n \in Nat : n <= Len(q) => s[n] = t[n]}
<1>2. 0 \in S
  BY <1>1 DEF Follows
<1>3. ASSUME NEW n \in S
      PROVE  n + 1 \in S
  <2>1. n \in Nat /\ (n <= Len(q) => s[n] = t[n])
    OBVIOUS
  <2>2. SUFFICES ASSUME n + 1 <= Len(q) PROVE s[n + 1] = t[n + 1]
    BY <2>1
  <2>3. n + 1 \in 1..Len(q) /\ (n + 1) - 1 = n /\ s[n] = t[n]
    BY <2>1, <2>2
  <2>4. s[n + 1] = Applied(s[n], q[n + 1], ch)
    BY <2>3 DEF Follows
  <2>5. t[n + 1] = Applied(t[n], q[n + 1], ch)
    BY <1>1, <2>3 DEF Follows
  <2> QED
    BY <2>3, <2>4, <2>5
<1>4. S = Nat
  <2> HIDE DEF S
  <2>1. S \in SUBSET Nat
    BY DEF S
  <2> QED
    BY <1>2, <1>3, <2>1, NatSet
<1>5. Len(q) \in S /\ Len(q) \in Nat
  BY <1>4
<1> QED
  BY <1>1, <1>5

LEMMA ShownEmpty ==
  ASSUME NEW v, NEW ch
  PROVE  Shown(v, <<>>, ch) = v
<1>1. <<>> \in Seq(Answers) /\ Len(<<>>) = 0
  OBVIOUS
<1>2. PICK s : Follows(s, v, <<>>, ch) /\ Shown(v, <<>>, ch) = s[Len(<<>>)]
  BY <1>1, ShownRun
<1> QED
  BY <1>1, <1>2 DEF Follows

LEMMA ShownAppend ==
  ASSUME NEW q \in Seq(Answers), NEW v, NEW ch, NEW m \in Answers
  PROVE  Shown(v, Append(q, m), ch) = Applied(Shown(v, q, ch), m, ch)
<1> DEFINE p == Append(q, m)
<1>1. /\ p \in Seq(Answers) /\ Len(p) = Len(q) + 1 /\ Len(q) \in Nat
      /\ \A i \in 1..Len(q) : p[i] = q[i]
      /\ p[Len(q) + 1] = m
  OBVIOUS
<1> HIDE DEF p
<1>2. PICK s : Follows(s, v, p, ch) /\ Shown(v, p, ch) = s[Len(p)]
  BY <1>1, ShownRun
<1>3. Follows(s, v, q, ch)
  BY <1>1, <1>2 DEF Follows
<1>4. Shown(v, q, ch) = s[Len(q)]
  BY <1>3, ShownUnique
<1>5. Len(q) + 1 \in 1..Len(p) /\ (Len(q) + 1) - 1 = Len(q)
  BY <1>1
<1>6. s[Len(q) + 1] = Applied(s[Len(q)], m, ch)
  BY <1>1, <1>2, <1>5 DEF Follows
<1> QED
  BY <1>1, <1>2, <1>4, <1>6 DEF p

LEMMA ShownTail ==
  ASSUME NEW q \in Seq(Answers), NEW v, NEW ch, q # <<>>
  PROVE  Shown(v, q, ch) = Shown(Applied(v, Head(q), ch), Tail(q), ch)
<1> DEFINE p == Tail(q)
<1>1. /\ p \in Seq(Answers) /\ Len(p) = Len(q) - 1 /\ Len(p) \in Nat
      /\ \A i \in 1..Len(p) : p[i] = q[i + 1]
      /\ Head(q) = q[1] /\ 1 \in 1..Len(q)
  OBVIOUS
<1> HIDE DEF p
<1>2. PICK s : Follows(s, v, q, ch) /\ Shown(v, q, ch) = s[Len(q)]
  BY ShownRun
<1> DEFINE t == [i \in 0..Len(p) |-> s[i + 1]]
<1>3. t[0] = Applied(v, Head(q), ch)
  BY <1>1, <1>2 DEF Follows
<1>4. ASSUME NEW i \in 1..Len(p)
      PROVE  t[i] = Applied(t[i - 1], p[i], ch)
  <2>1. i + 1 \in 1..Len(q) /\ (i + 1) - 1 = i /\ i \in 0..Len(p) /\ i - 1 \in 0..Len(p)
        /\ (i - 1) + 1 = i
    BY <1>1
  <2>2. s[i + 1] = Applied(s[i], q[i + 1], ch)
    BY <1>2, <2>1 DEF Follows
  <2>3. t[i] = s[i + 1] /\ t[i - 1] = s[i]
    BY <2>1
  <2> QED
    BY <1>1, <2>2, <2>3
<1>5. t[Len(p)] = s[Len(q)]
  BY <1>1
<1> HIDE DEF t
<1>6. Follows(t, Applied(v, Head(q), ch), p, ch)
  BY <1>3, <1>4 DEF Follows
<1>7. Shown(Applied(v, Head(q), ch), p, ch) = t[Len(p)]
  BY <1>1, <1>6, ShownUnique
<1> QED
  BY <1>2, <1>5, <1>7 DEF p

-----------------------------------------------------------------------------
(***************************************************************************)
(* What each answer is, and what applying it does to a view.               *)
(***************************************************************************)
LEMMA AnswerFields ==
  ASSUME NEW m \in Answers, NEW ch
  PROVE  /\ IsList(m, ch) => m.msgs \in Seq(Nat)
         /\ IsEvent(m, ch) => m.msg \in Nat
         /\ ~(IsList(m, ch) /\ IsEvent(m, ch))
<1>1. IsList(m, ch) => m.msgs \in Seq(Nat)
  BY DEF Answers, IsList
<1>2. IsEvent(m, ch) => m.msg \in Nat
  BY DEF Answers, IsEvent
<1>3. ~(IsList(m, ch) /\ IsEvent(m, ch))
  BY DEF IsList, IsEvent
<1> QED
  BY <1>1, <1>2, <1>3

LEMMA BringsIs ==
  ASSUME NEW m \in Answers, NEW ch
  PROVE  /\ IsList(m, ch) => Brings(m, ch) = m.msgs
         /\ IsEvent(m, ch) => Brings(m, ch) = <<m.msg>>
         /\ ~IsList(m, ch) /\ ~IsEvent(m, ch) => Brings(m, ch) = <<>>
  BY AnswerFields DEF Brings

LEMMA AppliedIs ==
  ASSUME NEW m \in Answers, NEW ch, NEW v
  PROVE  /\ IsList(m, ch) => Applied(v, m, ch) = m.msgs
         /\ IsEvent(m, ch) => Applied(v, m, ch) = Append(v, m.msg)
         /\ ~IsList(m, ch) /\ ~IsEvent(m, ch) => Applied(v, m, ch) = v
<1> USE DEF Applied, IsList, IsEvent
<1>1. IsList(m, ch) => Applied(v, m, ch) = m.msgs
  OBVIOUS
<1>2. IsEvent(m, ch) => Applied(v, m, ch) = Append(v, m.msg)
  OBVIOUS
<1>3. ~IsList(m, ch) /\ ~IsEvent(m, ch) => Applied(v, m, ch) = v
  OBVIOUS
<1> QED
  BY <1>1, <1>2, <1>3

\* An answer that is about another channel, or carries no messages.
Other(m, ch) == ~IsList(m, ch) /\ ~IsEvent(m, ch)

LEMMA GoodEmpty == \A n : Good(<<>>, n)
  BY DEF Good, Increasing

LEMMA GoodSingle == ASSUME NEW n \in Nat, NEW k \in 1..n PROVE Good(<<k>>, n)
<1>1. <<k>> \in Seq(Nat) /\ Len(<<k>>) = 1 /\ <<k>>[1] = k /\ DOMAIN <<k>> = 1..1
  OBVIOUS
<1>2. \A i, j \in 1..1 : ~(i < j)
  OBVIOUS
<1> QED
  BY <1>1, <1>2 DEF Good, Increasing

LEMMA GoodAppend ==
  ASSUME NEW s, NEW n \in Nat, NEW k \in 1..n, Good(s, n), \A i \in 1..Len(s) : s[i] < k
  PROVE  Good(Append(s, k), n)
<1> DEFINE t == Append(s, k)
<1>1. s \in Seq(Nat) /\ DOMAIN s = 1..Len(s) /\ Len(s) \in Nat
  BY DEF Good
<1>2. /\ t \in Seq(Nat) /\ Len(t) = Len(s) + 1 /\ DOMAIN t = 1..Len(t)
      /\ \A i \in 1..Len(s) : t[i] = s[i]
      /\ t[Len(s) + 1] = k
  BY <1>1
<1> HIDE DEF t
<1>3. ASSUME NEW i \in 1..Len(t)
      PROVE  t[i] \in 1..n
  <2>1. CASE i = Len(s) + 1
    BY <1>2, <2>1
  <2>2. CASE i \in 1..Len(s)
    BY <1>2, <2>2 DEF Good
  <2> QED
    BY <1>1, <1>2, <2>1, <2>2
<1>4. ASSUME NEW i \in 1..Len(t), NEW j \in 1..Len(t), i < j
      PROVE  t[i] < t[j]
  <2>1. i \in 1..Len(s)
    BY <1>1, <1>2, <1>4
  <2>2. CASE j = Len(s) + 1
    BY <1>2, <2>1, <2>2
  <2>3. CASE j \in 1..Len(s)
    BY <1>1, <1>2, <1>4, <2>1, <2>3 DEF Good, Increasing
  <2> QED
    BY <1>1, <1>2, <2>2, <2>3
<1>5. Increasing(t)
  BY <1>2, <1>4 DEF Increasing
<1>6. Good(t, n)
  BY <1>2, <1>3, <1>5 DEF Good
<1> QED
  BY <1>6 DEF t

LEMMA GoodGrows ==
  ASSUME NEW s, NEW n \in Nat, Good(s, n)
  PROVE  Good(s, n + 1)
<1>1. \A i \in 1..Len(s) : s[i] \in 1..n => s[i] \in 1..(n + 1)
  OBVIOUS
<1> QED
  BY <1>1 DEF Good

LEMMA GoodLastPart ==
  ASSUME NEW s, NEW n \in Nat, Good(s, n)
  PROVE  /\ Good(LastPart(s), n)
         /\ Len(LastPart(s)) <= CacheSize
         /\ \A i \in 1..Len(LastPart(s)) : \E j \in 1..Len(s) : LastPart(s)[i] = s[j]
<1>1. s \in Seq(Nat) /\ Len(s) \in Nat /\ CacheSize \in Nat /\ CacheSize > 0
  BY FlowAssumption DEF Good
<1> DEFINE f == IF Len(s) > CacheSize THEN Len(s) - CacheSize + 1 ELSE 1
           t == SubSeq(s, f, Len(s))
<1>2. f \in Nat \ {0} /\ f <= Len(s) + 1 /\ Len(s) - f + 1 <= CacheSize
  BY <1>1
<1> HIDE DEF f
<1>3. /\ t \in Seq(Nat) /\ Len(t) = Len(s) - f + 1 /\ DOMAIN t = 1..Len(t)
      /\ \A i \in 1..Len(t) : t[i] = s[i + f - 1]
  BY <1>1, <1>2
<1> HIDE DEF t
<1>4. LastPart(s) = t
  BY DEF LastPart, t, f
<1>5. \A i \in 1..Len(t) : i + f - 1 \in 1..Len(s)
  BY <1>1, <1>2, <1>3
<1>6. \A i \in 1..Len(t) : t[i] \in 1..n
  BY <1>3, <1>5 DEF Good
<1>7. ASSUME NEW i \in 1..Len(t), NEW j \in 1..Len(t), i < j
      PROVE  t[i] < t[j]
  <2>1. i + f - 1 < j + f - 1
    BY <1>2, <1>7
  <2>2. i + f - 1 \in DOMAIN s /\ j + f - 1 \in DOMAIN s
    BY <1>1, <1>5
  <2> QED
    BY <1>3, <2>1, <2>2 DEF Good, Increasing
<1>8. Increasing(t)
  BY <1>3, <1>7 DEF Increasing
<1>9. Good(t, n)
  BY <1>3, <1>6, <1>8 DEF Good
<1>10. Len(t) <= CacheSize
  BY <1>2, <1>3
<1> QED
  BY <1>3, <1>4, <1>5, <1>9, <1>10

\* A sound start stays in order to the end of a sound queue.
LEMMA ShownGood ==
  ASSUME NEW q \in Seq(Answers), NEW v, NEW ch, NEW n \in Nat,
         SoundQueue(q, ch, n), SoundStart(v, q, ch, n)
  PROVE  Good(Shown(v, q, ch), n)
<1>1. PICK s : Follows(s, v, q, ch) /\ Shown(v, q, ch) = s[Len(q)]
  BY ShownRun
<1> DEFINE S == {k \in Nat : k <= Len(q) => Good(s[k], n) /\ Precedes(s[k], q, k, ch)}
<1>2. 0 \in S
  BY <1>1 DEF Follows, SoundStart
<1>3. ASSUME NEW k \in S
      PROVE  k + 1 \in S
  <2>1. k \in Nat /\ (k <= Len(q) => Good(s[k], n) /\ Precedes(s[k], q, k, ch))
    OBVIOUS
  <2>2. SUFFICES ASSUME k + 1 <= Len(q)
                 PROVE  Good(s[k + 1], n) /\ Precedes(s[k + 1], q, k + 1, ch)
    BY <2>1
  <2> HIDE DEF S
  <2>3. k + 1 \in 1..Len(q) /\ (k + 1) - 1 = k
    BY <2>1, <2>2
  <2>4. s[k + 1] = Applied(s[k], q[k + 1], ch)
    BY <1>1, <2>3 DEF Follows
  <2> DEFINE m == q[k + 1]
  <2>5. m \in Answers
    BY <2>3
  <2>6. Good(Brings(m, ch), n) /\ Precedes(Brings(m, ch), q, k + 1, ch)
    BY <2>3 DEF SoundQueue
  <2>7. Good(s[k], n) /\ Precedes(s[k], q, k, ch)
    BY <2>1, <2>2
  <2>8. Precedes(s[k], q, k + 1, ch)
    BY <2>1, <2>7 DEF Precedes
  <2>9. CASE IsList(m, ch)
    <3>1. s[k + 1] = Brings(m, ch)
      BY <2>4, <2>5, <2>9, AppliedIs, BringsIs
    <3> QED
      BY <2>6, <3>1
  <2>10. CASE IsEvent(m, ch)
    <3>1. s[k + 1] = Append(s[k], m.msg) /\ Brings(m, ch) = <<m.msg>>
      BY <2>4, <2>5, <2>10, AppliedIs, BringsIs
    <3>2. m.msg \in 1..n
      BY <2>6, <3>1 DEF Good
    <3>3. \A i \in 1..Len(s[k]) : s[k][i] < m.msg
      BY <2>1, <2>3, <2>7, <2>10 DEF Precedes
    <3>4. Good(s[k + 1], n)
      BY <2>7, <3>1, <3>2, <3>3, GoodAppend
    <3>5. /\ s[k] \in Seq(Nat) /\ m.msg \in Nat
          /\ \A i \in 1..Len(s[k + 1]) : s[k + 1][i] = m.msg \/ \E j \in 1..Len(s[k]) : s[k + 1][i] = s[k][j]
      <4>1. s[k] \in Seq(Nat) /\ m.msg \in Nat
        BY <2>7, <3>2 DEF Good
      <4> QED
        BY <3>1, <4>1
    <3>6. \A j \in (k + 2)..Len(q) : IsEvent(q[j], ch) => m.msg < q[j].msg
      <4>1. <<m.msg>>[1] = m.msg /\ 1 \in 1..Len(<<m.msg>>)
        OBVIOUS
      <4> QED
        BY <2>1, <2>6, <3>1, <4>1 DEF Precedes
    <3>7. Precedes(s[k + 1], q, k + 1, ch)
      <4>1. SUFFICES ASSUME NEW j \in (k + 2)..Len(q), IsEvent(q[j], ch), NEW i \in 1..Len(s[k + 1])
                     PROVE  s[k + 1][i] < q[j].msg
        BY <2>1 DEF Precedes
      <4>2. m.msg < q[j].msg
        BY <3>6, <4>1
      <4>3. \A h \in 1..Len(s[k]) : s[k][h] < q[j].msg
        BY <2>1, <2>8, <4>1 DEF Precedes
      <4> QED
        BY <3>5, <4>2, <4>3
    <3> QED
      BY <3>4, <3>7
  <2>11. CASE Other(m, ch)
    BY <2>4, <2>5, <2>7, <2>8, <2>11, AppliedIs DEF Other
  <2> QED
    BY <2>9, <2>10, <2>11 DEF Other
<1>4. S = Nat
  <2> HIDE DEF S
  <2>1. S \in SUBSET Nat
    BY DEF S
  <2> QED
    BY <1>2, <1>3, <2>1, NatSet
<1>5. Len(q) \in S /\ Len(q) \in Nat
  BY <1>4
<1> QED
  BY <1>1, <1>5

-----------------------------------------------------------------------------
(***************************************************************************)
(* What the steps of the system do to Sound: an answer is sent, an answer  *)
(* is handled, a message is committed, the view is replaced.               *)
(***************************************************************************)
LEMMA QueueAppend ==
  ASSUME NEW q \in Seq(Answers), NEW ch, NEW n, NEW m \in Answers,
         SoundQueue(q, ch, n), Good(Brings(m, ch), n), ~IsEvent(m, ch)
  PROVE  SoundQueue(Append(q, m), ch, n)
<1> DEFINE p == Append(q, m)
<1>1. /\ p \in Seq(Answers) /\ Len(p) = Len(q) + 1 /\ Len(q) \in Nat
      /\ \A i \in 1..Len(q) : p[i] = q[i]
      /\ p[Len(q) + 1] = m
  OBVIOUS
<1> HIDE DEF p
<1>2. ASSUME NEW k \in 1..Len(p)
      PROVE  Good(Brings(p[k], ch), n) /\ Precedes(Brings(p[k], ch), p, k, ch)
  <2>1. CASE k = Len(q) + 1
    <3>1. Precedes(Brings(p[k], ch), p, k, ch)
      BY <1>1, <2>1 DEF Precedes
    <3> QED
      BY <1>1, <2>1, <3>1
  <2>2. CASE k \in 1..Len(q)
    <3>1. p[k] = q[k] /\ Good(Brings(q[k], ch), n) /\ Precedes(Brings(q[k], ch), q, k, ch)
      BY <1>1, <2>2 DEF SoundQueue
    <3>2. \A j \in (k + 1)..Len(p) : IsEvent(p[j], ch) => j \in (k + 1)..Len(q) /\ p[j] = q[j]
      BY <1>1
    <3>3. Precedes(Brings(p[k], ch), p, k, ch)
      BY <3>1, <3>2 DEF Precedes
    <3> QED
      BY <3>1, <3>3
  <2> QED
    BY <1>1, <2>1, <2>2
<1>3. SoundQueue(p, ch, n)
  BY <1>2 DEF SoundQueue
<1> QED
  BY <1>3 DEF p

LEMMA StartAppend ==
  ASSUME NEW q \in Seq(Answers), NEW ch, NEW n, NEW m \in Answers, NEW v,
         SoundStart(v, q, ch, n), ~IsEvent(m, ch)
  PROVE  SoundStart(v, Append(q, m), ch, n)
<1> DEFINE p == Append(q, m)
<1>1. /\ p \in Seq(Answers) /\ Len(p) = Len(q) + 1 /\ Len(q) \in Nat
      /\ \A i \in 1..Len(q) : p[i] = q[i]
      /\ p[Len(q) + 1] = m
  OBVIOUS
<1> HIDE DEF p
<1>2. \A j \in (0 + 1)..Len(p) : IsEvent(p[j], ch) => j \in (0 + 1)..Len(q) /\ p[j] = q[j]
  BY <1>1
<1>3. SoundStart(v, p, ch, n)
  BY <1>2 DEF SoundStart, Precedes
<1> QED
  BY <1>3 DEF p

\* The event of the message just committed is above all that was sent or shown.
LEMMA QueueEvent ==
  ASSUME NEW q \in Seq(Answers), NEW ch \in Channels, NEW n \in Nat, SoundQueue(q, ch, n)
  PROVE  SoundQueue(Append(q, Event(ch, n + 1)), ch, n + 1)
<1> DEFINE m == Event(ch, n + 1)
           p == Append(q, m)
<1>1. m \in Answers /\ IsEvent(m, ch) /\ m.msg = n + 1
  BY DEF Answers, Event, IsEvent
<1> HIDE DEF m
<1>2. /\ p \in Seq(Answers) /\ Len(p) = Len(q) + 1 /\ Len(q) \in Nat
      /\ \A i \in 1..Len(q) : p[i] = q[i]
      /\ p[Len(q) + 1] = m
  BY <1>1
<1> HIDE DEF p
<1>3. ASSUME NEW k \in 1..Len(p)
      PROVE  Good(Brings(p[k], ch), n + 1) /\ Precedes(Brings(p[k], ch), p, k, ch)
  <2>1. CASE k = Len(q) + 1
    <3>1. Precedes(Brings(p[k], ch), p, k, ch)
      BY <1>2, <2>1 DEF Precedes
    <3>2. Brings(p[k], ch) = <<n + 1>>
      BY <1>1, <1>2, <2>1, BringsIs
    <3>3. n + 1 \in Nat /\ n + 1 \in 1..(n + 1)
      OBVIOUS
    <3>4. Good(<<n + 1>>, n + 1)
      BY <3>3, GoodSingle
    <3> QED
      BY <3>1, <3>2, <3>4
  <2>2. CASE k \in 1..Len(q)
    <3>1. p[k] = q[k] /\ Good(Brings(q[k], ch), n) /\ Precedes(Brings(q[k], ch), q, k, ch)
      BY <1>2, <2>2 DEF SoundQueue
    <3>2. Good(Brings(p[k], ch), n + 1)
      BY <3>1, GoodGrows
    <3>3. ASSUME NEW j \in (k + 1)..Len(p), IsEvent(p[j], ch), NEW i \in 1..Len(Brings(q[k], ch))
          PROVE  Brings(q[k], ch)[i] < p[j].msg
      <4>1. CASE j = Len(q) + 1
        <5>1. Brings(q[k], ch)[i] \in 1..n /\ p[j].msg = n + 1
          BY <1>1, <1>2, <3>1, <4>1 DEF Good
        <5> QED
          BY <5>1
      <4>2. CASE j # Len(q) + 1
        <5>1. j \in (k + 1)..Len(q) /\ p[j] = q[j]
          BY <1>2, <4>2
        <5> QED
          BY <3>1, <3>3, <5>1 DEF Precedes
      <4> QED
        BY <4>1, <4>2
    <3> QED
      BY <3>1, <3>2, <3>3 DEF Precedes
  <2> QED
    BY <1>2, <2>1, <2>2
<1>4. SoundQueue(p, ch, n + 1)
  BY <1>3 DEF SoundQueue
<1> QED
  BY <1>4 DEF p, m

LEMMA StartEvent ==
  ASSUME NEW q \in Seq(Answers), NEW ch \in Channels, NEW n \in Nat, NEW v,
         SoundStart(v, q, ch, n)
  PROVE  SoundStart(v, Append(q, Event(ch, n + 1)), ch, n + 1)
<1> DEFINE m == Event(ch, n + 1)
           p == Append(q, m)
<1>1. m \in Answers /\ m.msg = n + 1
  BY DEF Answers, Event
<1> HIDE DEF m
<1>2. /\ p \in Seq(Answers) /\ Len(p) = Len(q) + 1 /\ Len(q) \in Nat
      /\ \A i \in 1..Len(q) : p[i] = q[i]
      /\ p[Len(q) + 1] = m
  BY <1>1
<1> HIDE DEF p
<1>3. Good(v, n) /\ Good(v, n + 1)
  BY GoodGrows DEF SoundStart
<1>4. ASSUME NEW j \in (0 + 1)..Len(p), IsEvent(p[j], ch), NEW i \in 1..Len(v)
      PROVE  v[i] < p[j].msg
  <2>1. CASE j = Len(q) + 1
    <3>1. v[i] \in 1..n /\ p[j].msg = n + 1
      BY <1>1, <1>2, <1>3, <2>1 DEF Good
    <3> QED
      BY <3>1
  <2>2. CASE j # Len(q) + 1
    <3>1. j \in (0 + 1)..Len(q) /\ p[j] = q[j]
      BY <1>2, <2>2
    <3> QED
      BY <1>4, <3>1 DEF SoundStart, Precedes
  <2> QED
    BY <2>1, <2>2
<1>5. SoundStart(v, p, ch, n + 1)
  BY <1>3, <1>4 DEF SoundStart, Precedes
<1> QED
  BY <1>5 DEF p, m

LEMMA QueueGrows ==
  ASSUME NEW q, NEW ch, NEW n \in Nat, SoundQueue(q, ch, n)
  PROVE  SoundQueue(q, ch, n + 1)
  BY GoodGrows DEF SoundQueue

LEMMA StartGrows ==
  ASSUME NEW q, NEW ch, NEW n \in Nat, NEW v, SoundStart(v, q, ch, n)
  PROVE  SoundStart(v, q, ch, n + 1)
  BY GoodGrows DEF SoundStart

LEMMA QueueTail ==
  ASSUME NEW q \in Seq(Answers), NEW ch, NEW n, q # <<>>, SoundQueue(q, ch, n)
  PROVE  SoundQueue(Tail(q), ch, n)
<1> DEFINE p == Tail(q)
<1>1. /\ Len(p) = Len(q) - 1 /\ Len(p) \in Nat
      /\ \A i \in 1..Len(p) : p[i] = q[i + 1]
  OBVIOUS
<1> HIDE DEF p
<1>2. ASSUME NEW k \in 1..Len(p)
      PROVE  Good(Brings(p[k], ch), n) /\ Precedes(Brings(p[k], ch), p, k, ch)
  <2>1. k + 1 \in 1..Len(q) /\ p[k] = q[k + 1]
    BY <1>1
  <2>2. Good(Brings(p[k], ch), n) /\ Precedes(Brings(p[k], ch), q, k + 1, ch)
    BY <2>1 DEF SoundQueue
  <2>3. \A j \in (k + 1)..Len(p) : j + 1 \in ((k + 1) + 1)..Len(q) /\ p[j] = q[j + 1]
    BY <1>1
  <2> QED
    BY <2>2, <2>3 DEF Precedes
<1>3. SoundQueue(p, ch, n)
  BY <1>2 DEF SoundQueue
<1> QED
  BY <1>3 DEF p

LEMMA StartTail ==
  ASSUME NEW q \in Seq(Answers), NEW ch, NEW n \in Nat, NEW v, q # <<>>, SoundStart(v, q, ch, n)
  PROVE  SoundStart(v, Tail(q), ch, n)
<1> DEFINE p == Tail(q)
<1>1. /\ Len(p) = Len(q) - 1 /\ Len(p) \in Nat
      /\ \A i \in 1..Len(p) : p[i] = q[i + 1]
  OBVIOUS
<1> HIDE DEF p
<1>2. \A j \in (0 + 1)..Len(p) : j + 1 \in (0 + 1)..Len(q) /\ p[j] = q[j + 1]
  BY <1>1
<1>3. SoundStart(v, p, ch, n)
  BY <1>2 DEF SoundStart, Precedes
<1> QED
  BY <1>3 DEF p

\* A view that has taken in the head of the queue is a sound start for the rest.
LEMMA StartApplied ==
  ASSUME NEW q \in Seq(Answers), NEW ch, NEW n \in Nat, NEW v, q # <<>>,
         SoundQueue(q, ch, n), SoundStart(v, q, ch, n)
  PROVE  SoundStart(Applied(v, Head(q), ch), Tail(q), ch, n)
<1> DEFINE m == Head(q)
           p == Tail(q)
           w == Applied(v, m, ch)
<1>1. m = q[1] /\ m \in Answers /\ 1 \in 1..Len(q)
  OBVIOUS
<1>2. /\ Len(p) = Len(q) - 1 /\ Len(p) \in Nat
      /\ \A i \in 1..Len(p) : p[i] = q[i + 1]
  OBVIOUS
<1> SUFFICES SoundStart(w, p, ch, n)
  OBVIOUS
<1> HIDE DEF m, p, w
<1>3. Good(Brings(m, ch), n) /\ Precedes(Brings(m, ch), q, 1, ch)
  BY <1>1 DEF SoundQueue
<1>4. \A j \in (0 + 1)..Len(p) : /\ j + 1 \in (1 + 1)..Len(q) /\ j + 1 \in (0 + 1)..Len(q)
                                /\ p[j] = q[j + 1]
  BY <1>2
<1>5. Good(v, n) /\ Precedes(v, p, 0, ch)
  BY <1>4 DEF SoundStart, Precedes
<1>6. Precedes(Brings(m, ch), p, 0, ch)
  BY <1>3, <1>4 DEF Precedes
<1>7. CASE IsList(m, ch)
  BY <1>1, <1>3, <1>6, <1>7, AppliedIs, BringsIs DEF SoundStart, w
<1>8. CASE IsEvent(m, ch)
  <2>1. w = Append(v, m.msg) /\ Brings(m, ch) = <<m.msg>>
    BY <1>1, <1>8, AppliedIs, BringsIs DEF w
  <2>2. <<m.msg>>[1] = m.msg /\ 1 \in 1..Len(<<m.msg>>)
    OBVIOUS
  <2>3. m.msg \in 1..n
    BY <1>3, <2>1, <2>2 DEF Good
  <2>4. \A i \in 1..Len(v) : v[i] < m.msg
    BY <1>1, <1>8 DEF SoundStart, Precedes
  <2>5. Good(w, n)
    BY <1>5, <2>1, <2>3, <2>4, GoodAppend
  <2>6. \A i \in 1..Len(w) : w[i] = m.msg \/ \E j \in 1..Len(v) : w[i] = v[j]
    <3>1. v \in Seq(Nat) /\ m.msg \in Nat
      BY <1>5, <2>3 DEF Good
    <3> QED
      BY <2>1, <3>1
  <2>7. \A j \in (0 + 1)..Len(p) : IsEvent(p[j], ch) => m.msg < p[j].msg
    BY <1>6, <2>1, <2>2 DEF Precedes
  <2>8. Precedes(w, p, 0, ch)
    BY <1>5, <2>6, <2>7 DEF Precedes
  <2> QED
    BY <2>5, <2>8 DEF SoundStart, w
<1>9. CASE Other(m, ch)
  <2>1. w = v
    BY <1>1, <1>9, AppliedIs DEF Other, w
  <2> QED
    BY <1>5, <2>1 DEF SoundStart
<1> QED
  BY <1>7, <1>8, <1>9 DEF Other

LEMMA StartLastPart ==
  ASSUME NEW q, NEW ch, NEW n \in Nat, NEW v, SoundStart(v, q, ch, n)
  PROVE  SoundStart(LastPart(v), q, ch, n)
<1>1. Good(v, n) /\ Precedes(v, q, 0, ch)
  BY DEF SoundStart
<1>2. Good(LastPart(v), n) /\ \A i \in 1..Len(LastPart(v)) : \E j \in 1..Len(v) : LastPart(v)[i] = v[j]
  BY <1>1, GoodLastPart
<1> QED
  BY <1>1, <1>2 DEF SoundStart, Precedes

LEMMA SoundOther ==
  ASSUME NEW q \in Seq(Answers), NEW v, NEW w, NEW cov, NEW ch, NEW n, NEW ann,
         NEW m \in Answers, Sound(q, v, w, cov, ch, n, ann), Other(m, ch)
  PROVE  Sound(Append(q, m), v, w, cov, ch, n, ann)
<1>1. ~IsEvent(m, ch) /\ ~IsList(m, ch) /\ Brings(m, ch) = <<>>
  BY BringsIs DEF Other
<1>2. SoundQueue(Append(q, m), ch, n)
  BY <1>1, GoodEmpty, QueueAppend DEF Sound
<1>3. SoundStart(v, Append(q, m), ch, n) /\ SoundStart(w, Append(q, m), ch, n)
  BY <1>1, StartAppend DEF Sound
<1>4. Shown(v, Append(q, m), ch) = Shown(v, q, ch)
  BY <1>1, ShownAppend, AppliedIs
<1> QED
  BY <1>2, <1>3, <1>4 DEF Sound

LEMMA SoundList ==
  ASSUME NEW q \in Seq(Answers), NEW v, NEW w, NEW cov, NEW ch \in Channels, NEW n \in Nat,
         NEW ann, NEW s, NEW all \in BOOLEAN, Sound(q, v, w, cov, ch, n, ann), Good(s, n),
         all => ann \subseteq ToSet(s)
  PROVE  Sound(Append(q, ListResult(ch, s)), v, w, all, ch, n, ann)
<1> DEFINE m == ListResult(ch, s)
<1>1. m \in Answers /\ IsList(m, ch) /\ m.msgs = s
  BY DEF Answers, ListResult, IsList, Good
<1> HIDE DEF m
<1>2. ~IsEvent(m, ch) /\ Brings(m, ch) = s
  BY <1>1, BringsIs, AnswerFields
<1>3. SoundQueue(Append(q, m), ch, n)
  BY <1>1, <1>2, QueueAppend DEF Sound
<1>4. SoundStart(v, Append(q, m), ch, n) /\ SoundStart(w, Append(q, m), ch, n)
  BY <1>1, <1>2, StartAppend DEF Sound
<1>5. Shown(v, Append(q, m), ch) = s
  BY <1>1, ShownAppend, AppliedIs
<1>6. Sound(Append(q, m), v, w, all, ch, n, ann)
  BY <1>3, <1>4, <1>5 DEF Sound
<1> QED
  BY <1>6 DEF m

LEMMA SoundEvent ==
  ASSUME NEW q \in Seq(Answers), NEW v, NEW w, NEW cov, NEW ch \in Channels, NEW n \in Nat,
         NEW ann, Sound(q, v, w, cov, ch, n, ann)
  PROVE  Sound(Append(q, Event(ch, n + 1)), v, w, cov, ch, n + 1, ann \cup {n + 1})
<1> DEFINE m == Event(ch, n + 1)
           s == Shown(v, q, ch)
<1>1. m \in Answers /\ IsEvent(m, ch) /\ m.msg = n + 1
  BY DEF Answers, Event, IsEvent
<1>2. SoundQueue(Append(q, m), ch, n + 1)
  BY QueueEvent DEF Sound
<1>3. SoundStart(v, Append(q, m), ch, n + 1) /\ SoundStart(w, Append(q, m), ch, n + 1)
  BY StartEvent DEF Sound
<1> HIDE DEF m
<1>4. s \in Seq(Nat)
  BY ShownGood DEF Sound, Good
<1> HIDE DEF s
<1>5. ToSet(Append(s, n + 1)) = ToSet(s) \cup {n + 1}
  <2>1. /\ DOMAIN Append(s, n + 1) = 1..(Len(s) + 1) /\ DOMAIN s = 1..Len(s)
        /\ \A i \in 1..Len(s) : Append(s, n + 1)[i] = s[i]
        /\ Append(s, n + 1)[Len(s) + 1] = n + 1
        /\ Len(s) \in Nat
    BY <1>4
  <2> QED
    BY <2>1 DEF ToSet
<1>6. Shown(v, Append(q, m), ch) = Append(s, n + 1)
  BY <1>1, ShownAppend, AppliedIs DEF s
<1>7. cov => ann \cup {n + 1} \subseteq ToSet(Shown(v, Append(q, m), ch))
  BY <1>5, <1>6 DEF Sound, s
<1>8. Sound(Append(q, m), v, w, cov, ch, n + 1, ann \cup {n + 1})
  BY <1>2, <1>3, <1>7 DEF Sound
<1> QED
  BY <1>8 DEF m

\* A client the event is not sent to must not be covered.
LEMMA SoundUnsent ==
  ASSUME NEW q, NEW v, NEW w, NEW ch, NEW n \in Nat, NEW ann, NEW more,
         Sound(q, v, w, FALSE, ch, n, ann)
  PROVE  Sound(q, v, w, FALSE, ch, n + 1, more)
  BY QueueGrows, StartGrows DEF Sound

LEMMA SoundCommitted ==
  ASSUME NEW q, NEW v, NEW w, NEW cov, NEW ch, NEW n \in Nat, NEW ann,
         Sound(q, v, w, cov, ch, n, ann)
  PROVE  Sound(q, v, w, cov, ch, n + 1, ann)
  BY QueueGrows, StartGrows DEF Sound

LEMMA SoundTaken ==
  ASSUME NEW q \in Seq(Answers), NEW v, NEW w, NEW cov, NEW ch, NEW n \in Nat, NEW ann,
         Sound(q, v, w, cov, ch, n, ann), q # <<>>, Other(Head(q), ch)
  PROVE  Sound(Tail(q), v, w, cov, ch, n, ann)
<1>1. Head(q) \in Answers
  OBVIOUS
<1>2. Applied(v, Head(q), ch) = v
  BY <1>1, AppliedIs DEF Other
<1>3. Shown(v, q, ch) = Shown(v, Tail(q), ch)
  BY <1>2, ShownTail
<1>4. SoundQueue(Tail(q), ch, n)
  BY QueueTail DEF Sound
<1>5. SoundStart(v, Tail(q), ch, n) /\ SoundStart(w, Tail(q), ch, n)
  BY StartTail DEF Sound
<1> QED
  BY <1>3, <1>4, <1>5 DEF Sound

LEMMA SoundShown ==
  ASSUME NEW q \in Seq(Answers), NEW v, NEW w, NEW cov, NEW ch, NEW n \in Nat, NEW ann,
         Sound(q, v, w, cov, ch, n, ann), q # <<>>
  PROVE  Sound(Tail(q), Applied(v, Head(q), ch), LastPart(Applied(v, Head(q), ch)),
               cov, ch, n, ann)
<1> DEFINE x == Applied(v, Head(q), ch)
<1>1. SoundStart(x, Tail(q), ch, n)
  BY StartApplied DEF Sound
<1>2. Shown(v, q, ch) = Shown(x, Tail(q), ch)
  BY ShownTail
<1> HIDE DEF x
<1>3. SoundStart(LastPart(x), Tail(q), ch, n)
  BY <1>1, StartLastPart
<1>4. SoundQueue(Tail(q), ch, n)
  BY QueueTail DEF Sound
<1>5. Sound(Tail(q), x, LastPart(x), cov, ch, n, ann)
  BY <1>1, <1>2, <1>3, <1>4 DEF Sound
<1> QED
  BY <1>5 DEF x

LEMMA SoundSwitched ==
  ASSUME NEW q, NEW v, NEW w, NEW cov, NEW ch, NEW n, NEW ann,
         Sound(q, v, w, cov, ch, n, ann)
  PROVE  Sound(q, w, w, FALSE, ch, n, ann)
  BY DEF Sound

LEMMA SoundCut ==
  ASSUME NEW q, NEW v, NEW w, NEW cov, NEW ch, NEW n, NEW ann,
         Sound(q, v, w, cov, ch, n, ann)
  PROVE  Sound(<<>>, v, w, FALSE, ch, n, ann) /\ Sound(<<>>, <<>>, w, FALSE, ch, n, ann)
<1>1. Len(<<>>) = 0
  OBVIOUS
<1>2. SoundQueue(<<>>, ch, n)
  BY <1>1 DEF SoundQueue
<1>3. SoundStart(v, <<>>, ch, n) /\ SoundStart(w, <<>>, ch, n) /\ SoundStart(<<>>, <<>>, ch, n)
  BY <1>1, GoodEmpty DEF Sound, SoundStart, Precedes
<1> QED
  BY <1>2, <1>3 DEF Sound

-----------------------------------------------------------------------------
(***************************************************************************)
(* The invariant.                                                          *)
(***************************************************************************)
AllSound == \A c \in Clients, ch \in Channels : SoundAt(c, ch)

LEMMA InvIs == IInv <=> TypeOK /\ Links /\ AllSound
  BY DEF IInv, AllSound

LEMMA Consuming ==
  ASSUME NEW c \in Clients, NEW t, TypeOK, HelloFirst, Incoming(c, t), Consume(c)
  PROVE  /\ c \in online /\ Head(toServer[c]) \in Requests /\ Head(toServer[c]).t = t
         /\ toServer' \in [Clients -> Seq(Requests)]
         /\ \A d \in Clients : d # c => toServer'[d] = toServer[d]
         /\ t # "hello" => c \in authed
  BY DEF TypeOK, HelloFirst, Incoming, Consume

LEMMA Replying ==
  ASSUME NEW c \in Clients, NEW m \in Answers, TypeOK, Reply(c, m)
  PROVE  /\ toClient' \in [Clients -> Seq(Answers)]
         /\ toClient'[c] = Append(toClient[c], m)
         /\ \A d \in Clients : d # c => toClient'[d] = toClient[d]
  BY DEF TypeOK, Reply

LEMMA Taking ==
  ASSUME NEW c \in Clients, NEW t, TypeOK, ClosedIsEmpty, Arrived(c, t), Taken(c)
  PROVE  /\ c \in online /\ toClient[c] # <<>>
         /\ Head(toClient[c]) \in Answers /\ Head(toClient[c]).t = t
         /\ toClient' \in [Clients -> Seq(Answers)]
         /\ toClient'[c] = Tail(toClient[c])
         /\ \A d \in Clients : d # c => toClient'[d] = toClient[d]
<1>1. c \in online /\ toClient[c] # <<>> /\ Head(toClient[c]).t = t
  BY DEF ClosedIsEmpty, Arrived
<1>2. toClient[c] \in Seq(Answers) /\ toClient \in [Clients -> Seq(Answers)]
  BY DEF TypeOK
<1>3. Tail(toClient[c]) \in Seq(Answers) /\ Head(toClient[c]) \in Answers
  BY <1>1, <1>2
<1> QED
  BY <1>1, <1>2, <1>3 DEF Taken

LEMMA Sending ==
  ASSUME NEW c \in Clients, NEW m \in Requests, TypeOK, ClosedIsEmpty, HelloFirst,
         Sends(c, m) \/ UNCHANGED toServer, UNCHANGED <<online, authed>>
  PROVE  /\ toServer' \in [Clients -> Seq(Requests)]
         /\ \A d \in Clients \ online : toServer'[d] = <<>>
         /\ HelloFirst'
<1>1. toServer \in [Clients -> Seq(Requests)] /\ online \subseteq Clients
  BY DEF TypeOK
<1>2. CASE UNCHANGED toServer
  BY <1>1, <1>2 DEF ClosedIsEmpty, HelloFirst
<1>3. CASE c \in online /\ toServer' = [toServer EXCEPT ![c] = Append(@, m)]
  <2>1. /\ toServer' \in [Clients -> Seq(Requests)]
        /\ toServer'[c] = Append(toServer[c], m)
        /\ \A d \in Clients : d # c => toServer'[d] = toServer[d]
    BY <1>1, <1>3
  <2>2. \A d \in Clients \ online : toServer'[d] = <<>>
    BY <1>3, <2>1 DEF ClosedIsEmpty
  <2>3. toServer[c] # <<>> => Append(toServer[c], m) # <<>> /\ Head(Append(toServer[c], m)) = Head(toServer[c])
    BY <1>1
  <2>4. HelloFirst'
    BY <1>1, <2>1, <2>3 DEF HelloFirst
  <2> QED
    BY <2>1, <2>2, <2>4
<1> QED
  BY <1>2, <1>3 DEF Sends

LEMMA OtherByType ==
  ASSUME NEW m, NEW ch, m.t # "msg.list_result", m.t # "msg.event"
  PROVE  Other(m, ch)
  BY DEF Other, IsList, IsEvent

LEMMA OtherByChannel ==
  ASSUME NEW m, NEW ch, m.ch # ch
  PROVE  Other(m, ch)
  BY DEF Other, IsList, IsEvent

LEMMA SoundReplies ==
  ASSUME NEW c \in Clients, NEW m \in Answers, TypeOK, AllSound, Reply(c, m),
         \A ch \in Channels : Other(m, ch),
         UNCHANGED <<last, announced, view, cache, covered>>
  PROVE  AllSound'
<1>1. SUFFICES ASSUME NEW d \in Clients, NEW ch \in Channels
               PROVE  SoundAt(d, ch)'
  BY DEF AllSound
<1>2. SoundAt(d, ch) /\ toClient[d] \in Seq(Answers) /\ Other(m, ch)
  BY DEF AllSound, TypeOK
<1>3. CASE d # c
  <2>1. toClient'[d] = toClient[d]
    BY <1>3, Replying
  <2> QED
    BY <1>2, <2>1 DEF SoundAt
<1>4. CASE d = c
  <2>1. toClient'[d] = Append(toClient[d], m)
    BY <1>4, Replying
  <2> QED
    BY <1>2, <2>1, SoundOther DEF SoundAt
<1> QED
  BY <1>3, <1>4

LEMMA SoundTakes ==
  ASSUME NEW c \in Clients, NEW t, TypeOK, ClosedIsEmpty, AllSound, Arrived(c, t), Taken(c),
         t # "msg.list_result", t # "msg.event",
         UNCHANGED <<last, announced, view, cache, covered>>
  PROVE  AllSound'
<1>1. SUFFICES ASSUME NEW d \in Clients, NEW ch \in Channels
               PROVE  SoundAt(d, ch)'
  BY DEF AllSound
<1>2. SoundAt(d, ch) /\ toClient[d] \in Seq(Answers) /\ last[ch] \in Nat
  BY DEF AllSound, TypeOK
<1>3. CASE d # c
  <2>1. toClient'[d] = toClient[d]
    BY <1>3, Taking
  <2> QED
    BY <1>2, <2>1 DEF SoundAt
<1>4. CASE d = c
  <2>1. toClient'[d] = Tail(toClient[d]) /\ toClient[d] # <<>> /\ Head(toClient[d]).t = t
    BY <1>4, Taking
  <2>2. Other(Head(toClient[d]), ch)
    BY <2>1, OtherByType
  <2> QED
    BY <1>2, <2>1, <2>2, SoundTaken DEF SoundAt
<1> QED
  BY <1>3, <1>4

\* The server answers with something that carries no messages.
LEMMA AnswerStep ==
  ASSUME NEW c \in Clients, NEW t, NEW m \in Answers, IInv,
         Incoming(c, t), Consume(c), Reply(c, m), \A ch \in Channels : Other(m, ch),
         UNCHANGED <<last, indexed, announced, online, cur, view, cache, covered>>,
         member' \in [Channels -> SUBSET Clients],
         \A ch \in Channels : member[ch] \subseteq member'[ch],
         authed \subseteq authed', authed' \subseteq online,
         t = "hello" => c \in authed'
  PROVE  IInv'
<1>1. TypeOK /\ AllSound /\ ClosedIsEmpty /\ HelloFirst /\ CoveredHears /\ Stored
  BY InvIs DEF Links
<1>2. /\ c \in online /\ toServer' \in [Clients -> Seq(Requests)]
      /\ \A d \in Clients : d # c => toServer'[d] = toServer[d]
      /\ t # "hello" => c \in authed
  BY <1>1, Consuming
<1>3. /\ toClient' \in [Clients -> Seq(Answers)]
      /\ \A d \in Clients : d # c => toClient'[d] = toClient[d]
  BY <1>1, Replying
<1>4. TypeOK'
  BY <1>1, <1>2, <1>3 DEF TypeOK
<1>5. ClosedIsEmpty'
  BY <1>1, <1>2, <1>3 DEF ClosedIsEmpty
<1>6. HelloFirst'
  BY <1>1, <1>2 DEF HelloFirst, TypeOK
<1>7. CoveredHears'
  BY <1>1 DEF CoveredHears, TypeOK
<1>8. Stored'
  BY <1>1 DEF Stored
<1>9. AllSound'
  BY <1>1, SoundReplies
<1>10. Links'
  BY <1>5, <1>6, <1>7, <1>8 DEF Links
<1> QED
  BY <1>4, <1>9, <1>10 DEF IInv, AllSound

\* The client handles something that carries no messages, and perhaps answers.
LEMMA HandleStep ==
  ASSUME NEW c \in Clients, NEW t, NEW m \in Requests, IInv, Arrived(c, t), Taken(c),
         t # "msg.list_result", t # "msg.event",
         Sends(c, m) \/ UNCHANGED toServer,
         UNCHANGED <<serverVars, authed, online, clientVars, covered>>
  PROVE  IInv'
<1>1. TypeOK /\ AllSound /\ ClosedIsEmpty /\ HelloFirst /\ CoveredHears /\ Stored
  BY InvIs DEF Links
<1>2. /\ UNCHANGED <<last, indexed, announced, member, authed, online>>
      /\ UNCHANGED <<cur, view, cache, covered>>
  BY DEF serverVars, clientVars
<1>3. /\ c \in online /\ toClient' \in [Clients -> Seq(Answers)]
      /\ \A d \in Clients : d # c => toClient'[d] = toClient[d]
  BY <1>1, Taking
<1>4. /\ toServer' \in [Clients -> Seq(Requests)]
      /\ \A d \in Clients \ online : toServer'[d] = <<>>
      /\ HelloFirst'
  BY <1>1, <1>2, Sending
<1>5. TypeOK'
  BY <1>1, <1>2, <1>3, <1>4 DEF TypeOK
<1>6. ClosedIsEmpty'
  BY <1>1, <1>2, <1>3, <1>4 DEF ClosedIsEmpty
<1>7. CoveredHears'
  BY <1>1, <1>2 DEF CoveredHears
<1>8. Stored'
  BY <1>1, <1>2 DEF Stored
<1>9. AllSound'
  BY <1>1, <1>2, SoundTakes
<1> QED
  BY <1>4, <1>5, <1>6, <1>7, <1>8, <1>9, InvIs DEF Links, IInv, AllSound

LEMMA InitInv == Init => IInv
<1>1. SUFFICES ASSUME Init PROVE IInv
  OBVIOUS
<1>2. <<>> \in Seq(Nat) /\ <<>> \in Seq(Requests) /\ <<>> \in Seq(Answers) /\ Len(<<>>) = 0
      /\ 0 <= CacheSize
  BY FlowAssumption
<1>3. TypeOK
  <2>1. NoMessages \in [Channels -> Seq(Nat)] /\ \A ch \in Channels : NoMessages[ch] = <<>>
    BY <1>2 DEF NoMessages
  <2>2. view \in [Clients -> [Channels -> Seq(Nat)]] /\ cache \in [Clients -> [Channels -> Seq(Nat)]]
    BY <1>1, <2>1 DEF Init
  <2>3. \A c \in Clients, ch \in Channels : Len(cache[c][ch]) <= CacheSize
    BY <1>1, <1>2, <2>1 DEF Init
  <2>4. covered \in [Clients -> [Channels -> BOOLEAN]]
    BY <1>1 DEF Init, Nowhere
  <2>5. toServer \in [Clients -> Seq(Requests)] /\ toClient \in [Clients -> Seq(Answers)]
    BY <1>1, <1>2 DEF Init
  <2>6. /\ last \in [Channels -> Nat]
        /\ indexed \in [Channels -> SUBSET Nat] /\ announced \in [Channels -> SUBSET Nat]
        /\ member \in [Channels -> SUBSET Clients]
        /\ authed \subseteq online /\ online \subseteq Clients
        /\ cur \in [Clients -> Channels \cup {None}]
    BY <1>1 DEF Init
  <2> QED
    BY <2>2, <2>3, <2>4, <2>5, <2>6 DEF TypeOK
<1>4. Links
  BY <1>1 DEF Init, Links, ClosedIsEmpty, HelloFirst, CoveredHears, Stored, Nowhere
<1>5. ASSUME NEW c \in Clients, NEW ch \in Channels
      PROVE  SoundAt(c, ch)
  <2>1. toClient[c] = <<>> /\ view[c][ch] = <<>> /\ cache[c][ch] = <<>> /\ ~covered[c][ch]
    BY <1>1 DEF Init, NoMessages, Nowhere
  <2>2. SoundQueue(<<>>, ch, last[ch])
    BY <1>2 DEF SoundQueue
  <2>3. SoundStart(<<>>, <<>>, ch, last[ch])
    BY <1>2, GoodEmpty DEF SoundStart, Precedes
  <2> QED
    BY <2>1, <2>2, <2>3 DEF SoundAt, Sound
<1> QED
  BY <1>3, <1>4, <1>5 DEF IInv

-----------------------------------------------------------------------------
(***************************************************************************)
(* The steps of the server.                                                *)
(***************************************************************************)
LEMMA HelloStep == ASSUME NEW c \in Clients, IInv, HandleHello(c) PROVE IInv'
<1> DEFINE m == Msg("hello_ack", None)
<1>1. m \in Answers /\ m.t = "hello_ack"
  BY DEF Answers, Msg
<1>2. /\ Incoming(c, "hello") /\ Consume(c) /\ Reply(c, m)
      /\ authed' = authed \cup {c}
      /\ UNCHANGED <<last, indexed, announced, member, online, cur, view, cache, covered>>
  BY DEF HandleHello, serverVars, clientVars
<1> HIDE DEF m
<1>3. \A ch \in Channels : Other(m, ch)
  BY <1>1, OtherByType
<1>4. c \in online /\ authed \subseteq online /\ member \in [Channels -> SUBSET Clients]
  BY <1>2 DEF IInv, TypeOK, Links, HelloFirst, ClosedIsEmpty, Incoming
<1>5. authed \subseteq authed' /\ authed' \subseteq online /\ c \in authed'
  BY <1>2, <1>4
<1>6. member' \in [Channels -> SUBSET Clients] /\ \A ch \in Channels : member[ch] \subseteq member'[ch]
  BY <1>2, <1>4
<1> QED
  BY <1>1, <1>2, <1>3, <1>5, <1>6, AnswerStep

LEMMA ChannelListStep == ASSUME NEW c \in Clients, IInv, HandleChannelList(c) PROVE IInv'
<1> DEFINE m == Msg("channel.list_result", None)
<1>1. m \in Answers /\ m.t = "channel.list_result"
  BY DEF Answers, Msg
<1>2. /\ Incoming(c, "channel.list") /\ Consume(c) /\ Reply(c, m)
      /\ UNCHANGED <<last, indexed, announced, member, authed, online, cur, view, cache, covered>>
  BY DEF HandleChannelList, serverVars, clientVars
<1> HIDE DEF m
<1>3. \A ch \in Channels : Other(m, ch)
  BY <1>1, OtherByType
<1>4. authed' \subseteq online /\ member' \in [Channels -> SUBSET Clients]
  BY <1>2 DEF IInv, TypeOK
<1>5. \A ch \in Channels : member[ch] \subseteq member'[ch]
  BY <1>2
<1>6. authed \subseteq authed'
  BY <1>2
<1> QED
  BY <1>1, <1>2, <1>3, <1>4, <1>5, <1>6, AnswerStep

LEMMA RequestChannel ==
  ASSUME NEW r \in Requests, r.t = "channel.join" \/ r.t = "msg.list" \/ r.t = "msg.send"
  PROVE  r.ch \in Channels
  BY DEF Requests

LEMMA JoinStep == ASSUME NEW c \in Clients, IInv, HandleChannelJoin(c) PROVE IInv'
<1> DEFINE ch == Head(toServer[c]).ch
           m  == Msg("channel.member_event", ch)
<1>1. /\ Incoming(c, "channel.join") /\ Consume(c) /\ Reply(c, m)
      /\ member' = [member EXCEPT ![ch] = @ \cup {c}]
      /\ UNCHANGED <<last, indexed, announced, authed, online, cur, view, cache, covered>>
  BY DEF HandleChannelJoin, clientVars
<1>2. Head(toServer[c]) \in Requests /\ Head(toServer[c]).t = "channel.join"
  BY <1>1, Consuming DEF IInv, Links
<1>3. ch \in Channels
  BY <1>2, RequestChannel
<1> HIDE DEF ch
<1>4. m \in Answers /\ m.t = "channel.member_event"
  BY <1>3 DEF Answers, Msg
<1> HIDE DEF m
<1>5. \A x \in Channels : Other(m, x)
  BY <1>4, OtherByType
<1>6. member' \in [Channels -> SUBSET Clients] /\ \A x \in Channels : member[x] \subseteq member'[x]
  BY <1>1, <1>3 DEF IInv, TypeOK
<1>7. authed \subseteq authed' /\ authed' \subseteq online
  BY <1>1 DEF IInv, TypeOK
<1> QED
  BY <1>1, <1>4, <1>5, <1>6, <1>7, AnswerStep

LEMMA RefuseStep ==
  ASSUME NEW c \in Clients, NEW t, t # "hello", IInv, Incoming(c, t), Refuse(c)
  PROVE  IInv'
<1> DEFINE m == Failure("FORBIDDEN")
<1>1. m \in Answers /\ m.t = "error"
  BY DEF Answers, Failure
<1>2. /\ Consume(c) /\ Reply(c, m)
      /\ UNCHANGED <<last, indexed, announced, member, authed, online, cur, view, cache, covered>>
  BY DEF Refuse, serverVars, clientVars
<1> HIDE DEF m
<1>3. \A ch \in Channels : Other(m, ch)
  BY <1>1, OtherByType
<1>4. authed' \subseteq online /\ member' \in [Channels -> SUBSET Clients]
  BY <1>2 DEF IInv, TypeOK
<1>5. \A ch \in Channels : member[ch] \subseteq member'[ch]
  BY <1>2
<1>6. authed \subseteq authed'
  BY <1>2
<1> QED
  BY <1>1, <1>2, <1>3, <1>4, <1>5, <1>6, AnswerStep

\* The page of msg.list: in order, and the whole channel when it is short.
LEMMA PageGood ==
  ASSUME NEW ch \in Channels, TypeOK
  PROVE  /\ Good(Page(ch), last[ch])
         /\ last[ch] <= Limit => \A k \in 1..last[ch] : k \in ToSet(Page(ch))
<1> DEFINE n == last[ch]
           l == IF n < Limit THEN n ELSE Limit
           s == Page(ch)
<1>1. n \in Nat /\ Limit \in Nat /\ l \in Nat /\ l <= n /\ (n <= Limit => l = n)
  BY FlowAssumption DEF TypeOK
<1>2. s = [k \in 1..l |-> k]
  BY DEF Page
<1> HIDE DEF n, l, s
<1>3. s \in Seq(Nat) /\ Len(s) = l /\ DOMAIN s = 1..l /\ \A k \in 1..l : s[k] = k
  BY <1>1, <1>2
<1>4. Increasing(s)
  BY <1>3 DEF Increasing
<1>5. \A k \in 1..Len(s) : s[k] \in 1..n
  BY <1>1, <1>3
<1>6. n <= Limit => \A k \in 1..n : k \in ToSet(s)
  BY <1>1, <1>3 DEF ToSet
<1> QED
  BY <1>3, <1>4, <1>5, <1>6 DEF Good, n, s

LEMMA ListStep ==
  ASSUME NEW c \in Clients, NEW ch, IInv, ch = Head(toServer[c]).ch,
         Incoming(c, "msg.list"), c \in member[ch],
         Consume(c), Reply(c, ListResult(ch, Page(ch))),
         covered' = [covered EXCEPT ![c][ch] = last[ch] <= Limit],
         UNCHANGED <<serverVars, authed, online, clientVars>>
  PROVE  IInv'
<1>1. TypeOK /\ AllSound /\ ClosedIsEmpty /\ HelloFirst /\ CoveredHears /\ Stored
  BY InvIs DEF Links
<1>2. UNCHANGED <<last, indexed, announced, member, authed, online, cur, view, cache>>
  BY DEF serverVars, clientVars
<1>3. /\ c \in online /\ c \in authed /\ toServer' \in [Clients -> Seq(Requests)]
      /\ Head(toServer[c]) \in Requests /\ Head(toServer[c]).t = "msg.list"
      /\ \A d \in Clients : d # c => toServer'[d] = toServer[d]
  BY <1>1, Consuming
<1>4. ch \in Channels
  BY <1>3, RequestChannel
<1> DEFINE m == ListResult(ch, Page(ch))
<1>5. Good(Page(ch), last[ch]) /\ (last[ch] <= Limit => \A k \in 1..last[ch] : k \in ToSet(Page(ch)))
  BY <1>1, <1>4, PageGood
<1>6. m \in Answers /\ m.ch = ch
  BY <1>4, <1>5 DEF Answers, ListResult, Good
<1>7. /\ toClient' \in [Clients -> Seq(Answers)]
      /\ toClient'[c] = Append(toClient[c], m)
      /\ \A d \in Clients : d # c => toClient'[d] = toClient[d]
  BY <1>1, <1>6, Replying
<1> DEFINE all == last[ch] <= Limit
<1>8. /\ all \in BOOLEAN /\ covered' \in [Clients -> [Channels -> BOOLEAN]]
      /\ covered'[c][ch] = all
      /\ \A d \in Clients, x \in Channels : d # c \/ x # ch => covered'[d][x] = covered[d][x]
  <2>1. all \in BOOLEAN
    OBVIOUS
  <2>2. covered' = [covered EXCEPT ![c][ch] = all] /\ covered \in [Clients -> [Channels -> BOOLEAN]]
    BY <1>1 DEF TypeOK
  <2> HIDE DEF all
  <2> QED
    BY <1>4, <2>1, <2>2
<1>9. TypeOK'
  BY <1>1, <1>2, <1>3, <1>7, <1>8 DEF TypeOK
<1>10. ClosedIsEmpty' /\ HelloFirst'
  BY <1>1, <1>2, <1>3, <1>7 DEF ClosedIsEmpty, HelloFirst, TypeOK
<1>11. CoveredHears'
  <2>1. SUFFICES ASSUME NEW d \in Clients, NEW x \in Channels, covered'[d][x]
                 PROVE  d \in member[x] \cap authed
    BY <1>2 DEF CoveredHears
  <2>2. CASE d = c /\ x = ch
    BY <1>3, <2>2
  <2>3. CASE d # c \/ x # ch
    BY <1>1, <1>8, <2>1, <2>3 DEF CoveredHears
  <2> QED
    BY <2>2, <2>3
<1>12. Stored'
  BY <1>1, <1>2 DEF Stored
<1>13. all => announced[ch] \subseteq ToSet(Page(ch))
  BY <1>1, <1>4, <1>5 DEF Stored
<1> HIDE DEF all
<1>14. ASSUME NEW d \in Clients, NEW x \in Channels
       PROVE  SoundAt(d, x)'
  <2>1. SoundAt(d, x) /\ toClient[d] \in Seq(Answers) /\ last[x] \in Nat
    BY <1>1 DEF AllSound, TypeOK
  <2>2. CASE d # c
    <3>1. covered'[d][x] = covered[d][x] /\ toClient'[d] = toClient[d]
      BY <1>7, <1>8, <2>2
    <3> QED
      BY <1>2, <2>1, <3>1 DEF SoundAt
  <2>3. CASE d = c /\ x # ch
    <3>1. covered'[d][x] = covered[d][x] /\ toClient'[d] = Append(toClient[d], m)
      BY <1>7, <1>8, <2>3
    <3>2. Other(m, x)
      BY <1>6, <2>3, OtherByChannel
    <3> HIDE DEF m
    <3>3. Sound(Append(toClient[d], m), view[d][x], cache[d][x], covered[d][x], x, last[x], announced[x])
      BY <1>6, <2>1, <3>2, SoundOther DEF SoundAt
    <3> QED
      BY <1>2, <3>1, <3>3 DEF SoundAt
  <2>4. CASE d = c /\ x = ch
    <3>1. covered'[d][x] = all /\ toClient'[d] = Append(toClient[d], m)
      BY <1>7, <1>8, <2>4
    <3>2. Sound(toClient[d], view[d][x], cache[d][x], covered[d][x], x, last[x], announced[x])
      BY <2>1 DEF SoundAt
    <3>3. Sound(Append(toClient[d], m), view[d][x], cache[d][x], all, x, last[x], announced[x])
      BY <1>5, <1>8, <1>13, <2>1, <2>4, <3>2, SoundList
    <3> QED
      BY <1>2, <3>1, <3>3 DEF SoundAt
  <2> QED
    BY <2>2, <2>3, <2>4
<1>15. Links'
  BY <1>10, <1>11, <1>12 DEF Links
<1> QED
  BY <1>9, <1>14, <1>15 DEF IInv

LEMMA MsgListStep == ASSUME NEW c \in Clients, IInv, HandleMsgList(c) PROVE IInv'
<1> DEFINE ch == Head(toServer[c]).ch
<1>1. Incoming(c, "msg.list")
  BY DEF HandleMsgList
<1>2. CASE Refuse(c)
  BY <1>1, <1>2, RefuseStep
<1>3. CASE /\ c \in member[ch]
           /\ Consume(c) /\ Reply(c, ListResult(ch, Page(ch)))
           /\ covered' = [covered EXCEPT ![c][ch] = last[ch] <= Limit]
           /\ UNCHANGED <<serverVars, authed, online, clientVars>>
  BY <1>1, <1>3, ListStep
<1> QED
  BY <1>2, <1>3 DEF HandleMsgList

\* The message is committed, indexed, and its event sent to every member.
LEMMA DeliveredStep ==
  ASSUME NEW c \in Clients, NEW ch \in Channels, IInv, Incoming(c, "msg.send"), Consume(c),
         last' = [last EXCEPT ![ch] = @ + 1],
         indexed' = [indexed EXCEPT ![ch] = @ \cup {last[ch] + 1}],
         announced' = [announced EXCEPT ![ch] = @ \cup {last[ch] + 1}],
         toClient' = Broadcast(ch, last[ch] + 1, c),
         UNCHANGED <<member, authed, online, cur, view, cache, covered>>
  PROVE  IInv'
<1> DEFINE n == last[ch] + 1
           m == Event(ch, n)
           R == member[ch] \cap authed
<1>1. TypeOK /\ AllSound /\ ClosedIsEmpty /\ HelloFirst /\ CoveredHears /\ Stored
  BY InvIs DEF Links
<1>2. /\ c \in authed /\ c \in online /\ toServer' \in [Clients -> Seq(Requests)]
      /\ \A d \in Clients : d # c => toServer'[d] = toServer[d]
  BY <1>1, Consuming
<1>3. last \in [Channels -> Nat] /\ n \in Nat /\ last[ch] \in Nat
  BY <1>1 DEF TypeOK
<1>4. m \in Answers /\ m.ch = ch
  BY <1>3 DEF Answers, Event
<1>5. \A d \in Clients : toClient'[d] = IF d \in R THEN Append(toClient[d], m) ELSE toClient[d]
  BY DEF Broadcast
<1>6. toClient' \in [Clients -> Seq(Answers)]
  <2>1. toClient' = [d \in Clients |-> IF d \in R THEN Append(toClient[d], m) ELSE toClient[d]]
    BY DEF Broadcast
  <2>2. toClient \in [Clients -> Seq(Answers)]
    BY <1>1 DEF TypeOK
  <2> HIDE DEF m, R
  <2>3. \A d \in Clients : Append(toClient[d], m) \in Seq(Answers)
    BY <1>4, <2>2
  <2> QED
    BY <2>1, <2>2, <2>3
<1> HIDE DEF m, R
<1>7. /\ last' \in [Channels -> Nat]
      /\ indexed' \in [Channels -> SUBSET Nat] /\ announced' \in [Channels -> SUBSET Nat]
  BY <1>1, <1>3 DEF TypeOK
<1>8. /\ last'[ch] = n /\ announced'[ch] = announced[ch] \cup {n}
      /\ indexed'[ch] = indexed[ch] \cup {n}
      /\ \A x \in Channels : x # ch => /\ last'[x] = last[x] /\ announced'[x] = announced[x]
                                       /\ indexed'[x] = indexed[x]
  BY <1>1 DEF TypeOK
<1>9. TypeOK'
  BY <1>1, <1>2, <1>6, <1>7 DEF TypeOK
<1>10. ClosedIsEmpty' /\ HelloFirst' /\ CoveredHears'
  <2>1. ClosedIsEmpty'
    BY <1>1, <1>2, <1>5 DEF ClosedIsEmpty, TypeOK, R
  <2>2. HelloFirst'
    BY <1>1, <1>2 DEF HelloFirst, TypeOK
  <2>3. CoveredHears'
    BY <1>1 DEF CoveredHears
  <2> QED
    BY <2>1, <2>2, <2>3
<1>11. Stored'
  <2>1. \A k \in 1..last[ch] : k \in 1..n
    BY <1>3
  <2>2. n \in 1..n
    BY <1>3
  <2> HIDE DEF n
  <2>3. ASSUME NEW x \in Channels
        PROVE  announced'[x] \subseteq indexed'[x] \cap 1..last'[x]
    <3>1. announced[x] \subseteq indexed[x] \cap 1..last[x]
      BY <1>1 DEF Stored
    <3>2. CASE x = ch
      BY <1>8, <2>1, <2>2, <3>1, <3>2
    <3>3. CASE x # ch
      BY <1>8, <3>1, <3>3
    <3> QED
      BY <3>2, <3>3
  <2> QED
    BY <2>3 DEF Stored
<1>12. ASSUME NEW d \in Clients, NEW x \in Channels
       PROVE  SoundAt(d, x)'
  <2> DEFINE q == toClient[d]
  <2>1. SoundAt(d, x) /\ q \in Seq(Answers) /\ last[x] \in Nat
    BY <1>1 DEF AllSound, TypeOK
  <2>2. Sound(q, view[d][x], cache[d][x], covered[d][x], x, last[x], announced[x])
    BY <2>1 DEF SoundAt
  <2>3. CASE d \in R /\ x # ch
    <3>1. Other(m, x)
      BY <1>4, <2>3, OtherByChannel
    <3>2. Sound(Append(q, m), view[d][x], cache[d][x], covered[d][x], x, last[x], announced[x])
      BY <1>4, <2>1, <2>2, <3>1, SoundOther
    <3> QED
      BY <1>5, <1>8, <2>3, <3>2 DEF SoundAt
  <2>4. CASE d \in R /\ x = ch
    <3>1. Sound(Append(q, Event(x, last[x] + 1)), view[d][x], cache[d][x], covered[d][x], x,
                last[x] + 1, announced[x] \cup {last[x] + 1})
      BY <2>1, <2>2, SoundEvent
    <3>2. /\ toClient'[d] = Append(q, Event(x, last[x] + 1))
          /\ last'[x] = last[x] + 1 /\ announced'[x] = announced[x] \cup {last[x] + 1}
      BY <1>5, <1>8, <2>4 DEF m
    <3> QED
      BY <3>1, <3>2 DEF SoundAt
  <2>5. CASE d \notin R /\ x # ch
    <3>1. toClient'[d] = toClient[d]
      BY <1>5, <2>5
    <3> QED
      BY <1>8, <2>2, <2>5, <3>1 DEF SoundAt
  <2>6. CASE d \notin R /\ x = ch
    <3>1. covered[d][x] = FALSE
      BY <1>1, <2>6 DEF CoveredHears, TypeOK, R
    <3>2. Sound(q, view[d][x], cache[d][x], FALSE, x, last[x] + 1, announced[x] \cup {last[x] + 1})
      BY <2>1, <2>2, <3>1, SoundUnsent
    <3>3. toClient'[d] = q
      BY <1>5, <2>6
    <3> QED
      BY <1>8, <2>6, <3>1, <3>2, <3>3 DEF SoundAt
  <2> QED
    BY <2>3, <2>4, <2>5, <2>6
<1>13. Links'
  BY <1>10, <1>11 DEF Links
<1> QED
  BY <1>9, <1>12, <1>13 DEF IInv

\* What a committed message does to the tables when nothing else happens.
LEMMA Committing ==
  ASSUME NEW ch \in Channels, TypeOK, Stored, last' = [last EXCEPT ![ch] = @ + 1],
         UNCHANGED <<indexed, announced>>
  PROVE  /\ last' \in [Channels -> Nat]
         /\ last'[ch] = last[ch] + 1
         /\ \A x \in Channels : x # ch => last'[x] = last[x]
         /\ Stored'
<1>1. /\ last' \in [Channels -> Nat] /\ last[ch] \in Nat /\ last'[ch] = last[ch] + 1
      /\ \A x \in Channels : x # ch => last'[x] = last[x]
  BY DEF TypeOK
<1>2. 1..last[ch] \subseteq 1..(last[ch] + 1)
  BY <1>1
<1>3. Stored'
  BY <1>1, <1>2 DEF Stored
<1> QED
  BY <1>1, <1>3

\* The index failed: the message is committed and the sender gets an error.
LEMMA UnindexedStep ==
  ASSUME NEW c \in Clients, NEW ch \in Channels, IInv, Incoming(c, "msg.send"), Consume(c),
         last' = [last EXCEPT ![ch] = @ + 1], Reply(c, Failure("INTERNAL")),
         UNCHANGED <<indexed, announced, member, authed, online, cur, view, cache, covered>>
  PROVE  IInv'
<1> DEFINE m == Failure("INTERNAL")
<1>1. TypeOK /\ AllSound /\ ClosedIsEmpty /\ HelloFirst /\ CoveredHears /\ Stored
  BY InvIs DEF Links
<1>2. /\ c \in authed /\ c \in online /\ toServer' \in [Clients -> Seq(Requests)]
      /\ \A d \in Clients : d # c => toServer'[d] = toServer[d]
  BY <1>1, Consuming
<1>3. m \in Answers /\ m.t = "error"
  BY DEF Answers, Failure
<1> HIDE DEF m
<1>4. /\ toClient' \in [Clients -> Seq(Answers)]
      /\ toClient'[c] = Append(toClient[c], m)
      /\ \A d \in Clients : d # c => toClient'[d] = toClient[d]
  BY <1>1, <1>3, Replying DEF m
<1>5. /\ last' \in [Channels -> Nat] /\ last'[ch] = last[ch] + 1 /\ Stored'
      /\ \A x \in Channels : x # ch => last'[x] = last[x]
  BY <1>1, Committing
<1>6. TypeOK'
  BY <1>1, <1>2, <1>4, <1>5 DEF TypeOK
<1>7. ClosedIsEmpty'
  BY <1>1, <1>2, <1>4 DEF ClosedIsEmpty
<1>8. HelloFirst'
  BY <1>1, <1>2 DEF HelloFirst, TypeOK
<1>9. CoveredHears'
  BY <1>1 DEF CoveredHears
<1>10. ASSUME NEW d \in Clients, NEW x \in Channels
       PROVE  SoundAt(d, x)'
  <2> DEFINE q == toClient[d]
  <2>1. SoundAt(d, x) /\ q \in Seq(Answers) /\ last[x] \in Nat
    BY <1>1 DEF AllSound, TypeOK
  <2>2. Sound(q, view[d][x], cache[d][x], covered[d][x], x, last[x], announced[x])
    BY <2>1 DEF SoundAt
  <2>3. Sound(q, view[d][x], cache[d][x], covered[d][x], x, last'[x], announced[x])
    <3>1. CASE x = ch
      BY <1>5, <2>1, <2>2, <3>1, SoundCommitted
    <3>2. CASE x # ch
      BY <1>5, <2>2, <3>2
    <3> QED
      BY <3>1, <3>2
  <2>4. CASE d = c
    <3>1. Other(m, x)
      BY <1>3, OtherByType
    <3>2. Sound(Append(q, m), view[d][x], cache[d][x], covered[d][x], x, last'[x], announced[x])
      BY <1>3, <2>1, <2>3, <3>1, SoundOther
    <3> QED
      BY <1>4, <2>4, <3>2 DEF SoundAt
  <2>5. CASE d # c
    <3>1. toClient'[d] = toClient[d]
      BY <1>4, <2>5
    <3> QED
      BY <2>3, <3>1 DEF SoundAt
  <2> QED
    BY <2>4, <2>5
<1>11. Links'
  BY <1>5, <1>7, <1>8, <1>9 DEF Links
<1> QED
  BY <1>6, <1>10, <1>11 DEF IInv

\* Sockets are cut: what was under way is gone, and nobody cut off is covered.
LEMMA Cutting ==
  ASSUME NEW S, S \subseteq Clients, TypeOK, Links, Cut(S), UNCHANGED member
  PROVE  /\ toServer' \in [Clients -> Seq(Requests)] /\ toClient' \in [Clients -> Seq(Answers)]
         /\ covered' \in [Clients -> [Channels -> BOOLEAN]]
         /\ authed' \subseteq online' /\ online' \subseteq Clients
         /\ ClosedIsEmpty' /\ HelloFirst' /\ CoveredHears'
         /\ \A d \in Clients : IF d \in S
               THEN toClient'[d] = <<>> /\ \A ch \in Channels : covered'[d][ch] = FALSE
               ELSE toClient'[d] = toClient[d] /\ covered'[d] = covered[d]
<1>1. /\ toServer \in [Clients -> Seq(Requests)] /\ toClient \in [Clients -> Seq(Answers)]
      /\ covered \in [Clients -> [Channels -> BOOLEAN]]
      /\ authed \subseteq online /\ online \subseteq Clients
  BY DEF TypeOK
<1>2. <<>> \in Seq(Requests) /\ <<>> \in Seq(Answers)
  OBVIOUS
<1>3. Nowhere \in [Channels -> BOOLEAN] /\ \A ch \in Channels : Nowhere[ch] = FALSE
  BY DEF Nowhere
<1>4. toServer' \in [Clients -> Seq(Requests)] /\ toClient' \in [Clients -> Seq(Answers)]
  BY <1>1, <1>2 DEF Cut
<1>5. covered' \in [Clients -> [Channels -> BOOLEAN]]
  BY <1>1, <1>3 DEF Cut
<1>6. authed' \subseteq online' /\ online' \subseteq Clients
  BY <1>1 DEF Cut
<1>7. \A d \in Clients : IF d \in S
         THEN /\ toServer'[d] = <<>> /\ toClient'[d] = <<>>
              /\ \A ch \in Channels : covered'[d][ch] = FALSE
         ELSE toServer'[d] = toServer[d] /\ toClient'[d] = toClient[d] /\ covered'[d] = covered[d]
  BY <1>3 DEF Cut
<1>8. ClosedIsEmpty'
  BY <1>7 DEF ClosedIsEmpty, Links, Cut
<1>9. HelloFirst'
  BY <1>1, <1>7 DEF HelloFirst, Links, Cut
<1>10. CoveredHears'
  BY <1>7 DEF CoveredHears, Links, Cut
<1> QED
  BY <1>4, <1>5, <1>6, <1>7, <1>8, <1>9, <1>10

\* The process dies after the commit: every socket is lost with it.
LEMMA CrashedStep ==
  ASSUME NEW ch \in Channels, IInv, last' = [last EXCEPT ![ch] = @ + 1], Cut(Clients),
         UNCHANGED <<indexed, announced, member, cur, view, cache>>
  PROVE  IInv'
<1>1. TypeOK /\ AllSound /\ Links /\ Stored
  BY InvIs DEF Links
<1> DEFINE S == Clients
<1>2. Cut(S) /\ S \subseteq Clients
  OBVIOUS
<1>3. /\ toServer' \in [Clients -> Seq(Requests)] /\ toClient' \in [Clients -> Seq(Answers)]
      /\ covered' \in [Clients -> [Channels -> BOOLEAN]]
      /\ authed' \subseteq online' /\ online' \subseteq Clients
      /\ ClosedIsEmpty' /\ HelloFirst' /\ CoveredHears'
      /\ \A d \in Clients : toClient'[d] = <<>> /\ \A x \in Channels : covered'[d][x] = FALSE
  <2> HIDE DEF S
  <2>1. /\ toServer' \in [Clients -> Seq(Requests)] /\ toClient' \in [Clients -> Seq(Answers)]
        /\ covered' \in [Clients -> [Channels -> BOOLEAN]]
        /\ authed' \subseteq online' /\ online' \subseteq Clients
        /\ ClosedIsEmpty' /\ HelloFirst' /\ CoveredHears'
        /\ \A d \in Clients : IF d \in S
               THEN toClient'[d] = <<>> /\ \A x \in Channels : covered'[d][x] = FALSE
               ELSE toClient'[d] = toClient[d] /\ covered'[d] = covered[d]
    BY <1>1, <1>2, Cutting
  <2> QED
    BY <2>1 DEF S
<1>4. /\ last' \in [Channels -> Nat] /\ last'[ch] = last[ch] + 1 /\ Stored'
      /\ \A x \in Channels : x # ch => last'[x] = last[x]
  BY <1>1, Committing
<1>5. TypeOK'
  BY <1>1, <1>3, <1>4 DEF TypeOK
<1>6. Links'
  BY <1>3, <1>4 DEF Links
<1>7. ASSUME NEW d \in Clients, NEW x \in Channels
      PROVE  SoundAt(d, x)'
  <2>1. SoundAt(d, x) /\ last[x] \in Nat
    BY <1>1 DEF AllSound, TypeOK
  <2>2. Sound(<<>>, view[d][x], cache[d][x], FALSE, x, last[x], announced[x])
    BY <2>1, SoundCut DEF SoundAt
  <2>3. Sound(<<>>, view[d][x], cache[d][x], FALSE, x, last'[x], announced[x])
    <3>1. CASE x = ch
      BY <1>4, <2>1, <2>2, <3>1, SoundCommitted
    <3>2. CASE x # ch
      BY <1>4, <2>2, <3>2
    <3> QED
      BY <3>1, <3>2
  <2>4. toClient'[d] = <<>> /\ covered'[d][x] = FALSE
    BY <1>3
  <2> QED
    BY <2>3, <2>4 DEF SoundAt
<1> QED
  BY <1>5, <1>6, <1>7 DEF IInv

LEMMA MsgSendStep == ASSUME NEW c \in Clients, IInv, HandleMsgSend(c) PROVE IInv'
<1> DEFINE ch == Head(toServer[c]).ch
<1>1. Incoming(c, "msg.send")
  BY DEF HandleMsgSend
<1>2. CASE Refuse(c)
  BY <1>1, <1>2, RefuseStep
<1>3. ch \in Channels
  <2>1. TypeOK /\ HelloFirst
    BY DEF IInv, Links
  <2>2. Head(toServer[c]) \in Requests /\ Head(toServer[c]).t = "msg.send"
    BY <1>1, <2>1 DEF Incoming, TypeOK
  <2> QED
    BY <2>2, RequestChannel
<1>4. CASE /\ last' = [last EXCEPT ![ch] = @ + 1]
           /\ Deliver(c, ch, last[ch] + 1) /\ Consume(c)
           /\ UNCHANGED <<authed, online, covered>>
           /\ UNCHANGED <<member, clientVars>>
  <2>1. UNCHANGED <<member, authed, online, cur, view, cache, covered>>
    BY <1>4 DEF clientVars
  <2> HIDE DEF ch
  <2>2. CASE /\ indexed' = [indexed EXCEPT ![ch] = @ \cup {last[ch] + 1}]
             /\ announced' = [announced EXCEPT ![ch] = @ \cup {last[ch] + 1}]
             /\ toClient' = Broadcast(ch, last[ch] + 1, c)
    BY <1>1, <1>3, <1>4, <2>1, <2>2, DeliveredStep
  <2>3. CASE Reply(c, Failure("INTERNAL")) /\ UNCHANGED <<indexed, announced>>
    BY <1>1, <1>3, <1>4, <2>1, <2>3, UnindexedStep
  <2> QED
    BY <1>4, <2>2, <2>3 DEF Deliver
<1>5. CASE /\ last' = [last EXCEPT ![ch] = @ + 1]
           /\ Cut(Clients) /\ UNCHANGED <<indexed, announced>>
           /\ UNCHANGED <<member, clientVars>>
  <2>1. UNCHANGED <<indexed, announced, member, cur, view, cache>>
    BY <1>5 DEF clientVars
  <2> QED
    BY <1>3, <1>5, <2>1, CrashedStep
<1> QED
  BY <1>2, <1>4, <1>5 DEF HandleMsgSend

-----------------------------------------------------------------------------
(***************************************************************************)
(* The steps of the client and of its user.                                *)
(***************************************************************************)
LEMMA RequestIs ==
  /\ \A ch \in Channels : {Msg("channel.join", ch), Msg("msg.list", ch), Msg("msg.send", ch)}
                             \subseteq Requests
  /\ {Msg("hello", None), Msg("channel.list", None)} \subseteq Requests
<1>1. ASSUME NEW ch \in Channels
      PROVE  {Msg("channel.join", ch), Msg("msg.list", ch), Msg("msg.send", ch)} \subseteq Requests
  BY DEF Requests, Msg
<1>2. {Msg("hello", None), Msg("channel.list", None)} \subseteq Requests
  BY DEF Requests, Msg
<1> QED
  BY <1>1, <1>2

LEMMA AckStep == ASSUME NEW c \in Clients, IInv, HandleHelloAck(c) PROVE IInv'
<1>1. /\ Arrived(c, "hello_ack") /\ Taken(c) /\ Sends(c, Msg("channel.list", None))
      /\ UNCHANGED <<serverVars, authed, online, clientVars, covered>>
  BY DEF HandleHelloAck
<1>2. Msg("channel.list", None) \in Requests
  BY RequestIs
<1> QED
  BY <1>1, <1>2, HandleStep

LEMMA MemberEventStep == ASSUME NEW c \in Clients, IInv, HandleChannelMemberEvent(c) PROVE IInv'
<1> DEFINE ch == Head(toClient[c]).ch
           m  == Msg("msg.list", ch)
<1>1. /\ Arrived(c, "channel.member_event") /\ Taken(c)
      /\ Sends(c, m) \/ UNCHANGED toServer
      /\ UNCHANGED <<serverVars, authed, online, clientVars, covered>>
  BY DEF HandleChannelMemberEvent
<1>2. Head(toClient[c]) \in Answers /\ Head(toClient[c]).t = "channel.member_event"
  BY <1>1, Taking DEF IInv, Links
<1>3. ch \in Channels
  BY <1>2 DEF Answers
<1>4. m \in Requests
  BY <1>3, RequestIs
<1> HIDE DEF m
<1> QED
  BY <1>1, <1>4, HandleStep

LEMMA ErrorStep == ASSUME NEW c \in Clients, IInv, HandleError(c) PROVE IInv'
<1>1. /\ Arrived(c, "error") /\ Taken(c)
      /\ (cur[c] # None /\ Sends(c, Msg("channel.join", cur[c]))) \/ UNCHANGED toServer
      /\ UNCHANGED <<serverVars, authed, online, clientVars, covered>>
  BY DEF HandleError
<1>2. cur[c] \in Channels \cup {None}
  BY DEF IInv, TypeOK
<1>3. CASE cur[c] # None
  <2>1. Msg("channel.join", cur[c]) \in Requests
    BY <1>2, <1>3, RequestIs
  <2> QED
    BY <1>1, <2>1, HandleStep
<1>4. CASE UNCHANGED toServer
  <2>1. Msg("channel.list", None) \in Requests
    BY RequestIs
  <2> QED
    BY <1>1, <1>4, <2>1, HandleStep
<1> QED
  BY <1>1, <1>3, <1>4

\* The cached messages become the view; the queue may lose its head before.
LEMMA SwitchStep ==
  ASSUME NEW c \in Clients, NEW ch \in Channels, IInv, SetActiveChannel(c, ch),
         UNCHANGED <<serverVars, authed, online>>,
         toClient' \in [Clients -> Seq(Answers)],
         \A d \in Clients \ online : toClient'[d] = <<>>,
         \A d \in Clients, x \in Channels :
            Sound(toClient'[d], view[d][x], cache[d][x], covered[d][x], x, last[x], announced[x])
  PROVE  IInv'
<1>1. TypeOK /\ AllSound /\ ClosedIsEmpty /\ HelloFirst /\ CoveredHears /\ Stored
  BY InvIs DEF Links
<1>2. UNCHANGED <<last, indexed, announced, member, authed, online, cache>>
  BY DEF serverVars, SetActiveChannel
<1>3. Msg("channel.join", ch) \in Requests /\ Sends(c, Msg("channel.join", ch))
  BY RequestIs DEF SetActiveChannel
<1>4. /\ toServer' \in [Clients -> Seq(Requests)]
      /\ \A d \in Clients \ online : toServer'[d] = <<>>
      /\ HelloFirst'
  BY <1>1, <1>2, <1>3, Sending
<1>5. /\ cur' \in [Clients -> Channels \cup {None}]
      /\ view' \in [Clients -> [Channels -> Seq(Nat)]]
      /\ covered' \in [Clients -> [Channels -> BOOLEAN]]
      /\ view'[c][ch] = cache[c][ch] /\ covered'[c][ch] = FALSE
      /\ \A d \in Clients, x \in Channels : d # c \/ x # ch =>
            view'[d][x] = view[d][x] /\ covered'[d][x] = covered[d][x]
  <2>1. cur' \in [Clients -> Channels \cup {None}]
    BY <1>1 DEF TypeOK, SetActiveChannel
  <2>2. /\ view' \in [Clients -> [Channels -> Seq(Nat)]]
        /\ view'[c][ch] = cache[c][ch]
        /\ \A d \in Clients, x \in Channels : d # c \/ x # ch => view'[d][x] = view[d][x]
    BY <1>1 DEF TypeOK, SetActiveChannel
  <2>3. /\ covered' \in [Clients -> [Channels -> BOOLEAN]]
        /\ covered'[c][ch] = FALSE
        /\ \A d \in Clients, x \in Channels : d # c \/ x # ch => covered'[d][x] = covered[d][x]
    BY <1>1 DEF TypeOK, SetActiveChannel
  <2> QED
    BY <2>1, <2>2, <2>3
<1>6. TypeOK'
  BY <1>1, <1>2, <1>4, <1>5 DEF TypeOK
<1>7. ClosedIsEmpty'
  BY <1>2, <1>4 DEF ClosedIsEmpty
<1>8. CoveredHears'
  BY <1>1, <1>2, <1>5 DEF CoveredHears
<1>9. Stored'
  BY <1>1, <1>2 DEF Stored
<1>10. ASSUME NEW d \in Clients, NEW x \in Channels
       PROVE  SoundAt(d, x)'
  <2> DEFINE q == toClient'[d]
  <2>1. Sound(q, view[d][x], cache[d][x], covered[d][x], x, last[x], announced[x])
    OBVIOUS
  <2> HIDE DEF q
  <2>2. CASE d = c /\ x = ch
    <3>1. Sound(q, cache[d][x], cache[d][x], FALSE, x, last[x], announced[x])
      BY <2>1, SoundSwitched
    <3> QED
      BY <1>2, <1>5, <2>2, <3>1 DEF SoundAt, q
  <2>3. CASE d # c \/ x # ch
    BY <1>2, <1>5, <2>1, <2>3 DEF SoundAt, q
  <2> QED
    BY <2>2, <2>3
<1>11. Links'
  BY <1>4, <1>7, <1>8, <1>9 DEF Links
<1> QED
  BY <1>6, <1>10, <1>11 DEF IInv

LEMMA UserSwitchStep ==
  ASSUME NEW c \in Clients, NEW ch \in Channels, IInv, SwitchTo(c, ch)
  PROVE  IInv'
<1>1. toClient' = toClient /\ SetActiveChannel(c, ch) /\ UNCHANGED <<serverVars, authed, online>>
  BY DEF SwitchTo
<1>2. toClient \in [Clients -> Seq(Answers)] /\ \A d \in Clients \ online : toClient[d] = <<>>
  BY DEF IInv, TypeOK, Links, ClosedIsEmpty
<1>3. \A d \in Clients, x \in Channels :
         Sound(toClient'[d], view[d][x], cache[d][x], covered[d][x], x, last[x], announced[x])
  BY <1>1 DEF IInv, SoundAt
<1> QED
  BY <1>1, <1>2, <1>3, SwitchStep

LEMMA ListResultStep == ASSUME NEW c \in Clients, IInv, HandleChannelListResult(c) PROVE IInv'
<1>1. /\ Arrived(c, "channel.list_result") /\ Taken(c)
      /\ UNCHANGED <<serverVars, authed, online>>
  BY DEF HandleChannelListResult
<1>2. CASE UNCHANGED <<toServer, clientVars, covered>>
  <2>1. Msg("channel.list", None) \in Requests
    BY RequestIs
  <2> QED
    BY <1>1, <1>2, <2>1, HandleStep
<1>3. ASSUME NEW ch \in Channels, SetActiveChannel(c, ch)
      PROVE  IInv'
  <2>1. TypeOK /\ ClosedIsEmpty
    BY DEF IInv, Links
  <2>2. /\ c \in online /\ toClient[c] # <<>>
        /\ Head(toClient[c]).t = "channel.list_result"
        /\ toClient' \in [Clients -> Seq(Answers)]
        /\ toClient'[c] = Tail(toClient[c])
        /\ \A d \in Clients : d # c => toClient'[d] = toClient[d]
    BY <1>1, <2>1, Taking
  <2>3. \A d \in Clients \ online : toClient'[d] = <<>>
    BY <2>1, <2>2 DEF ClosedIsEmpty
  <2>4. ASSUME NEW d \in Clients, NEW x \in Channels
        PROVE  Sound(toClient'[d], view[d][x], cache[d][x], covered[d][x], x, last[x], announced[x])
    <3>1. Sound(toClient[d], view[d][x], cache[d][x], covered[d][x], x, last[x], announced[x])
      BY DEF IInv, SoundAt
    <3>2. toClient[d] \in Seq(Answers) /\ last[x] \in Nat
      BY <2>1 DEF TypeOK
    <3>3. CASE d = c
      <4>1. Other(Head(toClient[d]), x)
        BY <2>2, <3>3, OtherByType
      <4> QED
        BY <2>2, <3>1, <3>2, <3>3, <4>1, SoundTaken
    <3>4. CASE d # c
      BY <2>2, <3>1, <3>4
    <3> QED
      BY <3>3, <3>4
  <2> QED
    BY <1>1, <1>3, <2>2, <2>3, <2>4, SwitchStep
<1> QED
  BY <1>2, <1>3 DEF HandleChannelListResult

LEMMA ShowStep == ASSUME NEW c \in Clients, IInv, ShowMessages(c) PROVE IInv'
<1> DEFINE m  == Head(toClient[c])
           ch == m.ch
           v  == Applied(view[c][ch], m, ch)
<1>1. TypeOK /\ AllSound /\ ClosedIsEmpty /\ HelloFirst /\ CoveredHears /\ Stored
  BY InvIs DEF Links
<1>2. PICK t \in {"msg.list_result", "msg.event"} : Arrived(c, t)
  BY DEF ShowMessages
<1>3. /\ Taken(c) /\ view' = [view EXCEPT ![c][ch] = v]
      /\ cache' = [cache EXCEPT ![c][ch] = LastPart(v)]
      /\ UNCHANGED <<last, indexed, announced, member, authed, online, toServer, cur, covered>>
  BY DEF ShowMessages, serverVars
<1>4. /\ c \in online /\ toClient[c] # <<>> /\ m \in Answers /\ m.t = t
      /\ toClient' \in [Clients -> Seq(Answers)]
      /\ toClient'[c] = Tail(toClient[c])
      /\ \A d \in Clients : d # c => toClient'[d] = toClient[d]
  BY <1>1, <1>2, <1>3, Taking
<1>5. ch \in Channels
  BY <1>2, <1>4 DEF Answers
<1>6. SoundAt(c, ch) /\ toClient[c] \in Seq(Answers) /\ last[ch] \in Nat
  BY <1>1, <1>5 DEF AllSound, TypeOK
<1>7. Sound(Tail(toClient[c]), v, LastPart(v), covered[c][ch], ch, last[ch], announced[ch])
  <2> HIDE DEF ch
  <2> QED
    BY <1>4, <1>6, SoundShown DEF SoundAt
<1> HIDE DEF v
<1>8. Good(v, last[ch]) /\ Good(LastPart(v), last[ch]) /\ Len(LastPart(v)) <= CacheSize
  BY <1>6, <1>7, GoodLastPart DEF Sound, SoundStart
<1>9. v \in Seq(Nat) /\ LastPart(v) \in Seq(Nat)
  BY <1>8 DEF Good
<1> HIDE DEF ch
<1>10. /\ view' \in [Clients -> [Channels -> Seq(Nat)]]
       /\ view'[c][ch] = v
       /\ \A d \in Clients, x \in Channels : d # c \/ x # ch => view'[d][x] = view[d][x]
  BY <1>1, <1>3, <1>5, <1>9 DEF TypeOK
<1> DEFINE w == LastPart(v)
<1> HIDE DEF w
<1>11. /\ cache' \in [Clients -> [Channels -> Seq(Nat)]]
       /\ cache'[c][ch] = w
       /\ \A d \in Clients, x \in Channels : d # c \/ x # ch => cache'[d][x] = cache[d][x]
  <2>1. cache' = [cache EXCEPT ![c][ch] = w] /\ w \in Seq(Nat)
    BY <1>3, <1>9 DEF w
  <2> QED
    BY <1>1, <1>5, <2>1 DEF TypeOK
<1>12. TypeOK'
  <2>1. \A d \in Clients, x \in Channels : Len(cache'[d][x]) <= CacheSize
    BY <1>1, <1>8, <1>11 DEF TypeOK, w
  <2> QED
    BY <1>1, <1>3, <1>4, <1>10, <1>11, <2>1 DEF TypeOK
<1>13. ClosedIsEmpty'
  BY <1>1, <1>3, <1>4 DEF ClosedIsEmpty
<1>14. HelloFirst' /\ CoveredHears' /\ Stored'
  BY <1>1, <1>3 DEF HelloFirst, CoveredHears, Stored
<1>15. ASSUME NEW d \in Clients, NEW x \in Channels
       PROVE  SoundAt(d, x)'
  <2>1. SoundAt(d, x) /\ toClient[d] \in Seq(Answers) /\ last[x] \in Nat
    BY <1>1 DEF AllSound, TypeOK
  <2>2. CASE d # c
    BY <1>3, <1>4, <1>10, <1>11, <2>1, <2>2 DEF SoundAt
  <2>3. CASE d = c /\ x # ch
    <3>1. Other(m, x)
      BY <2>3, OtherByChannel DEF ch
    <3>2. Sound(Tail(toClient[d]), view[d][x], cache[d][x], covered[d][x], x, last[x], announced[x])
      BY <1>4, <2>1, <2>3, <3>1, SoundTaken DEF SoundAt
    <3> QED
      BY <1>3, <1>4, <1>10, <1>11, <2>3, <3>2 DEF SoundAt
  <2>4. CASE d = c /\ x = ch
    <3>1. Sound(Tail(toClient[d]), v, w, covered[d][x], x, last[x], announced[x])
      BY <1>7, <2>4 DEF w
    <3> QED
      BY <1>3, <1>4, <1>10, <1>11, <2>4, <3>1 DEF SoundAt
  <2> QED
    BY <2>2, <2>3, <2>4
<1>16. Links'
  BY <1>13, <1>14 DEF Links
<1> QED
  BY <1>12, <1>15, <1>16 DEF IInv

LEMMA SendStep == ASSUME NEW c \in Clients, IInv, SendMessage(c) PROVE IInv'
<1>1. TypeOK /\ AllSound /\ ClosedIsEmpty /\ HelloFirst /\ CoveredHears /\ Stored
  BY InvIs DEF Links
<1>2. /\ cur[c] # None /\ Sends(c, Msg("msg.send", cur[c]))
      /\ UNCHANGED <<last, indexed, announced, member, authed, online, toClient>>
      /\ UNCHANGED <<cur, view, cache, covered>>
  BY DEF SendMessage, UserMayAct, serverVars, clientVars
<1>3. Msg("msg.send", cur[c]) \in Requests
  BY <1>1, <1>2, RequestIs DEF TypeOK
<1>4. /\ toServer' \in [Clients -> Seq(Requests)]
      /\ \A d \in Clients \ online : toServer'[d] = <<>>
      /\ HelloFirst'
  BY <1>1, <1>2, <1>3, Sending
<1>5. TypeOK'
  BY <1>1, <1>2, <1>4 DEF TypeOK
<1>6. ClosedIsEmpty'
  BY <1>1, <1>2, <1>4 DEF ClosedIsEmpty
<1>7. CoveredHears' /\ Stored'
  BY <1>1, <1>2 DEF CoveredHears, Stored
<1>8. AllSound'
  BY <1>1, <1>2 DEF AllSound, SoundAt
<1> QED
  BY <1>4, <1>5, <1>6, <1>7, <1>8 DEF Links, IInv, AllSound

-----------------------------------------------------------------------------
(***************************************************************************)
(* The steps of the sockets.                                               *)
(***************************************************************************)
LEMMA OpenStep == ASSUME NEW c \in Clients, IInv, Open(c) PROVE IInv'
<1> DEFINE m == Msg("hello", None)
<1>1. TypeOK /\ AllSound /\ ClosedIsEmpty /\ HelloFirst /\ CoveredHears /\ Stored
  BY InvIs DEF Links
<1>2. m \in Requests /\ m.t = "hello"
  BY RequestIs DEF Msg
<1>3. /\ online' = online \cup {c} /\ toServer' = [toServer EXCEPT ![c] = <<m>>]
      /\ UNCHANGED <<last, indexed, announced, member, authed, toClient>>
      /\ UNCHANGED <<cur, view, cache, covered>>
  BY DEF Open, serverVars, clientVars
<1> HIDE DEF m
<1>4. /\ toServer' \in [Clients -> Seq(Requests)] /\ toServer'[c] = <<m>>
      /\ \A d \in Clients : d # c => toServer'[d] = toServer[d]
  BY <1>1, <1>2, <1>3 DEF TypeOK
<1>5. TypeOK'
  BY <1>1, <1>3, <1>4 DEF TypeOK
<1>6. ClosedIsEmpty'
  BY <1>1, <1>3, <1>4 DEF ClosedIsEmpty
<1>7. HelloFirst'
  <2>1. <<m>> # <<>> /\ Head(<<m>>) = m
    OBVIOUS
  <2> QED
    BY <1>1, <1>2, <1>3, <1>4, <2>1 DEF HelloFirst, TypeOK
<1>8. CoveredHears' /\ Stored'
  BY <1>1, <1>3 DEF CoveredHears, Stored
<1>9. AllSound'
  BY <1>1, <1>3 DEF AllSound, SoundAt
<1> QED
  BY <1>5, <1>6, <1>7, <1>8, <1>9 DEF Links, IInv, AllSound

\* The socket is cut, and the page is perhaps loaded again.
LEMMA CutStep ==
  ASSUME NEW c \in Clients, IInv, Cut({c}), UNCHANGED <<serverVars, cache>>,
         \/ UNCHANGED <<cur, view>>
         \/ /\ cur' = [cur EXCEPT ![c] = None]
            /\ view' = [view EXCEPT ![c] = NoMessages]
  PROVE  IInv'
<1>1. TypeOK /\ AllSound /\ Links /\ Stored
  BY InvIs DEF Links
<1>2. UNCHANGED <<last, indexed, announced, member, cache>>
  BY DEF serverVars
<1> DEFINE S == {c}
<1>3. S \subseteq Clients /\ Cut(S) /\ c \in S /\ \A d \in Clients : d # c => d \notin S
  OBVIOUS
<1> HIDE DEF S
<1>4. /\ toServer' \in [Clients -> Seq(Requests)] /\ toClient' \in [Clients -> Seq(Answers)]
      /\ covered' \in [Clients -> [Channels -> BOOLEAN]]
      /\ authed' \subseteq online' /\ online' \subseteq Clients
      /\ ClosedIsEmpty' /\ HelloFirst' /\ CoveredHears'
      /\ \A d \in Clients : IF d \in S
            THEN toClient'[d] = <<>> /\ \A x \in Channels : covered'[d][x] = FALSE
            ELSE toClient'[d] = toClient[d] /\ covered'[d] = covered[d]
  BY <1>1, <1>2, <1>3, Cutting
<1>5. /\ cur' \in [Clients -> Channels \cup {None}]
      /\ view' \in [Clients -> [Channels -> Seq(Nat)]]
      /\ \A d \in Clients : d # c => view'[d] = view[d]
      /\ \A x \in Channels : view'[c][x] = view[c][x] \/ view'[c][x] = <<>>
  <2>1. cur \in [Clients -> Channels \cup {None}] /\ view \in [Clients -> [Channels -> Seq(Nat)]]
    BY <1>1 DEF TypeOK
  <2>2. NoMessages \in [Channels -> Seq(Nat)] /\ \A x \in Channels : NoMessages[x] = <<>>
    BY DEF NoMessages
  <2>3. CASE UNCHANGED <<cur, view>>
    BY <2>1, <2>3
  <2>4. CASE /\ cur' = [cur EXCEPT ![c] = None]
             /\ view' = [view EXCEPT ![c] = NoMessages]
    BY <2>1, <2>2, <2>4
  <2> QED
    BY <2>3, <2>4
<1>6. TypeOK'
  BY <1>1, <1>2, <1>4, <1>5 DEF TypeOK
<1>7. Links'
  BY <1>1, <1>2, <1>4 DEF Links, Stored
<1>8. ASSUME NEW d \in Clients, NEW x \in Channels
      PROVE  SoundAt(d, x)'
  <2>1. SoundAt(d, x)
    BY <1>1 DEF AllSound
  <2>2. CASE d # c
    BY <1>2, <1>3, <1>4, <1>5, <2>1, <2>2 DEF SoundAt
  <2>3. CASE d = c
    <3>1. /\ Sound(<<>>, view[d][x], cache[d][x], FALSE, x, last[x], announced[x])
          /\ Sound(<<>>, <<>>, cache[d][x], FALSE, x, last[x], announced[x])
      BY <2>1, SoundCut DEF SoundAt
    <3>2. toClient'[d] = <<>> /\ covered'[d][x] = FALSE
      BY <1>3, <1>4, <2>3
    <3>3. view'[d][x] = view[d][x] \/ view'[d][x] = <<>>
      BY <1>5, <2>3
    <3> QED
      BY <1>2, <3>1, <3>2, <3>3 DEF SoundAt
  <2> QED
    BY <2>2, <2>3
<1> QED
  BY <1>6, <1>7, <1>8 DEF IInv

LEMMA DropStep == ASSUME NEW c \in Clients, IInv, Drop(c) PROVE IInv'
<1>1. Cut({c}) /\ UNCHANGED <<serverVars, cache>> /\ UNCHANGED <<cur, view>>
  BY DEF Drop, clientVars
<1> QED
  BY <1>1, CutStep

LEMMA ReloadStep == ASSUME NEW c \in Clients, IInv, Reload(c) PROVE IInv'
<1>1. Cut({c}) /\ UNCHANGED <<serverVars, cache>>
  BY DEF Reload
<1>2. /\ cur' = [cur EXCEPT ![c] = None]
      /\ view' = [view EXCEPT ![c] = NoMessages]
  BY DEF Reload
<1> QED
  BY <1>1, <1>2, CutStep

LEMMA IdleStep == ASSUME IInv, UNCHANGED vars PROVE IInv'
<1>1. /\ UNCHANGED <<last, indexed, announced, member, authed, online, toServer, toClient>>
      /\ UNCHANGED <<cur, view, cache, covered>>
  BY DEF vars, serverVars, clientVars
<1>2. TypeOK'
  BY <1>1 DEF IInv, TypeOK
<1>3. Links'
  BY <1>1 DEF IInv, Links, ClosedIsEmpty, HelloFirst, CoveredHears, Stored
<1>4. AllSound'
  BY <1>1 DEF IInv, AllSound, SoundAt
<1> QED
  BY <1>2, <1>3, <1>4 DEF IInv, AllSound

LEMMA StepInv == IInv /\ [Next]_vars => IInv'
<1>1. SUFFICES ASSUME IInv, [Next]_vars PROVE IInv'
  OBVIOUS
<1>2. CASE UNCHANGED vars
  BY <1>1, <1>2, IdleStep
<1>3. ASSUME NEW c \in Clients, ServerStep(c)
      PROVE  IInv'
  BY <1>1, <1>3, HelloStep, ChannelListStep, JoinStep, MsgListStep, MsgSendStep DEF ServerStep
<1>4. ASSUME NEW c \in Clients, ClientStep(c)
      PROVE  IInv'
  BY <1>1, <1>4, ShowStep, AckStep, ListResultStep, MemberEventStep, ErrorStep DEF ClientStep
<1>5. ASSUME NEW c \in Clients, UserStep(c)
      PROVE  IInv'
  BY <1>1, <1>5, SendStep, UserSwitchStep DEF UserStep
<1>6. ASSUME NEW c \in Clients, Open(c) \/ Drop(c) \/ Reload(c)
      PROVE  IInv'
  BY <1>1, <1>6, OpenStep, DropStep, ReloadStep
<1> QED
  BY <1>1, <1>2, <1>3, <1>4, <1>5, <1>6 DEF Next

LEMMA InvAlways == Spec => []IInv
  BY InitInv, StepInv, PTL DEF Spec

-----------------------------------------------------------------------------
\* The tables, queues, views and caches always hold values of their types.
THEOREM FlowTypeCorrect == Spec => []TypeOK
<1>1. IInv => TypeOK
  BY DEF IInv
<1> QED
  BY <1>1, InvAlways, PTL

\* What a client shows, has cached, or will show once it has handled all that is
\* on its way is always in order and without duplicates (messages/set and
\* messages/append of AppStore, setActiveChannel, broadcastChannel).
THEOREM ViewsAlwaysInOrder == Spec => []ViewsInOrder
<1>1. IInv => ViewsInOrder
  <2>1. SUFFICES ASSUME IInv, NEW c \in Clients, NEW ch \in Channels
                 PROVE  /\ Increasing(view[c][ch]) /\ Increasing(cache[c][ch])
                        /\ Increasing(Upcoming(c, ch))
    BY DEF ViewsInOrder
  <2>2. SoundAt(c, ch) /\ toClient[c] \in Seq(Answers) /\ last[ch] \in Nat
    BY <2>1 DEF IInv, TypeOK
  <2>3. Good(Upcoming(c, ch), last[ch])
    BY <2>2, ShownGood DEF SoundAt, Sound, Upcoming
  <2> QED
    BY <2>2, <2>3 DEF SoundAt, Sound, SoundStart, Good
<1> QED
  BY <1>1, InvAlways, PTL

\* A connection that was sent the whole of a channel always shows, or will once
\* its queue is drained, every message announced there (msg.list and
\* broadcastChannel).
THEOREM NothingEverMissedWhileConnected == Spec => []NothingMissedWhileConnected
<1>1. IInv => NothingMissedWhileConnected
  BY DEF IInv, SoundAt, Sound, Upcoming, NothingMissedWhileConnected
<1> QED
  BY <1>1, InvAlways, PTL

\* Clients only ever show and cache committed messages, and what was announced is
\* in the index (sendMessage commits, indexes and then broadcasts).
THEOREM ShownAlwaysStored == Spec => []ShownIsStored
<1>1. IInv => ShownIsStored
  <2>1. SUFFICES ASSUME IInv, NEW c \in Clients, NEW ch \in Channels
                 PROVE  /\ ToSet(Upcoming(c, ch)) \cup ToSet(cache[c][ch]) \subseteq 1..last[ch]
                        /\ announced[ch] \subseteq indexed[ch]
    BY DEF ShownIsStored
  <2>2. SoundAt(c, ch) /\ toClient[c] \in Seq(Answers) /\ last[ch] \in Nat
    BY <2>1 DEF IInv, TypeOK
  <2>3. Good(Upcoming(c, ch), last[ch]) /\ Good(cache[c][ch], last[ch])
    BY <2>2, ShownGood DEF SoundAt, Sound, SoundStart, Upcoming
  <2>4. \A s : Good(s, last[ch]) => ToSet(s) \subseteq 1..last[ch]
    BY DEF Good, ToSet
  <2> QED
    BY <2>1, <2>3, <2>4 DEF IInv, Links, Stored
<1> QED
  BY <1>1, InvAlways, PTL
=============================================================================
